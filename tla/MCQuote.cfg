SPECIFICATION Spec
CONSTANTS
  Requests = {r1}
  Quotes = {q1, q2, q3}
  Homeowners = {h1}
  Contractors = {k1, k2}
  Erasers = {k1, h1}
  Paying = {h1}
  Calls = {c1, c2}
  Caps = {1, 2}
  FreeLimit = 1
  None = None
SYMMETRY IdsAlike
INVARIANTS AcceptedIffOneQuote QuotedIffPending BidCaps NothingOutlivesItsRequest
PROPERTIES OutcomesAreFinal SealedBidsFreeze KeepsTender
