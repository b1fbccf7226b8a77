SPECIFICATION Spec
CONSTANTS
  Requests = {r1, r2, r3}
  Quotes = {q1}
  Homeowners = {h1, p1}
  Contractors = {p1}
  Erasers = {p1}
  Paying = {}
  Calls = {c1, c2}
  Caps = {1}
  FreeLimit = 1
  None = None
SYMMETRY RequestsAlike
PROPERTIES CreationsWithinLimit
