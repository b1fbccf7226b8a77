SPECIFICATION Spec
CONSTANTS
  Requests = {r1}
  Proposals = {p1, p2, p3}
  Homeowners = {h1}
  Agents = {a1, a2, a3}
  Erasers = {h1}
  Calls = {c1, c2}
  MaxProposals = 2
  None = None
  Unknown = Unknown
SYMMETRY AllAlike
CHECK_DEADLOCK FALSE
INVARIANTS AwardedIffOneWinner ChargeThenRelease BidLimits
PROPERTIES DecisionsAreFinal
