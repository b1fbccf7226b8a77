SPECIFICATION Spec
CONSTANTS
  Jobs = {j1}
  Homes = {h1}
  Owner = h1
  Contractors = {c1, c2}
  Tokens = {t1}
  Calls = {k1, k2}
  MaxProposals = 1
  Admin = Admin
  None = None
SYMMETRY IdsAlike
INVARIANTS ReportedOnce SignedIsAttested
PROPERTIES SignaturesAreKept
