SPECIFICATION Spec
CONSTANTS
  u1 = u1
  u2 = u2
  u3 = u3
  Users = {u1, u2, u3}
  Admins = {u3}
  Homes = {h1, h2}
  Addresses = {k1}
  Calls = {c1, c2}
  Roles = {Manager}
  PlanLimit <- OneHomeEach
  Window = 1
  LinkLife = 0
  MaxTime = 1
  MaxTokens = 2
  None = None
SYMMETRY Alike
INVARIANTS VerifiedHomeHoldsItsAddress RegistrationsStayInPlan ErasedIsGone
PROPERTIES WindowIsNotRenewed KeepsTitle
