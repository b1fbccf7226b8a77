SPECIFICATION Spec
CONSTANTS
  Users = {u1, u2}
  Ops = {o1}
  Tasks = {t1}
  Runs = {r1, r2}
  Backoffs = 2
  None = None
CONSTRAINT Unspoiled
INVARIANTS SavedIsKept SentOnce
PROPERTIES PendingResolves
