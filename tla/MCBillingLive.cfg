SPECIFICATION Spec
CONSTANTS
  Users = {u1}
  Subs = {s1}
  Packs = {k1}
  Gifts = {}
  Homes = {h1}
  Deliveries = {d1, d2}
  PackSize = 1
  Period = 2
  Horizon = 1
  MaxBought = 0
  MaxEvents = 2
  None = None
CHECK_DEADLOCK FALSE
INVARIANTS CreditsOnce
PROPERTIES PeriodsAreActivated PacksAreGranted
