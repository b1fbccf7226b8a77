SPECIFICATION Spec
CONSTANTS
  Users = {u1}
  Subs = {s1}
  Packs = {}
  Gifts = {g1}
  Homes = {}
  Deliveries = {d1}
  PackSize = 1
  Period = 2
  Horizon = 2
  MaxBought = 1
  MaxEvents = 5
  None = None
CHECK_DEADLOCK FALSE
PROPERTIES PlansAreAsPaid GiftsAreRedeemedOnce
