SPECIFICATION Spec
CONSTANTS
  Users = {u1, u2}
  Homes = {h1}
  Nobody = Nobody
  Admins = {u2}
  Calls = {c1, c2}
  MaxOffers = 1
  MaxFiled = 2
  MaxShowings = 1
  MaxKept = 1
  MaxConveyed = 2
SYMMETRY Alike
INVARIANTS HiddenScoreIsNotShown NothingOutlivesTheSale SaleHasOneSeller
