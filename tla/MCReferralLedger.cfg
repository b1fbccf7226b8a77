SPECIFICATION LedgerSpec
CONSTANTS
  Quotes = {q1, q2, q3}
  Jobs = {j1, j2}
  Fees = {f1, f2, f3}
  Places = {p1, p2}
  None = None
SYMMETRY IdsAlike
INVARIANTS OneFeeEach
