SPECIFICATION Spec
CONSTANTS
  Quotes = {q1}
  Jobs = {j1}
  Fees = {f1}
  Places = {p1}
  Intents = {i1, i2}
  Invoices = {v1, v2}
  None = None
INVARIANTS CollectedOnce PaidIsCollected
PROPERTIES DueIsSettled CollectedIsRecorded
