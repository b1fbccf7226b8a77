SPECIFICATION RelaySpec
CONSTANTS
  quote = quote
  job = job
  u1 = u1
  Canisters = {quote, job}
  Recipients = {u1}
  Told <- EachTells
  Reviewed <- EachAsks
  Passes = {p1, p2}
  MaxSeq <- EachRecords
  MaxReinstalls <- OnceEach
  MaxEvents = 2
  PageSize = 2
  MaxFaults = 1
  None = None
INVARIANTS NothingSkipped SentOnce
PROPERTIES EventsAreTold HeldAlertsEnd
