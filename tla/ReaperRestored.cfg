CONSTANTS
  KeyIDs = {k1}
  MaxVersion = 2
  Periodic = {}
  Clients = {c1}
  Reapers = {n1, n2}
  PageSize = 1
  MaxPassFailures = 1
  Disciplined = TRUE
  NoRow = NoRow
  None = None
SPECIFICATION ReaperSpec
PROPERTY ReaperShredsOnlyExpired
CHECK_DEADLOCK FALSE
