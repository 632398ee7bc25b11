CONSTANTS
  KeyIDs = {k1}
  MaxVersion = 2
  Periodic = {}
  Clients = {n1, n2}
  Serving = {n2}
  Listeners = {n2}
  MaxInbox = 2
  Disciplined = TRUE
  NoRow = NoRow
  None = None
  Empty = Empty
  Negative = Negative
SPECIFICATION Spec
INVARIANT SoftDeletedRefusesEncrypt
CHECK_DEADLOCK FALSE
