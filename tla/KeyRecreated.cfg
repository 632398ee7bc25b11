CONSTANTS
  KeyIDs = {k1}
  MaxVersion = 2
  Periodic = {}
  Clients = {c1}
  Disciplined = FALSE
  NoRow = NoRow
  None = None
SPECIFICATION StoreSpec
INVARIANT OneActive
CHECK_DEADLOCK FALSE
