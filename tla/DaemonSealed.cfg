CONSTANTS
  KeyIDs = {k1}
  MaxVersion = 2
  Periodic = {k1}
  Clients = {c1}
  Nodes = {n1, n2}
  MaxFaults = 0
  Disciplined = TRUE
  NoRow = NoRow
  None = None
SPECIFICATION Spec
INVARIANT AttemptIsAudited
CHECK_DEADLOCK FALSE
