CONSTANTS
  KeyIDs = {k1}
  MaxVersion = 3
  Periodic = {k1}
  Clients = {c1}
  Nodes = {n1, n2}
  MaxFaults = 1
  Disciplined = TRUE
  NoRow = NoRow
  None = None
SPECIFICATION FairSpec
INVARIANTS
  TypeOK
  ActiveIsLatest
  DeksDistinct
PROPERTIES
  VersionHistory
  LockedRotatesDue
  DueIsRotated
CHECK_DEADLOCK FALSE
