CONSTANTS
  KeyIDs = {k1}
  MaxVersion = 2
  Periodic = {}
  Clients = {n1, n2}
  Serving = {n2}
  Listeners = {n2}
  MaxInbox = 2
  Disciplined = TRUE
  NoRow = NoRow
  None = None
  Empty = Empty
  Negative = Negative
SPECIFICATION FairSpec
INVARIANTS
  TypeOK
  RotationSticks
  CachedDekIsTheVersions
  StaleHasCause
PROPERTY StaleIsRepaired
CHECK_DEADLOCK FALSE
