CONSTANTS
  h1 = h1
  h2 = h2
  h3 = h3
  current = current
  former = former
  Holders <- MCHolders
  Splits <- MCSplits
  BadShare = BadShare
  Garbage = Garbage
  NoKey = NoKey
  Threshold = 3
  Readers = {r1, r2}
  AutoReseal = TRUE
  MaxSessions = 3
SPECIFICATION FairSpec
INVARIANTS
  TypeOK
  KeyMatchesState
  FrozenIsEmpty
  PoolBelowThreshold
  SessionIsTimed
PROPERTIES
  SessionEnds
  EmergencyCompletes
  ImplementsContract
