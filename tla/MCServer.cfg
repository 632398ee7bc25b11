CONSTANTS
    r1 = r1
    r2 = r2
    MasterKey = MasterKey
    NoKey = NoKey
    Routes <- allRoutes
    BootRoute <- startUp
    Requests <- MCRequests
    Uses <- MCUses
SPECIFICATION Spec
INVARIANTS
    
    ChangedIsRecorded
    
PROPERTY
    Stops
CHECK_DEADLOCK FALSE
