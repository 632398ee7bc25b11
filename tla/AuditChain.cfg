CONSTANTS
    Recorders = {r1, r2}
    HighRisk = {r1}
    Pruner = pruner
    Retention = 2
    SyslogCap = 1
    MaxLines = 3
    MaxBoots = 2
    MaxDay = 3
    MaxFaults = 1
SPECIFICATION Spec
INVARIANTS
    TypeOK
    QueryShowsChain
    AnchorFollowsChain
    ReturnedIsKept
PROPERTIES
    SyslogDrains
CHECK_DEADLOCK FALSE
