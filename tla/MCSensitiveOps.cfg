CONSTANTS
    Roles = {alice, bob, carol}
    Operations = {shred, emergency}
    Tickets = {t1}
    Calls = {c1, c2}
    QuorumRoles = {alice}
    MfaRoles = {alice}
    MaxSecrets = 2
    MaxWindow = 1
SPECIFICATION Spec
INVARIANTS
    TypeOK
    QuorumReached
    GateHolds
PROPERTIES
    DecisionsStick
CHECK_DEADLOCK FALSE
SYMMETRY Symmetry
