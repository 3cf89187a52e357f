SPECIFICATION FairSpec
CONSTANTS
    Plan <- MCPlan
    TornEffects = FALSE
    Concurrent = FALSE
    MaxFaults = 3
    MaxEdits = 2
INVARIANT TypeOK
PROPERTIES
    DeliversAtomically
    UserWorkKept
    RecoveryConverges
CHECK_DEADLOCK FALSE
