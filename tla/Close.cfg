SPECIFICATION FairSpec
CONSTANTS
    Memory = {"strong", "weak"}
    SpawnMayFail = TRUE
    MaxPanes = 2
    MaxQuits = 2
INVARIANTS
    NoExitForgotten
    ExitFollowsStandby
PROPERTIES
    WindowlessExits
CHECK_DEADLOCK FALSE
