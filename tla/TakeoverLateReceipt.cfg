SPECIFICATION Spec
CHECK_DEADLOCK FALSE
CONSTANTS
    Folder = {show}
    NoFolder = noFolder
    MaxSession = 1
    Take <- OneTake
    MaxStarts = 3
    LeaseTtl = 1
    ClearAfter = 2
    SplitAfter = 2
    JoinWait = 1
    OtherPrimary = FALSE
    FolderFaults = FALSE
    SuccessorFaults = TRUE
    StartAttempts = 0
    MaxClock = 3
INVARIANT NeverBothRecord
