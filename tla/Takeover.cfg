SPECIFICATION Spec
CHECK_DEADLOCK FALSE
CONSTANTS
    Folder = {show}
    NoFolder = noFolder
    MaxSession = 1
    Take <- OneTake
    MaxStarts = 3
    LeaseTtl = 1
    ClearAfter = 2
    SplitAfter = 2
    JoinWait = 1
    OtherPrimary = FALSE
    FolderFaults = TRUE
    SuccessorFaults = TRUE
    StartAttempts = 1
    MaxClock = 2
INVARIANTS
    NeverSilent
    ArmedNeverBothRecord
    QuietMeansFenced
PROPERTY CancelledStaysCancelled
