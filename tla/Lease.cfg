SPECIFICATION LeaseSpec
CHECK_DEADLOCK FALSE
CONSTANTS
    Folder = {show, spare}
    NoFolder = noFolder
    MaxSession = 2
    Take <- TwoTakes
    MaxStarts = 3
    LeaseTtl = 1
    SplitAfter = 1
    JoinWait = 1
    OtherPrimary = TRUE
    FolderFaults = TRUE
    MaxClock = 3
INVARIANTS
    RefusedLeavesNoLease
    BoundTakeIsVisible
    EndedMeansOver
PROPERTY RevokedStaysRevoked
VIEW LeaseView
SYMMETRY Folders
