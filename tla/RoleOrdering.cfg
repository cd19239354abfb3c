SPECIFICATION FairSpec
CONSTANTS
    Publisher = {p, q}
    Denier = {d, main}
    Closer = main
    MaxGeneration = 2
INVARIANTS
    OneBoundary
    OvertakenIsAwaited
    EnableIsWhole
    ClosedStaysDenied
PROPERTIES
    DenialIsServed
CHECK_DEADLOCK FALSE
