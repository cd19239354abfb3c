SPECIFICATION Spec
CONSTANTS
    MaxTakes = 2
    MaxCrashes = 2
    Old = old
    Foreign = {other}
    Absent = absent
    None = none
    NoEnd = noend
    Damaged = damaged
    Retained = 1
    Platforms = {"windows", "unix"}
INVARIANTS
    NothingLost
    TakeSurvives
    OneAlive
    EndIsFinal
    OrphansAreKnown
    OutcomeIsTrue
CHECK_DEADLOCK FALSE
