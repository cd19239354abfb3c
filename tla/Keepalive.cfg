CONSTANTS
    MaxEnables = 3
    MaxCalls = 1
    MaxReplays = 1
    Faults = {"lapse", "request", "admission", "spawn", "worker", "join", "port"}
SPECIFICATION Spec
INVARIANTS
    ArmedIsSupervised
    IdleOwnsNothing
    FailStopOnce
    TokenNeedsCleanDenial
PROPERTIES
    DarkWhenReleased
    NewestWins
