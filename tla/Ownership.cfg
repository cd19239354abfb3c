SPECIFICATION Spec
CONSTANTS
    w1 = w1
    w2 = w2
    Worker = {w1, w2}
    Targets = {"Standby", "Both"}
    Boots = {"Both"}
    MaxEpoch = 3
    MaxCrashes = 1
INVARIANTS
    FencedWhileHeld
    ReadyIsQuiet
    MarkerIsTrue
PROPERTIES
    ReadyIsUnfaulted
CHECK_DEADLOCK FALSE
SYMMETRY Alike
