CONSTANTS
    MaxEnables = 2
    MaxCalls = 0
    MaxReplays = 0
    Faults = {"lapse"}
SPECIFICATION Spec
INVARIANT DeferredIsProven
