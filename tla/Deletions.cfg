SPECIFICATION Spec
CONSTANTS
    Origin = {caller}
    Deleter = {d1, d2}
    Named <- Pairs
    MaxBackups = 2
    MaxCopies = 1
    MaxProcess = 2
    MaxManages = 1
    Keep = 1
    MaxRecords = 2
    MaxManagement = 2
    MaxRetired = 3
    MaxBatch = 6
INVARIANTS
    FactsAreTrue
    Recoverable
SYMMETRY Deleters
CHECK_DEADLOCK FALSE
