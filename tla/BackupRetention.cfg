SPECIFICATION Spec
CONSTANTS
    Origin = {caller}
    Deleter = {d1}
    MaxBackups = 2
    Named <- Pairs
    MaxCopies = 0
    MaxProcess = 1
    MaxManages = 1
    Keep = 1
    MaxRecords = 2
    MaxManagement = 2
    MaxRetired = 3
    MaxBatch = 6
PROPERTIES
    ProtectedIsKept
CHECK_DEADLOCK FALSE
