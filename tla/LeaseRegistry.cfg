SPECIFICATION Spec
CHECK_DEADLOCK FALSE
CONSTANTS
    Owner = {a, b, past}
    ThisProcess = {a, b}
    NoOwner = noOwner
    Project = {old, new}
    NoProject = noProject
    Ttl = 2
    Retention = 1
    Capacity = 2
    MaxLease = 3
    MaxGeneration = 3
    MaxClock = 3
SYMMETRY OwnersAndProjects
INVARIANT RegistryTypeOK
INVARIANT HeldOnce
INVARIANT IndexExact
PROPERTY GenerationsFence
PROPERTY ExpiryIsFinal
PROPERTY ImplementsAuthority
