CONSTANTS
    Jobs = {"a", "b"}
    MaxRetries = 1
    BatchSize = 2
    Faults = 2
SPECIFICATION Spec
INVARIANTS
    ClientTypeOK
    RelayInOrder
PROPERTIES
    ImplementsOutcome
    RelayDrains
CHECK_DEADLOCK FALSE
