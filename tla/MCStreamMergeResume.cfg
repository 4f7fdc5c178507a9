CONSTANTS
    N = 3
    PerPass = 2
    Threshold = 2
    Absent = Absent
    MaxAttempts = 2
    PartialMode = {FALSE}
    TreeMode = {FALSE}
SPECIFICATION Spec
INVARIANTS
    CompletedHasProcessed
CHECK_DEADLOCK FALSE
