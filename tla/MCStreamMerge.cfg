CONSTANTS
    N = 3
    PerPass = 2
    Threshold = 2
    Absent = Absent
    MaxAttempts = 2
    PartialMode = {TRUE, FALSE}
    TreeMode = {TRUE, FALSE}
SPECIFICATION Spec
INVARIANTS
    MergeTypeOK
    FreshMergeExact
    NothingDestroyed
    CompletedHasAll
CHECK_DEADLOCK FALSE
