CONSTANTS
    Job = {a, b, c}
    TTL = 2
    SnapEvery = 2
    DefaultMax = 2
    MaxTime = 3
    MaxRestarts = 2
SPECIFICATION Spec
INVARIANTS
    StoreTypeOK
    BrokenOnlyByOverlap
    RefusalExpires
    KeepsYoungest
SYMMETRY Symmetry
CHECK_DEADLOCK FALSE
