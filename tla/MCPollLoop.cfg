CONSTANTS
    j1 = j1
    j2 = j2
    Jobs <- MCJobs
    NoExec <- MCNoExec
    Limit = 2
    Room = 1
    WakeCap = 1
    MinPoll = 3
    PostClaim = 4
    MaxIdle = 5
    Multiplier = 2
    SentJobsTTL = 10
    LeaseTTL = 30
    Faults = 3
SPECIFICATION Spec
INVARIANTS
    TypeOK
    ClaimCadence
    NoLostWakeup
    BusyPollsFast
PROPERTY
    DeliveredInTheEnd
CHECK_DEADLOCK FALSE
