CONSTANTS
    a = a
    m = m
    e1 = e1
    NoStep = NoStep
    NoJob = NoJob
    Job <- MCJob
    Step = {e1}
    StepOf <- MCStepOf
    Kind <- MCKind
    HasExec <- MCHasExec
    PayloadExec <- MCPayloadExec
    PanicJob <- MCPanicJob
    Forgettable <- MCExpiring
    Submitter = {p1}
    Worker = {w1, w2}
    InitWorker = {w1}
    Transient = {w1, w2}
    QueueCap = 1
    MaxConcurrency = 2
    MaxCrashes = 1
SPECIFICATION PoolSpec
INVARIANTS
    PoolTypeOK
    PoolHonoursMax
    CleanDrainCompletes
PROPERTIES
    ShutdownEnds
    AcceptedOnceWhileStored
    AcceptedJobEnds
CHECK_DEADLOCK FALSE
