CONSTANTS
    a = a
    b = b
    m = m
    bad = bad
    e1 = e1
    NoStep = NoStep
    NoJob = NoJob
    Job <- MCJob
    Step = {e1}
    StepOf <- MCStepOf
    Kind <- MCKind
    HasExec <- MCHasExec
    PayloadExec <- MCPayloadExec
    PanicJob <- MCPanicJob
    Forgettable <- MCJob
    Submitter = {p1, p2}
    Worker = {w1, w2}
    InitWorker = {w1, w2}
    Transient = {w1, w2}
    QueueCap = 1
SPECIFICATION Spec
INVARIANTS
    TypeOK
    SingleFlight
    OneJobPerStep
    NoLeakedReservation
    HeartbeatWhileRunning
    FateKnown
SYMMETRY Symmetry
