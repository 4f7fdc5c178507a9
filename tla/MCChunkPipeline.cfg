CONSTANTS
    Devices = {"d", "e"}
    N = 3
    Pipelines <- MCPipelines
    Faults = 2
SPECIFICATION Spec
INVARIANTS
    ChunkTypeOK
    WholeResult
PROPERTIES
    ChunkPublished
CHECK_DEADLOCK FALSE
