SPECIFICATION Spec
CONSTANTS
    Plugins = {"p"}
    MaxVersion = 2
    Setups <- MCSetups
    Faults = 2
    MaxDevice = 2
    Stops = 1
INVARIANTS
    StartTypeOK
    RestartKeepsDevice
PROPERTY
    AgentComesUp
CHECK_DEADLOCK FALSE
