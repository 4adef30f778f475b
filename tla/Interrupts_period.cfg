SPECIFICATION Spec
CONSTANTS
    Machines <- MCCalibrated
    Hooks = 2
    Eois = 2
    Rounds = 1
    MaxMs = 2
    MaxCalls = 2
    MaxDepth = 2
PROPERTIES
    FullPeriods
CHECK_DEADLOCK FALSE
