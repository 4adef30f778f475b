SPECIFICATION FairSpec
CONSTANTS
    Machines <- MCMachines
    Hooks = 2
    Eois = 2
    Rounds = 1
    MaxMs = 2
    MaxCalls = 2
    MaxDepth = 2
INVARIANTS
    WaitsAreServed
    QuietBetweenCalls
PROPERTIES
    SleepsReturn
CHECK_DEADLOCK FALSE
