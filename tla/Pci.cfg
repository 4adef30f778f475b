SPECIFICATION PciFairSpec
CONSTANTS
    Machines <- MCMachines
    Devices = 2
    Functions = 3
INVARIANTS
    TreeIsTheTopology
    NoneMissed
    DriversRunOnce
PROPERTIES
    ScanEnds
CHECK_DEADLOCK FALSE
