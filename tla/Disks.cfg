SPECIFICATION DisksSpec
CONSTANTS
    Byte = 2
    Words = 2
    PoolSize = 2
    Machines <- MCMachines
    Sectors <- MCSectors
    Requests <- MCRequests
    Ports = 3
    AhciPool = 2
    AdapterSlots = 3
    MaxComm = 3
INVARIANTS
    DrivesRegistered
    BusesHeld
    WordsMoved
    CommandsRunOnce
PROPERTY RequestsEnd
CHECK_DEADLOCK FALSE
