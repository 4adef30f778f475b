SPECIFICATION Spec
CONSTANTS
    Firmware <- MCFirmware
    Irq = {0, 1, 2, 3, 4, 5}
    Processors = 2
INVARIANTS
    TablesRead
    LinesMasked
    FaultsAreReported
PROPERTY BootEnds
CHECK_DEADLOCK FALSE
