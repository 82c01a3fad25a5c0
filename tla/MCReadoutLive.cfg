CONSTANTS
    ThreadIds = {0, 1, 2}
    maxIterOnShutdown = 1
    NumEquipments = 2
    FirstId = 1
    LastId = 1
    FifoSize = 1
    OutSize = 1
    NumPages = 1
SPECIFICATION FairSpec
PROPERTY ShutdownCompletes
PROPERTY NoBlockStuck
\* main() returns.
CHECK_DEADLOCK FALSE
