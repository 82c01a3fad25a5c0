CONSTANTS
    ThreadIds = {0, 1, 2}
    maxIterOnShutdown = 0
    NumEquipments = 2
    FirstId = 1
    LastId = 2
    FifoSize = 1
    OutSize = 2
    NumPages = 2
SPECIFICATION Spec
INVARIANTS NoBlockLost DataSetsComplete TornDownInOrder
PROPERTIES OrderKept
\* main() returns.
CHECK_DEADLOCK FALSE
