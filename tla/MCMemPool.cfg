CONSTANTS
    numberOfPages = 3
    Getters = {equipment}
    Releasers = {sender, main}
SPECIFICATION PoolSpec
INVARIANTS ReleasedInParallel
CHECK_DEADLOCK FALSE
