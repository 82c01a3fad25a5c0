CONSTANTS
    Size = 2
    Items = {a, b}
    Null = Null
    MaxIn = 6
    numberOfPages = 2
    Getters = {equipment, aggregator}
    Releasers = {sender, main}
SPECIFICATION BuffersSpec
SYMMETRY Symmetry
INVARIANTS NoSlotShared ExclusivePages NoPageLeaked NullMeansFull
PROPERTIES AtomicQueue
\* ~MemPool() ends the pool's life.
CHECK_DEADLOCK FALSE
