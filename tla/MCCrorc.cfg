CONSTANTS
    READYFIFO_ENTRIES = 2
    MAX_SUPERPAGES = 2
    maxPages = 3
    Superpages = {s1, s2}
SPECIFICATION FairSpec
INVARIANTS PushOrderKept DriverConsistent
PROPERTIES ImplementsInterface SuperpagesComeBack
\* An exception of dataArrived() ends the process.
CHECK_DEADLOCK FALSE
