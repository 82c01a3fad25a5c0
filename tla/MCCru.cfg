CONSTANTS
    NumLinks = 2
    LINK_QUEUE_CAPACITY = 2
    READY_QUEUE_CAPACITY = 1
    CounterRange = 3
    Superpages = {s1, s2, s3}
SPECIFICATION FairSpec
INVARIANTS DriverConsistent
PROPERTIES ImplementsInterface SuperpagesComeBack
