CONSTANTS
    Size = 2
    MaxItems = 2
    MaxRuns = 2
    MaxLeaked = 1
    MaxFailed = 1
SPECIFICATION ZdaqFairSpec
INVARIANTS EventAlive FlushedAtStop
PROPERTY StopCompletes
CHECK_DEADLOCK FALSE
