CONSTANTS
    size = 2
    MaxWritten = 5
    MaxDeaths = 2
SPECIFICATION PermFairSpec
INVARIANTS NothingDropped AckedIsFinal ReadsAreComplete
PROPERTIES MessagesLeave
