CONSTANTS
    Clients = {"infoLoggerD"}
    MaxMsg = 2
    Apps = {p, q}
    MaxLines = 2
    RxMax = 1
    DbThreads = {0, 1}
    DispatchQueue = 1
    MaxDaemonStops = 1
    MaxDbFailures = 1
    MaxRepeats = 1
    MaxMalformed = 1
SYMMETRY AppSymmetry
SPECIFICATION Spec
INVARIANTS LinesInOrder FateKnown
CHECK_DEADLOCK FALSE
