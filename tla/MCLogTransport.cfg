CONSTANTS
    Clients = {d1}
    Slots = {1, 2}
    Conns = {1, 2}
    ClientQueue = 2
    ServerQueue = 1
    AckMax = 1
    MaxMsg = 2
    MaxFaults = 1
    MaxRestarts = 1
SPECIFICATION FairSpec
INVARIANT NoGaps
PROPERTIES ImplementsChannel MessagesArrive
CHECK_DEADLOCK FALSE
