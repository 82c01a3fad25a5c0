CONSTANTS
    Objects <- OneObject
    Commands = {"prepare", "start"}
    MaxClients = 2
    MaxLosses = 1
    MaxUnread = 1
    MaxExpired = 1
    MaxErrors = 1
SPECIFICATION FairSpec
INVARIANTS CommandOnce PublishedIsTrue ClientNotMisled
PROPERTY CommandsDecided
CHECK_DEADLOCK FALSE
