SPECIFICATION FairSpec
CONSTANTS
    a = a
    b = b
    None = None
    Partitions <- OnePartition
    LogEnd = 3
    StartOffset <- FromTheBeginning
    Undelayed <- AllDelayed
    Asynchronous = TRUE
    MaxBufferLength = 2
    MaxRetries = 1
    HandlerErrors <- AllErrors
    Hazards = {"commitLost", "commitError", "clientFatal", "stop", "crash"}
    Restarts = {"process"}
    Drains = FALSE
    MaxFaults = 3
CHECK_DEADLOCK FALSE
INVARIANTS
    AtLeastOnce
PROPERTY
    AllHandled
