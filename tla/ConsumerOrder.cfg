SPECIFICATION FairSpec
CONSTANTS
    a = a
    b = b
    None = None
    Partitions <- OnePartition
    LogEnd = 4
    StartOffset <- FromTheBeginning
    Undelayed <- FirstIsTombstone
    Asynchronous = FALSE
    MaxBufferLength = 2
    MaxRetries = 1
    HandlerErrors <- AllErrors
    Hazards = {"commitLost", "commitError", "crash"}
    Restarts = {"process"}
    Drains = TRUE
    MaxFaults = 3
CHECK_DEADLOCK FALSE
INVARIANTS
    PauseMatchesBuffer
    HandledInOrder
PROPERTIES
    CommitsInOrder
    AllHandled
