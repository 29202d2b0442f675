SPECIFICATION Spec
CONSTANTS
    a = a
    b = b
    None = None
    Partitions <- TwoPartitions
    LogEnd = 2
    StartOffset <- FirstFromOne
    Undelayed <- AllDelayed
    Asynchronous = FALSE
    MaxBufferLength = 1
    MaxRetries = 1
    HandlerErrors <- AllErrors
    Hazards = {"commitLost", "commitError", "commitFatal", "coder", "clientFatal", "seek", "stop", "crash"}
    Restarts = {"process"}
    Drains = FALSE
    MaxFaults = 2
CHECK_DEADLOCK FALSE
INVARIANTS
    TypeOK
    NothingIsLost
PROPERTY
    DeliversAtLeastOnce
