SPECIFICATION FairSpec
CONSTANTS
    StartBlock = 1
    Workers = 2
    Limit = 2
    Scenarios <- Both
    MaxFaults = 1
    LastNumber = 4
CHECK_DEADLOCK FALSE
INVARIANTS
    TypeOK
PROPERTIES
    IsStream
    InOrder
    AllGivenOrFull
