SPECIFICATION FairSpec
CONSTANTS
    StartBlock = 1
    Workers = {0, 1}
    Margin = 2
    QueueLimit = 1
    Lag = 1
    ForkDepth = 1
    Scenarios <- Usual
    MaxForks = 1
    MaxFaults = 1
CHECK_DEADLOCK FALSE
INVARIANTS
    TypeOK
    QueueBounded
PROPERTIES
    NoGap
    NoFalseReorg
    IsStream
    AllGiven
