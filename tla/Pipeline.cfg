SPECIFICATION FairSpec
CONSTANTS
    x = x
    y = y
    Scenarios <- Usual
    Tokens = {x, y}
    QueueLimit = 2
    MaxForks = 1
CHECK_DEADLOCK FALSE
INVARIANTS
    TypeOK
    DatabaseInStep
    NothingDropped
PROPERTIES
    FollowsChain
