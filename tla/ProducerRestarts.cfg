SPECIFICATION FairSpec
CONSTANTS
    StartBlock = 0
    MaxReOrgDepth = 1
    MaxTries = 2
    Overlap = 1
    Hazards = {"crash", "connect", "lookup", "subscription", "timeout", "produce", "topic", "insert", "flush", "report", "stop"}
    MaxFaults = 1
    MaxForks = 2
    FirstNumber = 1
    LastNumber = 4
CHECK_DEADLOCK FALSE
INVARIANTS
    TypeOK
    NothingSkipped
PROPERTIES
    StartsWhereTopicAgrees
    FollowsChain
