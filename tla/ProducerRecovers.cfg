SPECIFICATION Spec
CONSTANTS
    StartBlock = 0
    MaxReOrgDepth = 2
    MaxTries = 2
    Overlap = 1
    Hazards = {"crash", "insert"}
    MaxFaults = 2
    MaxForks = 1
    FirstNumber = 1
    LastNumber = 4
CHECK_DEADLOCK FALSE
PROPERTIES
    StartsWhereTopicAgrees
