SPECIFICATION Spec
CONSTANTS
    StartBlock = 0
    MaxReOrgDepth = 1
    MaxTries = 2
    Overlap = 2
    Hazards = {"produce"}
    MaxFaults = 1
    MaxForks = 0
    FirstNumber = 2
    LastNumber = 2
CHECK_DEADLOCK FALSE
INVARIANTS
    CheckpointCovered
