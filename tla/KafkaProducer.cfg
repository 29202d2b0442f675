SPECIFICATION FairSpec
CONSTANTS
    Messages = {m1, m2}
    Starter = starter
    Scenarios <- All
    MaxFaults = 2
    MaxStops = 1
CHECK_DEADLOCK FALSE
INVARIANTS
    TypeOK
    ConfirmedIsInTopic
    ConnectedIsUp
    TakenInOrder
PROPERTIES
    AllSettled
