SPECIFICATION FairSpec
CONSTANTS
    a = a
    b = b
    c = c
    Hashes = {a, b, c}
    Blocks <- TwoBranches
    Absent = Absent
    MaxRetries = 1
    Scenarios <- Every
INVARIANTS
    TypeOK
    Complete
    OwnBlock
PROPERTIES
    Settles
