SPECIFICATION Spec
CONSTANTS
    x1 = x1
    x2 = x2
    Null = Null
    Items <- MCItems
    MaxTail = 5
INVARIANTS
    TypeOK
    ItemsMatchWindow
PROPERTY
    IsFifo
