CONSTANTS
    Producers = {p1, p2}
    Consumers = {c1, c2}
    Values = {a, b}
    NoValue = NoValue
    NULL = NULL
    MaxPush = 3
SPECIFICATION Spec
INVARIANTS
    TypeOK
    NoUseAfterFree
    SizeAccounts
PROPERTY ImplementsFifo
CHECK_DEADLOCK FALSE
