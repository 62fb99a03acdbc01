CONSTANTS
    Producers = {p1}
    Consumers = {c1}
    Values = {a, b}
    NoValue = NoValue
    NULL = NULL
    MaxPush = 3
SPECIFICATION Spec
INVARIANT PopNeverEmpty
CHECK_DEADLOCK FALSE
