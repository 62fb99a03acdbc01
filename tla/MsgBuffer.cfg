CONSTANTS
    MaxReq = 2
    PreBody = 1
    MetaSize = 2
    MaxBody = 3
    Results = {0, 1, 3}
    MaxReplies = 2
SPECIFICATION Spec
INVARIANTS
    TypeOK
    InBounds
    Delivered
PROPERTY PointerStable
CHECK_DEADLOCK FALSE
