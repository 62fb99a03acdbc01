CONSTANTS
    Sessions = {s1}
    MaxReq = 3
    Window = 2
    Resets = FALSE
SPECIFICATION Spec
INVARIANT RepliesInOrder
CHECK_DEADLOCK FALSE
