CONSTANTS
    Sessions = {s1, s2}
    MaxReq = 3
    Window = 1
    Resets = TRUE
SPECIFICATION FairSpec
INVARIANTS
    TypeOK
    RepliesInOrder
    WritesAreQueued
    KeepsListening
PROPERTY Answered
CHECK_DEADLOCK FALSE
