CONSTANTS
    Users = {u1, u2}
    UseQueue = TRUE
    MaxReq = 2
    MaxReads = 1
    MaxOpens = 0
    MaxCloses = 0
    MaxCalls = 0
    MaxReplies = 1
    MaxConns = 1
    MayDestroy = FALSE
    Faults = {}
SPECIFICATION Spec
INVARIANT SentBufferLives
CHECK_DEADLOCK FALSE
