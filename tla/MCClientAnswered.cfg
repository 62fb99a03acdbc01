CONSTANTS
    Users = {u1}
    UseQueue = TRUE
    MaxReq = 1
    MaxReads = 1
    MaxOpens = 0
    MaxCloses = 0
    MaxCalls = 0
    MaxReplies = 1
    MaxConns = 1
    MayDestroy = FALSE
    Faults = {}
SPECIFICATION Spec
PROPERTY AnsweredNeverTimesOut
CHECK_DEADLOCK FALSE
