CONSTANTS
    Users = {u1}
    UseQueue = FALSE
    MaxReq = 1
    MaxReads = 2
    MaxOpens = 1
    MaxCloses = 0
    MaxCalls = 1
    MaxReplies = 2
    MaxConns = 1
    MayDestroy = TRUE
    Faults = {"refused", "eof", "dead"}
SPECIFICATION FairSpec
INVARIANTS
    ReplyFindsRecord
    TimerFindsRecord
PROPERTIES
    ReadReturns
    TakenIsErased
    DestroyReturns
CHECK_DEADLOCK FALSE
