CONSTANTS
    Users = {u1, u2}
    UseQueue = TRUE
    MaxReq = 1
    MaxReads = 1
    MaxOpens = 2
    MaxCloses = 1
    MaxCalls = 2
    MaxReplies = 1
    MaxConns = 2
    MayDestroy = FALSE
    Faults = {"refused", "eof", "dead"}
SPECIFICATION Spec
INVARIANTS
    TypeOK
    ConnectOutstanding
    WaiterWakeable
    ReadOkWasReceived
    OneEraseChain
PROPERTY ThrowsOnlyWhenGone
SYMMETRY Symmetry
CHECK_DEADLOCK FALSE
