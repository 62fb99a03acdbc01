CONSTANTS
    T1 = T1
    T2 = T2
    M1 = M1
    M2 = M2
    V0 = V0
    V1 = V1
    Threads = {T1, T2}
    Maps = {M1, M2}
    Key = {1, 2}
    Val = {V0, V1}
    Absent = Absent
    Default = V0
    NoRef = NoRef
    NoOne = NoOne
    MaxCalls <- MCMaxCalls
    Calls <- MCCalls
SPECIFICATION FairSpec
INVARIANTS
    TypeOK
    OnlyAssignWaitsHolding
    WalksSnapshot
PROPERTIES
    ImplementsAtomicMap
    CallReturns
CHECK_DEADLOCK FALSE
