CONSTANTS
    Threads = {t1, t2}
    Links = {l1, l2, l3, l4}
    Key <- MCKey
    DefaultMaxNum = 2
    MaxNums <- MCMaxNums
    MaxInt = 3
    MaxCalls = 4
    MaxDestroys = 1
SPECIFICATION Spec
INVARIANTS
    TypeOK
    KeysMatchClients
    HandleFindsItsClient
    AloneScanIsComplete
SYMMETRY Symmetry
CHECK_DEADLOCK FALSE
