SPECIFICATION Spec
CONSTANTS
    n1 = n1
    n2 = n2
    n3 = n3
    n4 = n4
    t1 = t1
    t2 = t2
    Nodes <- MCNodes
    Stake <- MCStake
    Txs <- OneTx
    Producers = {n1}
    BatchSize = 1
    Capacity = 1
    Malformed = {garbage}
    Silent = {}
    StoreFaulty = {}
    MayExit = {n1, n2}
    Requesters = {n1}
    Garblers = {n1}
    MaxInjected = 2
    Lossy = {}
    MaxLost = 0
    None = None
SYMMETRY RestOnly
INVARIANT MalformedNeverAcked
CHECK_DEADLOCK FALSE
