SPECIFICATION Spec
CONSTANTS
    n1 = n1
    n2 = n2
    n3 = n3
    n4 = n4
    t1 = t1
    t2 = t2
    Nodes <- MCNodes
    Stake <- MCStake
    Txs <- MCTxs
    Producers = {n1}
    BatchSize = 2
    Capacity = 1
    Malformed = {}
    Silent = {}
    StoreFaulty = {n1}
    MayExit = {n1, n2}
    Requesters = {}
    Garblers = {}
    MaxInjected = 0
    Lossy = {}
    MaxLost = 0
    None = None
SYMMETRY RestSymmetry
INVARIANT TypeOK
INVARIANT QuorumBeforeConsensus
INVARIANT AckedIsHeld
INVARIANT NoTxLostOrDuplicated
PROPERTY Refinement
CHECK_DEADLOCK FALSE
