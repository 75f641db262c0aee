SPECIFICATION LiveSpec
CONSTANTS
    n1 = n1
    n2 = n2
    n3 = n3
    n4 = n4
    t1 = t1
    t2 = t2
    Nodes <- MCNodes
    Stake <- MCStake
    Txs <- MCTxs
    Producers = {n1, n2}
    BatchSize = 2
    Capacity = 1
    Malformed = {}
    Silent = {n4}
    StoreFaulty = {}
    MayExit = {}
    Requesters = {}
    Garblers = {}
    MaxInjected = 0
    Lossy <- LossyToN3
    MaxLost = 1
    None = None
INVARIANT QuorumBeforeConsensus
PROPERTY SealedReachesConsensus
PROPERTY AckedEventuallyStored
CHECK_DEADLOCK FALSE
