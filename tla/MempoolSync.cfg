SPECIFICATION SystemLiveSpec
CONSTANTS
    n1 = n1
    n2 = n2
    n3 = n3
    n4 = n4
    t1 = t1
    Nodes <- MCNodes
    Stake <- Heavy
    Txs <- OneTx
    Producers = {n1}
    BatchSize = 1
    Capacity = 1
    Malformed = {}
    Silent = {n4}
    StoreFaulty = {}
    MayExit = {}
    Requesters = {}
    Garblers = {}
    MaxInjected = 0
    Lossy <- LossyToSelf
    MaxLost = 1
    Self = n3
    GcDepth = 0
    SyncRetryNodes = 1
    MaxRound = 1
    MaxCommands = 1
    MaxOutstanding = 1
    None = None
PROPERTY MissingIsFetched
CHECK_DEADLOCK FALSE
