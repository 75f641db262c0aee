SPECIFICATION LiveSpec
CONSTANTS
    p1 = p1
    p2 = p2
    d1 = d1
    d2 = d2
    Peers <- MCPeers
    Honest <- MCHonest
    Digests <- MCDigests
    GcDepth = 1
    SyncRetryNodes = 1
    MaxRound = 3
    MaxCommands = 2
    None = None
INVARIANT TypeOK
INVARIANT MissingWithinGcDepth
PROPERTY MissingIsResolved
CHECK_DEADLOCK FALSE
