SPECIFICATION SystemLiveSpec
CONSTANTS
    v1 = v1
    g1 = g1
    Validators <- OneValidator
    Graffiti <- MCGraffiti
    NumCandidates = 2
    MaxSlot = 2
    GenesisSlot = 0
    MergeSlot = 2
    PrivateTxProposals = TRUE
    ClockMayFail = TRUE
    MaxNotifications = 2
    None = None
INVARIANT TypeOK
INVARIANT NoFallbackAfterSigning
INVARIANT BuildIsComplete
PROPERTY ProposalsConclude
PROPERTY NotificationsAreHandled
CHECK_DEADLOCK FALSE
