SPECIFICATION Spec
CONSTANTS
    v1 = v1
    v2 = v2
    Validators <- MCValidators
    NumCandidates = 2
    MaxSlot = 2
    GenesisSlot = 0
    MergeSlot = 2
    PrivateTxProposals = TRUE
    ClockMayFail = TRUE
    MaxNotifications = 1
    None = None
SYMMETRY ValidatorSymmetry
INVARIANT NotLeaderIsNotCritical
CHECK_DEADLOCK FALSE
