SPECIFICATION Spec
CONSTANTS
    v1 = v1
    v2 = v2
    v3 = v3
    ValidatorIds <- MCValidatorIds
    Members <- MCMembers
    MaxSpawns = 3
    None = None
SYMMETRY MemberSymmetry
INVARIANT HandlerRemovedOnShutdown
CHECK_DEADLOCK FALSE
