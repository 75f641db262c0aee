SPECIFICATION Spec
CONSTANTS
    v1 = v1
    v2 = v2
    v3 = v3
    ValidatorIds <- MCValidatorIds
    Members <- MCMembers
    MaxSpawns = 3
    None = None
SYMMETRY MemberSymmetry
INVARIANT TypeOK
INVARIANT BootedIsServed
CHECK_DEADLOCK FALSE
