SPECIFICATION Spec
CONSTANTS
    Names <- MCNames
    Leaves = 2
    LeafKind <- MCLeafKind
    MaxInputs = 2
INVARIANT LiveTogetherRestricted
INVARIANT ShownBuffersKept
INVARIANT RestrictionsMutual
INVARIANT BfsOrderIsCorrect
CHECK_DEADLOCK FALSE
