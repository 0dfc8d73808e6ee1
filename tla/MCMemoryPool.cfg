\* Networks build, fail and go in any order; limits low enough to be hit.
CONSTANTS
    Networks = {n1, n2, n3}
    Internal = {n3}
    Nodes <- MCNodes
    Layouts <- MCLayouts
    Programs <- MCPrograms
    UserMemories = {"m1", "m2"}
    UserLayout <- MCUserLayout
    MaxAlloc = 3
    MaxGlobal = 9
SPECIFICATION Spec
INVARIANTS TypeOK NoConflictingSharing FitsRecord OneBufferEach LiveWithinDevice UsedExactUntilRefusal
CHECK_DEADLOCK FALSE
SYMMETRY Renaming
