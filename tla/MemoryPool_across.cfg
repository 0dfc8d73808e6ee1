\* Records that are not reusable within one network.
CONSTANTS
    Networks = {n1, n2}
    Internal = {}
    Nodes <- MCNodes
    Layouts <- MCLayouts
    Programs <- ConcatPrograms
    UserMemories = {"m1"}
    UserLayout <- MCUserLayout
    MaxAlloc = 3
    MaxGlobal = 20
SPECIFICATION Spec
INVARIANTS AcrossExclusive
CHECK_DEADLOCK FALSE
