\* Outputs of one padded key but of two depths.
CONSTANTS
    Networks = {n1, n2}
    Internal = {}
    Nodes <- MCNodes
    Layouts <- MCLayouts
    Programs <- DepthPrograms
    UserMemories = {"m1"}
    UserLayout <- MCUserLayout
    MaxAlloc = 3
    MaxGlobal = 20
SPECIFICATION Spec
INVARIANTS FitsEveryUser
CHECK_DEADLOCK FALSE
