SPECIFICATION Spec
CONSTANT Nodes <- SixNodes
CONSTANT Graphs <- KernelPairBranch
CONSTANT MaxExecutions = 1
CONSTANT InputEachTime = TRUE
INVARIANT InputsIntact
CHECK_DEADLOCK FALSE
