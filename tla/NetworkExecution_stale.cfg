SPECIFICATION Spec
CONSTANT Nodes <- SixNodes
CONSTANT Graphs <- OneChain
CONSTANT MaxExecutions = 2
CONSTANT InputEachTime = TRUE
INVARIANT WaitedIsDone
CHECK_DEADLOCK FALSE
