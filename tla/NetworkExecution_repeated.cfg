SPECIFICATION FairSpec
CONSTANT Nodes <- SixNodes
CONSTANT Graphs <- Repeatable
CONSTANT MaxExecutions = 2
CONSTANT InputEachTime = TRUE
INVARIANT TypeOK
INVARIANT InputsIntact
INVARIANT InputNotSetTooEarly
PROPERTY ComputesDataFlow
PROPERTY CallsReturn
CHECK_DEADLOCK FALSE
