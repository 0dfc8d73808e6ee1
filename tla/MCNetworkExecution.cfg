\* One execution of many networks, with and without a primitive on the CPU.
SPECIFICATION FairSpec
CONSTANT Nodes <- SixNodes
CONSTANT Graphs <- SingleExecution
CONSTANT MaxExecutions = 1
CONSTANT InputEachTime = TRUE
INVARIANT InputsIntact
INVARIANT WaitedIsDone
PROPERTY ComputesDataFlow
PROPERTY CallsReturn
CHECK_DEADLOCK FALSE
