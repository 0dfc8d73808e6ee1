SPECIFICATION FairSpec
CONSTANT Threads = {t1, t2}
CONSTANT Sources <- AllSources
CONSTANT EntryPoint <- Names
CONSTANT Batch = {"conv", "pool"}
CONSTANT Broken = {"custom2"}
CONSTANT Tuned = {"conv", "pool"}
CONSTANT MaxJobs = 3
CONSTANT MaxCalls = 2
INVARIANT TypeOK
INVARIANT IdsUnique
INVARIANT FindsWhatWasSet
INVARIANT NothingLost
INVARIANT CompiledOnce
PROPERTY KernelsKept
PROPERTY CallsReturn
CHECK_DEADLOCK FALSE
