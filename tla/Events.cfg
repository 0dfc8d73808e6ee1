SPECIFICATION FairSpec
CONSTANT Threads = {t1, t2}
CONSTANT Handlers = {h1, h2}
CONSTANT MaxUses = 3
CONSTANT MaxResets = 1
INVARIANT TypeOK
INVARIANT OneUse
INVARIANT ToldWhenComplete
INVARIANT CalledOnceComplete
PROPERTY FirstHandlerCalled
CHECK_DEADLOCK FALSE
