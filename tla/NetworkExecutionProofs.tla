------------------------ MODULE NetworkExecutionProofs ------------------------
(* A network builds its buffers as the pool allows; and when every primitive *)
(* is one kernel, whatever the network, no kernel runs on a buffer that is   *)
(* incomplete or was given away, and no input is set while one still runs.   *)
EXTENDS NetworkExecution, MemoryDependenciesProofs

Bytes == INSTANCE MemoryPoolProofs WITH
    Networks <- {Net}, Internal <- {}, Layouts <- Sizes,
    Programs <- Compiled,
    UserMemories <- {}, UserLayout <- << >>, MaxAlloc <- 1000, MaxGlobal <- 1000

(* Every computed primitive is one kernel of the device, and what the user   *)
(* gets is computed.                                                         *)
KernelNetworks ==
    \A g \in Graphs :
        /\ KernelProgram(g)
        /\ \A n \in NodesOf(g) : g.kind[n] = "gpu" => Len(g.reads[n]) = 1
        /\ \A n \in g.outputs : g.kind[n] = "gpu"

-----------------------------------------------------------------------------
(* The least of a set of numbers.                                            *)
LEMMA MinFacts ==
    ASSUME NEW S \in SUBSET Nat, S # {}
    PROVE  Min(S) \in S /\ \A y \in S : Min(S) <= y
<1>1. \E x \in S : \A y \in S : x <= y
  BY LeastNatural
<1> QED BY <1>1 DEF Min

(* What every compiled graph gives.                                          *)
LEMMA GraphFacts ==
    ASSUME NEW g \in Graphs
    PROVE  /\ Topological(g.order, g.deps) /\ Len(g.order) \in Nat
           /\ Nodes \subseteq NodesOf(g)
           /\ \A n \in NodesOf(g) : /\ Number(g, n) \in 1..Len(g.order)
                                    /\ g.order[Number(g, n)] = n
                                    /\ g.deps[n] \subseteq NodesOf(g)
                                    /\ \A d \in g.deps[n] : Number(g, d) < Number(g, n)
           /\ \A i \in 1..Len(g.order) : /\ g.order[i] \in NodesOf(g)
                                         /\ Number(g, g.order[i]) = i
<1>1. Topological(g.order, g.deps) /\ Nodes \subseteq NodesOf(g)
  BY GraphsAssumption
<1>2. IsOrder(g.order, NodesOf(g))
  BY <1>1 DEF Topological, NodesOf
<1>3. /\ Len(g.order) \in Nat
      /\ \A n \in NodesOf(g) : /\ Number(g, n) \in 1..Len(g.order)
                               /\ g.order[Number(g, n)] = n
      /\ \A i \in 1..Len(g.order) : g.order[i] \in NodesOf(g) /\ Number(g, g.order[i]) = i
  BY <1>2, PositionFacts DEF Number
<1>4. \A n \in NodesOf(g) : /\ g.deps[n] \subseteq NodesOf(g)
                            /\ \A d \in g.deps[n] : Number(g, d) < Number(g, n)
  BY <1>1 DEF Topological, NodesOf, Number
<1> QED BY <1>1, <1>3, <1>4

(* The positions that are executed are those of Nodes.                       *)
LEMMA ExecutedFacts ==
    ASSUME graph \in Graphs
    PROVE  /\ Executed \subseteq 1..Len(graph.order) /\ Executed # {}
           /\ \A n \in Nodes : Number(graph, n) \in Executed
           /\ \A i \in Executed : graph.order[i] \in Nodes
           /\ Min(Executed) \in Executed /\ \A i \in Executed : Min(Executed) <= i
<1>1. {n \in NodesOf(graph) : graph.kind[n] # "data"} = Nodes /\ Nodes # {}
  BY GraphsAssumption
<1>2. \A n \in Nodes : Number(graph, n) \in Executed
  BY <1>1, GraphFacts DEF Executed
<1>3. \A i \in Executed : graph.order[i] \in Nodes
  BY <1>1, GraphFacts DEF Executed
<1>4. Executed \in SUBSET Nat /\ Executed # {} /\ Executed \subseteq 1..Len(graph.order)
  BY <1>1, <1>2, GraphFacts DEF Executed
<1>5. Min(Executed) \in Executed /\ \A i \in Executed : Min(Executed) <= i
  BY <1>4, MinFacts
<1> QED BY <1>2, <1>3, <1>4, <1>5

(* The host goes on to the next primitive, or is through.                    *)
LEMMA ToNextFacts ==
    ASSUME graph \in Graphs, next \in Executed, ToNext
    PROVE  /\ next' \in Executed
           /\ \/ /\ phase' = "idle" /\ next' = Min(Executed)
                 /\ \A i \in Executed : i <= next
              \/ /\ phase' = "executing" /\ next < next'
                 /\ \A i \in Executed : next < i => next' <= i
<1>1. /\ Executed \subseteq Nat /\ Min(Executed) \in Executed /\ next \in Nat
  BY ExecutedFacts
<1>2. CASE Later = {}
  <2>1. \A i \in Executed : i <= next
    BY <1>1, <1>2 DEF Later
  <2> QED BY <1>1, <1>2, <2>1 DEF ToNext
<1>3. CASE Later # {}
  <2>1. Later \in SUBSET Nat /\ Later \subseteq Executed
    BY <1>1 DEF Later
  <2>2. Min(Later) \in Later /\ \A i \in Later : Min(Later) <= i
    BY <1>3, <2>1, MinFacts
  <2>3. phase' = "executing" /\ next' = Min(Later)
    BY <1>3 DEF ToNext
  <2> QED BY <1>1, <2>1, <2>2, <2>3 DEF Later
<1> QED BY <1>2, <1>3

(* The recursion of Source ends, at a primitive that owns what it shows.     *)
IsSource(f, g) ==
    f = [m \in NodesOf(g) |-> IF Optimized(g, m) THEN f[CHOOSE d \in g.deps[m] : TRUE] ELSE m]

LEMMA SourceSolves ==
    ASSUME NEW g \in Graphs
    PROVE  /\ \E f : IsSource(f, g)
           /\ \A f : IsSource(f, g) => \A n \in Nodes : f[n] \in Nodes
<1> DEFINE S == NodesOf(g)
           N == Len(g.order)
           below(n) == CHOOSE d \in g.deps[n] : TRUE
           value(f, n) == IF Optimized(g, n) THEN f[below(n)] ELSE n
           upTo(f, k) == f \in [S -> S] /\ \A n \in S : Number(g, n) <= k => f[n] = value(f, n)
           K == {k \in 0..N : \E f : upTo(f, k)}
<1>1. /\ N \in Nat
      /\ \A n \in S : Number(g, n) \in 1..N
      /\ \A n \in S : Optimized(g, n) =>
            /\ n \in Nodes /\ below(n) \in Nodes /\ below(n) \in S
            /\ Number(g, below(n)) < Number(g, n)
  <2>1. \A n \in S : Optimized(g, n) => n \in Nodes /\ \E d \in Nodes : g.deps[n] = {d}
    BY GraphsAssumption DEF Optimized
  <2>2. ASSUME NEW n \in S, Optimized(g, n)
        PROVE  /\ n \in Nodes /\ below(n) \in Nodes /\ below(n) \in S
               /\ Number(g, below(n)) < Number(g, n)
    <3>1. PICK d \in Nodes : g.deps[n] = {d}
      BY <2>1, <2>2
    <3>2. below(n) = d
      BY <3>1
    <3> HIDE DEF below
    <3> QED BY <2>1, <2>2, <3>1, <3>2, GraphFacts
  <2> HIDE DEF below
  <2> QED BY <2>2, GraphFacts
<1> HIDE DEF N, below
<1>2. 0 \in K
  <2>1. upTo([n \in S |-> n], 0)
    BY <1>1
  <2> HIDE DEF upTo
  <2> QED BY <1>1, <2>1
<1>3. ASSUME NEW k \in 0..N, k # N, k \in K PROVE k + 1 \in K
  <2>1. PICK f : upTo(f, k)
    BY <1>3
  <2> DEFINE h == [n \in S |-> IF Number(g, n) = k + 1 THEN value(f, n) ELSE f[n]]
  <2>2. h \in [S -> S]
    BY <1>1, <2>1
  <2>3. ASSUME NEW n \in S, Number(g, n) <= k + 1 PROVE h[n] = value(h, n)
    <3>1. Optimized(g, n) => h[below(n)] = f[below(n)]
      <4>1. Optimized(g, n) => below(n) \in S /\ Number(g, below(n)) # k + 1
        <5> SUFFICES ASSUME Optimized(g, n) PROVE below(n) \in S /\ Number(g, below(n)) # k + 1
          OBVIOUS
        <5>1. /\ below(n) \in S /\ Number(g, below(n)) < Number(g, n)
              /\ Number(g, below(n)) \in 1..N /\ Number(g, n) \in 1..N
          BY <1>1
        <5> QED BY <1>1, <2>3, <5>1
      <4> QED BY <4>1
    <3>2. value(h, n) = value(f, n)
      <4> HIDE DEF h
      <4> QED BY <3>1
    <3>3. CASE Number(g, n) = k + 1
      BY <3>2, <3>3
    <3>4. CASE Number(g, n) # k + 1
      <4>1. Number(g, n) <= k
        BY <1>1, <2>3, <3>4
      <4>2. h[n] = f[n] /\ f[n] = value(f, n)
        BY <2>1, <3>4, <4>1
      <4> QED BY <3>2, <4>2
    <3> QED BY <3>3, <3>4
  <2>4. upTo(h, k + 1)
    <3> HIDE DEF h, value
    <3> QED BY <2>2, <2>3
  <2>5. k + 1 \in 0..N
    BY <1>1, <1>3
  <2> HIDE DEF upTo
  <2> QED BY <2>4, <2>5
<1>4. N \in K
  <2>1. \A i \in 0..N : i \in K
    <3> HIDE DEF K
    <3> QED BY <1>1, <1>2, <1>3, Climbs
  <2> HIDE DEF K
  <2> QED BY <1>1, <2>1
<1>5. PICK f : upTo(f, N)
  BY <1>4
<1>6. IsSource(f, g)
  <2>1. \A n \in S : f[n] = value(f, n)
    BY <1>1, <1>5
  <2>2. f = [n \in S |-> f[n]]
    BY <1>5
  <2>3. [n \in S |-> f[n]] = [n \in S |-> value(f, n)]
    <3> HIDE DEF value
    <3> QED BY <2>1
  <2> QED BY <2>2, <2>3 DEF IsSource, below
<1>7. ASSUME NEW h, IsSource(h, g) PROVE \A n \in Nodes : h[n] \in Nodes
  <2> DEFINE H == {k \in 0..N : \A n \in Nodes : Number(g, n) <= k => h[n] \in Nodes}
  <2>1. \A n \in S : h[n] = value(h, n)
    BY <1>7 DEF IsSource, below
  <2>2. Nodes \subseteq S
    BY GraphFacts
  <2>3. 0 \in H
    BY <1>1, <2>2
  <2>4. ASSUME NEW k \in 0..N, k # N, k \in H PROVE k + 1 \in H
    <3> SUFFICES ASSUME NEW n \in Nodes, Number(g, n) <= k + 1 PROVE h[n] \in Nodes
      BY <1>1, <2>4
    <3>1. CASE Optimized(g, n)
      <4>1. /\ below(n) \in Nodes /\ Number(g, below(n)) < Number(g, n)
            /\ Number(g, below(n)) \in 1..N /\ Number(g, n) \in 1..N
        BY <1>1, <2>2, <3>1
      <4>2. Number(g, below(n)) <= k
        BY <1>1, <4>1
      <4>3. h[below(n)] \in Nodes
        BY <2>4, <4>1, <4>2
      <4> QED BY <2>1, <2>2, <3>1, <4>3
    <3>2. CASE ~Optimized(g, n)
      BY <2>1, <2>2, <3>2
    <3> QED BY <3>1, <3>2
  <2>5. \A i \in 0..N : i \in H
    <3> HIDE DEF H
    <3> QED BY <1>1, <2>3, <2>4, Climbs
  <2> QED BY <1>1, <2>2, <2>5
<1> QED BY <1>6, <1>7

(* What a primitive shows is the buffer of one that is executed, its own     *)
(* unless it was optimized out.                                              *)
LEMMA SourceFacts ==
    ASSUME graph \in Graphs
    PROVE  /\ \A n \in Nodes : Source(n) \in Nodes
           /\ \A n \in NodesOf(graph) : ~Optimized(graph, n) => Source(n) = n
<1>1. PICK f : f = CHOOSE h : IsSource(h, graph)
  OBVIOUS
<1>2. IsSource(f, graph) /\ \A n \in Nodes : f[n] \in Nodes
  BY <1>1, SourceSolves
<1>3. \A n : Source(n) = f[n]
  BY <1>1 DEF Source, IsSource
<1>4. \A n \in NodesOf(graph) : ~Optimized(graph, n) => f[n] = n
  BY <1>2 DEF IsSource
<1> QED BY <1>2, <1>3, <1>4

-----------------------------------------------------------------------------
(* The pool.  A compiled program gives the pool mutual restrictions.         *)
LEMMA PoolAssumptions ==
    /\ Bytes!NetworksAssumption /\ Bytes!LayoutsAssumption
    /\ Bytes!ProgramsAssumption /\ Bytes!LimitsAssumption
<1>1. Bytes!NetworksAssumption
  <2> DEFINE s == <<Net>>
  <2>1. s \in Seq({Net}) /\ s[1] = Net /\ Len(s) = 1
    OBVIOUS
  <2>2. \A t \in {Net} : \E n \in 1..Len(s) : s[n] = t
    BY <2>1
  <2>3. Bytes!IsFiniteSet({Net})
    BY <2>1, <2>2 DEF Bytes!IsFiniteSet
  <2> QED BY <2>3 DEF Bytes!NetworksAssumption
<1>2. Bytes!LayoutsAssumption
  <2>1. Sizes \subseteq Bytes!LayoutRecord /\ \A l \in Sizes : l.kind = "plain"
    <3> SUFFICES ASSUME NEW g \in Graphs, NEW n \in Nodes
                 PROVE  Plain(g.bytes[n]) \in Bytes!LayoutRecord /\ Plain(g.bytes[n]).kind = "plain"
      BY DEF Sizes
    <3>1. g.bytes[n] \in Nat
      BY GraphsAssumption
    <3> QED BY <3>1 DEF Plain, Bytes!LayoutRecord
  <2> QED BY <2>1 DEF Bytes!LayoutsAssumption
<1>3. Bytes!ProgramsAssumption
  <2>1. ASSUME NEW g \in Graphs
        PROVE  /\ ProgramOf(g) \in [Nodes -> Bytes!NodeRecord]
               /\ \A p, q \in Nodes :
                     Bytes!Pooled(ProgramOf(g)[p]) /\ Bytes!Pooled(ProgramOf(g)[q])
                        /\ q \in ProgramOf(g)[p].deps => p \in ProgramOf(g)[q].deps
    <3> DEFINE node(n) ==
            [layout |-> Plain(g.bytes[n]), deps |-> MemoryDependencies(g)[n] \cap Nodes,
             optimized |-> Optimized(g, n), generic |-> FALSE,
             shareable |-> g.kind[n] # "input", output |-> n \in g.outputs,
             builds |-> IF Optimized(g, n) THEN g.deps[n] \cap Nodes ELSE {}]
    <3>1. ProgramOf(g) = [n \in Nodes |-> node(n)]
      BY DEF ProgramOf
    <3>2. ASSUME NEW n \in Nodes PROVE node(n) \in Bytes!NodeRecord
      <4>1. Plain(g.bytes[n]) \in Sizes
        BY DEF Sizes
      <4>2. Optimized(g, n) \in BOOLEAN
        BY DEF Optimized
      <4> QED BY <4>1, <4>2 DEF Bytes!NodeRecord
    <3>3. ASSUME NEW p \in Nodes, NEW q \in Nodes, Bytes!Pooled(node(p)), Bytes!Pooled(node(q)),
                 q \in node(p).deps
          PROVE  p \in node(q).deps
      <4>1. MayShare(g, p) /\ MayShare(g, q)
        BY <3>3 DEF MayShare, Bytes!Pooled
      <4>2. p \in NodesOf(g) /\ q \in NodesOf(g)
        BY GraphFacts
      <4>3. q \in MemoryDependencies(g)[p]
        BY <3>3
      <4>4. p \in MemoryDependencies(g)[q]
        BY <4>1, <4>2, <4>3, Mutual
      <4> QED BY <4>4
    <3> HIDE DEF node
    <3> QED BY <3>1, <3>2, <3>3
  <2> QED BY <2>1, GraphsAssumption DEF Bytes!ProgramsAssumption, Compiled
<1>4. Bytes!LimitsAssumption
  BY DEF Bytes!LimitsAssumption
<1> QED BY <1>1, <1>2, <1>3, <1>4

(* The two instances of the pool's module say the same of a build.           *)
LEMMA SameBuild ==
    /\ Pool!Init => Bytes!Init
    /\ BuildNetwork => Bytes!Next
<1>1. Pool!Init => Bytes!Init
  BY DEF Pool!Init, Bytes!Init
<1>2. Pool!StartBuild(Net) => Bytes!StartBuild(Net)
  BY DEF Pool!StartBuild, Bytes!StartBuild
<1>3. ASSUME NEW n \in {Net}, NEW p \in Nodes
      PROVE  /\ Pool!ReuseRecord(n, p) => Bytes!ReuseRecord(n, p)
             /\ Pool!NewRecord(n, p) => Bytes!NewRecord(n, p)
             /\ Pool!NewOwnMemory(n, p) => Bytes!NewOwnMemory(n, p)
  <2>1. Pool!Container(n, p) = Bytes!Container(n, p)
    BY DEF Pool!Container, Bytes!Container
  <2>2. Pool!NextToPlace(n, p) => Bytes!NextToPlace(n, p)
    BY DEF Pool!NextToPlace, Bytes!NextToPlace, Pool!Requested, Bytes!Requested
  <2>3. \A c : Pool!Candidates(c, n, p) = Bytes!Candidates(c, n, p)
    BY DEF Pool!Candidates, Bytes!Candidates, Pool!Accepts, Bytes!Accepts, Pool!HasConflict,
           Bytes!HasConflict, Pool!FitsPadded, Bytes!FitsPadded
  <2>4. \A c, k : Pool!FirstFit(c, n, p, k) = Bytes!FirstFit(c, n, p, k)
    BY <2>3 DEF Pool!FirstFit, Bytes!FirstFit, Pool!Before, Bytes!Before
  <2>5. Pool!Placed(n, p) => Bytes!Placed(n, p)
    BY DEF Pool!Placed, Bytes!Placed
  <2>6. \A k : Pool!AddUser(k, <<p, n>>) = Bytes!AddUser(k, <<p, n>>)
    BY DEF Pool!AddUser, Bytes!AddUser, Pool!Record, Bytes!Record
  <2>7. \A l, r : Pool!Reinterprets(l, r) = Bytes!Reinterprets(l, r)
    BY DEF Pool!Reinterprets, Bytes!Reinterprets
  <2>8. \A l : /\ Pool!Allocates(l) => Bytes!Allocates(l)
               /\ Pool!AddMemoryUsed(l) => Bytes!AddMemoryUsed(l)
    BY DEF Pool!Allocates, Bytes!Allocates, Pool!AddMemoryUsed, Bytes!AddMemoryUsed,
           Pool!PeakAfter, Bytes!PeakAfter, Pool!SizeExceeded, Bytes!SizeExceeded
  <2>9. \A c, l, us : Pool!Record(c, l, us, n) = Bytes!Record(c, l, us, n)
    BY DEF Pool!Record, Bytes!Record
  <2>10. Pool!ReuseRecord(n, p) => Bytes!ReuseRecord(n, p)
    BY <2>1, <2>2, <2>4, <2>5, <2>6, <2>7 DEF Pool!ReuseRecord, Bytes!ReuseRecord
  <2>11. Pool!NewRecord(n, p) => Bytes!NewRecord(n, p)
    BY <2>1, <2>2, <2>3, <2>5, <2>8, <2>9 DEF Pool!NewRecord, Bytes!NewRecord
  <2>12. Pool!NewOwnMemory(n, p) => Bytes!NewOwnMemory(n, p)
    BY <2>1, <2>2, <2>5, <2>8 DEF Pool!NewOwnMemory, Bytes!NewOwnMemory
  <2> QED BY <2>10, <2>11, <2>12
<1>4. BuildNetwork => \/ Pool!StartBuild(Net)
                      \/ \E p \in Nodes : \/ Pool!ReuseRecord(Net, p) \/ Pool!NewRecord(Net, p)
                                         \/ Pool!NewOwnMemory(Net, p)
  BY DEF BuildNetwork
<1>5. BuildNetwork => Bytes!Next
  BY <1>2, <1>3, <1>4 DEF Bytes!Next
<1> QED BY <1>1, <1>5

(* A step of the network is a step of the pool's module or leaves it alone.  *)
LEMMA PoolSteps == Next => BuildNetwork \/ UNCHANGED poolVars
<1> SUFFICES ASSUME Next, ~BuildNetwork PROVE UNCHANGED poolVars
  OBVIOUS
<1>1. CASE InputDataSet \/ ExecuteWithoutKernel \/ ExecuteKernel \/ StartCpuPrimitive
           \/ EndCpuPrimitive
  BY <1>1 DEF InputDataSet, ExecuteWithoutKernel, ExecuteKernel, StartCpuPrimitive,
              EndCpuPrimitive
<1>2. CASE DeviceStep
  BY <1>2 DEF DeviceStep, StartKernel, EndKernel
<1>3. CASE UserStep
  BY <1>3 DEF UserStep, SetInputData, Execute, WaitForOutput
<1> QED BY <1>1, <1>2, <1>3 DEF Next, HostStep

(* A network that is built and run uses the engine's pool only in the ways   *)
(* the pool's module describes (network.cpp allocates through                *)
(* engine_impl::allocate_memory and nothing else), so that whatever is       *)
(* proved of the pool holds of it.                                           *)
THEOREM PoolRefined == Spec => Pool!Spec
<1>1. Init => Pool!Init
  BY DEF Init
<1>2. [Next]_vars => [Pool!Next]_(Pool!vars)
  <2>1. BuildNetwork => Pool!Next
    BY DEF BuildNetwork, Pool!Next
  <2>2. UNCHANGED poolVars => UNCHANGED Pool!vars
    BY DEF poolVars, Pool!vars
  <2>3. UNCHANGED vars => UNCHANGED poolVars
    BY DEF vars
  <2> QED BY <2>1, <2>2, <2>3, PoolSteps
<1> QED BY <1>1, <1>2, PTL DEF Spec, Pool!Spec

(* What is proved of the pool, of the pool this network allocates from.      *)
LEMMA PoolInvariants == Spec => [](Bytes!IInv /\ Bytes!TypeOK)
<1>1. Init => Bytes!Init
  BY SameBuild DEF Init
<1>2. [Next]_vars => [Bytes!Next]_(Bytes!vars)
  <2>1. UNCHANGED poolVars => UNCHANGED Bytes!vars
    BY DEF poolVars, Bytes!vars
  <2>2. UNCHANGED vars => UNCHANGED poolVars
    BY DEF vars
  <2> QED BY <2>1, <2>2, SameBuild, PoolSteps
<1>3. Spec => Bytes!Spec
  BY <1>1, <1>2, PTL DEF Spec, Bytes!Spec
<1>4. Bytes!Spec => []Bytes!IInv
  BY Bytes!Invariance, PoolAssumptions, PTL
<1>5. Bytes!Spec => []Bytes!TypeOK
  BY Bytes!CountersType, PoolAssumptions, PTL
<1> QED BY <1>3, <1>4, <1>5, PTL

-----------------------------------------------------------------------------
(* Types, whatever the graph.                                                *)
NetworkTypes ==
    /\ graph \in Graphs
    /\ phase \in {"building", "idle", "setting", "executing", "computing"}
    /\ phase \in {"executing", "computing"} => execution > 0
    /\ next \in Executed
    /\ kernel \in IF graph.kind[Current] = "gpu" THEN 1..LastKernel(Current) ELSE {1}
    /\ execution \in 0..MaxExecutions /\ inputSet \in BOOLEAN
    /\ tasks \subseteq TaskType /\ running \subseteq TaskType
    /\ \A t \in tasks : t.epoch <= barriers
    /\ lastBarrier \in 0..queueCounter /\ barriers \in 0..lastBarrier
    /\ queueCounter \in Nat
    /\ stamp \in [Nodes -> 0..queueCounter]
    /\ signaled \subseteq Nodes /\ awaited \subseteq Nodes
    /\ returned \subseteq graph.outputs
    /\ holds \in [Nodes -> 0..MaxExecutions]

(* The queue's numbers after a kernel was handed over.                       *)
LEMMA EnqueueFacts ==
    ASSUME queueCounter \in Nat, lastBarrier \in 0..queueCounter,
           NEW n, NEW k, NEW stamps, EnqueueKernel(n, k, stamps)
    PROVE  \/ /\ \E s \in stamps : s > lastBarrier
              /\ barriers' = barriers + 1 /\ lastBarrier' = queueCounter + 1
              /\ queueCounter' = queueCounter + 2
           \/ /\ ~ \E s \in stamps : s > lastBarrier
              /\ barriers' = barriers /\ lastBarrier' = lastBarrier
              /\ queueCounter' = queueCounter + 1
<1>1. ASSUME NEW l \in {queueCounter + 1, lastBarrier}
      PROVE  Max({queueCounter, l}) = IF l > queueCounter THEN l ELSE queueCounter
  <2>1. {queueCounter, l} \in SUBSET Nat /\ IsFiniteSet({queueCounter, l})
    <3>1. IsFiniteSet({l}) /\ {queueCounter, l} = {l} \cup {queueCounter}
      BY FS_Singleton
    <3> QED BY <3>1, FS_AddElement
  <2>2. Max({queueCounter, l}) \in {queueCounter, l}
        /\ \A y \in {queueCounter, l} : y <= Max({queueCounter, l})
    BY <2>1, MaxFacts
  <2> QED BY <2>1, <2>2
<1>2. queueCounter' = 1 + Max({queueCounter, lastBarrier'})
  BY DEF EnqueueKernel
<1>3. CASE \E s \in stamps : s > lastBarrier
  <2>1. barriers' = barriers + 1 /\ lastBarrier' = queueCounter + 1
    BY <1>3 DEF EnqueueKernel, SyncEvents
  <2> QED BY <1>1, <1>2, <1>3, <2>1
<1>4. CASE ~ \E s \in stamps : s > lastBarrier
  <2>1. barriers' = barriers /\ lastBarrier' = lastBarrier
    BY <1>4 DEF EnqueueKernel, SyncEvents
  <2> QED BY <1>1, <1>2, <1>4, <2>1
<1> QED BY <1>3, <1>4

(* What a computed primitive reads, kernel by kernel.                        *)
LEMMA ReadsFacts ==
    ASSUME NEW g \in Graphs, NEW n \in Nodes, g.kind[n] \in {"gpu", "cpu"}
    PROVE  /\ Len(g.reads[n]) \in Nat /\ Len(g.reads[n]) >= 1
           /\ \A k \in 1..Len(g.reads[n]) : /\ g.reads[n][k] \subseteq g.deps[n]
                                            /\ g.reads[n][k] \subseteq NodesOf(g)
<1>1. PICK r, S : r = g.reads[n] /\ S = SUBSET g.deps[n]
  OBVIOUS
<1>2. r \in Seq(S) /\ r # << >>
  BY <1>1, GraphsAssumption
<1>3. Len(r) \in Nat /\ Len(r) >= 1 /\ \A k \in 1..Len(r) : r[k] \in S
  BY <1>2
<1>4. g.deps[n] \subseteq NodesOf(g)
  BY GraphFacts
<1> QED BY <1>1, <1>3, <1>4

(* Before the network is built, and whatever is done with it, types hold.    *)
LEMMA InitTypes == Init => NetworkTypes
<1> SUFFICES ASSUME Init PROVE NetworkTypes
  OBVIOUS
<1>1. graph \in Graphs
  BY DEF Init
<1>2. next \in Executed
  BY <1>1, ExecutedFacts DEF Init
<1>3. Current \in Nodes /\ Nodes \subseteq NodesOf(graph)
  BY <1>1, <1>2, ExecutedFacts, GraphFacts DEF Current
<1>4. graph.kind[Current] = "gpu" => LastKernel(Current) \in Nat /\ LastKernel(Current) >= 1
  BY <1>1, <1>3, ReadsFacts DEF LastKernel
<1>5. /\ kernel \in IF graph.kind[Current] = "gpu" THEN 1..LastKernel(Current) ELSE {1}
      /\ execution \in 0..MaxExecutions /\ holds \in [Nodes -> 0..MaxExecutions]
  BY <1>4, ExecutionsAssumption DEF Init
<1>6. /\ tasks \subseteq TaskType /\ running \subseteq TaskType
      /\ \A t \in tasks : t.epoch <= barriers
      /\ lastBarrier \in 0..queueCounter /\ barriers \in 0..lastBarrier
      /\ queueCounter \in Nat
      /\ stamp \in [Nodes -> 0..queueCounter]
  BY DEF Init
<1> QED BY <1>1, <1>2, <1>5, <1>6 DEF Init, NetworkTypes

(* The first kernel of whatever comes next.                                  *)
LEMMA AdvanceTypes ==
    ASSUME graph \in Graphs, graph' = graph, next \in Executed, Advance
    PROVE  /\ next' \in Executed' /\ phase' \in {"idle", "executing"}
           /\ kernel' \in IF graph'.kind[Current'] = "gpu" THEN 1..LastKernel(Current)' ELSE {1}
<1>1. Executed' = Executed
  BY DEF Executed
<1>2. next' \in Executed /\ phase' \in {"idle", "executing"} /\ kernel' = 1
  BY ToNextFacts DEF Advance
<1>3. PICK c : c = Current'
  OBVIOUS
<1>4. c \in Nodes /\ LastKernel(Current)' = LastKernel(c) /\ c = graph.order[next']
  BY <1>2, <1>3, ExecutedFacts DEF Current, LastKernel
<1>5. graph.kind[c] = "gpu" => LastKernel(c) \in Nat /\ LastKernel(c) >= 1
  BY <1>4, ReadsFacts DEF LastKernel
<1> QED BY <1>1, <1>2, <1>3, <1>4, <1>5

(* ... one step per action.                                                  *)
LEMMA NextTypes == NetworkTypes /\ [Next]_vars => NetworkTypes'
<1> SUFFICES ASSUME NetworkTypes, [Next]_vars PROVE NetworkTypes'
  OBVIOUS
<1>1. graph' = graph /\ graph \in Graphs
  BY DEF Next, HostStep, DeviceStep, UserStep, BuildNetwork, InputDataSet, ExecuteWithoutKernel,
         ExecuteKernel, StartCpuPrimitive, EndCpuPrimitive, StartKernel, EndKernel,
         SetInputData, Execute, WaitForOutput, vars, NetworkTypes
<1>2. Executed' = Executed /\ TaskType' = TaskType
  BY <1>1 DEF Executed, TaskType, NodesOf
<1>3. Current \in Nodes /\ Nodes \subseteq NodesOf(graph)
  BY <1>1, ExecutedFacts, GraphFacts DEF Current, NetworkTypes
<1>4. ASSUME UNCHANGED <<next, kernel>>
      PROVE  /\ next' \in Executed'
             /\ kernel' \in IF graph'.kind[Current'] = "gpu" THEN 1..LastKernel(Current)' ELSE {1}
  BY <1>1, <1>2, <1>4 DEF Current, LastKernel, NetworkTypes
<1>5. CASE BuildNetwork
  BY <1>1, <1>2, <1>4, <1>5 DEF BuildNetwork, queueVars, NetworkTypes
<1>6. CASE InputDataSet
  BY <1>1, <1>2, <1>4, <1>6 DEF InputDataSet, queueVars, NetworkTypes
<1>7. \A S \in SUBSET Nodes : Flags(S) \subseteq Nodes
  BY <1>1, SourceFacts DEF Flags
<1>8. CASE SetInputData
  <2>1. EventsToWaitFor \subseteq Nodes /\ Flags(Nodes \ EventsToWaitFor) \subseteq Nodes
    BY <1>7 DEF EventsToWaitFor
  <2> QED BY <1>1, <1>2, <1>4, <1>8, <2>1 DEF SetInputData, queueVars, NetworkTypes
<1>9. CASE Execute
  <2>1. /\ execution' \in 0..MaxExecutions /\ execution' > 0
        /\ returned' \subseteq graph'.outputs /\ inputSet' = FALSE
    BY <1>9, ExecutionsAssumption DEF Execute, NetworkTypes
  <2> QED BY <1>1, <1>2, <1>4, <1>9, <2>1 DEF Execute, queueVars, NetworkTypes
<1>10. ASSUME NEW n \in Nodes, WaitForOutput(n) PROVE NetworkTypes'
  <2>1. Flags({n}) \subseteq Nodes
    BY <1>7
  <2>2. signaled' \subseteq Nodes /\ returned' \subseteq graph'.outputs
    BY <1>1, <1>10, <2>1 DEF WaitForOutput, NetworkTypes
  <2> QED BY <1>1, <1>2, <1>4, <1>10, <2>2 DEF WaitForOutput, queueVars, NetworkTypes
<1>11. CASE ExecuteWithoutKernel
  <2>1. ASSUME Optimized(graph, Current)
        PROVE  (CHOOSE d \in ExecDeps(Current) : TRUE) \in Nodes
    <3>1. PICK d \in Nodes : graph.deps[Current] = {d}
      BY <1>1, <1>3, <2>1, GraphsAssumption DEF Optimized
    <3>2. graph.kind[d] # "data"
      BY <1>1, GraphsAssumption
    <3>3. ExecDeps(Current) = {d}
      BY <3>1, <3>2 DEF ExecDeps
    <3> QED BY <3>3
  <2>2. stamp' \in [Nodes -> 0..queueCounter]
    BY <1>3, <1>11, <2>1 DEF ExecuteWithoutKernel, NetworkTypes
  <2>3. /\ next' \in Executed' /\ phase' \in {"idle", "executing"}
        /\ kernel' \in IF graph'.kind[Current'] = "gpu" THEN 1..LastKernel(Current)' ELSE {1}
    BY <1>1, <1>11, AdvanceTypes DEF ExecuteWithoutKernel, NetworkTypes
  <2> QED BY <1>1, <1>2, <1>11, <2>2, <2>3 DEF ExecuteWithoutKernel, NetworkTypes
<1>12. CASE ExecuteKernel
  <2> DEFINE stamps == IF kernel = 1 THEN {stamp[d] : d \in ExecDeps(Current)}
                       ELSE {stamp[Current]}
  <2>1. EnqueueKernel(Current, kernel, stamps) /\ graph.kind[Current] = "gpu"
    BY <1>12 DEF ExecuteKernel
  <2> HIDE DEF stamps
  <2>2. /\ queueCounter' \in Nat /\ queueCounter < queueCounter'
        /\ barriers <= barriers'
        /\ lastBarrier' \in 0..queueCounter' /\ barriers' \in 0..lastBarrier'
    BY <2>1, EnqueueFacts DEF NetworkTypes
  <2>3. stamp' \in [Nodes -> 0..queueCounter']
    <3>1. stamp \in [Nodes -> 0..queueCounter]
      BY DEF NetworkTypes
    <3>2. stamp' = [stamp EXCEPT ![Current] = queueCounter']
      BY <2>1 DEF EnqueueKernel
    <3>3. \A x \in 0..queueCounter : x \in 0..queueCounter'
      BY <2>2 DEF NetworkTypes
    <3>4. queueCounter' \in 0..queueCounter'
      BY <2>2
    <3> QED BY <1>3, <3>1, <3>2, <3>3, <3>4
  <2>4. PICK t : t = [node |-> Current, kernel |-> kernel, execution |-> execution,
                      epoch |-> barriers', reads |-> graph.reads[Current][kernel]]
    OBVIOUS
  <2>5. tasks' = tasks \cup {t}
    BY <2>1, <2>4 DEF EnqueueKernel
  <2>6. kernel \in 1..LastKernel(Current) /\ LastKernel(Current) \in Nat
    BY <1>1, <1>3, <2>1, ReadsFacts DEF LastKernel, NetworkTypes
  <2>7. t \in TaskType /\ t.epoch = barriers'
    <3>1. graph.reads[Current][kernel] \in SUBSET NodesOf(graph)
      BY <1>1, <1>3, <2>1, <2>6, ReadsFacts DEF LastKernel
    <3>2. execution \in 1..MaxExecutions
      BY <1>12, ExecutionsAssumption DEF ExecuteKernel, NetworkTypes
    <3> QED BY <1>3, <2>2, <2>4, <2>6, <3>1, <3>2 DEF TaskType
  <2>8. tasks' \subseteq TaskType' /\ \A u \in tasks' : u.epoch <= barriers'
    <3>1. \A u \in tasks : u \in TaskType /\ u.epoch <= barriers /\ u.epoch \in Nat
      BY DEF NetworkTypes, TaskType
    <3>2. \A u \in tasks : u.epoch <= barriers'
      BY <2>2, <3>1 DEF NetworkTypes
    <3> QED BY <1>2, <2>2, <2>5, <2>7, <3>1, <3>2
  <2>9. /\ next' \in Executed' /\ phase' \in {"idle", "executing"}
        /\ kernel' \in IF graph'.kind[Current'] = "gpu" THEN 1..LastKernel(Current)' ELSE {1}
    <3>1. CASE kernel = LastKernel(Current)
      <4>1. Advance
        BY <1>12, <3>1 DEF ExecuteKernel
      <4> QED BY <1>1, <4>1, AdvanceTypes DEF NetworkTypes
    <3>2. CASE kernel # LastKernel(Current)
      <4>1. kernel' = kernel + 1 /\ next' = next /\ phase' = phase /\ phase = "executing"
        BY <1>12, <3>2 DEF ExecuteKernel
      <4>2. PICK c : c = Current
        OBVIOUS
      <4>3. Current' = c /\ LastKernel(Current)' = LastKernel(c)
        BY <1>1, <4>1, <4>2 DEF Current, LastKernel
      <4>4. kernel' \in 1..LastKernel(c)
        BY <2>6, <3>2, <4>1, <4>2
      <4> QED BY <1>1, <1>2, <2>1, <4>1, <4>2, <4>3, <4>4 DEF NetworkTypes
    <3> QED BY <3>1, <3>2
  <2> QED BY <1>1, <1>2, <1>12, <2>2, <2>3, <2>8, <2>9 DEF ExecuteKernel, NetworkTypes
<1>13. CASE StartCpuPrimitive
  <2>1. CpuTask(Current) \in TaskType
    <3>1. graph.kind[Current] = "cpu" /\ execution > 0
      BY <1>13 DEF StartCpuPrimitive, NetworkTypes
    <3>2. graph.reads[Current][1] \in SUBSET NodesOf(graph)
      BY <1>1, <1>3, <3>1, ReadsFacts
    <3>3. execution \in 1..MaxExecutions /\ barriers \in Nat
      BY <3>1, ExecutionsAssumption DEF NetworkTypes
    <3> QED BY <1>3, <3>2, <3>3 DEF CpuTask, TaskType
  <2>2. Flags(ExecDeps(Current)) \subseteq Nodes
    <3>1. ExecDeps(Current) \subseteq Nodes
      BY <1>1, <1>3, GraphFacts, GraphsAssumption DEF ExecDeps
    <3> QED BY <1>7, <3>1
  <2>3. holds' \in [Nodes -> 0..MaxExecutions]
    BY <1>13, ExecutionsAssumption DEF StartCpuPrimitive, Overwrites, NetworkTypes
  <2> QED BY <1>1, <1>2, <1>4, <1>13, <2>1, <2>2, <2>3
      DEF StartCpuPrimitive, queueVars, NetworkTypes
<1>14. ASSUME NEW t \in running, WriteEnds(t) PROVE holds' \in [Nodes -> 0..MaxExecutions]
  <2>1. t.execution \in 0..MaxExecutions /\ t.node \in Nodes
    BY DEF NetworkTypes, TaskType
  <2>2. Overwrites(t.node) \in [Nodes -> 0..MaxExecutions]
    BY ExecutionsAssumption DEF Overwrites, NetworkTypes
  <2> QED BY <1>14, <2>1, <2>2, ExecutionsAssumption DEF WriteEnds
<1>15. CASE EndCpuPrimitive
  <2>1. PICK t \in running : running' = running \ {t} /\ WriteEnds(t)
    BY <1>15 DEF EndCpuPrimitive
  <2>2. stamp' \in [Nodes -> 0..queueCounter]
    BY <1>3, <1>15 DEF EndCpuPrimitive, NetworkTypes
  <2>3. /\ next' \in Executed' /\ phase' \in {"idle", "executing"}
        /\ kernel' \in IF graph'.kind[Current'] = "gpu" THEN 1..LastKernel(Current)' ELSE {1}
    BY <1>1, <1>15, AdvanceTypes DEF EndCpuPrimitive, NetworkTypes
  <2>4. holds' \in [Nodes -> 0..MaxExecutions]
    BY <1>14, <2>1
  <2> QED BY <1>1, <1>2, <1>15, <2>1, <2>2, <2>3, <2>4 DEF EndCpuPrimitive, NetworkTypes
<1>16. ASSUME NEW t \in tasks, StartKernel(t) PROVE NetworkTypes'
  <2>1. holds' \in [Nodes -> 0..MaxExecutions]
    BY <1>16, ExecutionsAssumption DEF StartKernel, Overwrites, NetworkTypes
  <2> QED BY <1>1, <1>2, <1>4, <1>16, <2>1
      DEF StartKernel, hostVars, queueVars, NetworkTypes
<1>17. ASSUME NEW t \in tasks, EndKernel(t) PROVE NetworkTypes'
  <2>1. t \in running
    BY <1>17 DEF EndKernel
  <2>2. holds' \in [Nodes -> 0..MaxExecutions]
    BY <1>14, <1>17, <2>1 DEF EndKernel, NetworkTypes
  <2> QED BY <1>1, <1>2, <1>4, <1>17, <2>2
      DEF EndKernel, hostVars, queueVars, NetworkTypes
<1>18. CASE UNCHANGED vars
  BY <1>1, <1>2, <1>4, <1>18 DEF vars, hostVars, queueVars, NetworkTypes
<1> QED BY <1>5, <1>6, <1>8, <1>9, <1>10, <1>11, <1>12, <1>13, <1>15, <1>16, <1>17, <1>18
        DEF Next, HostStep, DeviceStep, UserStep

(* Whatever the graph of the network, its kernels, primitives on the CPU and *)
(* crops in place: the kernel counter stays at a kernel of the current       *)
(* primitive, no stamp is ahead of the queue's counter (gpu_toolkit), no     *)
(* kernel ahead of the barriers, and the pool keeps its types.               *)
THEOREM NetworkTypeOK == Spec => []TypeOK
<1>1. Bytes!TypeOK => Pool!TypeOK
  BY DEF Bytes!TypeOK, Pool!TypeOK, Bytes!PoolTypeOK, Pool!PoolTypeOK, Bytes!RecordType,
         Pool!RecordType
<1>2. NetworkTypes /\ Pool!TypeOK => TypeOK
  BY DEF NetworkTypes, TypeOK
<1>3. Spec => []NetworkTypes
  BY InitTypes, NextTypes, PTL DEF Spec
<1> QED BY <1>1, <1>2, <1>3, PoolInvariants, PTL

-----------------------------------------------------------------------------
(* The inductive invariant.  Kernels that were handed over in this           *)
(* execution are those up to a position of the order; behind how many        *)
(* barriers of the queue each is, is known from the graph alone.             *)
Kernels == {n \in NodesOf(graph) : graph.kind[n] = "gpu"}
HandedOver == IF phase = "executing" THEN next - 1 ELSE Len(graph.order)
Given(n) == execution > 0 /\ Number(graph, n) <= HandedOver
Barrier(n) == QueueBarriers(graph)[Number(graph, n)]
LastOfQueue == QueueBarriers(graph)[HandedOver]

(* The phases of the user's thread.                                          *)
Phases ==
    /\ phase # "computing" /\ kernel = 1
    /\ phase # "executing" => next = Min(Executed)
    /\ phase = "executing" => ~inputSet /\ returned = {}
    /\ phase = "building" \/ execution = 0 =>
          execution = 0 /\ tasks = {} /\ signaled = {} /\ returned = {}
    /\ inputSet => phase = "idle" /\ tasks = {}

(* A stamp is newer than the last barrier just when the kernel is behind the *)
(* last barrier the graph tells of.                                          *)
StampsInStep ==
    /\ \A n \in Nodes \ Kernels : stamp[n] = 0
    /\ \A n \in Kernels : Given(n) =>
          (stamp[n] > lastBarrier <=> LastOfQueue <= Number(graph, n))

TasksGiven ==
    /\ tasks \subseteq [node : Kernels, kernel : {1}, execution : {execution}, epoch : 0..barriers,
                        reads : SUBSET NodesOf(graph)]
    /\ \A t \in tasks : Given(t.node) /\ t.reads \subseteq graph.deps[t.node]
    /\ \A t, u \in tasks : t.node = u.node => t = u

EpochsInStep ==
    /\ \A t, u \in tasks : t.epoch <= u.epoch <=> Barrier(t.node) <= Barrier(u.node)
    /\ \A t \in tasks : t.epoch = barriers <=> Barrier(t.node) = LastOfQueue

(* What runs is in front of the first barrier, what is done was there too.   *)
RunningFirst == running \subseteq tasks /\ \A t \in running : \A u \in tasks : t.epoch <= u.epoch

FinishedFirst ==
    \A n \in Kernels : \A t \in tasks :
        Given(n) /\ Finished(n) => Barrier(n) <= Barrier(t.node)

(* A result that someone still needs is there.                               *)
Needed(n) ==
    n \in graph.outputs \/ \E u \in Users(graph, n) : ~Given(u) \/ ~Finished(u)

ResultsKept ==
    \A n \in Kernels : Given(n) /\ Finished(n) /\ Needed(n) => holds[n] = execution

(* A wait for the execution leaves out no output that is not there, because  *)
(* the flags of the first execution's events tell the truth.                 *)
OutputsAwaited ==
    phase = "setting" /\ execution > 0 =>
        \A n \in graph.outputs : Finished(n) \/ n \in awaited

FlagsTrue ==
    execution <= 1 =>
        /\ phase = "executing" => signaled = {}
        /\ \A n \in (signaled \cap graph.outputs) \cup returned : Finished(n)

ProgramKept == state[Net] = "none" \/ program[Net] = ProgramOf(graph)

KernelInv ==
    /\ NetworkTypes /\ Phases /\ StampsInStep /\ TasksGiven /\ EpochsInStep
    /\ RunningFirst /\ FinishedFirst /\ ResultsKept /\ OutputsAwaited /\ FlagsTrue /\ ProgramKept

-----------------------------------------------------------------------------
(* What holds of a network of kernels, whatever its state.                   *)
(* In such a graph nothing is optimized out or done on the CPU.              *)
LEMMA KernelFacts ==
    ASSUME KernelNetworks, graph \in Graphs
    PROVE  /\ KernelProgram(graph) /\ Kernels \subseteq Nodes /\ graph.outputs \subseteq Kernels
           /\ \A n \in Nodes \ Kernels : graph.kind[n] = "input" /\ graph.deps[n] = {}
           /\ \A n \in Nodes : ~Optimized(graph, n) /\ Source(n) = n
           /\ \A n \in Kernels : LastKernel(n) = 1
<1>1. KernelProgram(graph)
  BY DEF KernelNetworks
<1>2. /\ {n \in NodesOf(graph) : graph.kind[n] # "data"} = Nodes
      /\ graph.outputs \subseteq Nodes
  BY GraphsAssumption
<1>3. Kernels \subseteq Nodes /\ graph.outputs \subseteq Kernels
  BY <1>2 DEF Kernels, KernelNetworks
<1>4. \A n \in Nodes : /\ n \in NodesOf(graph) /\ graph.kind[n] \in {"gpu", "input"}
                       /\ graph.kind[n] = "gpu" <=> graph.deps[n] # {}
  BY <1>1, <1>2 DEF KernelProgram
<1>5. \A n \in Nodes : ~Optimized(graph, n) /\ Source(n) = n
  BY <1>4, SourceFacts DEF Optimized
<1>6. \A n \in Kernels : LastKernel(n) = 1
  BY DEF KernelNetworks, Kernels, LastKernel
<1> QED BY <1>1, <1>3, <1>4, <1>5, <1>6 DEF Kernels

(* The kernels along the order.                                              *)
LEMMA OrderFacts ==
    ASSUME KernelNetworks, graph \in Graphs, next \in Executed
    PROVE  /\ Len(graph.order) \in Nat /\ next \in 1..Len(graph.order)
           /\ HandedOver \in 0..Len(graph.order)
           /\ \A n \in Kernels : /\ Number(graph, n) \in 1..Len(graph.order)
                                 /\ graph.order[Number(graph, n)] = n
                                 /\ Barrier(n) \in 0..Number(graph, n)
                                 /\ Number(graph, n) <= HandedOver => Barrier(n) <= LastOfQueue
                                 /\ ~(Number(graph, n) <= HandedOver) => LastOfQueue <= Barrier(n)
           /\ \A m, n \in Kernels : Number(graph, m) <= Number(graph, n) => Barrier(m) <= Barrier(n)
           /\ \A m, n \in Kernels : Number(graph, m) = Number(graph, n) => m = n
           /\ \A n \in Kernels : \A d \in graph.deps[n] \cap Kernels :
                 Number(graph, d) < Number(graph, n) /\ Number(graph, d) < Barrier(n)
           /\ \A n \in Kernels : \A u \in Users(graph, n) :
                 u \in Kernels /\ n \in graph.deps[u]
<1>1. PICK Q, N : Q = QueueBarriers(graph) /\ N = Len(graph.order)
  OBVIOUS
<1>2. KernelProgram(graph) /\ Topological(graph.order, graph.deps)
  BY KernelFacts DEF KernelProgram
<1>3. /\ \A i \in 0..N : Q[i] \in 0..i
      /\ \A i, j \in 0..N : i <= j => Q[i] <= Q[j]
      /\ \A n \in NodesOf(graph) : \A d \in graph.deps[n] :
            graph.kind[d] = "gpu" => Number(graph, d) < Q[Number(graph, n)]
  BY <1>1, <1>2, QueueBarrierFacts
<1>4. /\ N \in Nat
      /\ \A n \in Kernels : Number(graph, n) \in 1..N /\ graph.order[Number(graph, n)] = n
      /\ \A n \in Kernels : \A d \in graph.deps[n] : Number(graph, d) < Number(graph, n)
  BY <1>1, GraphFacts DEF Kernels
<1>5. next \in 1..N /\ HandedOver \in 0..N
  BY <1>1, <1>4, ExecutedFacts DEF HandedOver
<1>6. PICK h : h = HandedOver
  OBVIOUS
<1>7. \A n \in Kernels : Barrier(n) = Q[Number(graph, n)]
  BY <1>1 DEF Barrier
<1>8. LastOfQueue = Q[h]
  BY <1>1, <1>6 DEF LastOfQueue
<1>9. \A n \in Kernels : /\ Barrier(n) \in 0..Number(graph, n)
                         /\ Number(graph, n) <= h => Barrier(n) <= LastOfQueue
                         /\ ~(Number(graph, n) <= h) => LastOfQueue <= Barrier(n)
  <2> TAKE n \in Kernels
  <2>1. PICK i : i = Number(graph, n)
    OBVIOUS
  <2>2. i \in 0..N /\ h \in 0..N
    BY <1>4, <1>5, <1>6, <2>1
  <2>3. (i <= h => Q[i] <= Q[h]) /\ (h <= i => Q[h] <= Q[i]) /\ Q[i] \in 0..i
    BY <1>3, <2>2
  <2> QED BY <1>4, <1>7, <1>8, <2>1, <2>2, <2>3
<1>10. \A m, n \in Kernels : Number(graph, m) <= Number(graph, n) => Barrier(m) <= Barrier(n)
  <2> TAKE m, n \in Kernels
  <2>1. PICK i, j : i = Number(graph, m) /\ j = Number(graph, n)
    OBVIOUS
  <2>2. i \in 0..N /\ j \in 0..N
    BY <1>4, <2>1
  <2>3. i <= j => Q[i] <= Q[j]
    BY <1>3, <2>2
  <2> QED BY <1>7, <2>1, <2>3
<1>11. \A n \in Kernels : \A d \in graph.deps[n] \cap Kernels :
          Number(graph, d) < Number(graph, n) /\ Number(graph, d) < Barrier(n)
  BY <1>3, <1>4, <1>7 DEF Kernels
<1>12. \A n \in Kernels : \A u \in Users(graph, n) : u \in Kernels /\ n \in graph.deps[u]
  BY <1>2 DEF Users, Kernels, KernelProgram
<1> QED BY <1>1, <1>4, <1>5, <1>6, <1>9, <1>10, <1>11, <1>12

(* Two primitives that share a buffer are kernels that are not outputs, and  *)
(* neither is restricted against the other.                                  *)
LEMMA SharersFacts ==
    ASSUME KernelNetworks, graph \in Graphs, Bytes!IInv, ProgramKept,
           NEW p \in Nodes, NEW q \in Nodes, p # q, SharesBuffer(p, q)
    PROVE  /\ p \in Kernels /\ p \notin graph.outputs
           /\ q \in Kernels /\ q \notin graph.outputs
           /\ q \notin MemoryDependencies(graph)[p]
<1> DEFINE holder(n, k) == pool[k].container # "across" /\ <<n, Net>> \in pool[k].users
<1>1. PICK k \in 1..Len(pool) : holder(p, k) /\ holder(q, k)
  <2>1. RecordOf(p) # 0 /\ RecordOf(p) = RecordOf(q)
    BY DEF SharesBuffer
  <2>2. ASSUME NEW n, RecordOf(n) # 0
        PROVE  RecordOf(n) \in 1..Len(pool) /\ holder(n, RecordOf(n))
    <3>1. /\ \E k \in 1..Len(pool) : holder(n, k)
          /\ RecordOf(n) = CHOOSE k \in 1..Len(pool) : holder(n, k)
      BY <2>2, Zenon DEF RecordOf
    <3> HIDE DEF holder
    <3> QED BY <3>1
  <2> HIDE DEF holder
  <2> QED BY <2>1, <2>2
<1>2. Bytes!PoolTypeOK /\ Bytes!UsersPlaced /\ Bytes!NothingPlacedYet
      /\ Bytes!NoConflictingSharing
  BY DEF Bytes!IInv
<1>3. pool[k].container \in {"non_padded", "padded"}
  <2>1. pool \in Seq(Bytes!RecordType)
    BY <1>2 DEF Bytes!PoolTypeOK
  <2>2. pool[k] \in Bytes!RecordType
    BY <2>1
  <2> QED BY <1>1, <2>2 DEF Bytes!RecordType
<1>4. q \notin program[Net][p].deps
  <2>1. \A u, v \in pool[k].users :
            u[2] = v[2] /\ u # v => u[1] \notin program[u[2]][v[1]].deps
    BY <1>2, <1>3 DEF Bytes!NoConflictingSharing
  <2>2. <<q, Net>> # <<p, Net>>
    OBVIOUS
  <2>3. <<q, Net>>[1] = q /\ <<q, Net>>[2] = Net /\ <<p, Net>>[1] = p /\ <<p, Net>>[2] = Net
    OBVIOUS
  <2> QED BY <1>1, <2>1, <2>2, <2>3
<1>5. ASSUME NEW n \in {p, q}
      PROVE  state[Net] # "none" /\ Bytes!Container(Net, n) = pool[k].container
  <2>1. <<n, Net>> \in pool[k].users
    BY <1>1
  <2>2. /\ state[Net] = "gone" \/ n \in placed[Net]
        /\ Bytes!Container(Net, n) = pool[k].container
    BY <1>2, <2>1 DEF Bytes!UsersPlaced
  <2>3. state[Net] = "none" => placed[Net] = {}
    BY <1>2 DEF Bytes!NothingPlacedYet
  <2> QED BY <2>2, <2>3
<1>6. program[Net] = ProgramOf(graph)
  BY <1>5 DEF ProgramKept
<1>7. ASSUME NEW n \in {p, q} PROVE n \in Kernels /\ n \notin graph.outputs
  <2>1. program[Net][n].shareable /\ ~program[Net][n].output
    BY <1>3, <1>5 DEF Bytes!Container
  <2>2. /\ program[Net][n].shareable = (graph.kind[n] # "input")
        /\ program[Net][n].output = (n \in graph.outputs)
    BY <1>6 DEF ProgramOf
  <2> QED BY <2>1, <2>2, KernelFacts
<1>8. program[Net][p].deps = MemoryDependencies(graph)[p] \cap Nodes
  BY <1>6 DEF ProgramOf
<1> QED BY <1>4, <1>7, <1>8

(* The restrictions of the graph, read backwards: two kernels that may share *)
(* a buffer are far apart in the queue.                                      *)
LEMMA Apart ==
    ASSUME KernelNetworks, graph \in Graphs, Bytes!IInv, ProgramKept,
           NEW p \in Kernels, NEW q \in Kernels, Number(graph, p) < Number(graph, q),
           SharesBuffer(p, q) \/ SharesBuffer(q, p),
           NEW x \in Users(graph, p) \cup {p}
    PROVE  ~(Barrier(q) <= Barrier(x)) /\ p \notin graph.outputs /\ q \notin graph.outputs
<1>1. p # q /\ p \in Nodes /\ q \in Nodes /\ p \in NodesOf(graph) /\ q \in NodesOf(graph)
  <2>1. Number(graph, p) # Number(graph, q)
    BY GraphFacts DEF Kernels
  <2> QED BY <2>1, KernelFacts DEF Kernels
<1>2. /\ p \notin graph.outputs /\ q \notin graph.outputs
      /\ q \notin MemoryDependencies(graph)[p] \/ p \notin MemoryDependencies(graph)[q]
  BY <1>1, SharersFacts
<1>3. PICK Q : Q = QueueBarriers(graph)
  OBVIOUS
<1>4. ~(Q[Number(graph, q)] <= Q[Number(graph, x)])
  <2> SUFFICES ASSUME Q[Number(graph, q)] <= Q[Number(graph, x)] PROVE FALSE
    OBVIOUS
  <2>1. KernelProgram(graph) /\ graph.kind[p] = "gpu" /\ graph.kind[q] = "gpu"
    BY KernelFacts DEF Kernels
  <2>2. \E y \in Users(graph, p) \cup {p} : Q[Number(graph, q)] <= Q[Number(graph, y)]
    OBVIOUS
  <2>3. q \in MemoryDependencies(graph)[p] /\ p \in MemoryDependencies(graph)[q]
    BY <1>1, <1>2, <1>3, <2>1, <2>2, EarlierRestricted
  <2> QED BY <1>2, <2>3
<1> QED BY <1>2, <1>3, <1>4 DEF Barrier

(* What an enqueued kernel is.  When it is first, all others are behind the  *)
(* same barrier or a later one.                                              *)
First(t) == t \in tasks /\ \A u \in tasks : t.epoch <= u.epoch

(* What an enqueued kernel is; when it is first, no barrier is before it.    *)
LEMMA TaskFacts ==
    ASSUME KernelNetworks, KernelInv, NEW t \in tasks
    PROVE  /\ t.node \in Kernels /\ t.node \in Nodes /\ Given(t.node) /\ ~Finished(t.node)
           /\ t.kernel = 1 /\ LastKernel(t.node) = 1 /\ t.execution = execution
           /\ t.epoch \in 0..barriers /\ t.reads \subseteq graph.deps[t.node]
           /\ Barrier(t.node) \in Nat
           /\ First(t) => \A u \in tasks : Barrier(t.node) <= Barrier(u.node)
<1>1. graph \in Graphs /\ next \in Executed /\ barriers \in Nat
  BY DEF KernelInv, NetworkTypes
<1>2. t.node \in Kernels /\ t.kernel = 1 /\ t.execution = execution /\ t.epoch \in 0..barriers
  BY DEF KernelInv, TasksGiven
<1>3. Given(t.node) /\ t.reads \subseteq graph.deps[t.node]
  BY DEF KernelInv, TasksGiven
<1>4. t.node \in Nodes /\ LastKernel(t.node) = 1
  BY <1>1, <1>2, KernelFacts
<1>5. Barrier(t.node) \in Nat
  <2>1. PICK b, i : b = Barrier(t.node) /\ i = Number(graph, t.node)
    OBVIOUS
  <2>2. b \in 0..i /\ i \in 1..Len(graph.order) /\ Len(graph.order) \in Nat
    BY <1>1, <1>2, <2>1, OrderFacts
  <2> QED BY <2>1, <2>2
<1>6. First(t) => \A u \in tasks : Barrier(t.node) <= Barrier(u.node)
  BY DEF First, KernelInv, EpochsInStep
<1> QED BY <1>2, <1>3, <1>4, <1>5, <1>6 DEF Finished

(* A kernel that may start has no buffer with a result someone needs.        *)
LEMMA NoClash ==
    ASSUME KernelNetworks, KernelInv, Bytes!IInv, NEW t \in tasks, First(t),
           NEW n \in Kernels, Given(n), Finished(n), Needed(n)
    PROVE  ~SharesBuffer(n, t.node)
<1>1. PICK p : p = t.node
  OBVIOUS
<1>2. /\ graph \in Graphs /\ next \in Executed /\ ProgramKept
  BY DEF KernelInv, NetworkTypes
<1>3. /\ p \in Kernels /\ Given(p) /\ p # n
      /\ \A u \in tasks : Barrier(p) <= Barrier(u.node)
  BY <1>1, TaskFacts
<1>4. SUFFICES ASSUME SharesBuffer(n, p) PROVE FALSE
  BY <1>1
<1>5. PICK i, j : i = Number(graph, p) /\ j = Number(graph, n)
  OBVIOUS
<1>6. i \in Nat /\ j \in Nat /\ i # j /\ HandedOver \in Nat /\ i <= HandedOver
  BY <1>2, <1>3, <1>5, OrderFacts DEF Given
<1>7. CASE j < i
  <2>1. n \notin graph.outputs
    BY <1>2, <1>3, <1>4, <1>5, <1>7, Apart
  <2>2. PICK u \in Users(graph, n) : ~Given(u) \/ ~Finished(u)
    BY <2>1 DEF Needed
  <2>3. u \in Kernels
    BY <1>2, <2>2, OrderFacts
  <2>4. Barrier(p) <= Barrier(u)
    <3>1. CASE ~Given(u)
      <4>1. ~(Number(graph, u) <= HandedOver)
        BY <1>3, <3>1 DEF Given
      <4>2. Number(graph, u) \in Nat
        BY <1>2, <2>3, OrderFacts
      <4>3. Number(graph, p) <= Number(graph, u)
        BY <1>5, <1>6, <4>1, <4>2
      <4> QED BY <1>2, <1>3, <2>3, <4>3, OrderFacts
    <3>2. CASE ~Finished(u)
      BY <1>3, <3>2 DEF Finished
    <3> QED BY <2>2, <3>1, <3>2
  <2> QED BY <1>2, <1>3, <1>4, <1>5, <1>7, <2>2, <2>4, Apart
<1>8. CASE i < j
  <2>1. Barrier(n) <= Barrier(p)
    BY <1>1 DEF KernelInv, FinishedFirst
  <2> QED BY <1>2, <1>3, <1>4, <1>5, <1>8, <2>1, Apart
<1> QED BY <1>6, <1>7, <1>8

(* Two kernels that run at the same time write different buffers.            *)
LEMMA RunningApart ==
    ASSUME KernelNetworks, KernelInv, Bytes!IInv,
           NEW t \in tasks, NEW w \in tasks, t # w, First(t), First(w)
    PROVE  ~SharesBuffer(w.node, t.node)
<1>1. PICK p, q : p = t.node /\ q = w.node
  OBVIOUS
<1>2. /\ graph \in Graphs /\ next \in Executed /\ ProgramKept
  BY DEF KernelInv, NetworkTypes
<1>3. /\ p \in Kernels /\ q \in Kernels /\ Barrier(p) <= Barrier(q) /\ Barrier(q) <= Barrier(p)
  BY <1>1, TaskFacts
<1>4. p # q
  BY <1>1 DEF KernelInv, TasksGiven
<1>5. PICK i, j : i = Number(graph, p) /\ j = Number(graph, q)
  OBVIOUS
<1>6. i \in Nat /\ j \in Nat /\ i # j
  BY <1>2, <1>3, <1>4, <1>5, OrderFacts
<1>7. i < j => ~SharesBuffer(q, p)
  BY <1>2, <1>3, <1>5, Apart
<1>8. j < i => ~SharesBuffer(q, p)
  BY <1>2, <1>3, <1>5, Apart
<1> QED BY <1>1, <1>6, <1>7, <1>8

(* A kernel that runs has the inputs it reads.                               *)
LEMMA InputsThere ==
    ASSUME KernelNetworks, KernelInv
    PROVE  InputsIntact
<1> SUFFICES ASSUME NEW t \in running, NEW r \in t.reads, Computed(Source(r))
             PROVE  holds[Source(r)] = t.execution
  BY DEF InputsIntact
<1>1. /\ graph \in Graphs /\ next \in Executed
      /\ t \in tasks /\ \A u \in tasks : t.epoch <= u.epoch
  BY DEF KernelInv, NetworkTypes, RunningFirst
<1>2. /\ t.node \in Kernels /\ Given(t.node) /\ ~Finished(t.node) /\ t.execution = execution
      /\ r \in graph.deps[t.node]
      /\ \A u \in tasks : Barrier(t.node) <= Barrier(u.node)
  BY <1>1, TaskFacts DEF First
<1>3. r \in NodesOf(graph) /\ Source(r) = r /\ r \in Kernels
  <2>1. r \in NodesOf(graph)
    BY <1>1, <1>2, GraphFacts DEF Kernels
  <2>2. graph.kind[r] \in {"gpu", "input", "data"}
    BY <1>1, <2>1, KernelFacts DEF KernelProgram
  <2>3. ~Optimized(graph, r)
    BY <2>2 DEF Optimized
  <2>4. Source(r) = r
    BY <1>1, <2>1, <2>3, SourceFacts
  <2> QED BY <2>1, <2>2, <2>4 DEF Computed, Kernels
<1>4. /\ Number(graph, r) < Number(graph, t.node) /\ Number(graph, r) < Barrier(t.node)
      /\ Barrier(r) \in 0..Number(graph, r) /\ Number(graph, r) \in Nat
      /\ Number(graph, t.node) \in Nat /\ Barrier(t.node) \in 0..Number(graph, t.node)
      /\ HandedOver \in Nat
  BY <1>1, <1>2, <1>3, OrderFacts
<1>5. Given(r)
  BY <1>2, <1>4 DEF Given
<1>6. Finished(r)
  <2>1. ~(Barrier(t.node) <= Barrier(r))
    BY <1>4
  <2> QED BY <1>2, <2>1 DEF Finished
<1>7. Needed(r)
  <2>1. t.node \in Users(graph, r)
    BY <1>2 DEF Users, Kernels
  <2> QED BY <1>2, <2>1 DEF Needed
<1> QED BY <1>2, <1>3, <1>5, <1>6, <1>7 DEF KernelInv, ResultsKept

(* When no output is left in the queue, nothing is: a kernel whose user is   *)
(* done is done too.                                                         *)
LEMMA LastIsOutput ==
    ASSUME KernelNetworks, KernelInv, phase # "executing",
           \A n \in graph.outputs : Finished(n)
    PROVE  tasks = {}
<1> SUFFICES ASSUME tasks # {} PROVE FALSE
  OBVIOUS
<1>1. graph \in Graphs /\ next \in Executed /\ execution \in Nat
  BY ExecutionsAssumption DEF KernelInv, NetworkTypes
<1>2. execution > 0
  BY <1>1 DEF KernelInv, Phases
<1>3. \A n \in Kernels : Given(n)
  <2>1. HandedOver = Len(graph.order)
    BY DEF KernelInv, Phases, HandedOver
  <2> QED BY <1>1, <1>2, <2>1, OrderFacts DEF Given
<1> DEFINE numbers == {Number(graph, t.node) : t \in tasks}
<1>4. PICK t \in tasks : \A u \in tasks : Number(graph, u.node) <= Number(graph, t.node)
  <2>1. \A t \in tasks : t.node \in Kernels
    BY TaskFacts
  <2>2. Len(graph.order) \in Nat /\ numbers \subseteq 1..Len(graph.order)
    BY <1>1, <2>1, OrderFacts
  <2>3. IsFiniteSet(numbers) /\ numbers # {} /\ numbers \in SUBSET Nat
    <3>1. IsFiniteSet(1..Len(graph.order))
      BY <2>2, FS_Interval
    <3>2. numbers # {}
      OBVIOUS
    <3> HIDE DEF numbers
    <3>3. IsFiniteSet(numbers)
      BY <2>2, <3>1, FS_Subset
    <3> QED BY <2>2, <3>2, <3>3
  <2>4. PICK x \in numbers : \A y \in numbers : y <= x
    <3> HIDE DEF numbers
    <3> QED BY <2>3, MaxExists
  <2> QED BY <2>4
<1>5. /\ t.node \in Kernels /\ t.node \in NodesOf(graph) /\ ~Finished(t.node)
      /\ t.node \notin graph.outputs
  BY TaskFacts DEF Kernels
<1>6. PICK u \in Users(graph, t.node) : TRUE
  <2>1. KernelProgram(graph) /\ graph.kind[t.node] = "gpu"
    BY <1>1, <1>5, KernelFacts DEF Kernels
  <2> QED BY <1>5, <2>1 DEF KernelProgram
<1>7. u \in Kernels /\ t.node \in graph.deps[u] \cap Kernels
  BY <1>1, <1>5, <1>6, OrderFacts
<1>8. /\ Number(graph, t.node) < Number(graph, u) /\ Number(graph, t.node) < Barrier(u)
      /\ Barrier(t.node) \in 0..Number(graph, t.node) /\ Number(graph, t.node) \in Nat
      /\ Number(graph, u) \in Nat /\ Barrier(u) \in 0..Number(graph, u)
  BY <1>1, <1>5, <1>7, OrderFacts
<1>9. Finished(u)
  <2>1. \A w \in tasks : w.node = u => FALSE
    BY <1>4, <1>8
  <2> QED BY <2>1 DEF Finished
<1>10. Barrier(u) <= Barrier(t.node)
  BY <1>3, <1>7, <1>9 DEF KernelInv, FinishedFirst
<1> QED BY <1>8, <1>10

-----------------------------------------------------------------------------
(* The steps.                                                                *)
QueueKept ==
    /\ UNCHANGED <<graph, execution, kernel, tasks, running, queueVars, holds>>
    /\ phase # "executing" /\ phase' # "executing"

(* The program of a network never changes, nor what follows from it.         *)
LEMMA GraphKept ==
    ASSUME graph' = graph
    PROVE  /\ Kernels' = Kernels /\ Executed' = Executed /\ NodesOf(graph)' = NodesOf(graph)
           /\ \A n : /\ Barrier(n)' = Barrier(n)
                     /\ Number(graph, n)' = Number(graph, n)
                     /\ Users(graph, n)' = Users(graph, n)
BY DEF Kernels, Executed, NodesOf, Barrier, Number, Users

(* A state in which no kernel of this execution was handed over.             *)
LEMMA EmptyQueue ==
    ASSUME NetworkTypes', Phases', ProgramKept', graph' = graph, tasks' = {}, running' = {},
           \A n \in Nodes \ Kernels : stamp'[n] = 0,
           \A n \in Kernels : ~Given(n)',
           (phase = "executing" /\ execution <= 1 => signaled = {})'
    PROVE  KernelInv'
<1>1. Kernels' = Kernels
  BY GraphKept
<1>2. \A n : Finished(n)'
  BY DEF Finished
<1>3. StampsInStep'
  BY <1>1 DEF StampsInStep
<1>4. TasksGiven' /\ EpochsInStep' /\ RunningFirst' /\ FinishedFirst'
  BY DEF TasksGiven, EpochsInStep, RunningFirst, FinishedFirst
<1>5. ResultsKept' /\ OutputsAwaited'
  BY <1>1, <1>2 DEF ResultsKept, OutputsAwaited
<1>6. FlagsTrue'
  BY <1>2 DEF FlagsTrue, NetworkTypes
<1> QED BY <1>3, <1>4, <1>5, <1>6 DEF KernelInv

(* A call of the user leaves the queue alone.                                *)
LEMMA QueueKeptStep ==
    ASSUME KernelInv, QueueKept, NetworkTypes', Phases', ProgramKept',
           OutputsAwaited', FlagsTrue'
    PROVE  KernelInv'
<1>1. graph' = graph /\ tasks' = tasks /\ execution' = execution /\ running' = running
      /\ barriers' = barriers /\ lastBarrier' = lastBarrier /\ stamp' = stamp /\ holds' = holds
  BY DEF QueueKept, queueVars
<1>2. /\ Kernels' = Kernels /\ NodesOf(graph)' = NodesOf(graph)
      /\ \A n : Barrier(n)' = Barrier(n) /\ Number(graph, n)' = Number(graph, n)
      /\ \A n : Users(graph, n)' = Users(graph, n)
  BY <1>1, GraphKept
<1>3. HandedOver' = HandedOver /\ LastOfQueue' = LastOfQueue
  BY <1>1 DEF QueueKept, HandedOver, LastOfQueue
<1>4. \A n : Given(n)' = Given(n) /\ Finished(n)' = Finished(n) /\ Needed(n)' = Needed(n)
  <2>1. \A n : Given(n)' = Given(n) /\ Finished(n)' = Finished(n)
    BY <1>1, <1>2, <1>3 DEF Given, Finished
  <2> QED BY <1>1, <1>2, <2>1 DEF Needed
<1>5. StampsInStep'
  BY <1>1, <1>2, <1>3, <1>4 DEF KernelInv, StampsInStep
<1>6. TasksGiven'
  BY <1>1, <1>2, <1>4 DEF KernelInv, TasksGiven
<1>7. EpochsInStep'
  BY <1>1, <1>2, <1>3 DEF KernelInv, EpochsInStep
<1>8. RunningFirst' /\ FinishedFirst'
  BY <1>1, <1>2, <1>4 DEF KernelInv, RunningFirst, FinishedFirst
<1>9. ResultsKept'
  BY <1>1, <1>2, <1>4 DEF KernelInv, ResultsKept
<1> QED BY <1>5, <1>6, <1>7, <1>8, <1>9 DEF KernelInv

(* The network is built from the program that is executed.                   *)
LEMMA ProgramStep == NetworkTypes /\ ProgramKept /\ [Next]_vars => ProgramKept'
<1> SUFFICES ASSUME NetworkTypes, ProgramKept, [Next]_vars PROVE ProgramKept'
  OBVIOUS
<1>1. ASSUME BuildNetwork PROVE graph' = graph /\ ProgramKept'
  <2>1. graph' = graph
    BY <1>1 DEF BuildNetwork
  <2>2. \/ program'[Net] = ProgramOf(graph)
        \/ state[Net] # "none" /\ program' = program
    BY <1>1 DEF BuildNetwork, Pool!ReuseRecord, Pool!NewRecord, Pool!NewOwnMemory,
                Pool!NextToPlace
  <2>3. ProgramOf(graph)' = ProgramOf(graph)
    BY <2>1
  <2> QED BY <2>1, <2>2, <2>3 DEF ProgramKept
<1>2. ASSUME UNCHANGED <<poolVars, graph>> PROVE ProgramKept'
  <2>1. graph' = graph /\ state' = state /\ program' = program
    BY <1>2 DEF poolVars
  <2>2. ProgramOf(graph)' = ProgramOf(graph)
    BY <2>1
  <2> QED BY <2>1, <2>2 DEF ProgramKept
<1>3. ~BuildNetwork => graph' = graph
  BY DEF Next, HostStep, DeviceStep, UserStep, InputDataSet, ExecuteWithoutKernel,
         ExecuteKernel, StartCpuPrimitive, EndCpuPrimitive, StartKernel, EndKernel,
         SetInputData, Execute, WaitForOutput, vars
<1>4. ~BuildNetwork => UNCHANGED poolVars
  BY PoolSteps DEF vars
<1> QED BY <1>1, <1>2, <1>3, <1>4

(* network_impl::network_impl.                                               *)
LEMMA BuildStep ==
    ASSUME KernelInv, NetworkTypes', ProgramKept', BuildNetwork
    PROVE  KernelInv'
<1>1. /\ graph' = graph /\ execution' = execution /\ tasks' = tasks /\ running' = running
      /\ signaled' = signaled /\ returned' = returned /\ kernel' = kernel /\ next' = next
      /\ stamp' = stamp /\ inputSet' = inputSet
      /\ phase = "building" /\ phase' \in {"building", "idle"}
  BY DEF BuildNetwork, queueVars
<1>2. /\ execution = 0 /\ tasks = {} /\ signaled = {} /\ returned = {} /\ running = {}
      /\ ~inputSet /\ kernel = 1 /\ next = Min(Executed)
      /\ \A n \in Nodes \ Kernels : stamp[n] = 0
  BY <1>1 DEF KernelInv, Phases, RunningFirst, StampsInStep
<1>3. Executed' = Executed
  BY <1>1, GraphKept
<1>4. Phases'
  BY <1>1, <1>2, <1>3 DEF Phases
<1>5. \A n \in Kernels : ~Given(n)'
  BY <1>1, <1>2 DEF Given
<1> QED BY <1>1, <1>2, <1>4, <1>5, EmptyQueue

(* An event that is_set says is set is set: the flag of a first execution.   *)
LEMMA SetIsDone ==
    ASSUME KernelNetworks, KernelInv, execution <= 1,
           NEW n \in graph.outputs, EventIsSet(n)
    PROVE  Finished(n)
<1>1. /\ n \in Kernels /\ Source(n) = n /\ graph.kind[n] = "gpu"
  BY KernelFacts DEF KernelInv, NetworkTypes, Kernels
<1>2. n \in signaled \/ Finished(n)
  BY <1>1 DEF EventIsSet, HasDeviceEvent
<1> QED BY <1>2 DEF KernelInv, FlagsTrue

(* network_impl::set_input_data, before and ...                              *)
LEMMA SetInputStep ==
    ASSUME KernelNetworks, MaxExecutions <= 2,
           KernelInv, NetworkTypes', ProgramKept', SetInputData
    PROVE  KernelInv'
<1>1. /\ graph' = graph /\ execution' = execution /\ tasks' = tasks /\ returned' = returned
      /\ phase = "idle" /\ phase' = "setting" /\ next' = next /\ kernel' = kernel
      /\ ~inputSet /\ inputSet' = inputSet
      /\ execution = 0 => signaled' = signaled
      /\ execution # 0 => /\ awaited' = EventsToWaitFor
                          /\ signaled' = signaled \cup Flags(Nodes \ EventsToWaitFor)
  BY DEF SetInputData
<1>2. graph \in Graphs /\ execution \in 0..1
  BY ExecutionsAssumption DEF SetInputData, KernelInv, NetworkTypes
<1>3. \A n \in graph.outputs : n \in Nodes /\ (EventIsSet(n) => Finished(n))
  BY <1>2, SetIsDone, KernelFacts
<1>4. QueueKept
  BY <1>1 DEF SetInputData, QueueKept
<1>5. Phases'
  <2>1. Executed' = Executed
    BY <1>1, GraphKept
  <2> QED BY <1>1, <2>1 DEF KernelInv, Phases
<1>6. \A n : Finished(n)' = Finished(n)
  BY <1>1 DEF Finished
<1>7. OutputsAwaited'
  BY <1>1, <1>3, <1>6 DEF OutputsAwaited, EventsToWaitFor
<1>8. FlagsTrue'
  <2> SUFFICES ASSUME NEW n \in (signaled' \cap graph.outputs) \cup returned PROVE Finished(n)
    BY <1>1, <1>6 DEF FlagsTrue
  <2>1. CASE n \in signaled \/ n \in returned
    BY <1>1, <1>2, <2>1 DEF KernelInv, FlagsTrue, NetworkTypes
  <2>2. CASE n \in Flags(Nodes \ EventsToWaitFor) /\ n \in graph.outputs
    <3>1. PICK m \in Nodes \ EventsToWaitFor : n = Source(m)
      BY <2>2 DEF Flags
    <3>2. n = m
      BY <1>2, <3>1, KernelFacts
    <3> QED BY <1>3, <2>2, <3>1, <3>2 DEF EventsToWaitFor
  <2> QED BY <1>1, <2>1, <2>2
<1> QED BY <1>4, <1>5, <1>7, <1>8, QueueKeptStep

(* ... after it waited.                                                      *)
LEMMA InputSetStep ==
    ASSUME KernelNetworks, KernelInv, NetworkTypes', ProgramKept', InputDataSet
    PROVE  KernelInv'
<1>1. /\ graph' = graph /\ execution' = execution /\ tasks' = tasks /\ returned' = returned
      /\ phase = "setting" /\ phase' = "idle" /\ next' = next /\ kernel' = kernel
      /\ signaled' = signaled /\ \A n \in awaited : WaitOver(n)
  BY DEF InputDataSet
<1>2. graph \in Graphs /\ execution \in Nat
  BY ExecutionsAssumption DEF KernelInv, NetworkTypes
<1>3. tasks = {}
  <2>1. CASE execution = 0
    BY <2>1 DEF KernelInv, Phases
  <2>2. CASE execution # 0
    <3>1. \A n \in graph.outputs : n \in Nodes /\ Source(n) = n
      BY <1>2, KernelFacts
    <3>2. \A n \in graph.outputs : Finished(n)
      BY <1>1, <1>2, <2>2, <3>1 DEF KernelInv, OutputsAwaited, WaitOver
    <3> QED BY <1>1, <3>2, LastIsOutput
  <2> QED BY <2>1, <2>2
<1>4. QueueKept
  BY <1>1 DEF InputDataSet, QueueKept
<1>5. Phases'
  <2>1. Executed' = Executed
    BY <1>1, GraphKept
  <2> QED BY <1>1, <1>3, <2>1 DEF KernelInv, Phases
<1>6. OutputsAwaited' /\ FlagsTrue'
  <2>1. \A n : Finished(n)'
    BY <1>1, <1>3 DEF Finished
  <2> QED BY <1>1, <2>1 DEF OutputsAwaited, FlagsTrue
<1> QED BY <1>4, <1>5, <1>6, QueueKeptStep

(* network_output::get_memory.                                               *)
LEMMA WaitStep ==
    ASSUME KernelNetworks, KernelInv, NetworkTypes', ProgramKept',
           NEW n \in Nodes, WaitForOutput(n)
    PROVE  KernelInv'
<1>1. /\ graph' = graph /\ execution' = execution /\ tasks' = tasks
      /\ phase = "idle" /\ phase' = "idle" /\ next' = next /\ kernel' = kernel
      /\ inputSet' = inputSet /\ execution > 0
      /\ n \in graph.outputs /\ EventIsSet(n)
      /\ signaled' = signaled \cup Flags({n}) /\ returned' = returned \cup {n}
  BY DEF WaitForOutput, WaitReturns
<1>2. graph \in Graphs /\ execution \in Nat
  BY ExecutionsAssumption DEF KernelInv, NetworkTypes
<1>3. QueueKept
  BY <1>1 DEF WaitForOutput, QueueKept
<1>4. Phases'
  <2>1. Executed' = Executed
    BY <1>1, GraphKept
  <2>2. execution # 0
    BY <1>1, <1>2
  <2> QED BY <1>1, <2>1, <2>2 DEF KernelInv, Phases
<1>5. OutputsAwaited'
  BY <1>1 DEF OutputsAwaited
<1>6. FlagsTrue'
  <2> SUFFICES ASSUME execution <= 1,
                      NEW m \in (signaled' \cap graph.outputs) \cup returned' PROVE Finished(m)
    BY <1>1 DEF FlagsTrue, Finished
  <2>1. Flags({n}) \subseteq {n}
    BY <1>2, KernelFacts DEF Flags
  <2>2. CASE m = n
    BY <1>1, <2>2, SetIsDone
  <2>3. CASE m # n
    BY <1>1, <2>1, <2>3 DEF KernelInv, FlagsTrue
  <2> QED BY <2>2, <2>3
<1> QED BY <1>3, <1>4, <1>5, <1>6, QueueKeptStep

(* network_impl::execute starts on an empty queue.                           *)
LEMMA ExecuteStep ==
    ASSUME KernelNetworks, InputEachTime, KernelInv, NetworkTypes', ProgramKept', Execute
    PROVE  KernelInv'
<1>1. /\ graph' = graph /\ execution' = execution + 1 /\ tasks' = tasks /\ running' = running
      /\ signaled' = signaled /\ returned' = {} /\ kernel' = kernel /\ next' = next
      /\ stamp' = stamp /\ inputSet /\ inputSet' = FALSE
      /\ phase = "idle" /\ phase' = "executing"
  BY DEF Execute, queueVars
<1>2. graph \in Graphs /\ execution \in Nat
  BY ExecutionsAssumption DEF KernelInv, NetworkTypes
<1>3. /\ tasks = {} /\ running = {} /\ kernel = 1 /\ next = Min(Executed)
      /\ \A n \in Nodes \ Kernels : stamp[n] = 0
      /\ execution = 0 => signaled = {}
  BY <1>1 DEF KernelInv, Phases, RunningFirst, StampsInStep
<1>4. Phases'
  BY <1>1, <1>2, <1>3 DEF Phases
<1>5. \A n \in Kernels : ~Given(n)'
  <2> TAKE n \in Kernels
  <2>1. Number(graph, n)' = Number(graph, n) /\ HandedOver' = next - 1
    BY <1>1, GraphKept DEF HandedOver
  <2>2. /\ Number(graph, n) \in Executed /\ next \in Executed /\ Executed \subseteq Nat
        /\ next <= Number(graph, n)
    BY <1>2, <1>3, ExecutedFacts, KernelFacts
  <2>3. next \in Nat /\ Number(graph, n) \in Nat
    BY <2>2
  <2> QED BY <2>1, <2>2, <2>3 DEF Given
<1>6. (phase = "executing" /\ execution <= 1 => signaled = {})'
  BY <1>1, <1>2, <1>3
<1> QED BY <1>1, <1>3, <1>4, <1>5, <1>6, EmptyQueue

(* An input comes before every kernel.                                       *)
LEMMA NoKernelStep ==
    ASSUME KernelNetworks, KernelInv, NetworkTypes', ProgramKept', ExecuteWithoutKernel
    PROVE  KernelInv'
<1>1. /\ graph' = graph /\ execution' = execution /\ tasks' = tasks /\ running' = running
      /\ signaled' = signaled /\ returned' = returned /\ kernel' = 1 /\ ToNext
      /\ inputSet' = inputSet /\ phase = "executing" /\ ~Computed(Current)
      /\ stamp' = [stamp EXCEPT ![Current] =
                      IF Optimized(graph, Current)
                      THEN stamp[CHOOSE d \in ExecDeps(Current) : TRUE] ELSE 0]
  BY DEF ExecuteWithoutKernel, Advance
<1>2. graph \in Graphs /\ execution \in Nat /\ execution > 0 /\ next \in Executed
  BY <1>1, ExecutionsAssumption DEF KernelInv, NetworkTypes
<1>3. /\ Executed' = Executed /\ Kernels' = Kernels
      /\ \A n : Number(graph, n)' = Number(graph, n)
  BY <1>1, GraphKept
<1>4. /\ \A n \in Kernels : next < Number(graph, n) /\ Number(graph, n) \in Executed
      /\ next \in Nat /\ Executed \subseteq Nat
  <2>1. /\ Current \in Nodes /\ Number(graph, Current) = next
        /\ Executed \subseteq 1..Len(graph.order)
    BY <1>2, ExecutedFacts, GraphFacts DEF Current
  <2>2. Current \notin Kernels /\ Current \in NodesOf(graph) /\ graph.kind[Current] # "gpu"
    BY <1>1, <1>2, <2>1, GraphFacts DEF Kernels, Computed
  <2>3. KernelProgram(graph)
    BY <1>2, KernelFacts
  <2>4. \A n \in Kernels : next < Number(graph, n)
    BY <2>1, <2>2, <2>3 DEF KernelProgram, Kernels
  <2>5. \A n \in Kernels : Number(graph, n) \in Executed
    BY <1>2, ExecutedFacts, KernelFacts
  <2> QED BY <1>2, <2>1, <2>4, <2>5
<1>5. tasks = {}
  <2>1. \A n \in Kernels : ~Given(n)
    <3> TAKE n \in Kernels
    <3>1. HandedOver = next - 1 /\ Number(graph, n) \in Nat
      BY <1>1, <1>4 DEF HandedOver
    <3> QED BY <1>4, <3>1 DEF Given
  <2> QED BY <2>1, TaskFacts
<1>6. /\ running = {} /\ ~inputSet /\ returned = {} /\ (execution <= 1 => signaled = {})
      /\ \A n \in Nodes \ Kernels : stamp[n] = 0
  BY <1>1, <1>5 DEF KernelInv, Phases, RunningFirst, StampsInStep, FlagsTrue
<1>7. /\ next' \in Executed
      /\ \/ /\ phase' = "idle" /\ next' = Min(Executed)
            /\ \A i \in Executed : i <= next
         \/ /\ phase' = "executing" /\ next < next'
            /\ \A i \in Executed : next < i => next' <= i
  BY <1>1, <1>2, ToNextFacts
<1>8. Phases'
  <2>1. execution # 0
    BY <1>2
  <2> QED BY <1>1, <1>3, <1>5, <1>6, <1>7, <2>1 DEF Phases
<1>9. \A n \in Kernels : ~Given(n)'
  <2> TAKE n \in Kernels
  <2>1. PICK i : i = Number(graph, n)
    OBVIOUS
  <2>2. i \in Executed /\ next < i /\ i \in Nat /\ next' \in Nat
    BY <1>4, <1>7, <2>1
  <2>3. phase' = "executing" /\ next' <= i
    BY <1>4, <1>7, <2>2
  <2>4. HandedOver' = next' - 1
    BY <2>3 DEF HandedOver
  <2> QED BY <1>3, <2>1, <2>2, <2>3, <2>4 DEF Given
<1>10. \A n \in Nodes \ Kernels : stamp'[n] = 0
  <2>1. Current \in Nodes /\ ~Optimized(graph, Current)
    BY <1>2, ExecutedFacts, KernelFacts DEF Current
  <2>2. stamp \in [Nodes -> 0..queueCounter]
    BY DEF KernelInv, NetworkTypes
  <2> QED BY <1>1, <1>6, <2>1, <2>2
<1> QED BY <1>1, <1>5, <1>6, <1>8, <1>9, <1>10, EmptyQueue

(* A kernel is handed over: the queue gets a barrier just when the graph     *)
(* says so.                                                                  *)
LEMMA HandOverFacts ==
    ASSUME KernelNetworks, KernelInv, ExecuteKernel
    PROVE  /\ Current \in Kernels /\ HandedOver' = Number(graph, Current)
           /\ Number(graph, Current) = next /\ HandedOver = next - 1
           /\ LastOfQueue' = Barrier(Current)
           /\ \/ /\ Barrier(Current) = next /\ LastOfQueue < next
                 /\ barriers' = barriers + 1 /\ lastBarrier' = queueCounter + 1
                 /\ queueCounter' = queueCounter + 2
              \/ /\ Barrier(Current) = LastOfQueue
                 /\ barriers' = barriers /\ lastBarrier' = lastBarrier
                 /\ queueCounter' = queueCounter + 1
           /\ phase' \in {"idle", "executing"}
           /\ phase' = "idle" => next' = Min(Executed)
<1>1. PICK m, i, N, Q : m = Current /\ i = next /\ N = Len(graph.order)
                        /\ Q = QueueBarriers(graph)
  OBVIOUS
<1>2. /\ graph' = graph /\ phase = "executing" /\ graph.kind[m] = "gpu"
      /\ kernel = 1 /\ EnqueueKernel(m, 1, {stamp[d] : d \in ExecDeps(m)})
  BY <1>1 DEF ExecuteKernel, KernelInv, Phases
<1>3. /\ graph \in Graphs /\ next \in Executed /\ execution \in Nat /\ execution > 0
      /\ queueCounter \in Nat /\ lastBarrier \in 0..queueCounter
      /\ stamp \in [Nodes -> 0..queueCounter]
  BY <1>2, ExecutionsAssumption DEF KernelInv, NetworkTypes
<1>4. KernelProgram(graph) /\ Topological(graph.order, graph.deps)
  BY <1>3, KernelFacts DEF KernelProgram
<1>5. /\ m \in Nodes /\ m \in NodesOf(graph) /\ Number(graph, m) = i /\ i \in 1..N /\ N \in Nat
      /\ graph.order[i] = m /\ Executed \subseteq 1..N
  BY <1>1, <1>3, ExecutedFacts, GraphFacts DEF Current
<1>6. m \in Kernels /\ HandedOver = i - 1 /\ LastKernel(m) = 1
  <2>1. m \in Kernels /\ HandedOver = i - 1
    BY <1>1, <1>2, <1>5 DEF Kernels, HandedOver
  <2> QED BY <1>3, <2>1, KernelFacts
<1>7. ToNext
  BY <1>1, <1>2, <1>6 DEF ExecuteKernel, Advance
<1>8. \A j \in 1..N : i <= j => j \in Executed
  <2> TAKE j \in 1..N
  <2>1. graph.order[j] \in NodesOf(graph) /\ Number(graph, graph.order[j]) = j
    BY <1>1, <1>3, GraphFacts
  <2>2. graph.kind[graph.order[j]] # "gpu" => j < i
    BY <1>2, <1>4, <1>5, <2>1 DEF KernelProgram
  <2> QED BY <1>1, <1>5, <2>1, <2>2 DEF Executed
<1>9. /\ next' \in Executed
      /\ \/ /\ phase' = "idle" /\ next' = Min(Executed)
            /\ \A j \in Executed : j <= next
         \/ /\ phase' = "executing" /\ next < next'
            /\ \A j \in Executed : next < j => next' <= j
  BY <1>3, <1>7, ToNextFacts
<1>10. HandedOver' = i
  <2>1. CASE phase' = "idle"
    <3>1. HandedOver' = N
      BY <1>1, <1>2, <2>1 DEF HandedOver
    <3>2. N \in Executed
      BY <1>5, <1>8
    <3> QED BY <1>1, <1>5, <1>9, <2>1, <3>1, <3>2
  <2>2. CASE phase' = "executing"
    <3>1. next' \in 1..N /\ i < next'
      BY <1>1, <1>5, <1>9, <2>2
    <3>2. i + 1 \in Executed
      BY <1>5, <1>8, <3>1
    <3>3. next' = i + 1
      BY <1>1, <1>5, <1>9, <2>2, <3>1, <3>2
    <3> QED BY <1>5, <2>2, <3>3 DEF HandedOver
  <2> QED BY <1>9, <2>1, <2>2
<1>11. LastOfQueue' = Barrier(m) /\ Barrier(m) = Q[i] /\ LastOfQueue = Q[i - 1]
  BY <1>1, <1>2, <1>5, <1>6, <1>10 DEF LastOfQueue, Barrier
<1> DEFINE meets == \E d \in graph.deps[m] : graph.kind[d] = "gpu" /\ Number(graph, d) >= Q[i - 1]
<1>12. Q[i] = (IF meets THEN i ELSE Q[i - 1]) /\ Q[i - 1] \in 0..(i - 1)
  <2>1. \A j \in 1..N : Q[j] = IF \E d \in graph.deps[graph.order[j]] :
                                      graph.kind[d] = "gpu" /\ Number(graph, d) >= Q[j - 1]
                               THEN j ELSE Q[j - 1]
    BY <1>1, <1>4, QueueBarrierFacts
  <2>2. \A j \in 0..N : Q[j] \in 0..j
    BY <1>1, <1>4, QueueBarrierFacts
  <2>3. Q[i] = IF \E d \in graph.deps[graph.order[i]] :
                      graph.kind[d] = "gpu" /\ Number(graph, d) >= Q[i - 1]
               THEN i ELSE Q[i - 1]
    BY <1>5, <2>1
  <2>4. i - 1 \in 0..N
    BY <1>5
  <2> QED BY <1>5, <2>2, <2>3, <2>4
<1>13. (\E s \in {stamp[d] : d \in ExecDeps(m)} : s > lastBarrier) <=> meets
  <2>1. ASSUME NEW d \in graph.deps[m], graph.kind[d] = "gpu"
        PROVE  d \in ExecDeps(m) /\ (stamp[d] > lastBarrier <=> Number(graph, d) >= Q[i - 1])
    <3>1. d \in Kernels /\ Number(graph, d) < i /\ Number(graph, d) \in 1..N
      BY <1>1, <1>3, <1>5, <2>1, GraphFacts DEF Kernels
    <3>2. Given(d)
      BY <1>3, <1>5, <1>6, <3>1 DEF Given
    <3>3. stamp[d] > lastBarrier <=> LastOfQueue <= Number(graph, d)
      BY <3>1, <3>2 DEF KernelInv, StampsInStep
    <3>4. d \in ExecDeps(m)
      BY <2>1 DEF ExecDeps
    <3> QED BY <1>5, <1>11, <1>12, <3>1, <3>3, <3>4
  <2>2. ASSUME NEW d \in ExecDeps(m), graph.kind[d] # "gpu" PROVE ~(stamp[d] > lastBarrier)
    <3>1. d \in Nodes \ Kernels
      BY <1>3, <1>5, <2>2, GraphFacts, GraphsAssumption DEF ExecDeps, Kernels
    <3>2. stamp[d] = 0
      BY <3>1 DEF KernelInv, StampsInStep
    <3> QED BY <1>3, <3>2
  <2>3. ExecDeps(m) \subseteq graph.deps[m]
    BY DEF ExecDeps
  <2> QED BY <2>1, <2>2, <2>3
<1> HIDE DEF meets
<1>14. \/ /\ meets /\ barriers' = barriers + 1 /\ lastBarrier' = queueCounter + 1
          /\ queueCounter' = queueCounter + 2
       \/ /\ ~meets /\ barriers' = barriers /\ lastBarrier' = lastBarrier
          /\ queueCounter' = queueCounter + 1
  <2> DEFINE S == {stamp[d] : d \in ExecDeps(m)}
  <2>1. EnqueueKernel(m, 1, S) /\ ((\E s \in S : s > lastBarrier) <=> meets)
    BY <1>2, <1>13
  <2> HIDE DEF S
  <2> QED BY <1>3, <2>1, EnqueueFacts
<1> QED BY <1>1, <1>5, <1>6, <1>9, <1>10, <1>11, <1>12, <1>14

(* A kernel joins the queue behind all barriers; nobody who needed a result  *)
(* stops to need it.                                                         *)
LEMMA KernelStep ==
    ASSUME KernelNetworks, KernelInv, NetworkTypes', ProgramKept', ExecuteKernel
    PROVE  KernelInv'
<1>1. PICK m, i : m = Current /\ i = next
  OBVIOUS
<1>2. /\ graph' = graph /\ execution' = execution /\ running' = running
      /\ signaled' = signaled /\ returned' = returned /\ holds' = holds
      /\ inputSet' = inputSet /\ phase = "executing" /\ kernel = 1
      /\ EnqueueKernel(m, 1, {stamp[d] : d \in ExecDeps(m)})
  BY <1>1 DEF ExecuteKernel, KernelInv, Phases
<1>3. PICK t : t = [node |-> m, kernel |-> 1, execution |-> execution, epoch |-> barriers',
                    reads |-> graph.reads[m][1]]
  OBVIOUS
<1>4. /\ stamp' = [stamp EXCEPT ![m] = queueCounter'] /\ tasks' = tasks \cup {t}
      /\ t.node = m /\ t.epoch = barriers'
  BY <1>2, <1>3 DEF EnqueueKernel
<1>5. /\ graph \in Graphs /\ next \in Executed /\ execution \in Nat /\ execution > 0
      /\ queueCounter \in Nat /\ lastBarrier \in 0..queueCounter /\ barriers \in Nat
      /\ stamp \in [Nodes -> 0..queueCounter]
  BY <1>2, ExecutionsAssumption DEF KernelInv, NetworkTypes
<1>6. /\ m \in Kernels /\ m \in Nodes /\ HandedOver' = i /\ Number(graph, m) = i
      /\ HandedOver = i - 1 /\ LastOfQueue' = Barrier(m) /\ LastKernel(m) = 1
      /\ phase' \in {"idle", "executing"} /\ (phase' = "idle" => next' = Min(Executed))
  BY <1>1, <1>5, HandOverFacts, KernelFacts
<1>7. \/ /\ Barrier(m) = i /\ LastOfQueue < i
         /\ barriers' = barriers + 1 /\ lastBarrier' = queueCounter + 1
         /\ queueCounter' = queueCounter + 2
      \/ /\ Barrier(m) = LastOfQueue
         /\ barriers' = barriers /\ lastBarrier' = lastBarrier
         /\ queueCounter' = queueCounter + 1
  BY <1>1, HandOverFacts
<1>8. /\ Kernels' = Kernels /\ NodesOf(graph)' = NodesOf(graph) /\ Executed' = Executed
      /\ \A n : /\ Barrier(n)' = Barrier(n) /\ Number(graph, n)' = Number(graph, n)
                /\ Users(graph, n)' = Users(graph, n)
  BY <1>2, GraphKept
<1>9. /\ i \in Nat
      /\ \A n \in Kernels : /\ Number(graph, n) \in Nat /\ Barrier(n) \in Nat
                            /\ Barrier(n) \in 0..Number(graph, n)
                            /\ Given(n) => /\ Number(graph, n) < i /\ n # m
                                           /\ Barrier(n) <= LastOfQueue
                                           /\ Barrier(n) <= Barrier(m)
                            /\ Given(n)' <=> Given(n) \/ n = m
  <2>1. i \in Nat
    BY <1>1, <1>5, OrderFacts
  <2> SUFFICES ASSUME NEW n \in Kernels
               PROVE  /\ Number(graph, n) \in Nat /\ Barrier(n) \in Nat
                      /\ Barrier(n) \in 0..Number(graph, n)
                      /\ Given(n) => /\ Number(graph, n) < i /\ n # m
                                     /\ Barrier(n) <= LastOfQueue
                                     /\ Barrier(n) <= Barrier(m)
                      /\ Given(n)' <=> Given(n) \/ n = m
    BY <2>1
  <2>2. PICK j, b : j = Number(graph, n) /\ b = Barrier(n)
    OBVIOUS
  <2>3. /\ j \in 1..Len(graph.order) /\ Len(graph.order) \in Nat /\ b \in 0..j
        /\ j <= HandedOver => b <= LastOfQueue
        /\ j = i => n = m
        /\ j <= i => b <= Barrier(m)
    BY <1>5, <1>6, <2>2, OrderFacts
  <2>4. Given(n) <=> j <= i - 1
    BY <1>5, <1>6, <2>2 DEF Given
  <2>5. Given(n)' <=> j <= i
    BY <1>2, <1>5, <1>6, <1>8, <2>2 DEF Given
  <2>6. n = m => j = i
    BY <1>6, <2>2
  <2> QED BY <1>6, <2>1, <2>2, <2>3, <2>4, <2>5, <2>6
<1>10. \A u \in tasks : /\ u.node \in Kernels /\ u.node # m /\ Given(u.node)
                        /\ u.epoch \in 0..barriers
  BY <1>9, TaskFacts
<1>11. \A n : /\ Finished(n)' <=> Finished(n) /\ n # m
  BY <1>4 DEF Finished
<1>12. Phases'
  <2>1. kernel' = 1
    BY <1>1, <1>2, <1>6 DEF ExecuteKernel, Advance
  <2> QED BY <1>2, <1>5, <1>6, <1>8, <2>1 DEF KernelInv, Phases
<1>13. StampsInStep'
  <2>1. \A n \in Nodes \ Kernels : stamp'[n] = 0
    BY <1>4, <1>5, <1>6 DEF KernelInv, StampsInStep
  <2> SUFFICES ASSUME NEW n \in Kernels, Given(n)'
               PROVE  stamp'[n] > lastBarrier' <=> LastOfQueue' <= Number(graph, n)
    BY <1>8, <2>1 DEF StampsInStep
  <2>2. CASE n = m
    <3>1. stamp'[n] = queueCounter'
      BY <1>4, <1>5, <1>6, <2>2
    <3> QED BY <1>5, <1>6, <1>7, <1>9, <2>2, <3>1
  <2>3. CASE n # m
    <3>1. Given(n) /\ Number(graph, n) < i /\ Number(graph, n) \in Nat /\ i \in Nat
      BY <1>9, <2>3
    <3>2. stamp'[n] = stamp[n] /\ stamp[n] \in 0..queueCounter
      BY <1>4, <1>5, <2>3, KernelFacts
    <3>3. stamp[n] > lastBarrier <=> LastOfQueue <= Number(graph, n)
      BY <3>1 DEF KernelInv, StampsInStep
    <3> QED BY <1>5, <1>6, <1>7, <3>1, <3>2, <3>3
  <2> QED BY <2>2, <2>3
<1>14. TasksGiven'
  <2>1. graph.reads[m][1] \subseteq graph.deps[m] /\ graph.reads[m][1] \subseteq NodesOf(graph)
    <3>1. graph.kind[m] = "gpu" /\ Len(graph.reads[m]) = 1
      BY <1>6 DEF Kernels, LastKernel
    <3> QED BY <1>5, <1>6, <3>1, ReadsFacts
  <2>2. barriers' \in Nat /\ barriers <= barriers'
    BY <1>5, <1>7
  <2>3. t \in [node : Kernels, kernel : {1}, execution : {execution}, epoch : 0..barriers',
               reads : SUBSET NodesOf(graph)] /\ t.reads \subseteq graph.deps[t.node]
    BY <1>3, <1>6, <2>1, <2>2
  <2>4. \A u \in tasks :
           /\ u \in [node : Kernels, kernel : {1}, execution : {execution}, epoch : 0..barriers',
                     reads : SUBSET NodesOf(graph)]
           /\ Given(u.node)' /\ u.reads \subseteq graph.deps[u.node]
    <3> TAKE u \in tasks
    <3>1. /\ u \in [node : Kernels, kernel : {1}, execution : {execution}, epoch : 0..barriers,
                    reads : SUBSET NodesOf(graph)]
          /\ u.reads \subseteq graph.deps[u.node]
      BY DEF KernelInv, TasksGiven
    <3>2. Given(u.node)'
      BY <1>9, <1>10
    <3> QED BY <1>5, <2>2, <3>1, <3>2
  <2>5. Given(t.node)'
    BY <1>4, <1>6, <1>9
  <2>6. \A u, v \in tasks' : u.node = v.node => u = v
    BY <1>4, <1>10 DEF KernelInv, TasksGiven
  <2> QED BY <1>2, <1>4, <1>8, <2>3, <2>4, <2>5, <2>6 DEF TasksGiven
<1>15. EpochsInStep'
  <2>1. \A u \in tasks : /\ u.epoch \in Nat /\ u.epoch <= barriers
                         /\ Barrier(u.node) \in Nat /\ Barrier(u.node) <= LastOfQueue
                         /\ Barrier(u.node) < i
                         /\ u.epoch = barriers <=> Barrier(u.node) = LastOfQueue
    <3> TAKE u \in tasks
    <3>1. /\ u.node \in Kernels /\ Given(u.node) /\ u.epoch \in 0..barriers
      BY <1>10
    <3>2. u.epoch = barriers <=> Barrier(u.node) = LastOfQueue
      BY DEF KernelInv, EpochsInStep
    <3>3. PICK b, j : b = Barrier(u.node) /\ j = Number(graph, u.node)
      OBVIOUS
    <3>4. b \in 0..j /\ j < i /\ j \in Nat /\ i \in Nat /\ b <= LastOfQueue
      BY <1>9, <3>1, <3>3
    <3> QED BY <1>5, <3>1, <3>2, <3>3, <3>4
  <2>2. \A u, v \in tasks : u.epoch <= v.epoch <=> Barrier(u.node) <= Barrier(v.node)
    BY DEF KernelInv, EpochsInStep
  <2>3. \A u \in tasks : /\ u.epoch <= t.epoch /\ Barrier(u.node) <= Barrier(m)
                         /\ t.epoch <= u.epoch <=> Barrier(m) <= Barrier(u.node)
                         /\ u.epoch = barriers' <=> Barrier(u.node) = Barrier(m)
    <3> TAKE u \in tasks
    <3>1. PICK b, e : b = Barrier(u.node) /\ e = u.epoch
      OBVIOUS
    <3>2. /\ e \in Nat /\ e <= barriers /\ b \in Nat /\ b <= LastOfQueue /\ b < i
          /\ e = barriers <=> b = LastOfQueue
      BY <2>1, <3>1
    <3>3. Barrier(m) \in Nat /\ i \in Nat /\ b <= Barrier(m)
      BY <1>6, <1>9, <1>10, <3>1
    <3> QED BY <1>4, <1>5, <1>7, <3>1, <3>2, <3>3
  <2>4. t.epoch = barriers' /\ t.epoch \in Nat /\ Barrier(m) \in Nat
    BY <1>4, <1>5, <1>6, <1>7, <1>9
  <2>5. \A u, v \in tasks' : u.epoch <= v.epoch <=> Barrier(u.node) <= Barrier(v.node)
    BY <1>4, <2>2, <2>3, <2>4
  <2>6. \A u \in tasks' : u.epoch = barriers' <=> Barrier(u.node) = Barrier(m)
    BY <1>4, <2>3, <2>4
  <2> QED BY <1>6, <1>8, <2>5, <2>6 DEF EpochsInStep
<1>16. RunningFirst'
  <2>1. \A u \in tasks : u.epoch <= t.epoch
    BY <1>4, <1>5, <1>7, <1>10
  <2> QED BY <1>2, <1>4, <2>1 DEF KernelInv, RunningFirst
<1>17. FinishedFirst'
  <2> SUFFICES ASSUME NEW n \in Kernels, NEW u \in tasks', Given(n)', Finished(n)'
               PROVE  Barrier(n) <= Barrier(u.node)
    BY <1>8 DEF FinishedFirst
  <2>1. Finished(n) /\ n # m /\ Given(n)
    BY <1>9, <1>11
  <2>2. CASE u = t
    BY <1>4, <1>9, <2>1, <2>2
  <2>3. CASE u \in tasks
    BY <2>1, <2>3 DEF KernelInv, FinishedFirst
  <2> QED BY <1>4, <2>2, <2>3
<1>18. ResultsKept'
  <2> SUFFICES ASSUME NEW n \in Kernels, Given(n)', Finished(n)', Needed(n)'
               PROVE  holds[n] = execution
    BY <1>2, <1>8 DEF ResultsKept
  <2>1. Finished(n) /\ n # m /\ Given(n)
    BY <1>9, <1>11
  <2>2. \A u \in Users(graph, n) : ~Given(u)' \/ ~Finished(u)' => ~Given(u) \/ ~Finished(u)
    <3> TAKE u \in Users(graph, n)
    <3>1. u \in Kernels
      BY <1>5, OrderFacts
    <3> QED BY <1>9, <1>11, <3>1
  <2>3. Needed(n)
    BY <1>2, <1>8, <2>2 DEF Needed
  <2> QED BY <2>1, <2>3 DEF KernelInv, ResultsKept
<1>19. OutputsAwaited'
  BY <1>6 DEF OutputsAwaited
<1>20. FlagsTrue'
  BY <1>2 DEF KernelInv, Phases, FlagsTrue
<1> QED BY <1>12, <1>13, <1>14, <1>15, <1>16, <1>17, <1>18, <1>19, <1>20 DEF KernelInv

(* The device's steps leave the host alone.                                  *)
LEMMA DeviceFrame ==
    ASSUME KernelInv, UNCHANGED <<poolVars, graph, hostVars, queueVars, signaled>>,
           tasks' \subseteq tasks, NetworkTypes', ProgramKept',
           RunningFirst', FinishedFirst', ResultsKept'
    PROVE  KernelInv'
<1>1. /\ graph' = graph /\ execution' = execution /\ signaled' = signaled
      /\ returned' = returned /\ phase' = phase /\ next' = next /\ kernel' = kernel
      /\ inputSet' = inputSet /\ barriers' = barriers /\ lastBarrier' = lastBarrier
      /\ stamp' = stamp /\ awaited' = awaited
  BY DEF hostVars, queueVars
<1>2. /\ Kernels' = Kernels /\ NodesOf(graph)' = NodesOf(graph) /\ Executed' = Executed
      /\ \A n : Barrier(n)' = Barrier(n) /\ Number(graph, n)' = Number(graph, n)
  BY <1>1, GraphKept
<1>3. HandedOver' = HandedOver /\ LastOfQueue' = LastOfQueue
  BY <1>1 DEF HandedOver, LastOfQueue
<1>4. \A n : Given(n)' = Given(n) /\ (Finished(n) => Finished(n)')
  BY <1>1, <1>2, <1>3 DEF Given, Finished
<1>5. Phases'
  BY <1>1, <1>2 DEF KernelInv, Phases
<1>6. StampsInStep'
  BY <1>1, <1>2, <1>3, <1>4 DEF KernelInv, StampsInStep
<1>7. TasksGiven'
  <2>1. tasks' \subseteq [node : Kernels, kernel : {1}, execution : {execution},
                          epoch : 0..barriers, reads : SUBSET NodesOf(graph)]
    BY DEF KernelInv, TasksGiven
  <2> QED BY <1>1, <1>2, <1>4, <2>1 DEF KernelInv, TasksGiven
<1>8. EpochsInStep'
  BY <1>1, <1>2, <1>3 DEF KernelInv, EpochsInStep
<1>9. OutputsAwaited' /\ FlagsTrue'
  BY <1>1, <1>4 DEF KernelInv, OutputsAwaited, FlagsTrue
<1> QED BY <1>5, <1>6, <1>7, <1>8, <1>9 DEF KernelInv

(* A kernel starts: its buffer holds nothing that is needed.                 *)
LEMMA StartStep ==
    ASSUME KernelNetworks, KernelInv, Bytes!IInv, NetworkTypes', ProgramKept',
           NEW t \in tasks, StartKernel(t)
    PROVE  KernelInv'
<1>1. /\ UNCHANGED <<poolVars, graph, hostVars, queueVars, signaled>>
      /\ tasks' = tasks /\ running' = running \cup {t} /\ holds' = Overwrites(t.node)
      /\ \A u \in tasks : u.epoch >= t.epoch
  BY DEF StartKernel, Ready
<1>2. /\ graph' = graph /\ execution' = execution /\ phase' = phase /\ next' = next
      /\ \A n : Finished(n)' = Finished(n)
  BY <1>1 DEF hostVars, Finished
<1>3. /\ Kernels' = Kernels /\ \A n : Barrier(n)' = Barrier(n)
      /\ \A n : Number(graph, n)' = Number(graph, n) /\ Users(graph, n)' = Users(graph, n)
  BY <1>2, GraphKept
<1>4. \A n : Given(n)' = Given(n)
  BY <1>2, <1>3 DEF Given, HandedOver
<1>5. \A n : Needed(n)' = Needed(n)
  BY <1>2, <1>3, <1>4 DEF Needed
<1>6. First(t)
  <2>1. \A u \in tasks : u.epoch \in Nat
    BY DEF KernelInv, NetworkTypes, TaskType
  <2> QED BY <1>1, <2>1 DEF First
<1>7. RunningFirst'
  BY <1>1, <1>6 DEF KernelInv, RunningFirst, First
<1>8. FinishedFirst'
  BY <1>1, <1>2, <1>3, <1>4 DEF KernelInv, FinishedFirst
<1>9. ResultsKept'
  <2> SUFFICES ASSUME NEW n \in Kernels, Given(n), Finished(n), Needed(n)
               PROVE  holds'[n] = execution
    BY <1>2, <1>3, <1>4, <1>5 DEF ResultsKept
  <2>1. ~SharesBuffer(n, t.node)
    BY <1>6, NoClash
  <2>2. n \in Nodes /\ holds[n] = execution
    BY KernelFacts DEF KernelInv, ResultsKept, NetworkTypes
  <2> QED BY <1>1, <2>1, <2>2 DEF Overwrites
<1> QED BY <1>1, <1>7, <1>8, <1>9, DeviceFrame

(* A kernel ends: its own result is there, and nobody else was writing it.   *)
LEMMA EndStep ==
    ASSUME KernelNetworks, KernelInv, Bytes!IInv, NetworkTypes', ProgramKept',
           NEW t \in tasks, EndKernel(t)
    PROVE  KernelInv'
<1>1. PICK p : p = t.node
  OBVIOUS
<1>2. /\ p \in Kernels /\ p \in Nodes /\ Given(p) /\ ~Finished(p)
      /\ t.kernel = LastKernel(t.node) /\ t.execution = execution
  BY <1>1, TaskFacts
<1>3. /\ UNCHANGED <<poolVars, graph, hostVars, queueVars, signaled>>
      /\ t \in running /\ tasks' = tasks \ {t} /\ running' = running \ {t} /\ WriteEnds(t)
  BY <1>2 DEF EndKernel
<1>4. /\ graph' = graph /\ execution' = execution /\ phase' = phase /\ next' = next
  BY <1>3 DEF hostVars
<1>5. /\ Kernels' = Kernels /\ \A n : Barrier(n)' = Barrier(n)
      /\ \A n : Number(graph, n)' = Number(graph, n) /\ Users(graph, n)' = Users(graph, n)
  BY <1>4, GraphKept
<1>6. \A n : Given(n)' = Given(n)
  BY <1>4, <1>5 DEF Given, HandedOver
<1>7. /\ Finished(p)' /\ \A n : n # p => (Finished(n)' <=> Finished(n))
      /\ \A n : Finished(n) => Finished(n)'
  <2>1. \A u \in tasks : u.node = p => u = t
    BY <1>1 DEF KernelInv, TasksGiven
  <2> QED BY <1>1, <1>3, <2>1 DEF Finished
<1>8. First(t) /\ \A u \in tasks : Barrier(p) <= Barrier(u.node)
  <2>1. First(t)
    BY <1>3 DEF KernelInv, RunningFirst, First
  <2> QED BY <1>1, <2>1, TaskFacts
<1>9. RunningFirst'
  <2>1. \A r \in running' : r \in tasks' /\ \A u \in tasks' : r.epoch <= u.epoch
    BY <1>3 DEF KernelInv, RunningFirst
  <2> QED BY <2>1 DEF RunningFirst
<1>10. FinishedFirst'
  <2> SUFFICES ASSUME NEW n \in Kernels, NEW u \in tasks', Given(n), Finished(n)'
               PROVE  Barrier(n) <= Barrier(u.node)
    BY <1>5, <1>6 DEF FinishedFirst
  <2>1. u \in tasks
    BY <1>3
  <2>2. CASE n = p
    BY <1>8, <2>1, <2>2
  <2>3. CASE n # p
    BY <1>7, <2>1, <2>3 DEF KernelInv, FinishedFirst
  <2> QED BY <2>2, <2>3
<1>11. ResultsKept'
  <2> SUFFICES ASSUME NEW n \in Kernels, Given(n), Finished(n)', Needed(n)'
               PROVE  holds'[n] = execution
    BY <1>4, <1>5, <1>6 DEF ResultsKept
  <2>1. /\ n \in Nodes /\ holds \in [Nodes -> 0..MaxExecutions]
        /\ holds' = [Overwrites(p) EXCEPT ![p] =
                        IF \E w \in running \ {t} : SharesBuffer(w.node, p)
                        THEN 0 ELSE execution]
    BY <1>1, <1>2, <1>3, KernelFacts DEF KernelInv, NetworkTypes, WriteEnds
  <2>2. CASE n = p
    <3>1. \A w \in running \ {t} : ~SharesBuffer(w.node, p)
      <4> TAKE w \in running \ {t}
      <4>1. w \in tasks /\ First(w) /\ w # t
        BY DEF KernelInv, RunningFirst, First
      <4> QED BY <1>1, <1>8, <4>1, RunningApart
    <3> QED BY <2>1, <2>2, <3>1 DEF Overwrites
  <2>3. CASE n # p
    <3>1. Finished(n)
      BY <1>7, <2>3
    <3>2. Needed(n)
      <4>1. \A u : (~Given(u)' => ~Given(u)) /\ (~Finished(u)' => ~Finished(u))
        BY <1>6, <1>7
      <4> QED BY <1>4, <1>5, <4>1 DEF Needed
    <3>3. ~SharesBuffer(n, p) /\ holds[n] = execution
      BY <1>1, <1>8, <3>1, <3>2, NoClash DEF KernelInv, ResultsKept
    <3> QED BY <2>1, <2>3, <3>3 DEF Overwrites
  <2> QED BY <2>2, <2>3
<1> QED BY <1>3, <1>9, <1>10, <1>11, DeviceFrame

-----------------------------------------------------------------------------
(* The inductive invariant holds at first, ...                               *)
LEMMA InitKernelInv ==
    ASSUME KernelNetworks, Init
    PROVE  KernelInv
<1>1. /\ NetworkTypes /\ phase = "building" /\ next = Min(Executed) /\ kernel = 1
      /\ execution = 0 /\ inputSet = FALSE /\ returned = {} /\ tasks = {} /\ running = {}
      /\ signaled = {} /\ stamp = [n \in Nodes |-> 0]
  BY InitTypes DEF Init
<1>2. ProgramKept
  BY DEF Init, Pool!Init, ProgramKept
<1>3. Phases /\ StampsInStep
  BY <1>1 DEF Phases, StampsInStep, Given
<1>4. TasksGiven /\ EpochsInStep /\ RunningFirst /\ FinishedFirst
  BY <1>1 DEF TasksGiven, EpochsInStep, RunningFirst, FinishedFirst
<1>5. ResultsKept /\ OutputsAwaited /\ FlagsTrue
  BY <1>1 DEF ResultsKept, Given, OutputsAwaited, FlagsTrue
<1> QED BY <1>1, <1>2, <1>3, <1>4, <1>5 DEF KernelInv

(* ... is kept by every action, ...                                          *)
LEMMA NextKernelInv ==
    ASSUME KernelNetworks, InputEachTime, MaxExecutions <= 2,
           KernelInv, Bytes!IInv, [Next]_vars
    PROVE  KernelInv'
<1>1. NetworkTypes' /\ ProgramKept'
  BY NextTypes, ProgramStep DEF KernelInv
<1>2. CASE BuildNetwork
  BY <1>1, <1>2, BuildStep
<1>3. CASE InputDataSet
  BY <1>1, <1>3, InputSetStep
<1>4. CASE ExecuteWithoutKernel
  BY <1>1, <1>4, NoKernelStep
<1>5. CASE ExecuteKernel
  BY <1>1, <1>5, KernelStep
<1>6. CASE StartCpuPrimitive \/ EndCpuPrimitive
  <2>1. phase # "computing"
    BY DEF KernelInv, Phases
  <2>2. graph.kind[Current] # "cpu"
    <3>1. Current \in Nodes
      BY ExecutedFacts DEF Current, KernelInv, NetworkTypes
    <3> QED BY <3>1, KernelFacts DEF KernelInv, NetworkTypes, Kernels
  <2> QED BY <1>6, <2>1, <2>2 DEF StartCpuPrimitive, EndCpuPrimitive
<1>7. CASE DeviceStep
  <2>1. PICK t \in tasks : StartKernel(t) \/ EndKernel(t)
    BY <1>7 DEF DeviceStep
  <2> QED BY <1>1, <2>1, StartStep, EndStep
<1>8. CASE SetInputData
  BY <1>1, <1>8, SetInputStep
<1>9. CASE Execute
  BY <1>1, <1>9, ExecuteStep
<1>10. CASE \E n \in Nodes : WaitForOutput(n)
  BY <1>1, <1>10, WaitStep
<1>11. CASE UNCHANGED vars
  <2>1. /\ UNCHANGED <<poolVars, graph, hostVars, queueVars, signaled>>
        /\ graph' = graph /\ execution' = execution /\ phase' = phase /\ next' = next
        /\ tasks' = tasks /\ running' = running /\ holds' = holds
    BY <1>11 DEF vars, hostVars
  <2>2. RunningFirst' /\ FinishedFirst' /\ ResultsKept'
    BY <2>1 DEF KernelInv, RunningFirst, FinishedFirst, ResultsKept, Kernels, NodesOf, Given,
                HandedOver, Number, Finished, Barrier, Needed, Users
  <2> QED BY <1>1, <2>1, <2>2, DeviceFrame
<1> QED BY <1>2, <1>3, <1>4, <1>5, <1>6, <1>7, <1>8, <1>9, <1>10, <1>11
        DEF Next, HostStep, UserStep

(* ... and so always holds.                                                  *)
LEMMA KernelInvariance ==
    ASSUME KernelNetworks, InputEachTime, MaxExecutions <= 2
    PROVE  Spec => []KernelInv
<1>1. Init => KernelInv
  BY InitKernelInv
<1>2. KernelInv /\ Bytes!IInv /\ [Next]_vars => KernelInv'
  BY NextKernelInv
<1> QED BY <1>1, <1>2, PoolInvariants, PTL DEF Spec

(* In every network of single kernels whose input is set before each         *)
(* execution, whatever its graph, the order the device picks and the buffers *)
(* the pool shares, a kernel runs on what its dependencies computed in the   *)
(* same execution, from its start to its end.                                *)
THEOREM KernelsReadWhole ==
    ASSUME KernelNetworks, InputEachTime, MaxExecutions <= 2
    PROVE  Spec => []InputsIntact
<1>1. KernelInv => InputsIntact
  BY InputsThere
<1> QED BY <1>1, KernelInvariance, PTL

(* In such a network set_input_data waits until no kernel of the execution   *)
(* before is left.                                                           *)
THEOREM InputAfterExecution ==
    ASSUME KernelNetworks, InputEachTime, MaxExecutions <= 2
    PROVE  Spec => []InputNotSetTooEarly
<1>1. KernelInv => InputNotSetTooEarly
  BY DEF KernelInv, Phases, InputNotSetTooEarly
<1> QED BY <1>1, KernelInvariance, PTL

(* What the user waited for in the first execution is complete and stays.    *)
THEOREM FirstOutputsDone ==
    ASSUME KernelNetworks, InputEachTime, MaxExecutions <= 1
    PROVE  Spec => []WaitedIsDone
<1>1. KernelInv => WaitedIsDone
  <2> SUFFICES ASSUME KernelInv, NEW n \in returned PROVE Finished(n) /\ holds[n] = execution
    BY DEF WaitedIsDone
  <2>1. /\ graph \in Graphs /\ next \in Executed /\ execution \in 0..1
        /\ n \in graph.outputs
    BY ExecutionsAssumption DEF KernelInv, NetworkTypes
  <2>2. phase # "executing" /\ execution > 0
    BY <2>1 DEF KernelInv, Phases
  <2>3. Finished(n)
    BY <2>1 DEF KernelInv, FlagsTrue
  <2>4. n \in Kernels /\ Given(n)
    <3>1. HandedOver = Len(graph.order)
      BY <2>2 DEF HandedOver
    <3>2. n \in Kernels /\ Number(graph, n) \in 1..Len(graph.order) /\ Len(graph.order) \in Nat
      BY <2>1, KernelFacts, OrderFacts
    <3> QED BY <2>2, <3>1, <3>2 DEF Given
  <2> QED BY <2>1, <2>3, <2>4 DEF KernelInv, ResultsKept, Needed
<1>2. MaxExecutions <= 2
  BY ExecutionsAssumption
<1> QED BY <1>1, <1>2, KernelInvariance, PTL

-----------------------------------------------------------------------------
(* The flow of data.                                                         *)
(* The whole network is what its kernels make of each other's results.       *)
LEMMA FlowFacts ==
    ASSUME KernelNetworks
    PROVE  KernelInv =>
              /\ Work = Kernels
              /\ Needs = [n \in Kernels |-> graph.deps[n] \cap Kernels]
              /\ Complete = {n \in Kernels : Given(n) /\ Finished(n)}
<1> SUFFICES ASSUME KernelInv
             PROVE  /\ Work = Kernels
                    /\ Needs = [n \in Kernels |-> graph.deps[n] \cap Kernels]
                    /\ Complete = {n \in Kernels : Given(n) /\ Finished(n)}
  OBVIOUS
<1>1. graph \in Graphs /\ next \in Executed
  BY DEF KernelInv, NetworkTypes
<1>2. Work = Kernels
  BY <1>1, KernelFacts DEF Work, Computed, Kernels
<1>3. \A n \in Kernels : {Source(d) : d \in graph.deps[n]} \cap Kernels
                            = graph.deps[n] \cap Kernels
  <2> TAKE n \in Kernels
  <2>1. ASSUME NEW d \in graph.deps[n] PROVE Source(d) = d
    <3>1. d \in NodesOf(graph)
      BY <1>1, GraphFacts DEF Kernels
    <3>2. graph.kind[d] # "view"
      BY <1>1, <3>1, KernelFacts DEF KernelProgram
    <3> QED BY <1>1, <3>1, <3>2, SourceFacts DEF Optimized
  <2> QED BY <2>1
<1>4. \A n \in Kernels : Given(n) <=> /\ execution > 0
                                      /\ phase \in {"executing", "computing"} =>
                                            Number(graph, n) < next
  <2> TAKE n \in Kernels
  <2>1. phase # "computing"
    BY DEF KernelInv, Phases
  <2>2. PICK i, k : i = Number(graph, n) /\ k = next
    OBVIOUS
  <2>3. i \in 1..Len(graph.order) /\ k \in 1..Len(graph.order) /\ Len(graph.order) \in Nat
    BY <1>1, <2>2, OrderFacts
  <2> QED BY <2>1, <2>2, <2>3 DEF Given, HandedOver
<1> QED BY <1>2, <1>3, <1>4 DEF Needs, Complete

(* The host is through with one more primitive.                              *)
LEMMA OneMoreGiven ==
    ASSUME KernelNetworks, graph \in Graphs, next \in Executed, phase = "executing", ToNext,
           execution > 0, graph' = graph, execution' = execution
    PROVE  \A n \in Kernels : Given(n)' <=> Given(n) \/ n = Current
<1>1. /\ next' \in Executed
      /\ \/ /\ phase' = "idle" /\ next' = Min(Executed)
            /\ \A i \in Executed : i <= next
         \/ /\ phase' = "executing" /\ next < next'
            /\ \A i \in Executed : next < i => next' <= i
  BY ToNextFacts
<1>2. TAKE n \in Kernels
<1>3. PICK i, k, j, N : i = Number(graph, n) /\ k = next /\ j = next' /\ N = Len(graph.order)
  OBVIOUS
<1>4. /\ i \in Executed /\ i \in 1..N /\ k \in 1..N /\ j \in 1..N /\ N \in Nat
      /\ (i = k <=> n = Current)
  <2>1. n \in Nodes /\ Executed \subseteq 1..N
    BY <1>3, ExecutedFacts, KernelFacts
  <2>2. i \in Executed /\ N \in Nat /\ graph.order[i] = n /\ Number(graph, graph.order[k]) = k
    BY <1>3, <2>1, ExecutedFacts, GraphFacts, KernelFacts DEF Kernels
  <2> QED BY <1>1, <1>3, <2>1, <2>2 DEF Current
<1>5. Number(graph, n)' = i
  BY <1>3, GraphKept
<1>6. Given(n) <=> i <= k - 1
  BY <1>3 DEF Given, HandedOver
<1>7. CASE phase' = "idle"
  <2>1. Given(n)' <=> i <= N
    BY <1>3, <1>5, <1>7 DEF Given, HandedOver
  <2>2. i <= k
    BY <1>1, <1>3, <1>4, <1>7
  <2> QED BY <1>4, <1>6, <2>1, <2>2
<1>8. CASE phase' = "executing"
  <2>1. Given(n)' <=> i <= j - 1
    BY <1>3, <1>5, <1>8 DEF Given, HandedOver
  <2>2. k < j /\ (k < i => j <= i)
    BY <1>1, <1>3, <1>4, <1>8
  <2> QED BY <1>4, <1>6, <2>1, <2>2
<1> QED BY <1>1, <1>7, <1>8
(* The steps of the network are steps of the flow, or none.                  *)
LEMMA FlowStep ==
    ASSUME KernelNetworks, InputEachTime, KernelInv, KernelInv', [Next]_vars,
           Work = Kernels, Needs = [n \in Kernels |-> graph.deps[n] \cap Kernels],
           Complete = {n \in Kernels : Given(n) /\ Finished(n)},
           Complete' = {n \in Kernels' : Given(n)' /\ Finished(n)'}
    PROVE  [Flow!Next]_(Flow!vars)
<1>1. /\ graph \in Graphs /\ next \in Executed /\ execution \in Nat
      /\ phase # "computing"
  BY ExecutionsAssumption DEF KernelInv, NetworkTypes, Phases
<1>2. graph' = graph
  BY DEF Next, HostStep, DeviceStep, UserStep, BuildNetwork, InputDataSet, ExecuteWithoutKernel,
         ExecuteKernel, StartCpuPrimitive, EndCpuPrimitive, StartKernel, EndKernel,
         SetInputData, Execute, WaitForOutput, vars
<1>3. Needs' = Needs /\ Kernels' = Kernels /\ \A n : Number(graph, n)' = Number(graph, n)
  <2>1. Needs' = Needs
    BY <1>2 DEF Needs, Work, Source, Computed, Optimized, NodesOf
  <2> QED BY <1>2, <2>1, GraphKept
<1>4. DOMAIN Needs = Kernels
  OBVIOUS
(* When nothing is handed over and nothing ends, nothing is computed. *)
<1>5. ASSUME UNCHANGED <<tasks, execution, inputSet>>, HandedOver' = HandedOver
      PROVE  UNCHANGED Flow!vars
  <2>1. \A n : Given(n)' = Given(n) /\ Finished(n)' = Finished(n)
    BY <1>3, <1>5 DEF Given, Finished
  <2>2. Complete' = Complete
    BY <1>3, <2>1
  <2> QED BY <1>3, <1>5, <2>2 DEF Flow!vars
<1>6. CASE BuildNetwork \/ SetInputData \/ \E n \in Nodes : WaitForOutput(n)
  <2>1. /\ UNCHANGED <<tasks, execution, inputSet>>
        /\ phase # "executing" /\ phase' # "executing"
    BY <1>6 DEF BuildNetwork, SetInputData, WaitForOutput
  <2>2. HandedOver' = HandedOver
    BY <1>2, <2>1 DEF HandedOver
  <2> QED BY <1>5, <2>1, <2>2
<1>7. CASE InputDataSet
  <2>1. /\ UNCHANGED <<tasks, execution>> /\ phase = "setting" /\ phase' = "idle" /\ inputSet'
    BY <1>7 DEF InputDataSet
  <2>2. tasks = {} /\ ~inputSet /\ inputSet' \in BOOLEAN
    BY <2>1 DEF KernelInv, Phases, NetworkTypes
  <2>3. HandedOver = Len(graph.order) /\ HandedOver' = HandedOver
    BY <1>2, <2>1 DEF HandedOver
  <2>4. \A n : Given(n)' = Given(n) /\ Finished(n)' = Finished(n) /\ Finished(n)
    BY <1>3, <2>1, <2>2, <2>3 DEF Given, Finished
  <2>5. Complete' = Complete
    BY <1>3, <2>4
  <2>6. Flow!Over
    <3>1. execution > 0 => \A n \in Kernels : Given(n)
      BY <1>1, <2>3, OrderFacts DEF Given
    <3>2. execution > 0 => Complete = Kernels
      BY <2>4, <3>1
    <3> QED BY <1>1, <1>4, <3>2 DEF Flow!Over
  <2>7. Flow!SetInput
    BY <1>3, <2>1, <2>2, <2>5, <2>6 DEF Flow!SetInput
  <2> QED BY <2>7 DEF Flow!Next
<1>8. CASE Execute
  <2>1. /\ tasks' = tasks /\ execution' = execution + 1 /\ next' = next
        /\ inputSet /\ ~inputSet' /\ phase = "idle" /\ phase' = "executing"
    BY <1>8 DEF Execute
  <2>2. next = Min(Executed) /\ inputSet' = FALSE
    BY <2>1 DEF KernelInv, Phases, NetworkTypes
  <2>3. \A n \in Kernels : ~Given(n)'
    <3> TAKE n \in Kernels
    <3>1. Number(graph, n)' = Number(graph, n) /\ HandedOver' = next - 1
      BY <1>3, <2>1 DEF HandedOver
    <3>2. /\ Number(graph, n) \in Executed /\ next \in Executed /\ Executed \subseteq Nat
          /\ next <= Number(graph, n)
      BY <1>1, <2>2, ExecutedFacts, KernelFacts
    <3>3. next \in Nat /\ Number(graph, n) \in Nat
      BY <3>2
    <3> QED BY <3>1, <3>2, <3>3 DEF Given
  <2>4. Complete' = {}
    BY <1>3, <2>3
  <2>5. Flow!Execute
    BY <1>3, <2>1, <2>2, <2>4 DEF Flow!Execute
  <2> QED BY <2>5 DEF Flow!Next
<1>9. CASE ExecuteWithoutKernel \/ ExecuteKernel
  <2>1. /\ UNCHANGED <<execution, inputSet>> /\ phase = "executing" /\ kernel = 1
        /\ execution > 0
    <3>1. UNCHANGED <<execution, inputSet>> /\ phase = "executing"
      BY <1>9 DEF ExecuteWithoutKernel, ExecuteKernel
    <3> QED BY <1>1, <3>1 DEF KernelInv, Phases, NetworkTypes
  <2>2. Current \in Nodes /\ (Current \in Kernels <=> graph.kind[Current] = "gpu")
    BY <1>1, ExecutedFacts, GraphFacts DEF Current, Kernels
  <2>3. ToNext
    <3>1. Current \in Kernels => LastKernel(Current) = 1
      BY <1>1, KernelFacts
    <3> QED BY <1>9, <2>1, <2>2, <3>1 DEF ExecuteWithoutKernel, ExecuteKernel, Advance
  <2>4. \A n \in Kernels : Given(n)' <=> Given(n) \/ n = Current
    BY <1>1, <1>2, <2>1, <2>3, OneMoreGiven
  <2>5. \A n \in Kernels : Given(n)' /\ Finished(n)' <=> Given(n) /\ Finished(n)
    <3>1. CASE ExecuteWithoutKernel
      <4>1. tasks' = tasks /\ Current \notin Kernels
        BY <2>2, <3>1 DEF ExecuteWithoutKernel, Computed
      <4> QED BY <2>4, <4>1 DEF Finished
    <3>2. CASE ExecuteKernel
      <4> DEFINE given == [node |-> Current, kernel |-> kernel, execution |-> execution,
                           epoch |-> barriers', reads |-> graph.reads[Current][kernel]]
      <4>1. tasks' = tasks \cup {given} /\ given.node = Current
        BY <3>2 DEF ExecuteKernel, EnqueueKernel
      <4> HIDE DEF given
      <4>2. ~Given(Current)
        <5>1. Number(graph, Current) = next /\ next \in Nat
          BY <1>1, ExecutedFacts, GraphFacts DEF Current
        <5> QED BY <2>1, <5>1 DEF Given, HandedOver
      <4>3. \A n : Finished(n)' <=> Finished(n) /\ n # Current
        BY <4>1 DEF Finished
      <4> QED BY <2>4, <4>2, <4>3
    <3> QED BY <1>9, <3>1, <3>2
  <2>6. Complete' = Complete
    BY <1>3, <2>5
  <2> QED BY <1>3, <2>1, <2>6 DEF Flow!vars
<1>10. CASE \E t \in tasks : StartKernel(t)
  BY <1>2, <1>5, <1>10 DEF StartKernel, hostVars, HandedOver
<1>11. CASE \E t \in tasks : EndKernel(t)
  <2>1. PICK t \in tasks : EndKernel(t)
    BY <1>11
  <2>2. PICK p : p = t.node
    OBVIOUS
  <2>3. /\ p \in Kernels /\ Given(p) /\ ~Finished(p)
        /\ UNCHANGED hostVars /\ tasks' = tasks \ {t} /\ t \in running
    BY <2>1, <2>2, TaskFacts DEF EndKernel
  <2>4. /\ UNCHANGED <<execution, inputSet, phase, next>> /\ execution > 0
    BY <2>3 DEF hostVars, Given
  <2>5. \A n : Given(n)' = Given(n)
    BY <1>2, <1>3, <2>4 DEF Given, HandedOver
  <2>6. \A n : Finished(n)' <=> Finished(n) \/ n = p
    <3>1. \A u \in tasks : u.node = p => u = t
      BY <2>2 DEF KernelInv, TasksGiven
    <3> QED BY <2>2, <2>3, <3>1 DEF Finished
  <2>7. Complete' = Complete \cup {p} /\ p \notin Complete
    BY <1>3, <2>3, <2>5, <2>6
  <2>8. Needs[p] \subseteq Complete
    <3>1. First(t)
      BY <2>3 DEF KernelInv, RunningFirst, First
    <3>2. \A u \in tasks : Barrier(p) <= Barrier(u.node)
      BY <2>2, <3>1, TaskFacts
    <3> SUFFICES ASSUME NEW d \in graph.deps[p] \cap Kernels PROVE Given(d) /\ Finished(d)
      BY <2>3
    <3>3. /\ Number(graph, d) < Number(graph, p) /\ Number(graph, d) < Barrier(p)
          /\ Barrier(d) \in 0..Number(graph, d) /\ Number(graph, d) \in Nat
          /\ Number(graph, p) \in Nat /\ Barrier(p) \in 0..Number(graph, p)
          /\ HandedOver \in Nat
      BY <1>1, <2>3, OrderFacts
    <3>4. ~(Barrier(p) <= Barrier(d))
      BY <3>3
    <3> QED BY <2>3, <3>2, <3>3, <3>4 DEF Given, Finished
  <2>9. Flow!Compute(p)
    BY <1>3, <1>4, <2>3, <2>4, <2>7, <2>8 DEF Flow!Compute
  <2> QED BY <1>4, <2>3, <2>9 DEF Flow!Next
<1>12. CASE StartCpuPrimitive \/ EndCpuPrimitive
  <2>1. graph.kind[Current] # "cpu"
    BY <1>1, ExecutedFacts, KernelFacts DEF Current, Kernels
  <2> QED BY <1>1, <1>12, <2>1 DEF StartCpuPrimitive, EndCpuPrimitive
<1>13. CASE UNCHANGED vars
  BY <1>5, <1>13 DEF vars, hostVars, HandedOver
<1> QED BY <1>6, <1>7, <1>8, <1>9, <1>10, <1>11, <1>12, <1>13
        DEF Next, HostStep, DeviceStep, UserStep

(* A network of kernels, with its out-of-order queue, shared buffers and     *)
(* recycled events, is a flow of data: each execution computes every kernel  *)
(* once, behind those it reads, and none overlaps another.                   *)
THEOREM KernelsFlow ==
    ASSUME KernelNetworks, InputEachTime, MaxExecutions <= 2
    PROVE  Spec => ComputesDataFlow
<1>1. Init => Flow!Init
  <2> SUFFICES ASSUME Init PROVE Flow!Init
    OBVIOUS
  <2>1. execution = 0 /\ inputSet = FALSE
    BY DEF Init
  <2>2. Complete = {}
    BY <2>1 DEF Complete
  <2>3. \A n \in DOMAIN Needs : Needs[n] \subseteq DOMAIN Needs
    BY DEF Needs
  <2> QED BY <2>1, <2>2, <2>3 DEF Flow!Init
<1>2. KernelInv => /\ Work = Kernels
                   /\ Needs = [n \in Kernels |-> graph.deps[n] \cap Kernels]
                   /\ Complete = {n \in Kernels : Given(n) /\ Finished(n)}
  BY FlowFacts
<1>3. KernelInv => Complete = {n \in Kernels : Given(n) /\ Finished(n)}
  BY <1>2
<1>4. (KernelInv => Complete = {n \in Kernels : Given(n) /\ Finished(n)})'
  BY <1>3, PTL
<1>5. KernelInv /\ KernelInv' /\ [Next]_vars => [Flow!Next]_(Flow!vars)
  BY <1>2, <1>4, FlowStep
<1> QED BY <1>1, <1>5, KernelInvariance, PTL DEF Spec, ComputesDataFlow, Flow!Spec
=============================================================================
