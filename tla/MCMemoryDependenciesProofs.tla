---------------------- MODULE MCMemoryDependenciesProofs ----------------------
(* What the run of MCMemoryDependencies shows for programs of five           *)
(* primitives, for every program it can grow.                                *)
EXTENDS MCMemoryDependencies, MemoryDependenciesProofs

(* What each property of a state comes from.                                 *)
LEMMA TogetherOfKernels ==
    ASSUME (\A n \in NodesOf(graph) : ~Optimized(graph, n)) => KernelProgram(graph)
    PROVE  LiveTogetherRestricted
<1> SUFFICES ASSUME KernelProgram(graph),
                    NEW p \in NodesOf(graph), NEW q \in NodesOf(graph), Pooled(p), Pooled(q),
                    p # q, LiveIn(p) \cap LiveIn(q) # {}
             PROVE  q \in MemoryDependencies(graph)[p]
  BY DEF LiveTogetherRestricted
<1>1. PICK Q, N : Q = QueueBarriers(graph) /\ N = Len(graph.order)
  OBVIOUS
<1>2. /\ Topological(graph.order, graph.deps) /\ N \in Nat
      /\ \A n \in NodesOf(graph) :
            Number(graph, n) \in 1..N /\ graph.order[Number(graph, n)] = n
  BY <1>1, PositionFacts DEF KernelProgram, Topological, NodesOf, Number
<1>3. \A n \in NodesOf(graph) : Epoch(n) \in Nat
  <2>1. \A i \in 0..N : Q[i] \in 0..i
    BY <1>1, <1>2, QueueBarrierFacts
  <2> SUFFICES ASSUME NEW n \in NodesOf(graph) PROVE Epoch(n) \in Nat
    OBVIOUS
  <2>2. Number(graph, n) \in 0..N
    BY <1>2
  <2> QED BY <1>1, <2>1, <2>2 DEF Epoch
(* Someone still reads m's buffer when r's is written, or a barrier later. *)
<1>4. ASSUME NEW m \in NodesOf(graph), NEW r \in NodesOf(graph),
             LiveIn(m) \cap LiveIn(r) # {}
      PROVE  \E x \in Users(graph, m) \cup {m} : Epoch(r) <= Epoch(x)
  <2> DEFINE E(n) == {Epoch(u) : u \in Users(graph, n) \cup {n}}
  <2>1. \A n \in NodesOf(graph) : /\ E(n) \in SUBSET Nat /\ E(n) # {} /\ IsFiniteSet(E(n))
    <3> TAKE n \in NodesOf(graph)
    <3>1. E(n) \in SUBSET Nat /\ E(n) # {}
      BY <1>3 DEF Users
    <3>2. IsFiniteSet(NodesOf(graph))
      BY <1>2, OrderFinite DEF Topological, NodesOf
    <3>3. IsFiniteSet(Users(graph, n) \cup {n})
      <4>1. Users(graph, n) \cup {n} \in SUBSET NodesOf(graph)
        BY DEF Users
      <4> QED BY <3>2, <4>1, FS_Subset
    <3>4. IsFiniteSet(E(n))
      <4>1. [u \in Users(graph, n) \cup {n} |-> Epoch(u)]
               \in Surjection(Users(graph, n) \cup {n}, E(n))
        BY DEF Surjection
      <4> HIDE DEF E
      <4> QED BY <3>3, <4>1, FS_Surjection
    <3> QED BY <3>1, <3>4
  <2>2. PICK e \in LiveIn(m) : e \in LiveIn(r)
    BY <1>4
  <2>3. Max(E(m)) \in E(m) /\ Max(E(r)) \in E(r)
    <3> HIDE DEF E
    <3> QED BY <2>1, MaxFacts
  <2>4. e \in Epoch(m)..Max(E(m)) /\ e \in Epoch(r)..Max(E(r))
    BY <2>2 DEF LiveIn
  <2>5. PICK x \in Users(graph, m) \cup {m} : Epoch(x) = Max(E(m))
    BY <2>3
  <2>6. Max(E(m)) \in Nat /\ Max(E(r)) \in Nat
    BY <2>1, <2>3
  <2>7. Epoch(r) <= Max(E(m))
    <3> HIDE DEF E
    <3>1. Epoch(m) \in Nat /\ Epoch(r) \in Nat
      BY <1>3
    <3> QED BY <2>4, <2>6, <3>1
  <2> QED BY <2>5, <2>7
<1>5. /\ graph.kind[p] = "gpu" /\ p \notin graph.outputs
      /\ graph.kind[q] = "gpu" /\ q \notin graph.outputs
  BY DEF Pooled
<1>6. /\ \E x \in Users(graph, p) \cup {p} : Q[Number(graph, q)] <= Q[Number(graph, x)]
      /\ \E x \in Users(graph, q) \cup {q} : Q[Number(graph, p)] <= Q[Number(graph, x)]
  BY <1>1, <1>4 DEF Epoch
<1>7. Q = QueueBarriers(graph)
  BY <1>1
<1>8. CASE Number(graph, p) < Number(graph, q)
  BY <1>5, <1>6, <1>7, <1>8, EarlierRestricted
<1>9. CASE Number(graph, q) < Number(graph, p)
  BY <1>5, <1>6, <1>7, <1>9, EarlierRestricted
<1>10. Number(graph, p) < Number(graph, q) \/ Number(graph, q) < Number(graph, p)
  <2>1. Number(graph, p) # Number(graph, q)
    BY <1>2
  <2> QED BY <1>2, <2>1
<1> QED BY <1>8, <1>9, <1>10

LEMMA OrderOfKernels ==
    ASSUME Topological(graph.order, graph.deps)
    PROVE  BfsOrderIsCorrect
<1>1. /\ IsOrder(graph.order, NodesOf(graph))
      /\ \A n \in NodesOf(graph) : \A d \in graph.deps[n] : Number(graph, d) < Number(graph, n)
  BY DEF Topological, NodesOf, Number
<1>2. Len(graph.order) = Cardinality(NodesOf(graph))
  BY <1>1, OrderFinite
<1>3. ToSet(graph.order) = NodesOf(graph)
  BY <1>1 DEF IsOrder, ToSet
<1> QED BY <1>1, <1>2, <1>3 DEF BfsOrderIsCorrect, OrderIsCorrect

-----------------------------------------------------------------------------
(* The nodes added so far, in the order of their names.                      *)
LEMMA AddedFacts ==
    ASSUME NEW k \in 1..Len(Names)
    PROVE  /\ ToSet(Added(k)) = {Names[i] : i \in 1..k}
           /\ IsOrder(Added(k), {Names[i] : i \in 1..k})
           /\ \A i \in 1..k : Position(Added(k), Names[i]) = i
<1>1. /\ Len(Names) \in Nat /\ k \in 1..Len(Names) /\ k \in Nat
      /\ \A i \in 1..Len(Names) : Names[i] \in ToSet(Names)
  BY NamesAssumption DEF ToSet
<1>2. Added(k) = [i \in 1..k |-> Names[i]]
  BY <1>1, NamesAssumption DEF Added
<1>3. PICK a : a = Added(k)
  OBVIOUS
<1>4. Len(a) = k /\ \A i \in 1..k : a[i] = Names[i]
  BY <1>1, <1>2, <1>3
<1>5. a \in Seq({Names[i] : i \in 1..k})
  <2>1. a \in [1..k -> {Names[i] : i \in 1..k}]
    BY <1>2, <1>3
  <2> QED BY <1>1, <2>1
<1>6. \A i, j \in 1..k : Names[i] = Names[j] => i = j
  BY <1>1, NamesAssumption
<1>7. IsOrder(a, {Names[i] : i \in 1..k})
  BY <1>4, <1>5, <1>6 DEF IsOrder
<1>8. ToSet(a) = {Names[i] : i \in 1..k}
  BY <1>4, <1>2, <1>3 DEF ToSet
<1>9. \A i \in 1..k : Position(a, a[i]) = i
  BY <1>4, <1>7, PositionFacts
<1> QED BY <1>3, <1>4, <1>7, <1>8, <1>9

(* The inductive invariant.  The order of names is topological, the compiled *)
(* order is computed from it, and a node reads something exactly when it is  *)
(* a kernel or a crop in place: what the compiler's operators are applied    *)
(* to, which the three properties, all about their results, say nothing of.  *)
GrowingProgram ==
    /\ size \in 1..Len(Names)
    /\ DOMAIN graph.deps = {Names[i] : i \in 1..size}
    /\ Topological(Added(size), graph.deps)
    /\ graph.order = BfsProcessingOrder(Added(size), graph.deps)
    /\ \A n \in DOMAIN graph.deps :
          /\ graph.kind[n] \in {"gpu", "view", "input", "data"}
          /\ graph.kind[n] \in {"gpu", "view"} <=> graph.deps[n] # {}
    /\ graph.outputs = {n \in DOMAIN graph.deps :
                            \A u \in DOMAIN graph.deps : n \notin graph.deps[u]}

LEMMA CompiledFacts ==
    ASSUME NEW nodes, NEW deps, NEW kind
    PROVE  /\ Compiled(nodes, deps, kind).order = BfsProcessingOrder(nodes, deps)
           /\ Compiled(nodes, deps, kind).deps = deps
           /\ Compiled(nodes, deps, kind).kind = kind
           /\ Compiled(nodes, deps, kind).outputs
                 = {n \in DOMAIN deps : \A u \in DOMAIN deps : n \notin deps[u]}
BY DEF Compiled

LEMMA GrowingOrder ==
    ASSUME GrowingProgram
    PROVE  Topological(graph.order, graph.deps)
BY BfsFacts DEF GrowingProgram

LEMMA GrowingIsKernelProgram ==
    ASSUME GrowingProgram, \A n \in NodesOf(graph) : ~Optimized(graph, n)
    PROVE  KernelProgram(graph)
<1>1. PICK order, deps, dist :
         order = Added(size) /\ deps = graph.deps /\ dist = Distances(graph.deps)
  OBVIOUS
<1>2. /\ Topological(order, deps)
      /\ graph.order = BfsProcessingOrder(order, deps)
      /\ \A n \in DOMAIN deps : /\ graph.kind[n] \in {"gpu", "input", "data"}
                                /\ graph.kind[n] = "gpu" <=> deps[n] # {}
  BY <1>1 DEF GrowingProgram, NodesOf, Optimized
<1>3. /\ Topological(graph.order, deps)
      /\ \A m, n \in DOMAIN deps :
            dist[m] < dist[n] => Number(graph, m) < Number(graph, n)
  BY <1>1, <1>2, BfsFacts DEF Number
<1>4. \A n \in DOMAIN deps : /\ dist[n] \in Nat
                             /\ \A d \in deps[n] : d \in DOMAIN deps /\ dist[d] < dist[n]
  BY <1>1, <1>2, DistancesFacts DEF Topological
<1>5. ASSUME NEW n \in DOMAIN deps, deps[n] = {} PROVE dist[n] = 0
  <2>1. Solves(dist, deps)
    BY <1>1, <1>2, DistancesSolve
  <2> QED BY <1>5, <2>1 DEF Solves
<1>6. ASSUME NEW m \in DOMAIN deps, NEW n \in DOMAIN deps, deps[m] = {}, deps[n] # {}
      PROVE  Number(graph, m) < Number(graph, n)
  <2>1. PICK d : d \in deps[n]
    BY <1>6
  <2>2. dist[m] = 0 /\ dist[n] \in Nat /\ dist[d] \in Nat /\ dist[d] < dist[n]
    BY <1>4, <1>5, <1>6, <2>1
  <2>3. dist[m] < dist[n]
    BY <2>2
  <2> QED BY <1>3, <2>3
<1>7. \A n \in NodesOf(graph) : Users(graph, n) = {} => n \in graph.outputs
  BY DEF GrowingProgram, NodesOf, Users
<1> QED BY <1>1, <1>2, <1>3, <1>6, <1>7 DEF KernelProgram, NodesOf

LEMMA InitGrowing == Init => GrowingProgram
<1> SUFFICES ASSUME Init PROVE GrowingProgram
  OBVIOUS
<1>1. PICK deps, kind, leaves :
         /\ leaves = ToSet(Added(Leaves)) /\ deps = [l \in leaves |-> {}]
         /\ kind = [l \in leaves |-> LeafKind[Position(Names, l)]]
         /\ graph = Compiled(Added(Leaves), deps, kind) /\ size = Leaves
  BY DEF Init
<1>2. Leaves \in 1..Len(Names)
  BY LeavesAssumption
<1>3. leaves = {Names[i] : i \in 1..Leaves} /\ IsOrder(Added(Leaves), leaves)
  BY <1>1, <1>2, AddedFacts
<1>4. /\ graph.order = BfsProcessingOrder(Added(size), graph.deps)
      /\ graph.deps = deps /\ graph.kind = kind
      /\ graph.outputs = {n \in DOMAIN deps : \A u \in DOMAIN deps : n \notin deps[u]}
  BY <1>1, CompiledFacts
<1>5. Topological(Added(size), deps)
  BY <1>1, <1>3 DEF Topological
<1>6. \A n \in leaves : kind[n] \in {"input", "data"}
  <2> SUFFICES ASSUME NEW i \in 1..Leaves PROVE kind[Names[i]] \in {"input", "data"}
    BY <1>3
  <2>1. IsOrder(Names, ToSet(Names))
    <3>1. Names \in Seq(ToSet(Names)) /\ ToSet(Names) = {Names[j] : j \in DOMAIN Names}
      BY NamesAssumption DEF ToSet
    <3>2. DOMAIN Names = 1..Len(Names)
      BY <3>1
    <3> QED BY <3>1, <3>2, NamesAssumption DEF IsOrder
  <2>2. i \in 1..Len(Names)
    <3>1. Len(Names) \in Nat
      BY NamesAssumption
    <3> QED BY <1>2, <3>1
  <2>3. Position(Names, Names[i]) = i
    BY <2>1, <2>2, PositionFacts
  <2>4. kind[Names[i]] = LeafKind[i]
    BY <1>1, <1>3, <2>3
  <2> QED BY <2>4, LeavesAssumption
<1>7. DOMAIN deps = leaves /\ \A n \in leaves : deps[n] = {}
  BY <1>1
<1>8. \A n \in DOMAIN deps : /\ kind[n] \in {"gpu", "view", "input", "data"}
                             /\ kind[n] \in {"gpu", "view"} <=> deps[n] # {}
  BY <1>6, <1>7
<1> QED BY <1>1, <1>2, <1>3, <1>4, <1>5, <1>7, <1>8 DEF GrowingProgram

LEMMA StepGrowing == GrowingProgram /\ [Next]_<<graph, size>> => GrowingProgram'
<1> SUFFICES ASSUME GrowingProgram, [Next]_<<graph, size>> PROVE GrowingProgram'
  OBVIOUS
<1>1. CASE UNCHANGED <<graph, size>>
  BY <1>1 DEF GrowingProgram, Added
<1>2. CASE Next
  <2>0. PICK inputs \in SUBSET NodesOf(graph), new \in {"gpu", "view"} :
           inputs # {} /\ AddNode(inputs, new)
    BY <1>2 DEF Next, AddPrimitive, AddOptimizedOut
  <2>1. PICK p, nodes, deps, kind, k :
           /\ p = Names[k] /\ k = size + 1 /\ nodes = NodesOf(graph) \cup {p}
           /\ inputs \in SUBSET NodesOf(graph) /\ inputs # {} /\ new \in {"gpu", "view"}
           /\ deps = [n \in nodes |-> IF n = p THEN inputs ELSE graph.deps[n]]
           /\ kind = [n \in nodes |-> IF n = p THEN new ELSE graph.kind[n]]
           /\ graph' = Compiled(Added(k), deps, kind) /\ size' = k /\ size < Len(Names)
    BY <2>0 DEF AddNode
  <2>2. /\ size \in 1..Len(Names) /\ k \in 1..Len(Names) /\ k = size + 1 /\ size \in Nat
        /\ Len(Names) \in Nat
    BY <2>1, NamesAssumption DEF GrowingProgram
  <2>3. NodesOf(graph) = {Names[i] : i \in 1..size}
    BY DEF GrowingProgram, NodesOf
  <2>4. nodes = {Names[i] : i \in 1..k}
    <3>1. 1..k = (1..size) \cup {k}
      BY <2>2
    <3> QED BY <2>1, <2>3, <3>1
  <2>5. /\ graph'.order = BfsProcessingOrder(Added(k), deps)
        /\ graph'.deps = deps /\ graph'.kind = kind
        /\ graph'.outputs = {n \in DOMAIN deps : \A u \in DOMAIN deps : n \notin deps[u]}
    <3>1. PICK c : c = Compiled(Added(k), deps, kind)
      OBVIOUS
    <3>2. /\ c.order = BfsProcessingOrder(Added(k), deps) /\ c.deps = deps /\ c.kind = kind
          /\ c.outputs = {n \in DOMAIN deps : \A u \in DOMAIN deps : n \notin deps[u]}
      BY <3>1, CompiledFacts
    <3>3. graph' = c
      BY <2>1, <3>1
    <3> QED BY <3>2, <3>3
  <2>6. DOMAIN deps = nodes
    BY <2>1
  <2>7. IsOrder(Added(k), nodes) /\ \A i \in 1..k : Position(Added(k), Names[i]) = i
    BY <2>2, <2>4, AddedFacts
  <2>8. \A i \in 1..size : Position(Added(size), Names[i]) = i
    BY <2>2, AddedFacts
  <2>9. p \notin NodesOf(graph)
    BY <2>1, <2>2, <2>3, NamesAssumption
  <2>10. ASSUME NEW n \in nodes
         PROVE  /\ deps[n] \subseteq NodesOf(graph)
                /\ \A d \in deps[n] : Position(Added(k), d) < Position(Added(k), n)
    <3>1. CASE n = p
      <4>1. deps[n] = inputs /\ Position(Added(k), n) = k
        BY <2>1, <2>2, <2>7, <3>1
      <4>2. \A d \in NodesOf(graph) : Position(Added(k), d) < k
        BY <2>2, <2>3, <2>7
      <4> QED BY <2>1, <4>1, <4>2
    <3>2. CASE n # p
      <4>1. n \in NodesOf(graph) /\ deps[n] = graph.deps[n]
        BY <2>1, <3>2
      <4>2. /\ deps[n] \subseteq NodesOf(graph)
            /\ \A d \in deps[n] : Position(Added(size), d) < Position(Added(size), n)
        BY <4>1 DEF GrowingProgram, Topological, NodesOf
      <4>3. \A d \in NodesOf(graph) : Position(Added(k), d) = Position(Added(size), d)
        BY <2>2, <2>3, <2>7, <2>8
      <4> QED BY <4>1, <4>2, <4>3
    <3> QED BY <3>1, <3>2
  <2>11. Topological(Added(k), deps)
    <3>1. NodesOf(graph) \subseteq nodes
      BY <2>1
    <3> QED BY <2>6, <2>7, <2>10, <3>1 DEF Topological
  <2>12. \A n \in nodes : /\ kind[n] \in {"gpu", "view", "input", "data"}
                          /\ kind[n] \in {"gpu", "view"} <=> deps[n] # {}
    <3> TAKE n \in nodes
    <3>1. CASE n = p
      BY <2>1, <3>1
    <3>2. CASE n # p
      <4>1. n \in NodesOf(graph) /\ deps[n] = graph.deps[n] /\ kind[n] = graph.kind[n]
        BY <2>1, <3>2
      <4> QED BY <4>1 DEF GrowingProgram, NodesOf
    <3> QED BY <3>1, <3>2
  <2>13. size' = k /\ Added(size)' = Added(k)
    BY <2>1 DEF Added
  <2> QED BY <2>2, <2>4, <2>5, <2>6, <2>11, <2>12, <2>13 DEF GrowingProgram
<1> QED BY <1>1, <1>2

LEMMA Growing == Spec => []GrowingProgram
BY InitGrowing, StepGrowing, PTL DEF Spec

(* Every program of kernels and crops in place has, after                    *)
(* calculate_BFS_processing_order, an order of all its nodes that puts every *)
(* dependency first, what nodes_ordering::is_correct asserts.                *)
THEOREM OrderAlwaysCorrect == Spec => []BfsOrderIsCorrect
<1>1. GrowingProgram => BfsOrderIsCorrect
  BY GrowingOrder, OrderOfKernels
<1> QED BY <1>1, Growing, PTL

(* In every such program the restrictions of prepare_memory_dependencies     *)
(* between results that may share a buffer are mutual: the pool may look at  *)
(* those of whichever is allocated last.                                     *)
THEOREM RestrictionsAlwaysMutual == Spec => []RestrictionsMutual
<1>1. RestrictionsMutual
  <2> SUFFICES ASSUME NEW p \in NodesOf(graph), NEW q \in NodesOf(graph),
                      Pooled(p), Pooled(q)
               PROVE  q \in MemoryDependencies(graph)[p] <=> p \in MemoryDependencies(graph)[q]
    BY DEF RestrictionsMutual
  <2>1. MayShare(graph, p) /\ MayShare(graph, q)
    BY DEF Pooled, MayShare, Optimized
  <2> QED BY <2>1, Mutual
<1> QED BY <1>1, PTL

(* In every program of kernels, of any size and shape, whatever order the    *)
(* device takes between two barriers of its queue, two results alive at the  *)
(* same time are restricted from sharing a buffer: the three passes over the *)
(* order (basic, skipped branch, oooq) leave no pair out.                    *)
THEOREM AliveTogetherRestricted == Spec => []LiveTogetherRestricted
<1>1. GrowingProgram => LiveTogetherRestricted
  BY GrowingIsKernelProgram, TogetherOfKernels
<1> QED BY <1>1, Growing, PTL
=============================================================================
