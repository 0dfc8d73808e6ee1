------------------------ MODULE MemoryDependenciesProofs ------------------------
(* The restrictions between two primitives that the pool may give a shared  *)
(* buffer are mutual, whatever the graph: what MemoryPool assumes of the    *)
(* programs it is given, since has_conflict only looks one way.             *)
EXTENDS MemoryDependencies, FiniteSetTheorems, TLAPS

(* Neither optimized out nor an output: its buffer may be shared.           *)
MayShare(g, n) == ~Optimized(g, n) /\ n \notin g.outputs

(* Whatever a pair of calls of add_memory_dependency inserts between two    *)
(* such primitives it inserts in both directions.                           *)
LEMMA BothWaysMutual ==
    ASSUME NEW g, NEW m, NEW d, NEW p, NEW q,
           ~Optimized(g, p), ~Optimized(g, q),
           <<p, q>> \in AddBothWays(g, m, d)
    PROVE  <<q, p>> \in AddBothWays(g, m, d)
<1> DEFINE below(n) == Reached(g)[n]
<1>1. CASE <<p, q>> \in AddMemoryDependency(g, m, d)
  <2>1. CASE Optimized(g, m) \/ ~Optimized(g, d)
    <3>1. p = m /\ q = d
      BY <1>1, <2>1 DEF AddMemoryDependency
    <3> QED
      BY <3>1 DEF AddBothWays, AddMemoryDependency
  <2>2. CASE ~(Optimized(g, m) \/ ~Optimized(g, d))
    <3> HIDE DEF below
    <3>1. AddMemoryDependency(g, m, d)
             = {<<m, x>> : x \in {y \in below(d) : ~Optimized(g, y)}}
               \cup {<<x, m>> : x \in below(d)}
      BY <2>2 DEF AddMemoryDependency, below
    <3>2. \/ p = m /\ q \in below(d)
          \/ q = m /\ p \in below(d)
      BY <1>1, <3>1
    <3> QED
      BY <3>1, <3>2 DEF AddBothWays
  <2> QED
    BY <2>1, <2>2
<1>2. CASE <<p, q>> \in AddMemoryDependency(g, d, m)
  <2>1. CASE Optimized(g, d) \/ ~Optimized(g, m)
    <3>1. p = d /\ q = m
      BY <1>2, <2>1 DEF AddMemoryDependency
    <3> QED
      BY <3>1 DEF AddBothWays, AddMemoryDependency
  <2>2. CASE ~(Optimized(g, d) \/ ~Optimized(g, m))
    <3> HIDE DEF below
    <3>1. AddMemoryDependency(g, d, m)
             = {<<d, x>> : x \in {y \in below(m) : ~Optimized(g, y)}}
               \cup {<<x, d>> : x \in below(m)}
      BY <2>2 DEF AddMemoryDependency, below
    <3>2. \/ p = d /\ q \in below(m)
          \/ q = d /\ p \in below(m)
      BY <1>2, <3>1
    <3> QED
      BY <3>1, <3>2 DEF AddBothWays
  <2> QED
    BY <2>1, <2>2
<1> QED
  BY <1>1, <1>2 DEF AddBothWays

LEMMA PairMutual ==
    ASSUME NEW g, NEW p, NEW q, MayShare(g, p), MayShare(g, q),
           <<p, q>> \in AllMemoryDependencies(g)
    PROVE  <<q, p>> \in AllMemoryDependencies(g)
<1>1. CASE <<p, q>> \in BasicDependencies(g)
  <2> DEFINE nodes == {n \in NodesOf(g) : g.kind[n] # "data"}
             edges == {e \in nodes \X NodesOf(g) : e[2] \in g.deps[e[1]]}
             past(n) == {o \in g.outputs \cap nodes : Number(g, o) < Number(g, n)}
             afterOutput == {r \in nodes \X nodes : r[2] \in past(r[1])}
  <2>1. \E e \in edges : <<p, q>> \in AddBothWays(g, e[1], e[2])
    <3>1. <<p, q>> \notin afterOutput
      BY DEF MayShare
    <3>2. <<p, q>> \in (UNION {AddBothWays(g, e[1], e[2]) : e \in edges}) \cup afterOutput
      BY <1>1, Zenon DEF BasicDependencies
    <3> HIDE DEF afterOutput, edges
    <3>3. <<p, q>> \in UNION {AddBothWays(g, e[1], e[2]) : e \in edges}
      BY ONLY <3>1, <3>2, Zenon
    <3> QED
      BY ONLY <3>3
  <2>2. PICK e \in edges : <<p, q>> \in AddBothWays(g, e[1], e[2])
    BY <2>1
  <2>3. <<q, p>> \in AddBothWays(g, e[1], e[2])
    BY <2>2, BothWaysMutual DEF MayShare
  <2> QED
    BY <2>3 DEF BasicDependencies, AllMemoryDependencies
<1>2. CASE <<p, q>> \in SkippedBranchDependencies(g)
  <2> DEFINE pairs == {r \in NodesOf(g) \X NodesOf(g) : Between(g, r[2], r[1])}
  <2>1. PICK r \in pairs : <<p, q>> \in AddBothWays(g, r[1], r[2])
    BY <1>2 DEF SkippedBranchDependencies
  <2>2. <<q, p>> \in AddBothWays(g, r[1], r[2])
    BY <2>1, BothWaysMutual DEF MayShare
  <2> QED
    BY <2>2 DEF SkippedBranchDependencies, AllMemoryDependencies
<1>3. CASE <<p, q>> \in OooqDependencies(g)
  <2> DEFINE depsOf(region) == UNION {g.deps[n] : n \in region}
             pairs(region) == {r \in region \X region : r[1] # r[2]}
                              \cup (region \X depsOf(region))
  <2>1. PICK region \in SyncRegions(g) : \E r \in pairs(region) :
              <<p, q>> \in AddBothWays(g, r[1], r[2])
    BY <1>3 DEF OooqDependencies
  <2>2. PICK r \in pairs(region) : <<p, q>> \in AddBothWays(g, r[1], r[2])
    BY <2>1
  <2>3. <<q, p>> \in AddBothWays(g, r[1], r[2])
    BY <2>2, BothWaysMutual DEF MayShare
  <2> QED
    BY <2>3 DEF OooqDependencies, AllMemoryDependencies
<1> QED
  BY <1>1, <1>2, <1>3 DEF AllMemoryDependencies

(* For every graph and any two primitives that may get a shared buffer, the *)
(* restriction of one against the other (program_node::memory_dependencies) *)
(* is also that of the other against the one.                               *)
THEOREM Mutual ==
    ASSUME NEW g, NEW p \in NodesOf(g), NEW q \in NodesOf(g),
           MayShare(g, p), MayShare(g, q)
    PROVE  q \in MemoryDependencies(g)[p] <=> p \in MemoryDependencies(g)[q]
<1>1. q \in MemoryDependencies(g)[p] <=> <<p, q>> \in AllMemoryDependencies(g)
  BY DEF MemoryDependencies
<1>2. p \in MemoryDependencies(g)[q] <=> <<q, p>> \in AllMemoryDependencies(g)
  BY DEF MemoryDependencies
<1> QED
  BY <1>1, <1>2, PairMutual

-----------------------------------------------------------------------------
(* Numbers: a nonempty set has a least element, and a greatest if finite.   *)
LEMMA LeastNatural ==
    ASSUME NEW S \in SUBSET Nat, S # {}
    PROVE  \E x \in S : \A y \in S : x <= y
<1>1. \E x \in S : \A y \in S : ~ (<<y, x>> \in OpToRel(<, Nat))
  BY NatLessThanWellFounded, WFMin, Zenon
<1>2. \A x, y \in Nat : y < x => <<y, x>> \in OpToRel(<, Nat)
  BY Zenon DEF OpToRel
<1>3. \A x, y \in Nat : y < x \/ x <= y
  OBVIOUS
<1> HIDE DEF OpToRel
<1> QED BY <1>1, <1>2, <1>3, Zenon

(* What holds at the first position and passes on holds at all of them.     *)
LEMMA Climbs ==
    ASSUME NEW n \in Nat, NEW S, 0 \in S,
           \A i \in 0..n : i # n /\ i \in S => i + 1 \in S
    PROVE  \A i \in 0..n : i \in S
<1> DEFINE B == {i \in 0..n : i \notin S}
<1>1. SUFFICES ASSUME B # {} PROVE FALSE
  OBVIOUS
<1>2. PICK i \in B : \A j \in B : i <= j
  <2>1. B \in SUBSET Nat
    OBVIOUS
  <2> HIDE DEF B
  <2> QED BY <1>1, <2>1, LeastNatural
<1>3. i # 0 /\ i \in 0..n /\ i \notin S
  OBVIOUS
<1>4. i - 1 \in 0..n /\ i - 1 # n /\ i - 1 \notin B /\ (i - 1) + 1 = i
  BY <1>2, <1>3
<1>5. i - 1 \in S
  BY <1>4
<1> QED BY <1>3, <1>4, <1>5

LEMMA MaxExists ==
    ASSUME NEW S \in SUBSET Nat, IsFiniteSet(S), S # {}
    PROVE  \E x \in S : \A y \in S : y <= x
<1> DEFINE Tops(T) == {x \in T : \A y \in T : y <= x}
           B == {T \in SUBSET S : T # {} /\ Tops(T) = {}}
           Sizes == {Cardinality(T) : T \in B}
<1>1. SUFFICES ASSUME B # {} PROVE FALSE
  OBVIOUS
<1>2. \A T \in SUBSET S : IsFiniteSet(T) /\ Cardinality(T) \in Nat
  BY FS_Subset, FS_CardinalityType
<1>3. Sizes \in SUBSET Nat /\ Sizes # {}
  BY <1>1, <1>2
<1>4. PICK c \in Sizes : \A d \in Sizes : c <= d
  <2> HIDE DEF Sizes
  <2> QED BY <1>3, LeastNatural
<1>5. PICK T \in B : c = Cardinality(T)
  OBVIOUS
<1>6. PICK x : x \in T
  OBVIOUS
<1>7. T \in SUBSET S /\ x \in Nat /\ Tops(T) = {}
  BY <1>6
<1> DEFINE U == T \ {x}
<1>8. Cardinality(U) = Cardinality(T) - 1
  BY <1>2, <1>6, <1>7, FS_RemoveElement
<1>9. U \notin B
  <2>1. ASSUME U \in B PROVE FALSE
    <3>1. c <= Cardinality(U)
      BY <1>4, <2>1
    <3> QED BY <1>2, <1>5, <1>7, <1>8, <3>1
  <2> QED BY <2>1
<1>10. CASE U = {}
  <2>1. T = {x}
    BY <1>6, <1>10
  <2> QED BY <1>7, <2>1
<1>11. CASE U # {}
  <2>1. PICK y \in U : \A z \in U : z <= y
    BY <1>7, <1>9, <1>11
  <2>2. y \in T /\ y \in Nat /\ \A z \in T : z <= y \/ z = x
    BY <1>7, <2>1
  <2>3. CASE x <= y
    BY <1>7, <2>2, <2>3
  <2>4. CASE ~(x <= y)
    <3>1. \A z \in T : z <= x
      BY <1>7, <2>2, <2>4
    <3> QED BY <1>6, <1>7, <3>1
  <2> QED BY <2>3, <2>4
<1> QED BY <1>10, <1>11

LEMMA MaxFacts ==
    ASSUME NEW S \in SUBSET Nat, IsFiniteSet(S), S # {}
    PROVE  Max(S) \in S /\ \A y \in S : y <= Max(S)
<1>1. \E x \in S : \A y \in S : x >= y
  BY MaxExists
<1>2. Max(S) \in S /\ \A y \in S : Max(S) >= y
  BY <1>1 DEF Max
<1> QED BY <1>2

-----------------------------------------------------------------------------
(* Orders: every node has its position, and a position has one node.        *)
LEMMA PositionFacts ==
    ASSUME NEW order, NEW S, IsOrder(order, S)
    PROVE  /\ Len(order) \in Nat
           /\ \A n \in S : /\ Position(order, n) \in 1..Len(order)
                           /\ order[Position(order, n)] = n
           /\ \A i \in 1..Len(order) : order[i] \in S /\ Position(order, order[i]) = i
<1>1. \A n \in S : Position(order, n) \in 1..Len(order) /\ order[Position(order, n)] = n
  BY DEF IsOrder, Position
<1>2. \A i \in 1..Len(order) : order[i] \in S
  BY DEF IsOrder
<1>3. \A i, j \in 1..Len(order) : order[i] = order[j] => i = j
  BY DEF IsOrder
<1>4. ASSUME NEW i \in 1..Len(order) PROVE Position(order, order[i]) = i
  <2>1. /\ Position(order, order[i]) \in 1..Len(order)
        /\ order[Position(order, order[i])] = order[i]
    BY <1>1, <1>2
  <2> QED BY ONLY <1>3, <2>1, i \in 1..Len(order)
<1> QED BY <1>1, <1>2, <1>4 DEF IsOrder

LEMMA OrderFinite ==
    ASSUME NEW order, NEW S, IsOrder(order, S)
    PROVE  IsFiniteSet(S) /\ Cardinality(S) = Len(order)
<1>1. Len(order) \in Nat /\ order \in [1..Len(order) -> S]
  BY DEF IsOrder
<1>2. order \in Bijection(1..Len(order), S)
  BY <1>1 DEF IsOrder, Bijection, Injection, Surjection, IsInjective
<1>3. ExistsBijection(1..Len(order), S)
  BY <1>2 DEF ExistsBijection
<1>4. IsFiniteSet(S)
  BY <1>1, <1>3, FS_NatBijection
<1> QED BY <1>1, <1>3, <1>4, FS_CountingElements

-----------------------------------------------------------------------------
(* Distances.  The recursion has a solution, position by position.          *)
Solves(f, deps) ==
    f = [n \in DOMAIN deps |->
            IF deps[n] = {} THEN 0 ELSE 1 + Max({f[d] : d \in deps[n]})]

LEMMA DistancesSolve ==
    ASSUME NEW order, NEW deps, Topological(order, deps)
    PROVE  Solves(Distances(deps), deps) /\ Distances(deps) \in [DOMAIN deps -> Nat]
<1> DEFINE S == DOMAIN deps
           N == Len(order)
           value(f, n) == IF deps[n] = {} THEN 0 ELSE 1 + Max({f[d] : d \in deps[n]})
           upTo(f, k) == /\ f \in [S -> Nat]
                         /\ \A n \in S : Position(order, n) <= k => f[n] = value(f, n)
           K == {k \in 0..N : \E f : upTo(f, k)}
<1>1. /\ N \in Nat /\ IsFiniteSet(S)
      /\ \A n \in S : Position(order, n) \in 1..N
      /\ \A n \in S : /\ deps[n] \subseteq S
                      /\ \A d \in deps[n] : Position(order, d) < Position(order, n)
      /\ \A m, n \in S : Position(order, m) = Position(order, n) => m = n
  <2>1. IsOrder(order, S)
    BY DEF Topological
  <2>2. /\ N \in Nat
        /\ \A n \in S : Position(order, n) \in 1..N /\ order[Position(order, n)] = n
    BY <2>1, PositionFacts
  <2>3. IsFiniteSet(S)
    BY <2>1, OrderFinite
  <2>4. \A m, n \in S : Position(order, m) = Position(order, n) => m = n
    <3> SUFFICES ASSUME NEW m \in S, NEW n \in S, Position(order, m) = Position(order, n)
                 PROVE  m = n
      OBVIOUS
    <3>1. order[Position(order, m)] = m /\ order[Position(order, n)] = n
      BY <2>2
    <3> QED BY <3>1
  <2> QED BY <2>2, <2>3, <2>4 DEF Topological
<1> HIDE DEF N
<1>2. ASSUME NEW f \in [S -> Nat], NEW n \in S
      PROVE  /\ value(f, n) \in Nat
             /\ \A d \in deps[n] : f[d] < value(f, n)
  <2> DEFINE V == {f[d] : d \in deps[n]}
  <2>1. deps[n] \subseteq S
    BY <1>1
  <2>2. V \in SUBSET Nat
    BY <2>1
  <2>3. IsFiniteSet(V)
    <3>1. IsFiniteSet(deps[n])
      BY <1>1, <2>1, FS_Subset
    <3>2. [d \in deps[n] |-> f[d]] \in Surjection(deps[n], V)
      BY DEF Surjection
    <3> QED BY <3>1, <3>2, FS_Surjection
  <2>4. CASE deps[n] = {}
    BY <2>4
  <2>5. CASE deps[n] # {}
    <3>1. V # {}
      BY <2>5
    <3>2. \A d \in deps[n] : f[d] \in V
      OBVIOUS
    <3>3. value(f, n) = 1 + Max(V)
      BY <2>5
    <3>4. Max(V) \in V /\ \A y \in V : y <= Max(V)
      <4> HIDE DEF V
      <4> QED BY <2>2, <2>3, <3>1, MaxFacts
    <3>5. Max(V) \in Nat /\ \A d \in deps[n] : f[d] \in Nat /\ f[d] <= Max(V)
      BY <2>2, <3>2, <3>4
    <3> HIDE DEF V, value
    <3> QED BY <3>3, <3>5
  <2> QED BY <2>4, <2>5
<1>3. 0 \in K
  <2>1. [n \in S |-> 0] \in [S -> Nat]
    OBVIOUS
  <2>2. \A n \in S : ~(Position(order, n) <= 0)
    BY <1>1
  <2>3. upTo([n \in S |-> 0], 0)
    BY <2>1, <2>2
  <2>4. 0 \in 0..N
    BY <1>1
  <2> HIDE DEF upTo
  <2> QED BY <2>3, <2>4
<1>4. ASSUME NEW k \in 0..N, k # N, k \in K PROVE k + 1 \in K
  <2>1. PICK f : upTo(f, k)
    BY <1>4
  <2> DEFINE h == [n \in S |-> IF Position(order, n) = k + 1 THEN value(f, n) ELSE f[n]]
  <2>2. f \in [S -> Nat] /\ \A n \in S : Position(order, n) <= k => f[n] = value(f, n)
    BY <2>1
  <2>3. h \in [S -> Nat]
    <3>1. \A n \in S : value(f, n) \in Nat
      BY <1>2, <2>2
    <3> HIDE DEF value
    <3> QED BY <2>2, <3>1
  <2>4. ASSUME NEW n \in S, Position(order, n) <= k + 1
        PROVE  h[n] = value(h, n)
    <3>1. \A d \in deps[n] : d \in S /\ Position(order, d) < Position(order, n)
      BY <1>1
    <3>2. \A d \in deps[n] : Position(order, d) # k + 1
      <4> TAKE d \in deps[n]
      <4>1. /\ Position(order, d) \in 1..N /\ Position(order, n) \in 1..N
            /\ Position(order, d) < Position(order, n)
        BY <1>1, <3>1
      <4> QED BY <1>1, <2>4, <4>1
    <3>3. \A d \in deps[n] : h[d] = f[d]
      BY <3>1, <3>2
    <3>4. {h[d] : d \in deps[n]} = {f[d] : d \in deps[n]}
      <4> HIDE DEF h
      <4> QED BY <3>3
    <3>5. value(h, n) = value(f, n)
      <4> HIDE DEF h
      <4> QED BY <3>4
    <3>6. CASE Position(order, n) = k + 1
      BY <3>5, <3>6
    <3>7. CASE Position(order, n) # k + 1
      <4>1. Position(order, n) <= k
        BY <1>1, <2>4, <3>7
      <4>2. f[n] = value(f, n)
        BY <2>2, <4>1
      <4>3. h[n] = f[n]
        BY <3>7
      <4> QED BY <3>5, <4>2, <4>3
    <3> QED BY <3>6, <3>7
  <2>5. upTo(h, k + 1)
    <3> HIDE DEF h, value
    <3> QED BY <2>3, <2>4
  <2>6. k + 1 \in 0..N
    BY <1>1, <1>4
  <2> HIDE DEF upTo
  <2> QED BY <2>5, <2>6
<1>5. N \in K
  <2>1. \A i \in 0..N : i \in K
    <3> HIDE DEF K
    <3> QED BY <1>1, <1>3, <1>4, Climbs
  <2>2. N \in 0..N
    BY <1>1
  <2> HIDE DEF K
  <2> QED BY <2>1, <2>2
<1>6. PICK f : upTo(f, N)
  BY <1>5
<1>7. Solves(f, deps)
  <2>1. \A n \in S : f[n] = value(f, n)
    BY <1>1, <1>6
  <2>2. f = [n \in S |-> f[n]]
    BY <1>6
  <2>3. [n \in S |-> f[n]] = [n \in S |-> value(f, n)]
    <3> HIDE DEF value
    <3> QED BY <2>1
  <2> QED BY <2>2, <2>3 DEF Solves
<1>8. Distances(deps) = CHOOSE h : Solves(h, deps)
  BY DEF Distances, Solves
<1>9. Solves(Distances(deps), deps)
  BY <1>7, <1>8
<1>10. ASSUME NEW h, Solves(h, deps) PROVE h \in [S -> Nat]
  <2> DEFINE H == {k \in 0..N : \A n \in S : Position(order, n) <= k => h[n] \in Nat}
  <2>1. \A n \in S : h[n] = value(h, n)
    BY <1>10 DEF Solves
  <2>2. 0 \in H
    BY <1>1
  <2>3. ASSUME NEW k \in 0..N, k # N, k \in H PROVE k + 1 \in H
    <3> SUFFICES ASSUME NEW n \in S, Position(order, n) <= k + 1 PROVE h[n] \in Nat
      BY <1>1, <2>3
    <3> DEFINE trimmed == [m \in S |-> IF h[m] \in Nat THEN h[m] ELSE 0]
    <3>1. trimmed \in [S -> Nat]
      OBVIOUS
    <3>2. \A d \in deps[n] : d \in S /\ Position(order, d) <= k
      BY <1>1, <2>3
    <3>3. \A d \in deps[n] : trimmed[d] = h[d]
      BY <2>3, <3>2
    <3>4. {h[d] : d \in deps[n]} = {trimmed[d] : d \in deps[n]}
      <4> HIDE DEF trimmed
      <4> QED BY <3>3
    <3>5. value(h, n) = value(trimmed, n)
      <4> HIDE DEF trimmed
      <4> QED BY <3>4
    <3>6. value(trimmed, n) \in Nat
      <4> HIDE DEF trimmed
      <4> QED BY <1>2, <3>1
    <3> HIDE DEF value, trimmed
    <3> QED BY <2>1, <3>5, <3>6
  <2>4. \A i \in 0..N : i \in H
    <3> HIDE DEF H
    <3> QED BY <1>1, <2>2, <2>3, Climbs
  <2>5. \A n \in S : h[n] \in Nat
    BY <1>1, <2>4
  <2>6. h = [n \in S |-> h[n]]
    BY <1>10 DEF Solves
  <2> QED BY <2>5, <2>6
<1> QED BY <1>9, <1>10

(* A node is farther than each of its dependencies.                         *)
LEMMA DistancesFacts ==
    ASSUME NEW order, NEW deps, Topological(order, deps)
    PROVE  \A n \in DOMAIN deps :
              /\ Distances(deps)[n] \in Nat
              /\ \A d \in deps[n] : Distances(deps)[d] < Distances(deps)[n]
<1> DEFINE S == DOMAIN deps
<1>1. PICK f : f = Distances(deps)
  OBVIOUS
<1>2. f \in [S -> Nat] /\ Solves(f, deps)
  BY <1>1, DistancesSolve
<1> SUFFICES ASSUME NEW n \in S
             PROVE  f[n] \in Nat /\ \A d \in deps[n] : f[d] < f[n]
  BY <1>1
<1> DEFINE V == {f[d] : d \in deps[n]}
<1>3. f[n] = IF deps[n] = {} THEN 0 ELSE 1 + Max(V)
  BY <1>2 DEF Solves
<1>4. deps[n] \subseteq S /\ IsFiniteSet(S)
  BY OrderFinite DEF Topological
<1>5. V \in SUBSET Nat /\ \A d \in deps[n] : f[d] \in V
  BY <1>2, <1>4
<1>6. IsFiniteSet(V)
  <2>1. IsFiniteSet(deps[n])
    BY <1>4, FS_Subset
  <2>2. [d \in deps[n] |-> f[d]] \in Surjection(deps[n], V)
    BY DEF Surjection
  <2> QED BY <2>1, <2>2, FS_Surjection
<1>7. CASE deps[n] = {}
  BY <1>2, <1>7
<1>8. CASE deps[n] # {}
  <2>1. V # {}
    BY <1>8
  <2> HIDE DEF V
  <2>2. Max(V) \in V /\ \A y \in V : y <= Max(V)
    BY <1>5, <1>6, <2>1, MaxFacts
  <2>3. f[n] = 1 + Max(V) /\ Max(V) \in Nat
    BY <1>3, <1>5, <1>8, <2>2
  <2>4. \A d \in deps[n] : f[d] \in Nat /\ f[d] <= Max(V)
    BY <1>5, <2>2
  <2> QED BY <1>2, <2>3, <2>4
<1> QED BY <1>7, <1>8

-----------------------------------------------------------------------------
(* Sorting a topological order by distance loses and repeats nothing.        *)
LEMMA BfsFacts ==
    ASSUME NEW order, NEW deps, Topological(order, deps)
    PROVE  /\ Topological(BfsProcessingOrder(order, deps), deps)
           /\ \A m, n \in DOMAIN deps : Distances(deps)[m] < Distances(deps)[n] =>
                 Position(BfsProcessingOrder(order, deps), m)
                    < Position(BfsProcessingOrder(order, deps), n)
<1> DEFINE S == DOMAIN deps
           N == Len(order)
           dist == Distances(deps)
           pos(n) == Position(order, n)
           before(n) == {m \in S : \/ dist[m] < dist[n]
                                   \/ dist[m] = dist[n] /\ pos(m) < pos(n)}
           rank(n) == Cardinality(before(n))
           b == BfsProcessingOrder(order, deps)
<1>1. /\ N \in Nat /\ IsFiniteSet(S) /\ Cardinality(S) = N
      /\ \A n \in S : pos(n) \in 1..N
      /\ \A m, n \in S : pos(m) = pos(n) => m = n
  <2>1. IsOrder(order, S)
    BY DEF Topological
  <2>2. /\ N \in Nat
        /\ \A n \in S : pos(n) \in 1..N /\ order[pos(n)] = n
    BY <2>1, PositionFacts
  <2>3. IsFiniteSet(S) /\ Cardinality(S) = N
    BY <2>1, OrderFinite
  <2>4. \A m, n \in S : pos(m) = pos(n) => m = n
    <3> SUFFICES ASSUME NEW m \in S, NEW n \in S, pos(m) = pos(n) PROVE m = n
      OBVIOUS
    <3>1. order[pos(m)] = m /\ order[pos(n)] = n
      BY <2>2
    <3> HIDE DEF pos
    <3> QED BY <3>1
  <2> QED BY <2>2, <2>3, <2>4
<1>2. \A n \in S : dist[n] \in Nat /\ \A d \in deps[n] : dist[d] < dist[n]
  BY DistancesFacts
<1>3. b = [i \in 1..N |-> CHOOSE n \in S : rank(n) = i - 1]
  BY DEF BfsProcessingOrder
<1> HIDE DEF N, dist, pos, b
<1>4. ASSUME NEW n \in S
      PROVE  /\ IsFiniteSet(before(n)) /\ rank(n) \in 0..(N - 1)
             /\ n \notin before(n)
  <2>1. before(n) \in SUBSET S /\ n \notin before(n)
    BY <1>1, <1>2
  <2>2. before(n) \in SUBSET (S \ {n})
    BY <2>1
  <2>3. IsFiniteSet(S \ {n}) /\ Cardinality(S \ {n}) = N - 1
    BY <1>1, FS_RemoveElement
  <2> HIDE DEF before
  <2>4. IsFiniteSet(before(n)) /\ rank(n) <= N - 1
    BY <2>2, <2>3, FS_Subset
  <2>5. rank(n) \in Nat
    BY <2>4, FS_CardinalityType
  <2> HIDE DEF rank
  <2> QED BY <1>1, <2>1, <2>4, <2>5
<1>5. ASSUME NEW m \in S, NEW n \in S, m \in before(n)
      PROVE  rank(m) < rank(n)
  <2>1. before(m) \in SUBSET before(n)
    <3> SUFFICES ASSUME NEW x \in before(m) PROVE x \in before(n)
      OBVIOUS
    <3>1. /\ dist[x] \in Nat /\ dist[m] \in Nat /\ dist[n] \in Nat
          /\ pos(x) \in 1..N /\ pos(m) \in 1..N /\ pos(n) \in 1..N /\ x \in S
      BY <1>1, <1>2
    <3> QED BY <1>1, <1>5, <3>1
  <2>2. m \in before(n) /\ m \notin before(m)
    BY <1>4, <1>5
  <2>3. IsFiniteSet(before(n)) /\ rank(m) \in 0..(N - 1) /\ rank(n) \in 0..(N - 1)
    BY <1>4
  <2> HIDE DEF before
  <2>4. rank(m) <= rank(n) /\ (rank(n) = rank(m) => before(n) = before(m))
    BY <2>1, <2>3, FS_Subset
  <2>5. rank(m) # rank(n)
    BY <2>2, <2>4
  <2> HIDE DEF rank
  <2> QED BY <1>1, <2>3, <2>4, <2>5
<1>6. \A m, n \in S : rank(m) = rank(n) => m = n
  <2> SUFFICES ASSUME NEW m \in S, NEW n \in S, m # n PROVE rank(m) # rank(n)
    OBVIOUS
  <2>1. rank(m) \in 0..(N - 1) /\ rank(n) \in 0..(N - 1)
    BY <1>4
  <2>2. m \in before(n) \/ n \in before(m)
    <3>1. /\ dist[m] \in Nat /\ dist[n] \in Nat
          /\ pos(m) \in 1..N /\ pos(n) \in 1..N /\ pos(m) # pos(n)
      BY <1>1, <1>2
    <3> QED BY <1>1, <3>1
  <2> HIDE DEF rank, before
  <2>3. rank(m) < rank(n) \/ rank(n) < rank(m)
    BY <1>5, <2>2
  <2> QED BY <1>1, <2>1, <2>3
<1>7. \A i \in 1..N : \E n \in S : rank(n) = i - 1
  <2> DEFINE f == [n \in S |-> rank(n)]
             T == 0..(N - 1)
  <2>1. f \in Injection(S, T)
    <3> HIDE DEF rank
    <3> QED BY <1>4, <1>6 DEF Injection, IsInjective
  <2>2. IsFiniteSet(T) /\ Cardinality(T) = N
    BY <1>1, FS_Interval
  <2>3. f \in Surjection(S, T)
    <3> HIDE DEF f, T
    <3> QED BY <1>1, <2>1, <2>2, FS_Injection
  <2> SUFFICES ASSUME NEW i \in 1..N PROVE \E n \in S : rank(n) = i - 1
    OBVIOUS
  <2>4. i - 1 \in T
    BY <1>1
  <2>5. \E n \in S : f[n] = i - 1
    <3> HIDE DEF f, T
    <3> QED BY <2>3, <2>4 DEF Surjection
  <2> HIDE DEF rank
  <2> QED BY <2>5
<1>8. \A i \in 1..N : b[i] \in S /\ rank(b[i]) = i - 1
  <2> TAKE i \in 1..N
  <2>1. b[i] = CHOOSE n \in S : rank(n) = i - 1
    BY <1>3
  <2> HIDE DEF rank
  <2> QED BY <1>7, <2>1
<1>9. b \in Seq(S) /\ Len(b) = N
  <2>1. b \in [1..N -> S]
    BY <1>3, <1>8
  <2> QED BY <1>1, <2>1
<1>10. ASSUME NEW n \in S PROVE rank(n) + 1 \in 1..N /\ b[rank(n) + 1] = n
  <2>1. rank(n) \in 0..(N - 1)
    BY <1>4
  <2> HIDE DEF rank
  <2>2. rank(n) + 1 \in 1..N /\ (rank(n) + 1) - 1 = rank(n)
    BY <1>1, <2>1
  <2>3. b[rank(n) + 1] \in S /\ rank(b[rank(n) + 1]) = rank(n)
    BY <1>8, <2>2
  <2> QED BY <1>6, <2>2, <2>3
<1>11. IsOrder(b, S)
  <2>1. \A i, j \in 1..N : b[i] = b[j] => i = j
    <3> SUFFICES ASSUME NEW i \in 1..N, NEW j \in 1..N, b[i] = b[j] PROVE i = j
      OBVIOUS
    <3>1. rank(b[i]) = i - 1 /\ rank(b[j]) = j - 1
      BY <1>8
    <3> HIDE DEF rank
    <3> QED BY <1>1, <3>1
  <2> HIDE DEF rank
  <2> QED BY <1>9, <1>10, <2>1 DEF IsOrder
<1>12. \A n \in S : Position(b, n) = rank(n) + 1
  <2> TAKE n \in S
  <2>1. Position(b, b[rank(n) + 1]) = rank(n) + 1
    <3> HIDE DEF rank
    <3> QED BY <1>9, <1>10, <1>11, PositionFacts
  <2> HIDE DEF rank
  <2> QED BY <1>10, <2>1
<1>13. \A m, n \in S : dist[m] < dist[n] => Position(b, m) < Position(b, n)
  <2> SUFFICES ASSUME NEW m \in S, NEW n \in S, dist[m] < dist[n]
               PROVE  Position(b, m) < Position(b, n)
    OBVIOUS
  <2>1. m \in before(n)
    OBVIOUS
  <2>2. rank(m) < rank(n) /\ rank(m) \in 0..(N - 1) /\ rank(n) \in 0..(N - 1)
    BY <1>4, <1>5, <2>1
  <2>3. Position(b, m) = rank(m) + 1 /\ Position(b, n) = rank(n) + 1
    BY <1>12
  <2> HIDE DEF rank
  <2> QED BY <1>1, <2>2, <2>3
<1>14. \A n \in S : /\ deps[n] \subseteq S
                     /\ \A d \in deps[n] : Position(b, d) < Position(b, n)
  <2> TAKE n \in S
  <2>1. deps[n] \subseteq S
    BY DEF Topological
  <2> QED BY <1>2, <1>13, <2>1
<1> QED BY <1>11, <1>13, <1>14 DEF Topological, b, dist

(* The recalculated order (nodes_ordering::calculate_BFS_processing_order)  *)
(* is again an order of all nodes with every dependency before its users:   *)
(* bucket sorting a topological order by distance loses and repeats nothing.*)
THEOREM BfsTopological ==
    ASSUME NEW order, NEW deps, Topological(order, deps)
    PROVE  Topological(BfsProcessingOrder(order, deps), deps)
BY BfsFacts

-----------------------------------------------------------------------------
(* The barriers of the compiler's own count (oooq_memory_dependencies).     *)
IsLast(f, g) ==
    f = [i \in 0..Len(g.order) |->
            IF i = 0 THEN 0
            ELSE IF \E d \in g.deps[g.order[i]] : Number(g, d) >= f[i - 1] THEN i
            ELSE f[i - 1]]

LEMMA LastBarrierSolves ==
    ASSUME NEW g, Topological(g.order, g.deps)
    PROVE  IsLast(LastBarrier(g), g)
<1> DEFINE N == Len(g.order)
           broken(i, l) == \E d \in g.deps[g.order[i]] : Number(g, d) >= l
           value(f, i) == IF i = 0 THEN 0 ELSE IF broken(i, f[i - 1]) THEN i ELSE f[i - 1]
           upTo(f, k) == f \in [0..N -> Nat] /\ \A i \in 0..k : f[i] = value(f, i)
           K == {k \in 0..N : \E f : upTo(f, k)}
<1>1. N \in Nat
  BY PositionFacts DEF Topological
<1> HIDE DEF N, broken
<1>2. 0 \in K
  <2>1. [i \in 0..N |-> 0] \in [0..N -> Nat]
    OBVIOUS
  <2>2. upTo([i \in 0..N |-> 0], 0)
    BY <1>1, <2>1
  <2>3. 0 \in 0..N
    BY <1>1
  <2> HIDE DEF upTo
  <2> QED BY <2>2, <2>3
<1>3. ASSUME NEW k \in 0..N, k # N, k \in K PROVE k + 1 \in K
  <2>1. PICK f : upTo(f, k)
    BY <1>3
  <2> DEFINE h == [f EXCEPT ![k + 1] = value(f, k + 1)]
  <2>2. f \in [0..N -> Nat] /\ \A i \in 0..k : f[i] = value(f, i)
    BY <2>1
  <2>3. k + 1 \in 0..N /\ k \in 0..N /\ k \in Nat /\ (k + 1) - 1 = k /\ k + 1 # 0
    BY <1>1, <1>3
  <2>4. value(f, k + 1) \in Nat
    <3>1. f[k] \in Nat
      BY <2>2, <2>3
    <3> QED BY <2>3, <3>1
  <2>5. h \in [0..N -> Nat] /\ h[k + 1] = value(f, k + 1)
        /\ \A i \in 0..N : i # k + 1 => h[i] = f[i]
    <3> HIDE DEF value
    <3> QED BY <2>2, <2>3, <2>4
  <2> HIDE DEF h
  <2>6. ASSUME NEW i \in 0..(k + 1) PROVE h[i] = value(h, i)
    <3>1. CASE i = 0
      <4>1. 0 \in 0..k /\ 0 \in 0..N /\ 0 # k + 1
        BY <1>1, <2>3
      <4>2. f[0] = 0
        BY <2>2, <4>1
      <4>3. h[0] = f[0]
        BY <2>5, <4>1
      <4> QED BY <3>1, <4>2, <4>3
    <3>2. CASE i # 0
      <4>1. i - 1 \in 0..N /\ i - 1 # k + 1 /\ i \in 0..N
        BY <1>1, <2>3, <3>2
      <4>2. h[i - 1] = f[i - 1]
        BY <2>5, <4>1
      <4>3. value(h, i) = value(f, i)
        BY <4>2
      <4>4. CASE i = k + 1
        <5> HIDE DEF value
        <5> QED BY <2>5, <4>3, <4>4
      <4>5. CASE i # k + 1
        <5>1. i \in 0..k
          BY <2>3, <4>5
        <5> HIDE DEF value
        <5> QED BY <2>2, <2>5, <4>1, <4>3, <4>5, <5>1
      <4> QED BY <4>4, <4>5
    <3> QED BY <3>1, <3>2
  <2>7. upTo(h, k + 1)
    <3> HIDE DEF value
    <3> QED BY <2>5, <2>6
  <2> HIDE DEF upTo
  <2> QED BY <2>3, <2>7
<1>4. N \in K
  <2>1. \A i \in 0..N : i \in K
    <3> HIDE DEF K
    <3> QED BY <1>1, <1>2, <1>3, Climbs
  <2>2. N \in 0..N
    BY <1>1
  <2> HIDE DEF K
  <2> QED BY <2>1, <2>2
<1>5. PICK f : upTo(f, N)
  BY <1>4
<1>6. IsLast(f, g)
  <2>1. f = [i \in 0..N |-> f[i]]
    BY <1>5
  <2>2. [i \in 0..N |-> f[i]] = [i \in 0..N |-> value(f, i)]
    <3>1. \A i \in 0..N : f[i] = value(f, i)
      BY <1>5
    <3> HIDE DEF value
    <3> QED BY <3>1
  <2>3. f = [i \in 0..N |-> value(f, i)]
    <3> HIDE DEF value
    <3> QED BY <2>1, <2>2
  <2> QED BY <2>3 DEF IsLast, N, broken
<1>7. LastBarrier(g) = CHOOSE h : IsLast(h, g)
  BY DEF LastBarrier, IsLast
<1> QED BY <1>6, <1>7

(* A barrier's number is that of the node it comes before; the numbers grow *)
(* along the order; and there is one between a dependency and its user.     *)
LEMMA LastBarrierFacts ==
    ASSUME NEW g, Topological(g.order, g.deps), NEW L, L = LastBarrier(g),
           NEW N, N = Len(g.order)
    PROVE  /\ N \in Nat
           /\ L[0] = 0
           /\ \A i \in 1..N :
                 L[i] = IF \E d \in g.deps[g.order[i]] : Number(g, d) >= L[i - 1]
                        THEN i ELSE L[i - 1]
           /\ \A i \in 0..N : L[i] \in 0..i
           /\ \A i, j \in 0..N : i <= j => L[i] <= L[j]
           /\ \A i \in 0..N : L[L[i]] = L[i]
           /\ \A n \in NodesOf(g) : \A d \in g.deps[n] : Number(g, d) < L[Number(g, n)]
<1>1. N \in Nat
  BY PositionFacts DEF Topological
<1>2. L = [i \in 0..N |->
            IF i = 0 THEN 0
            ELSE IF \E d \in g.deps[g.order[i]] : Number(g, d) >= L[i - 1] THEN i
            ELSE L[i - 1]]
  BY LastBarrierSolves DEF IsLast
<1> DEFINE broken(i) == \E d \in g.deps[g.order[i]] : Number(g, d) >= L[i - 1]
<1> HIDE DEF broken
<1>3. /\ L[0] = 0
      /\ \A i \in 1..N : L[i] = IF broken(i) THEN i ELSE L[i - 1]
  <2>1. \A i \in 0..N : L[i] = IF i = 0 THEN 0
            ELSE IF \E d \in g.deps[g.order[i]] : Number(g, d) >= L[i - 1] THEN i
            ELSE L[i - 1]
    BY <1>2
  <2>2. \A i \in 0..N : L[i] = IF i = 0 THEN 0 ELSE IF broken(i) THEN i ELSE L[i - 1]
    BY ONLY <2>1 DEF broken
  <2> QED BY <1>1, <2>2
<1>4. \A i \in 0..N : L[i] \in 0..i /\ L[L[i]] = L[i]
  <2> DEFINE S == {i \in 0..N : L[i] \in 0..i /\ L[L[i]] = L[i]}
  <2>1. 0 \in S
    BY <1>1, <1>3
  <2>2. ASSUME NEW i \in 0..N, i # N, i \in S PROVE i + 1 \in S
    <3>1. i + 1 \in 1..N /\ (i + 1) - 1 = i /\ i \in Nat
      BY <1>1, <2>2
    <3>2. L[i + 1] = i + 1 \/ L[i + 1] = L[i]
      BY <1>3, <3>1
    <3>3. L[i] \in 0..i /\ L[L[i]] = L[i]
      BY <2>2
    <3> QED BY <1>1, <3>1, <3>2, <3>3
  <2>3. \A i \in 0..N : i \in S
    <3> HIDE DEF S
    <3> QED BY <1>1, <2>1, <2>2, Climbs
  <2> QED BY <2>3
<1>5. \A i, j \in 0..N : i <= j => L[i] <= L[j]
  <2> SUFFICES ASSUME NEW i \in 0..N PROVE \A j \in 0..N : i <= j => L[i] <= L[j]
    OBVIOUS
  <2> DEFINE S == {j \in 0..N : i <= j => L[i] <= L[j]}
  <2>1. 0 \in S
    BY <1>1, <1>3
  <2>2. ASSUME NEW j \in 0..N, j # N, j \in S PROVE j + 1 \in S
    <3>1. j + 1 \in 1..N /\ (j + 1) - 1 = j /\ j \in Nat /\ j + 1 \in 0..N
      BY <1>1, <2>2
    <3>2. L[j + 1] = j + 1 \/ L[j + 1] = L[j]
      BY <1>3, <3>1
    <3>3. L[i] \in 0..i /\ L[j] \in 0..j /\ L[j + 1] \in 0..(j + 1)
      BY <1>4, <3>1
    <3>4. CASE i <= j
      <4>1. L[i] <= L[j]
        BY <2>2, <3>4
      <4> QED BY <3>1, <3>2, <3>3, <4>1
    <3>5. CASE i = j + 1
      BY <3>1, <3>3, <3>5
    <3>6. CASE i > j + 1
      BY <3>1, <3>6
    <3> QED BY <3>1, <3>4, <3>5, <3>6
  <2>3. \A j \in 0..N : j \in S
    <3> HIDE DEF S
    <3> QED BY <1>1, <2>1, <2>2, Climbs
  <2> QED BY <2>3
<1>6. ASSUME NEW n \in NodesOf(g), NEW d \in g.deps[n]
      PROVE  Number(g, d) < L[Number(g, n)]
  <2> DEFINE i == Number(g, n)
  <2>1. /\ i \in 1..N /\ g.order[i] = n /\ d \in NodesOf(g)
        /\ Number(g, d) \in 1..N /\ Number(g, d) < i
    BY PositionFacts DEF Topological, NodesOf, Number
  <2> HIDE DEF i
  <2>2. CASE broken(i)
    BY <1>3, <2>1, <2>2 DEF i
  <2>3. CASE ~broken(i)
    <3>1. ~(Number(g, d) >= L[i - 1])
      BY <2>1, <2>3 DEF broken
    <3>2. L[i] = L[i - 1] /\ i - 1 \in 0..N
      BY <1>1, <1>3, <2>1, <2>3
    <3>3. L[i - 1] \in Int
      BY <1>4, <3>2
    <3> QED BY <2>1, <3>1, <3>2, <3>3 DEF i
  <2> QED BY <2>2, <2>3
<1> QED BY <1>1, <1>3, <1>4, <1>5, <1>6 DEF broken

-----------------------------------------------------------------------------
(* Two results that can be alive together are restricted.  The second may   *)
(* be a user of the first (basic), stand between the first and a user of it *)
(* (skipped branch), or lie between the same two barriers as the first or a *)
(* reader of it (out-of-order queue).  The region behind the last barrier,  *)
(* which the code never looks at, holds no result that anyone uses.         *)
LEMMA MetRestricted ==
    ASSUME NEW g, Topological(g.order, g.deps), NEW L, L = LastBarrier(g),
           NEW p \in NodesOf(g), NEW q \in NodesOf(g),
           MayShare(g, p), MayShare(g, q), g.kind[q] # "data", Users(g, q) # {},
           Number(g, p) < Number(g, q),
           \/ p \in g.deps[q]
           \/ \E u \in Users(g, p) : Number(g, q) < Number(g, u)
           \/ \E x \in Users(g, p) \cup {p} : L[Number(g, x)] = L[Number(g, q)]
    PROVE  <<q, p>> \in AllMemoryDependencies(g)
<1> DEFINE N == Len(g.order)
<1>1. <<q, p>> \in AddBothWays(g, q, p)
  BY DEF AddBothWays, AddMemoryDependency, MayShare
<1>2. CASE p \in g.deps[q]
  <2> DEFINE nodes == {n \in NodesOf(g) : g.kind[n] # "data"}
             edges == {e \in nodes \X NodesOf(g) : e[2] \in g.deps[e[1]]}
  <2>1. <<q, p>> \in edges
    BY <1>2
  <2>2. <<q, p>> \in UNION {AddBothWays(g, e[1], e[2]) : e \in edges}
    <3> HIDE DEF edges
    <3> QED BY <1>1, <2>1
  <2> QED BY <2>2 DEF BasicDependencies, AllMemoryDependencies
<1>3. CASE \E u \in Users(g, p) : Number(g, q) < Number(g, u)
  <2> DEFINE pairs == {r \in NodesOf(g) \X NodesOf(g) : Between(g, r[2], r[1])}
  <2>1. <<q, p>> \in pairs
    BY <1>3 DEF Between
  <2>2. <<q, p>> \in UNION {AddBothWays(g, r[1], r[2]) : r \in pairs}
    <3> HIDE DEF pairs
    <3> QED BY <1>1, <2>1
  <2> QED BY <2>2 DEF SkippedBranchDependencies, AllMemoryDependencies
<1>4. CASE \E x \in Users(g, p) \cup {p} : L[Number(g, x)] = L[Number(g, q)]
  <2>1. PICK x \in Users(g, p) \cup {p} : L[Number(g, x)] = L[Number(g, q)]
    BY <1>4
  <2>2. PICK u : u \in NodesOf(g) /\ q \in g.deps[u]
    BY DEF Users
  <2>3. /\ N \in Nat
        /\ \A n \in NodesOf(g) : Number(g, n) \in 1..N /\ g.order[Number(g, n)] = n
    BY PositionFacts DEF Topological, NodesOf, Number
  <2>4. /\ \A i \in 0..N : L[i] \in 0..i
        /\ \A i, j \in 0..N : i <= j => L[i] <= L[j]
        /\ Number(g, q) < L[Number(g, u)]
    BY <2>2, LastBarrierFacts
  <2> HIDE DEF N
  <2>5. PICK b, i, j, k : /\ b = L[Number(g, q)] /\ i = Number(g, q)
                          /\ j = Number(g, u) /\ k = Number(g, x)
    OBVIOUS
  <2>6. x \in NodesOf(g)
    BY DEF Users
  <2>7. /\ i \in 1..N /\ j \in 1..N /\ k \in 1..N
        /\ g.order[i] = q /\ g.order[k] = x /\ L[i] = b /\ L[k] = b
    BY <2>1, <2>2, <2>3, <2>5, <2>6
  <2>8. b # L[N]
    <3>1. b \in 0..i /\ i < L[j] /\ L[j] <= L[N] /\ L[j] \in 0..j /\ L[N] \in 0..N
      BY <2>3, <2>4, <2>5, <2>7
    <3> QED BY <2>3, <2>7, <3>1
  <2> DEFINE region == {g.order[m] : m \in {l \in 1..N : L[l] = b}}
  <2>9. region \in SyncRegions(g)
    <3>1. b \in {L[l] : l \in 1..N} \ {L[N]}
      BY <2>7, <2>8
    <3> QED BY SMTT(60), <3>1 DEF SyncRegions, N
  <2>10. q \in region /\ x \in region
    BY <2>7
  <2> HIDE DEF region
  <2> DEFINE depsOf(r) == UNION {g.deps[n] : n \in r}
             pairs(r) == {e \in r \X r : e[1] # e[2]} \cup (r \X depsOf(r))
  <2>11. <<q, p>> \in pairs(region)
    <3>1. CASE x = p
      <4>1. q # p
        BY <2>3
      <4> QED BY <2>10, <3>1, <4>1
    <3>2. CASE x # p
      <4>1. p \in g.deps[x]
        BY <3>2 DEF Users
      <4>2. p \in depsOf(region)
        BY <2>10, <4>1
      <4> QED BY <2>10, <4>2
    <3> QED BY <3>1, <3>2
  <2>12. <<q, p>> \in UNION {AddBothWays(g, e[1], e[2]) : e \in pairs(region)}
    <3> HIDE DEF pairs
    <3> QED BY <1>1, <2>11
  <2>13. <<q, p>> \in OooqDependencies(g)
    BY <2>9, <2>12 DEF OooqDependencies
  <2> QED BY <2>13 DEF AllMemoryDependencies
<1> QED BY <1>2, <1>3, <1>4

(* ... and so is each of the other, whichever of them is allocated first.   *)
THEOREM TogetherRestricted ==
    ASSUME NEW g, Topological(g.order, g.deps), NEW L, L = LastBarrier(g),
           NEW p \in NodesOf(g), NEW q \in NodesOf(g),
           MayShare(g, p), MayShare(g, q), g.kind[q] # "data", Users(g, q) # {},
           Number(g, p) < Number(g, q),
           \/ p \in g.deps[q]
           \/ \E u \in Users(g, p) : Number(g, q) < Number(g, u)
           \/ \E x \in Users(g, p) \cup {p} : L[Number(g, x)] = L[Number(g, q)]
    PROVE  q \in MemoryDependencies(g)[p] /\ p \in MemoryDependencies(g)[q]
<1>1. <<q, p>> \in AllMemoryDependencies(g)
  BY MetRestricted
<1>2. p \in MemoryDependencies(g)[q]
  BY <1>1 DEF MemoryDependencies
<1> QED BY <1>2, Mutual

-----------------------------------------------------------------------------
(* A compiled program of kernels: leaves first, every kernel reads something *)
(* and only leaves read nothing; a kernel nobody uses is an output.          *)
KernelProgram(g) ==
    /\ Topological(g.order, g.deps)
    /\ \A n \in NodesOf(g) : /\ g.kind[n] \in {"gpu", "input", "data"}
                             /\ g.kind[n] = "gpu" <=> g.deps[n] # {}
    /\ \A m, n \in NodesOf(g) :
           g.kind[m] # "gpu" /\ g.kind[n] = "gpu" => Number(g, m) < Number(g, n)
    /\ \A n \in NodesOf(g) : g.kind[n] = "gpu" /\ Users(g, n) = {} => n \in g.outputs

-----------------------------------------------------------------------------
(* The barriers of the queue, by the kernels alone.                          *)
LEMMA QueueBarrierFacts ==
    ASSUME NEW g, Topological(g.order, g.deps), NEW Q, Q = QueueBarriers(g),
           NEW N, N = Len(g.order)
    PROVE  /\ Q[0] = 0
           /\ \A i \in 1..N :
                 Q[i] = IF \E d \in g.deps[g.order[i]] :
                              g.kind[d] = "gpu" /\ Number(g, d) >= Q[i - 1]
                        THEN i ELSE Q[i - 1]
           /\ \A i \in 0..N : Q[i] \in 0..i
           /\ \A i, j \in 0..N : i <= j => Q[i] <= Q[j]
           /\ \A n \in NodesOf(g) : \A d \in g.deps[n] :
                 g.kind[d] = "gpu" => Number(g, d) < Q[Number(g, n)]
<1>1. PICK h : h = KernelsOnly(g)
  OBVIOUS
<1>2. /\ h.order = g.order /\ DOMAIN h.deps = NodesOf(g)
      /\ \A n \in NodesOf(g) : h.deps[n] = {d \in g.deps[n] : g.kind[d] = "gpu"}
  BY <1>1 DEF KernelsOnly
<1>3. Topological(h.order, h.deps)
  BY <1>2 DEF Topological, NodesOf
<1>4. Q = LastBarrier(h)
  BY <1>1 DEF QueueBarriers
<1>5. /\ Q[0] = 0
      /\ \A i \in 1..N :
            Q[i] = IF \E d \in h.deps[h.order[i]] : Number(h, d) >= Q[i - 1]
                   THEN i ELSE Q[i - 1]
      /\ \A i \in 0..N : Q[i] \in 0..i
      /\ \A i, j \in 0..N : i <= j => Q[i] <= Q[j]
      /\ \A n \in NodesOf(h) : \A d \in h.deps[n] : Number(h, d) < Q[Number(h, n)]
  BY <1>2, <1>3, <1>4, LastBarrierFacts
<1>6. \A n : Number(h, n) = Number(g, n)
  BY <1>2 DEF Number
<1>7. \A i \in 1..N : g.order[i] \in NodesOf(g)
  BY PositionFacts DEF Topological, NodesOf
<1>8. NodesOf(h) = NodesOf(g)
  BY <1>2 DEF NodesOf
<1>9. ASSUME NEW i \in 1..N
      PROVE  (\E d \in h.deps[h.order[i]] : Number(h, d) >= Q[i - 1])
             <=> (\E d \in g.deps[g.order[i]] : g.kind[d] = "gpu" /\ Number(g, d) >= Q[i - 1])
  BY <1>2, <1>6, <1>7
<1>10. ASSUME NEW n \in NodesOf(g), NEW d \in g.deps[n], g.kind[d] = "gpu"
       PROVE  Number(g, d) < Q[Number(g, n)]
  <2>1. d \in h.deps[n] /\ n \in NodesOf(h)
    BY <1>2, <1>8, <1>10
  <2> QED BY <1>5, <1>6, <2>1
<1> QED BY <1>5, <1>9, <1>10

(* The barriers of the queue and those the compiler counts with delimit the  *)
(* same kernels: they only differ in front of the first kernel, where the    *)
(* compiler also counts one for reading an input.                            *)
LEMMA SameBarriers ==
    ASSUME NEW g, KernelProgram(g), NEW L, L = LastBarrier(g),
           NEW Q, Q = QueueBarriers(g), NEW N, N = Len(g.order)
    PROVE  \A i \in 0..N :
              \/ Q[i] = L[i]
              \/ /\ Q[i] = 0
                 /\ \A n \in NodesOf(g) : g.kind[n] = "gpu" => L[i] <= Number(g, n)
<1> DEFINE K == {n \in NodesOf(g) : g.kind[n] = "gpu"}
           reaches(i) == \E d \in g.deps[g.order[i]] : Number(g, d) >= L[i - 1]
           meets(i) == \E d \in g.deps[g.order[i]] :
                           g.kind[d] = "gpu" /\ Number(g, d) >= Q[i - 1]
<1>1. /\ Topological(g.order, g.deps)
      /\ N \in Nat
      /\ \A n \in NodesOf(g) : Number(g, n) \in 1..N /\ g.order[Number(g, n)] = n
      /\ \A i \in 1..N : g.order[i] \in NodesOf(g) /\ Number(g, g.order[i]) = i
      /\ \A n \in NodesOf(g) : \A d \in g.deps[n] : d \in NodesOf(g)
  BY PositionFacts DEF KernelProgram, Topological, NodesOf, Number
<1>4. /\ L[0] = 0
      /\ \A i \in 1..N : L[i] = IF reaches(i) THEN i ELSE L[i - 1]
      /\ \A i \in 0..N : L[i] \in 0..i /\ L[L[i]] = L[i]
      /\ \A i, j \in 0..N : i <= j => L[i] <= L[j]
      /\ \A n \in NodesOf(g) : \A d \in g.deps[n] : Number(g, d) < L[Number(g, n)]
  BY <1>1, LastBarrierFacts
<1>5. /\ Q[0] = 0
      /\ \A i \in 1..N : Q[i] = IF meets(i) THEN i ELSE Q[i - 1]
      /\ \A i \in 0..N : Q[i] \in 0..i
  BY <1>1, QueueBarrierFacts
<1> HIDE DEF reaches, meets
(* A barrier other than 0 stands before a kernel. *)
<1>6. ASSUME NEW i \in 0..N, L[i] # 0
      PROVE  \E n \in K : Number(g, n) = L[i]
  <2>1. PICK b : b = L[i]
    OBVIOUS
  <2>2. b \in 1..N /\ b - 1 \in 0..N /\ L[b] = b /\ L[b - 1] \in 0..(b - 1)
    BY <1>1, <1>4, <1>6, <2>1
  <2>3. reaches(b)
    BY <1>1, <1>4, <2>2
  <2>4. g.order[b] \in NodesOf(g) /\ g.deps[g.order[b]] # {}
    BY <1>1, <2>2, <2>3 DEF reaches
  <2>5. g.order[b] \in K
    BY <2>4 DEF KernelProgram
  <2> QED BY <1>1, <2>1, <2>2, <2>5
(* A leaf that calls for a barrier does so before the first kernel. *)
<1>7. ASSUME NEW i \in 1..N, NEW d \in NodesOf(g), d \notin K, Number(g, d) >= L[i - 1]
      PROVE  /\ \A n \in K : i <= Number(g, n)
             /\ L[i - 1] = 0
  <2>1. i - 1 \in 0..N /\ i \in Nat /\ L[i - 1] \in 0..(i - 1)
    BY <1>1, <1>4
  <2>2. ASSUME NEW n \in K, Number(g, n) < i PROVE FALSE
    <3>1. PICK k : k = Number(g, n)
      OBVIOUS
    <3>2. k \in 1..N /\ k <= i - 1 /\ n \in NodesOf(g) /\ k \in 0..N
      BY <1>1, <2>1, <2>2, <3>1
    <3>3. PICK e : e \in g.deps[n] /\ e \in NodesOf(g)
      BY <1>1, <3>2 DEF KernelProgram
    <3>4. Number(g, e) < L[k] /\ Number(g, e) \in 1..N /\ L[k] \in 0..k
      BY <1>1, <1>4, <3>1, <3>2, <3>3
    <3>5. PICK m \in K : Number(g, m) = L[k]
      BY <1>1, <1>6, <3>2, <3>4
    <3>6. Number(g, d) < Number(g, m)
      BY <1>7 DEF KernelProgram
    <3>7. L[k] <= L[i - 1]
      BY <1>4, <2>1, <3>2
    <3>8. Number(g, d) \in 1..N
      BY <1>1
    <3> QED BY <1>1, <1>7, <2>1, <3>4, <3>5, <3>6, <3>7, <3>8
  <2>3. \A n \in K : Number(g, n) \in 1..N
    BY <1>1
  <2>4. \A n \in K : i <= Number(g, n)
    <3> TAKE n \in K
    <3>1. ~(Number(g, n) < i)
      BY <2>2
    <3> QED BY <1>1, <2>1, <2>3, <3>1
  <2>5. ASSUME L[i - 1] # 0 PROVE FALSE
    <3>1. PICK m \in K : Number(g, m) = L[i - 1]
      BY <1>6, <2>1, <2>5
    <3>2. i <= Number(g, m)
      BY <2>4
    <3> QED BY <2>1, <3>1, <3>2
  <2> QED BY <2>4, <2>5
<1> DEFINE agree(i) == \/ Q[i] = L[i]
                       \/ Q[i] = 0 /\ \A n \in K : L[i] <= Number(g, n)
           S == {i \in 0..N : agree(i)}
<1>8. 0 \in S
  BY <1>1, <1>4, <1>5
<1>9. ASSUME NEW i \in 0..N, i # N, i \in S PROVE i + 1 \in S
  <2>1. PICK j : j = i + 1
    OBVIOUS
  <2>2. j \in 1..N /\ j - 1 = i /\ j \in 0..N /\ i \in Nat /\ Q[i] \in 0..i /\ L[i] \in 0..i
    BY <1>1, <1>4, <1>5, <1>9, <2>1
  <2>3. agree(i)
    BY <1>9
  <2>4. \A n \in K : Number(g, n) \in 1..N
    BY <1>1
  <2>5. CASE meets(j)
    <3>1. PICK d \in g.deps[g.order[j]] : g.kind[d] = "gpu" /\ Number(g, d) >= Q[i]
      BY <2>2, <2>5 DEF meets
    <3>2. d \in g.deps[g.order[j]] /\ d \in K
      BY <1>1, <2>2, <3>1
    <3>3. Number(g, d) >= L[i]
      BY <1>1, <2>3, <2>4, <3>1, <3>2
    <3>4. reaches(j)
      BY <2>2, <3>2, <3>3 DEF reaches
    <3>5. Q[j] = j /\ L[j] = j
      BY <1>4, <1>5, <2>2, <2>5, <3>4
    <3> QED BY <2>1, <2>2, <3>5
  <2>6. CASE ~meets(j) /\ reaches(j)
    <3>1. PICK d \in g.deps[g.order[j]] : Number(g, d) >= L[i]
      BY <2>2, <2>6 DEF reaches
    <3>2. d \in NodesOf(g)
      BY <1>1, <2>2
    <3>3. d \notin K
      <4> SUFFICES ASSUME d \in K PROVE FALSE
        OBVIOUS
      <4>1. g.kind[d] = "gpu"
        OBVIOUS
      <4>2. Number(g, d) >= Q[i]
        BY <1>1, <2>2, <2>3, <2>4, <3>1
      <4> QED BY <2>2, <2>6, <3>1, <4>1, <4>2 DEF meets
    <3>4. /\ \A n \in K : j <= Number(g, n)
          /\ L[i] = 0
      BY <1>7, <2>2, <3>1, <3>2, <3>3
    <3>5. Q[i] = 0
      BY <2>3, <3>4
    <3>6. Q[j] = 0 /\ L[j] = j
      BY <1>4, <1>5, <2>2, <2>6, <3>5
    <3>7. agree(j)
      BY <3>4, <3>6
    <3> HIDE DEF agree
    <3> QED BY <2>1, <2>2, <3>7
  <2>7. CASE ~meets(j) /\ ~reaches(j)
    <3>1. Q[j] = Q[i] /\ L[j] = L[i]
      BY <1>4, <1>5, <2>2, <2>7
    <3>2. agree(j)
      BY <2>3, <3>1
    <3> HIDE DEF agree
    <3> QED BY <2>1, <2>2, <3>2
  <2> QED BY <2>5, <2>6, <2>7
<1>10. \A i \in 0..N : i \in S
  <2> HIDE DEF S
  <2> QED BY <1>1, <1>8, <1>9, Climbs
<1> QED BY <1>10

(* Kernels between the same two barriers of the queue are between the same   *)
(* two of the compiler.                                                      *)
LEMMA SameRegion ==
    ASSUME NEW g, KernelProgram(g), NEW L, L = LastBarrier(g),
           NEW Q, Q = QueueBarriers(g),
           NEW x \in NodesOf(g), NEW q \in NodesOf(g),
           g.kind[x] = "gpu", g.kind[q] = "gpu", Number(g, x) <= Number(g, q),
           Q[Number(g, x)] = Q[Number(g, q)]
    PROVE  L[Number(g, x)] = L[Number(g, q)]
<1>1. PICK N, i, j : N = Len(g.order) /\ i = Number(g, x) /\ j = Number(g, q)
  OBVIOUS
<1>2. /\ Topological(g.order, g.deps) /\ N \in Nat
      /\ \A n \in NodesOf(g) : Number(g, n) \in 1..N /\ g.order[Number(g, n)] = n
      /\ \A n \in 1..N : g.order[n] \in NodesOf(g) /\ Number(g, g.order[n]) = n
      /\ \A n \in NodesOf(g) : \A d \in g.deps[n] : d \in NodesOf(g)
  BY <1>1, PositionFacts DEF KernelProgram, Topological, NodesOf, Number
<1>3. /\ \A k \in 0..N : L[k] \in 0..k
      /\ \A k, l \in 0..N : k <= l => L[k] <= L[l]
      /\ \A n \in NodesOf(g) : \A d \in g.deps[n] : Number(g, d) < L[Number(g, n)]
      /\ \A k \in 0..N : L[L[k]] = L[k]
      /\ \A k \in 1..N : L[k] = IF \E d \in g.deps[g.order[k]] : Number(g, d) >= L[k - 1]
                                THEN k ELSE L[k - 1]
  BY SMTT(60), <1>1, <1>2, LastBarrierFacts
<1>4. /\ i \in 1..N /\ j \in 1..N /\ i <= j /\ i \in 0..N /\ j \in 0..N
      /\ L[i] <= L[j] /\ L[i] \in 0..i /\ L[j] \in 0..j
  <2>1. i \in 1..N /\ j \in 1..N /\ i <= j /\ i \in 0..N /\ j \in 0..N
    BY <1>1, <1>2
  <2> QED BY <1>3, <2>1
<1>5. L[i] # 0
  <2>1. PICK d : d \in g.deps[x] /\ d \in NodesOf(g)
    BY <1>2 DEF KernelProgram
  <2>2. Number(g, d) < L[i] /\ Number(g, d) \in 1..N
    BY <1>1, <1>2, <1>3, <2>1
  <2> QED BY <1>2, <1>4, <2>2
<1>6. \A k \in 0..N : \/ Q[k] = L[k]
                      \/ /\ Q[k] = 0
                         /\ \A n \in NodesOf(g) : g.kind[n] = "gpu" => L[k] <= Number(g, n)
  BY <1>1, SameBarriers
<1>7. CASE Q[i] = L[i] /\ Q[j] = L[j]
  BY <1>1, <1>7
<1>8. CASE Q[i] = L[i] /\ Q[j] = 0
  BY <1>1, <1>5, <1>8
<1>9. CASE Q[i] = 0 /\ Q[j] = L[j]
  <2>1. L[j] = 0
    BY <1>1, <1>9
  <2>2. L[i] = 0
    BY <1>4, <2>1
  <2> QED BY <1>5, <2>2
<1>10. CASE /\ Q[i] = 0 /\ Q[j] = 0
            /\ \A n \in NodesOf(g) : g.kind[n] = "gpu" => L[j] <= Number(g, n)
  <2>1. PICK b : b = L[i]
    OBVIOUS
  <2>2. b \in 1..N /\ b - 1 \in 0..N /\ L[b] = b /\ L[b - 1] \in 0..(b - 1)
    BY <1>2, <1>3, <1>4, <1>5, <2>1
  <2>3. g.deps[g.order[b]] # {} /\ g.order[b] \in NodesOf(g)
    <3>1. L[b] # L[b - 1]
      BY <1>2, <2>2
    <3>2. \E d \in g.deps[g.order[b]] : Number(g, d) >= L[b - 1]
      BY <1>3, <2>2, <3>1
    <3> QED BY <1>2, <2>2, <3>2
  <2>4. g.kind[g.order[b]] = "gpu" /\ Number(g, g.order[b]) = b
    BY <1>2, <2>2, <2>3 DEF KernelProgram
  <2>5. L[j] <= b
    BY <1>10, <2>3, <2>4
  <2> QED BY <1>1, <1>2, <1>4, <2>1, <2>2, <2>5
<1> QED
  BY <1>1, <1>4, <1>6, <1>7, <1>8, <1>9, <1>10

-----------------------------------------------------------------------------
(* Two results of kernels that can be alive together are restricted: the     *)
(* one handed over later is written while the earlier one is still to be     *)
(* read, by a kernel further on or by one of the same stretch of the queue.  *)
LEMMA PooledFacts ==
    ASSUME NEW g, KernelProgram(g), NEW p \in NodesOf(g),
           g.kind[p] = "gpu", p \notin g.outputs
    PROVE  MayShare(g, p) /\ g.kind[p] # "data" /\ Users(g, p) # {}
BY DEF KernelProgram, MayShare, Optimized

LEMMA EarlierRestricted ==
    ASSUME NEW g, KernelProgram(g), NEW Q, Q = QueueBarriers(g),
           NEW p \in NodesOf(g), NEW q \in NodesOf(g),
           g.kind[p] = "gpu", p \notin g.outputs, g.kind[q] = "gpu", q \notin g.outputs,
           Number(g, p) < Number(g, q),
           \E x \in Users(g, p) \cup {p} : Q[Number(g, q)] <= Q[Number(g, x)]
    PROVE  q \in MemoryDependencies(g)[p] /\ p \in MemoryDependencies(g)[q]
<1>1. PICK x \in Users(g, p) \cup {p} : Q[Number(g, q)] <= Q[Number(g, x)]
  OBVIOUS
<1>2. /\ MayShare(g, p) /\ MayShare(g, q) /\ g.kind[q] # "data" /\ Users(g, q) # {}
      /\ Topological(g.order, g.deps)
  BY PooledFacts DEF KernelProgram
<1>3. PICK L, N : L = LastBarrier(g) /\ N = Len(g.order)
  OBVIOUS
<1>4. /\ N \in Nat
      /\ \A n \in NodesOf(g) : Number(g, n) \in 1..N /\ g.order[Number(g, n)] = n
  BY <1>2, <1>3, PositionFacts DEF Topological, NodesOf, Number
<1>5. x \in NodesOf(g) /\ g.kind[x] = "gpu"
  <2>1. CASE x = p
    BY <2>1
  <2>2. CASE x # p
    <3>1. x \in NodesOf(g) /\ p \in g.deps[x]
      BY <2>2 DEF Users
    <3> QED BY <3>1 DEF KernelProgram
  <2> QED BY <2>1, <2>2
<1>6. /\ \A i \in 0..N : Q[i] \in 0..i
      /\ \A i, j \in 0..N : i <= j => Q[i] <= Q[j]
  BY <1>2, <1>3, QueueBarrierFacts
<1>7. CASE x = q
  <2>1. p \in g.deps[q]
    BY <1>4, <1>7 DEF Users
  <2> QED BY <1>2, <2>1, TogetherRestricted
<1>8. CASE x # q /\ Number(g, q) < Number(g, x)
  <2>1. x \in Users(g, p)
    BY <1>4, <1>8
  <2> QED BY <1>2, <1>8, <2>1, TogetherRestricted
<1>9. CASE x # q /\ ~(Number(g, q) < Number(g, x))
  <2>1. PICK i, j : i = Number(g, x) /\ j = Number(g, q)
    OBVIOUS
  <2>2. i \in 1..N /\ j \in 1..N /\ i <= j /\ i \in 0..N /\ j \in 0..N
    BY <1>4, <1>5, <1>9, <2>1
  <2>3. Q[i] <= Q[j] /\ Q[i] \in 0..i /\ Q[j] \in 0..j /\ Q[j] <= Q[i]
    BY <1>1, <1>6, <2>1, <2>2
  <2>4. Q[i] = Q[j]
    BY <1>4, <2>2, <2>3
  <2>5. L[i] = L[j]
    BY <1>3, <1>5, <2>1, <2>2, <2>4, SameRegion
  <2> QED BY <1>2, <1>3, <2>1, <2>5, TogetherRestricted
<1> QED BY <1>7, <1>8, <1>9
=================================================================================
