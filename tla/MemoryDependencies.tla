-------------------------- MODULE MemoryDependencies --------------------------
(***************************************************************************)
(* What the compiler decides about a program's memory (program.cpp,        *)
(* nodes_ordering.cpp): the order in which the primitives will be handed   *)
(* to the device, and for every primitive the ids it must not share a      *)
(* buffer with.  Pure operators over a program graph, a record             *)
(*   order    the nodes in processing order                                *)
(*   deps     the dependencies of each node                                *)
(*   kind     "input", "data", "gpu", "cpu", or "view" for a primitive     *)
(*            that was optimized out and shows its dependency's buffer     *)
(*   outputs  the nodes that are outputs of the network.                   *)
(*                                                                         *)
(* DistanceFromNearest, ReachedDirectly, SkippedUpToAnyUser,               *)
(* RegionsWithoutTheirDeps and AddOneWay are wrong on purpose: each is what*)
(* a plausible slip would make of the definition after it.                 *)
(***************************************************************************)
EXTENDS Integers, Sequences, FiniteSets, SequencesExt

NodesOf(g) == DOMAIN g.deps
Users(g, n) == {u \in NodesOf(g) : n \in g.deps[u]}
Optimized(g, n) == g.kind[n] = "view"

-----------------------------------------------------------------------------
(* nodes_ordering::calculate_BFS_processing_order: relax the distances in a *)
(* topological order, then bucket sort by distance, which is stable: the    *)
(* i-th is the node with i - 1 nodes nearer, or as near and earlier.         *)
DistanceFromNearest(deps) ==
    LET distances[n \in DOMAIN deps] ==
            IF deps[n] = {} THEN 0 ELSE 1 + Min({distances[d] : d \in deps[n]})
    IN distances

Distances(deps) ==
    LET distances[n \in DOMAIN deps] ==
            IF deps[n] = {} THEN 0 ELSE 1 + Max({distances[d] : d \in deps[n]})
    IN distances

Position(order, n) == CHOOSE i \in 1..Len(order) : order[i] = n

(* An order has every node once; in a topological one each comes after what *)
(* it depends on.                                                            *)
IsOrder(order, S) ==
    /\ order \in Seq(S)
    /\ \A n \in S : \E i \in 1..Len(order) : order[i] = n
    /\ \A i, j \in 1..Len(order) : order[i] = order[j] => i = j

Topological(order, deps) ==
    /\ IsOrder(order, DOMAIN deps)
    /\ \A n \in DOMAIN deps : /\ deps[n] \subseteq DOMAIN deps
                              /\ \A d \in deps[n] : Position(order, d) < Position(order, n)

BfsProcessingOrder(order, deps) ==
    LET distances == Distances(deps)
        before(n) == {m \in DOMAIN deps :
                         \/ distances[m] < distances[n]
                         \/ /\ distances[m] = distances[n]
                            /\ Position(order, m) < Position(order, n)}
    IN [i \in 1..Len(order) |->
           CHOOSE n \in DOMAIN deps : Cardinality(before(n)) = i - 1]

(* nodes_ordering::get_processing_number. *)
Number(g, n) == Position(g.order, n)

(* nodes_ordering::is_correct, for every node. *)
OrderIsCorrect(g) ==
    \A n \in NodesOf(g) : \A d \in g.deps[n] : Number(g, d) < Number(g, n)

-----------------------------------------------------------------------------
(* What the recursion of add_memory_dependency meets below a node that is   *)
(* optimized out: its dependencies, and on through those optimized out.     *)
ReachedDirectly(g) == [d \in NodesOf(g) |-> IF Optimized(g, d) THEN g.deps[d] ELSE {}]

Reached(g) ==
    LET reached[d \in NodesOf(g)] ==
            IF Optimized(g, d)
            THEN g.deps[d] \cup UNION {reached[s] : s \in g.deps[d]}
            ELSE {}
    IN reached

(* The static function add_memory_dependency, as the <<node, id>> pairs it  *)
(* inserts.  A node that is optimized out is replaced, as a dependency, by  *)
(* the nodes whose buffers it shows.                                        *)
AddMemoryDependency(g, n, d) ==
    IF Optimized(g, n) \/ ~Optimized(g, d) THEN {<<n, d>>}
    ELSE LET below == Reached(g)[d] IN
         {<<n, x>> : x \in {y \in below : ~Optimized(g, y)}} \cup {<<x, n>> : x \in below}

AddOneWay(g, p, q) == AddMemoryDependency(g, p, q)

AddBothWays(g, p, q) == AddMemoryDependency(g, p, q) \cup AddMemoryDependency(g, q, p)

(* basic_memory_dependencies: inputs against output; and an output that was *)
(* passed in the order keeps its buffer from everything after it.           *)
BasicDependencies(g) ==
    LET nodes == {n \in NodesOf(g) : g.kind[n] # "data"}
        edges == {e \in nodes \X NodesOf(g) : e[2] \in g.deps[e[1]]}
        past(n) == {o \in g.outputs \cap nodes : Number(g, o) < Number(g, n)}
    IN (UNION {AddBothWays(g, e[1], e[2]) : e \in edges})
       \cup {p \in nodes \X nodes : p[2] \in past(p[1])}

(* skipped_branch_memory_dependencies: b's buffer must survive every node   *)
(* between b and its last user.                                             *)
Between(g, b, a) ==
    Number(g, b) < Number(g, a) /\ \E u \in Users(g, b) : Number(g, a) < Number(g, u)

SkippedUpToAnyUser(g) ==
    LET upToAny(b, a) == /\ Users(g, b) # {} /\ Number(g, b) < Number(g, a)
                         /\ \A u \in Users(g, b) : Number(g, a) < Number(g, u)
    IN UNION {AddBothWays(g, p[1], p[2]) :
                 p \in {q \in NodesOf(g) \X NodesOf(g) : upToAny(q[2], q[1])}}

SkippedBranchDependencies(g) ==
    UNION {AddBothWays(g, p[1], p[2]) :
              p \in {q \in NodesOf(g) \X NodesOf(g) : Between(g, q[2], q[1])}}

(* oooq_memory_dependencies: last_barrier after each node of the order.  A  *)
(* node that depends on something handed over since needs a new barrier.    *)
LastBarrier(g) ==
    LET last[i \in 0..Len(g.order)] ==
            IF i = 0 THEN 0
            ELSE IF \E d \in g.deps[g.order[i]] : Number(g, d) >= last[i - 1] THEN i
            ELSE last[i - 1]
    IN last

(* The barriers gpu_toolkit::sync_events puts into the queue when every      *)
(* primitive is one kernel: before each that depends on a kernel enqueued    *)
(* since the last one.  Inputs and constants are there already.              *)
KernelsOnly(g) ==
    [order |-> g.order,
     deps |-> [n \in NodesOf(g) |-> {d \in g.deps[n] : g.kind[d] = "gpu"}]]

QueueBarriers(g) == LastBarrier(KernelsOnly(g))

(* The sync_regions that a barrier ends; the last one is never looked at.   *)
SyncRegions(g) ==
    LET last == LastBarrier(g)  size == Len(g.order) IN
    {{g.order[i] : i \in {j \in 1..size : last[j] = b}} :
        b \in {last[j] : j \in 1..size} \ {last[size]}}

RegionsWithoutTheirDeps(g) ==
    UNION {UNION {AddBothWays(g, p[1], p[2]) :
                     p \in {q \in region \X region : q[1] # q[2]}} :
              region \in SyncRegions(g)}

(* Nodes of one region run at the same time: none may take the buffer of    *)
(* another, or one that another reads.                                      *)
OooqDependencies(g) ==
    LET depsOf(region) == UNION {g.deps[n] : n \in region}
        pairs(region) == {q \in region \X region : q[1] # q[2]}
                         \cup (region \X depsOf(region))
    IN UNION {UNION {AddBothWays(g, p[1], p[2]) : p \in pairs(region)} :
                 region \in SyncRegions(g)}

(* prepare_memory_dependencies, with the memory pool enabled.               *)
AllMemoryDependencies(g) ==
    BasicDependencies(g) \cup SkippedBranchDependencies(g) \cup OooqDependencies(g)

MemoryDependencies(g) ==
    LET all == AllMemoryDependencies(g) IN
    [n \in NodesOf(g) |-> {q \in NodesOf(g) : <<n, q>> \in all}]
=============================================================================
