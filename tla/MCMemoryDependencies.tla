------------------------- MODULE MCMemoryDependencies -------------------------
(* Every program of primitives over inputs and constants, each a GPU kernel  *)
(* reading up to MaxInputs earlier nodes or a crop done in place, grown one  *)
(* primitive at a time and ordered as the compiler orders it.                *)
EXTENDS MemoryDependencies

CONSTANTS
    Names,     \* the nodes, in the order the program adds them
    Leaves,    \* how many of them, at the front, are inputs or constants
    LeafKind,  \* which of the two each is
    MaxInputs  \* how many nodes a primitive may read

ASSUME NamesAssumption ==
    /\ Names \in Seq(ToSet(Names))
    /\ \A i, j \in 1..Len(Names) : Names[i] = Names[j] => i = j
ASSUME LeavesAssumption ==
    /\ Leaves \in 1..Len(Names) /\ LeafKind \in [1..Leaves -> {"input", "data"}]
    /\ MaxInputs \in Nat

VARIABLES graph, size

(* An input, a constant and five primitives. *)
MCNames == <<"x", "w", "a", "b", "c", "d", "e">>
MCLeafKind == <<"input", "data">>

(* The compiled form of the nodes added so far; what nobody uses is an       *)
(* output, since everything else is trimmed.                                 *)
Compiled(nodes, deps, kind) ==
    [order |-> BfsProcessingOrder(nodes, deps), deps |-> deps, kind |-> kind,
     outputs |-> {n \in DOMAIN deps : \A u \in DOMAIN deps : n \notin deps[u]}]

Added(n) == SubSeq(Names, 1, n)

Init ==
    LET leaves == ToSet(Added(Leaves)) IN
    /\ graph = Compiled(Added(Leaves), [l \in leaves |-> {}],
                        [l \in leaves |-> LeafKind[Position(Names, l)]])
    /\ size = Leaves

AddNode(inputs, kind) ==
    LET v == Names[size + 1]
        nodes == NodesOf(graph) \cup {v}
    IN /\ size < Len(Names)
       /\ size' = size + 1
       /\ graph' = Compiled(Added(size + 1),
                      [n \in nodes |-> IF n = v THEN inputs ELSE graph.deps[n]],
                      [n \in nodes |-> IF n = v THEN kind ELSE graph.kind[n]])

AddPrimitive ==
    \E inputs \in SUBSET NodesOf(graph) :
        /\ inputs # {} /\ Cardinality(inputs) <= MaxInputs
        /\ AddNode(inputs, "gpu")

(* A crop that prepare_buffer_fusing does in place: it is optimized out, and *)
(* whoever reads it reads the buffer of what it crops, through a chain of    *)
(* such crops if need be.                                                    *)
AddOptimizedOut ==
    \E d \in {n \in NodesOf(graph) : graph.kind[n] # "data"} : AddNode({d}, "view")

Next == AddPrimitive \/ AddOptimizedOut
Spec == Init /\ [][Next]_<<graph, size>>

-----------------------------------------------------------------------------
(* The barrier a node is enqueued behind.                                    *)
Epoch(n) == QueueBarriers(graph)[Number(graph, n)]

(* From the epoch that writes p's result to the one of its last reader.      *)
LiveIn(p) == Epoch(p)..Max({Epoch(u) : u \in Users(graph, p) \cup {p}})

Pooled(n) == graph.kind[n] = "gpu" /\ n \notin graph.outputs

(* In a program of kernels, whatever the order in which the device runs them *)
(* between two barriers, two results that can be alive at the same time are  *)
(* restricted from sharing a buffer.                                         *)
LiveTogetherRestricted ==
    (\A n \in NodesOf(graph) : ~Optimized(graph, n)) =>
        LET restrictions == MemoryDependencies(graph) IN
        \A p, q \in {n \in NodesOf(graph) : Pooled(n)} :
            p # q /\ LiveIn(p) \cap LiveIn(q) # {} => q \in restrictions[p]

(* An output is never optimized out: the program is still growing.           *)
Complete == \A n \in graph.outputs : ~Optimized(graph, n)

(* The kernels that read p's buffer, some of them through crops of it.       *)
Readers(p) ==
    LET shows[n \in NodesOf(graph)] ==
            IF Optimized(graph, n) THEN UNION {shows[d] : d \in graph.deps[n]} ELSE {n}
    IN {u \in NodesOf(graph) :
           graph.kind[u] = "gpu" /\ \E d \in graph.deps[u] : p \in shows[d]}

(* The buffer of a primitive is kept for whoever reads it, directly or       *)
(* through crops: each primitive from the next in the order to its last      *)
(* reader is restricted from it.  The passes see the crops, not the readers  *)
(* behind them: this is what add_memory_dependency replaces nodes for.       *)
ShownBuffersKept ==
    Complete =>
        LET restrictions == MemoryDependencies(graph)
            pooled == {n \in NodesOf(graph) : Pooled(n)}
        IN \A p, q \in pooled :
              /\ Number(graph, p) < Number(graph, q)
              /\ \E u \in Readers(p) : Number(graph, q) <= Number(graph, u)
              => q \in restrictions[p] /\ p \in restrictions[q]

(* The pool only looks at the restrictions of whichever of two primitives is *)
(* allocated last: they must be mutual.                                      *)
RestrictionsMutual ==
    LET restrictions == MemoryDependencies(graph) IN
    \A p, q \in {n \in NodesOf(graph) : Pooled(n)} :
        q \in restrictions[p] <=> p \in restrictions[q]

(* The recalculated order is still one of all nodes, dependencies first.     *)
BfsOrderIsCorrect ==
    /\ Len(graph.order) = Cardinality(NodesOf(graph)) /\ ToSet(graph.order) = NodesOf(graph)
    /\ OrderIsCorrect(graph)
=============================================================================
