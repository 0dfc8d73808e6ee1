----------------------------- MODULE ProgramGraph -----------------------------
(***************************************************************************)
(* How the compiler rewrites a program (program.cpp, graph_optimizer/):    *)
(* the graph of a topology goes through the passes one by one; a pass      *)
(* visits the nodes it is for in processing order and, where the layouts   *)
(* ask for it, edits the graph.  Layouts are not modelled: where a pass    *)
(* looks at them it may edit or not.                                       *)
(*                                                                         *)
(* Left out are these edits of the graph:                                  *)
(* - before the passes: splits, upsamplings, deconvolutions made into      *)
(*   convolutions, lstm, the second half of a detection_output             *)
(*   (graph_initializations), calculate_prior_boxes;                       *)
(* - inserted: the border of handle_input_padding, the reshapes of         *)
(*   add_reshape_to_primitives and handle_reshape, the reorders of         *)
(*   apply_needed_padding (prepare_padding), of post_input_reorder and of  *)
(*   a detection_output or a winograd convolution in reorder_inputs, the   *)
(*   mutable data of prepare_conv_eltw_read_write_opt;                     *)
(* - fused: batch_norm and scale (fuse_conv_bn_scale), the buffers of      *)
(*   separate weights (prep_opt_depthwise_sep_post), and a reorder done in *)
(*   place, which prepare_buffer_fusing tries to remove;                   *)
(* and the passes that rewrite strides, paddings and marks of a node only: *)
(* eltwise_shrinking, eltwise_remove_stride, prepare_depthwise_sep_opt and *)
(* the rest of prepare_padding and prepare_buffer_fusing.                  *)
(*                                                                         *)
(* MarkIfAnyConstant, FuseAnyUser, AddReorderInFront, TrimToLastOutput and *)
(* ReplaceConstantsOnly are wrong on purpose: each is what a plausible slip *)
(* would make of the definition after it.                                  *)
(***************************************************************************)
EXTENDS GraphEdits

CONSTANT Topologies   \* sequences of [id, kind, deps, blocked, output]

(* The dependencies of a primitive name primitives of the topology:          *)
(* add_node_dependencies looks each of them up, and throws if it is not      *)
(* there.                                                                    *)
ASSUME TopologiesAssumption ==
    \A t \in Topologies :
        t \in Seq(ToSet(t)) /\ \A n \in DOMAIN t : t[n].deps \in Seq(DOMAIN t)

Passes ==
    <<"trim_to_outputs", "fuse_reorders", "fuse_activations", "fuse_skip_layers",
      "reorder_inputs", "pre_optimize_bias", "prepare_conv_eltw_fusing",
      "remove_redundant_reorders", "propagate_constants", "add_required_reorders",
      "calculate_BFS_processing_order", "post_optimize_weights",
      "remove_redundant_reorders", "propagate_constants", "done", "failed">>

VARIABLES
    graph,     \* the program
    pass,      \* the pass it is in, an index of Passes
    left,      \* the nodes the pass has still to visit
    promised   \* what the outputs of the topology compute

vars == <<graph, pass, left, promised>>

-----------------------------------------------------------------------------
(* nodes_ordering::calc_processing_order: depth first from the inputs, each  *)
(* node in front of the users visited before it; no visit goes deeper than   *)
(* there are nodes.                                                          *)
DepthFirst(g, visit) ==
    [n \in DOMAIN g.nodes |->
        [order \in Seq(DOMAIN g.nodes) |->
            IF n \in ToSet(order) THEN order
            ELSE <<n>> \o FoldLeft(LAMBDA o, u : visit[u][o], order, Users(g, n))]]

Visit(g) ==
    FoldLeft(LAMBDA visit, n : DepthFirst(g, visit),
             [n \in DOMAIN g.nodes |-> [order \in Seq(DOMAIN g.nodes) |-> order]], g.nodes)

CalcProcessingOrder(g) == FoldLeft(LAMBDA o, n : Visit(g)[n][o], << >>, g.inputs)

(* nodes_ordering::calculate_BFS_processing_order: by distance from the      *)
(* inputs, otherwise as it was.                                              *)
Distance(g) ==
    LET To[steps \in 0..Len(g.nodes)] ==
            [n \in DOMAIN g.nodes |->
                IF steps = 0 \/ IsInput(g, n) THEN 0
                ELSE 1 + Max({To[steps - 1][d] : d \in ToSet(Deps(g, n))})]
    IN To[Len(g.nodes)]

Joined(seqs) == FoldLeft(LAMBDA s, t : s \o t, << >>, seqs)

CalculateBfs(g) ==
    LET distance == Distance(g) IN
    Joined([k \in 1..Len(g.order) |-> Among(g.order, {n \in ToSet(g.order) : distance[n] = k - 1})])

(* mark_nodes: constant, if there are dependencies and all are. *)
MarkIfAnyConstant(g, n) ==
    IF IsInput(g, n) THEN g
    ELSE [g EXCEPT !.nodes[n].constant = \E d \in ToSet(Deps(g, n)) : g.nodes[d].constant]

MarkIfConstant(g, n) ==
    IF IsInput(g, n) THEN g
    ELSE [g EXCEPT !.nodes[n].constant = \A d \in ToSet(Deps(g, n)) : g.nodes[d].constant]

MarkConstants(g) == FoldLeft(MarkIfConstant, g, g.order)

(* prepare_nodes, set_outputs, calc_processing_order and mark_nodes. *)
AddNodeDependencies(g, n, deps) == FoldLeft(LAMBDA h, d : AddConnection(h, d, n), g, deps)

NodeOf(p) ==
    [NewNode(Id(p.id), p.kind, IF p.deps = << >> THEN Term(p.id, {}) ELSE NoTerm, p.blocked)
       EXCEPT !.output = p.output]

GraphOf(topology) ==
    LET all == [n \in DOMAIN topology |-> n]
        g == [nodes |-> FoldLeft(LAMBDA nodes, p : Append(nodes, NodeOf(p)), << >>, topology),
              map |-> [i \in {Id(topology[n].id) : n \in DOMAIN topology} |->
                          CHOOSE n \in DOMAIN topology : Id(topology[n].id) = i],
              order |-> << >>,
              inputs |-> Among(all, {n \in DOMAIN topology : topology[n].deps = << >>}),
              outputs |-> Among(all, {n \in DOMAIN topology : topology[n].output})]
        connected == FoldLeft(LAMBDA h, n : AddNodeDependencies(h, n, topology[n].deps), g, all)
    IN MarkConstants([connected EXCEPT !.order = CalcProcessingOrder(connected)])

-----------------------------------------------------------------------------
(* trim_to_outputs: what no output depends on goes, but for input_layouts. *)
Marked(g, ns) ==
    LET After[steps \in 0..Len(g.nodes)] ==
            IF steps = 0 THEN ns
            ELSE LET ms == After[steps - 1] IN ms \cup UNION {ToSet(Deps(g, m)) : m \in ms}
    IN After[Len(g.nodes)]

TrimFrom(g, ns) ==
    LET kept == Marked(g, ns \cup {n \in ToSet(g.order) : g.nodes[n].kind = "input"}) IN
    RemoveNodes(g, Among(g.order, ToSet(g.order) \ kept))

TrimToLastOutput(g) == TrimFrom(g, {Last(g.outputs)})
TrimToOutputs(g) ==
    IF Len(g.outputs) = Len(g.order) THEN g ELSE TrimFrom(g, ToSet(g.outputs))

(* prepare_primitive_fusing: reorders between primitives of equal layouts,   *)
(* then activations, which become part of the primitive before them.         *)
OnlyUser(g, n) == Len(Users(g, Dep(g, n, 1))) = 1
Fusable == {"convolution", "deconvolution", "eltwise", "reorder"}

CanFuse(g, n) ==
    /\ ~g.nodes[n].output /\ ~g.nodes[Dep(g, n, 1)].output
    /\ Len(Deps(g, n)) = 1 /\ OnlyUser(g, n)

FuseAnyUser(g, n) ==
    /\ ~g.nodes[n].output /\ ~g.nodes[Dep(g, n, 1)].output /\ Len(Deps(g, n)) = 1
    /\ g.nodes[Dep(g, n, 1)].kind \in Fusable /\ ~g.nodes[Dep(g, n, 1)].activated

CanFuseActivation(g, n) ==
    /\ CanFuse(g, n)
    /\ g.nodes[Dep(g, n, 1)].kind \in Fusable /\ ~g.nodes[Dep(g, n, 1)].activated

FuseActivation(g, n) == ExtractAndRemove([g EXCEPT !.nodes[Dep(g, n, 1)].activated = TRUE], n)

(* fuse_skip_layers: a sum of two deconvolutions becomes part of the first. *)
CanFuseSkipLayers(g, n) ==
    Len(Deps(g, n)) = 2 /\ \A d \in ToSet(Deps(g, n)) : g.nodes[d].kind = "deconvolution"

FuseSkipLayers(g, n) ==
    LET to == Dep(g, n, 1)  other == Dep(g, n, 2)
        h == RemoveConnection(AddConnection(g, other, to), other, n)
        moved == Without(h.order, to)
        at == FirstAt(moved, n)
    IN ExtractAndRemove([h EXCEPT !.order = InsertAt(moved, at, to),
                                  !.nodes[to].activated = @ \/ h.nodes[n].activated], n)

(* reorder_inputs, for a convolution: a reorder in front of it, shared by    *)
(* all that want the same input in the same format ...                       *)
AddReorder(g, n, i) ==
    LET id == Derived("reorder", <<g.nodes[Dep(g, n, i)].id>>)
        h == GetOrCreate(g, id, "reorder", NoTerm)
    IN AddIntermediate(h, h.map[id], n, i, IsInput(h, h.map[id]))

(* ... a reorder behind it as well ... *)
AddReorderInFront(g, n) ==
    LET id == Derived("reorder_back", <<g.nodes[n].id>>)
        created == GetOrCreate(g, id, "reorder", NoTerm)
        back == created.map[id]
        h == [created EXCEPT !.order = InsertAt(@, Position(created, n), back)]
    IN MarkIfConstant(AddConnection(ReplaceAllUsages(h, n, back), n, back), back)

AddReorderBack(g, n) ==
    LET id == Derived("reorder_back", <<g.nodes[n].id>>)
        created == GetOrCreate(g, id, "reorder", NoTerm)
        back == created.map[id]
        h == [created EXCEPT !.order = InsertAt(@, Position(created, n) + 1, back)]
    IN MarkIfConstant(AddConnection(ReplaceAllUsages(h, n, back), n, back), back)

(* ... or a reorder that is there is passed by. *)
PassByReorder(g, n) ==
    LET reorder == Dep(g, n, 1)
        h == ReplaceDependency(g, n, 1, Dep(g, reorder, 1))
    IN IF Users(h, reorder) = << >> /\ ~h.nodes[reorder].output
       THEN ExtractAndRemove(h, reorder) ELSE h

ReorderInput(g, n) ==
    {g, AddReorder(g, n, 1), AddReorder(AddReorderBack(g, n), n, 1)}
        \cup IF g.nodes[Dep(g, n, 1)].kind = "reorder" /\ ~IsInput(g, Dep(g, n, 1))
             THEN {PassByReorder(g, n)} ELSE {}

(* pre_optimize_bias: the bias in the layout the kernel asks for. *)
PreOptimizeBias(g, n) ==
    {g} \cup IF Len(Deps(g, n)) = 3 THEN {AddReorder(g, n, 3)} ELSE {}

(* fuse_conv_eltwise: a convolution and the activated sum after it become    *)
(* one primitive, which reads the other summand as its second input.         *)
CanFuseConvEltwise(g, n) ==
    /\ Len(Users(g, n)) = 1 /\ ~g.nodes[n].output /\ ~IsInput(g, n)
    /\ LET sum == Users(g, n)[1] IN
       /\ g.nodes[sum].kind = "eltwise" /\ ~g.nodes[sum].output /\ g.nodes[sum].activated
       /\ Len(Deps(g, sum)) = 2
       /\ \A d \in ToSet(Deps(g, sum)) : Position(g, d) <= Position(g, n)

OtherSummand(g, n, sum) == IF Dep(g, sum, 1) = n THEN Dep(g, sum, 2) ELSE Dep(g, sum, 1)

FusedInto(g, n, sum, second, new) ==
    LET taken == ReplaceAllUsages([g EXCEPT !.nodes[new].users = << >>], sum, new)
        reads == [taken EXCEPT !.nodes[second].users = Append(@, new),
                               !.nodes[new].deps = InsertAt(@, 2, second),
                               !.nodes[new].activated = TRUE,
                               !.nodes[new].blocked = g.nodes[n].blocked]
    IN ExtractAndRemove(RemoveConnection(reads, Dep(reads, sum, 2), sum), sum)

FuseConvEltwise(g, n) ==
    LET sum == Users(g, n)[1]
        id == Derived("fused", <<g.nodes[n].id, g.nodes[sum].id>>)
        created == GetOrCreate(g, id, "fused", NoTerm)
        new == created.map[id]
    IN FusedInto(Replace(created, n, new), n, sum, OtherSummand(g, n, sum), new)

(* remove_redundant_reorders: a chain of reorders from one layout back to it. *)
GoesOn(g, n) ==
    /\ Len(Deps(g, n)) = 1 /\ g.nodes[Dep(g, n, 1)].kind = "reorder"
    /\ Len(Users(g, n)) = 1 /\ OnlyUser(g, n)

ReorderChain(g, n) ==
    FoldLeft(LAMBDA chain, m : IF GoesOn(g, Last(chain)) THEN Append(chain, Dep(g, Last(chain), 1))
                               ELSE chain,
             <<n>>, g.order)

RemoveRedundantReorder(g, n) ==
    LET chain == ReorderChain(g, n) IN
    {g} \cup IF \E r \in ToSet(chain) : g.nodes[r].output THEN {}
             ELSE {FoldLeft(ExtractAndRemove, g, chain)}

(* propagate_constants: what is constant and used by something that is not,  *)
(* or is an output, is computed now and becomes data; the constants behind   *)
(* it go.                                                                    *)
HasNonConstUser(g, n) ==
    ~g.nodes[n].constant \/ \E u \in ToSet(Users(g, n)) : ~g.nodes[u].constant

ConstOutputs(g) ==
    LET constants == Among(g.order, {n \in ToSet(g.order) :
                                        g.nodes[n].constant /\ g.nodes[n].kind # "data"})
        times(n) == (IF Users(g, n) = << >> \/ g.nodes[n].output THEN <<n>> ELSE << >>)
                    \o IF HasNonConstUser(g, n) THEN <<n>> ELSE << >>
    IN Joined([i \in DOMAIN constants |-> times(constants[i])])

RemoveConstant(g, n) ==
    LET node == g.nodes[n]
        h == [g EXCEPT !.nodes = Isolated(@, n)]
    IN IF ~node.constant \/ HasNonConstUser(g, n) \/ (node.output /\ node.kind # "data")
       THEN g ELSE RemoveIfDangling(h, n)

ReplaceByData(g, id, value) ==
    LET cur == g.map[id]
        dataId == Derived("const_prop", <<id>>)
        created == GetOrCreate(g, dataId, "data", value)
        disconnected ==
            FoldLeft(LAMBDA h, d : IF cur \in ToSet(Users(h, d)) THEN RemoveConnection(h, d, cur)
                                   ELSE h,
                     created, IF g.nodes[cur].kind = "generic" THEN << >> ELSE Deps(g, cur))
        cleared == [disconnected EXCEPT
                      !.nodes[cur].deps = << >>,
                      !.nodes[cur].users = Among(@, {u \in ToSet(@) : ~g.nodes[u].constant})]
    IN Replace(cleared, cur, created.map[dataId])

ReplaceConstantsOnly(g) ==
    FoldLeft(LAMBDA h, n : ReplaceByData(h, g.nodes[n].id, Meaning(g)[n]), g, ConstOutputs(g))

RemoveConstants(g) == FoldLeft(RemoveConstant, g, g.order)

PropagateConstants(g) ==
    FoldLeft(LAMBDA h, n : ReplaceByData(h, g.nodes[n].id, Meaning(g)[n]),
             RemoveConstants(g), ConstOutputs(g))

(* What was removed cannot be replaced: get_node throws. *)
CanPropagate(g) ==
    \A n \in ToSet(ConstOutputs(g)) : g.nodes[n].id \in DOMAIN RemoveConstants(g).map

(* add_required_reorders, for a primitive that cannot take what some of its  *)
(* dependencies give; a dependency it has twice is looked at twice.          *)
ReorderBetween(g, n, dep) ==
    LET id == Derived("reorder", <<g.nodes[dep].id, g.nodes[n].id>>)
        h == GetOrCreate(g, id, "reorder", NoTerm)
    IN AddIntermediate(h, h.map[id], n, FirstAt(Deps(h, n), dep), TRUE)

MayNeedReorder(g, n) ==
    {d \in ToSet(Deps(g, n)) : g.nodes[d].kind # "reorder" /\ ~g.nodes[d].constant}

AddRequiredReorders(g, n, deps) ==
    FoldLeft(LAMBDA h, d : ReorderBetween(h, n, d), g,
             Among(Deps(g, n), deps))

Twice(g, n, deps) ==
    \E d \in deps : Cardinality({i \in DOMAIN Deps(g, n) : Dep(g, n, i) = d}) > 1

(* post_optimize_weights: the weights as the selected kernel wants them. *)
WeightsAt(g, n) == IF g.nodes[n].kind = "fused" THEN 3 ELSE 2

PostOptimizeWeights(g, n) ==
    LET i == WeightsAt(g, n)
        id == Derived("generic_layer", <<g.nodes[Dep(g, n, i)].id>>)
        h == GetOrCreate(g, id, "generic", NoTerm)
    IN IF ~g.nodes[n].blocked THEN g
       ELSE AddIntermediate(h, h.map[id], n, i, id \notin DOMAIN g.map)

-----------------------------------------------------------------------------
(* The nodes a pass looks at; what is done at once is one visit, of node 0.  *)
OfKind(g, kinds) == {n \in ToSet(g.order) : g.nodes[n].kind \in kinds}

ToVisit(g, p) ==
    CASE p \in {"fuse_reorders", "remove_redundant_reorders"} -> OfKind(g, {"reorder"})
      [] p = "fuse_activations" -> OfKind(g, {"activation"})
      [] p = "fuse_skip_layers" -> OfKind(g, {"eltwise"})
      [] p \in {"reorder_inputs", "pre_optimize_bias", "prepare_conv_eltw_fusing"} ->
            OfKind(g, {"convolution"})
      [] p = "post_optimize_weights" -> OfKind(g, {"convolution", "fused"})
      [] p = "add_required_reorders" ->
            {n \in ToSet(g.order) : g.nodes[n].kind # "reorder" /\ MayNeedReorder(g, n) # {}}
      [] p = "done" -> {}
      [] OTHER -> {0}

Init ==
    \E topology \in Topologies :
        /\ graph = GraphOf(topology)
        /\ promised = OutputMeaning(GraphOf(topology))
        /\ pass = 1 /\ left = {0}

In(p) == Passes[pass] = p

Visiting(n) == n \in left /\ \A m \in left : Position(graph, n) <= Position(graph, m)

(* Node n is visited, and what becomes of the graph is one of the graphs in  *)
(* results.                                                                  *)
Rewrite(n, results) ==
    /\ Visiting(n)
    /\ graph' \in results
    /\ left' = (left \ {n}) \cap ToSet(graph'.order)
    /\ UNCHANGED <<pass, promised>>

WholeGraph ==
    \/ In("trim_to_outputs") /\ Rewrite(0, {TrimToOutputs(graph)})
    \/ In("propagate_constants") /\ CanPropagate(graph)
          /\ Rewrite(0, {PropagateConstants(graph)})
    \/ In("calculate_BFS_processing_order")
          /\ Rewrite(0, {[graph EXCEPT !.order = CalculateBfs(graph)]})

AtNode(n) ==
    \/ In("fuse_reorders")
          /\ Rewrite(n, {graph} \cup IF CanFuse(graph, n) THEN {ExtractAndRemove(graph, n)} ELSE {})
    \/ In("fuse_activations")
          /\ Rewrite(n, {graph} \cup IF CanFuseActivation(graph, n) THEN {FuseActivation(graph, n)}
                                     ELSE {})
    \/ In("fuse_skip_layers")
          /\ Rewrite(n, {IF CanFuseSkipLayers(graph, n) THEN FuseSkipLayers(graph, n) ELSE graph})
    \/ In("reorder_inputs") /\ ~IsInput(graph, n) /\ Rewrite(n, ReorderInput(graph, n))
    \/ In("pre_optimize_bias") /\ Rewrite(n, PreOptimizeBias(graph, n))
    \/ In("prepare_conv_eltw_fusing")
          /\ Rewrite(n, {graph} \cup IF CanFuseConvEltwise(graph, n) THEN {FuseConvEltwise(graph, n)}
                                     ELSE {})
    \/ In("remove_redundant_reorders") /\ Rewrite(n, RemoveRedundantReorder(graph, n))
    \/ In("add_required_reorders")
          /\ Rewrite(n, {AddRequiredReorders(graph, n, deps) :
                            deps \in {S \in SUBSET MayNeedReorder(graph, n) : ~Twice(graph, n, S)}})
    \/ In("post_optimize_weights") /\ WeightsAt(graph, n) \in DOMAIN Deps(graph, n)
          /\ Rewrite(n, {PostOptimizeWeights(graph, n)})

(* add_intermediate refuses the second reorder of the same name, and the     *)
(* build fails.                                                              *)
BuildThrows(n) ==
    /\ In("add_required_reorders") /\ Visiting(n)
    /\ \E deps \in SUBSET MayNeedReorder(graph, n) : Twice(graph, n, deps)
    /\ pass' = Len(Passes) /\ left' = {}
    /\ UNCHANGED <<graph, promised>>

NextPass ==
    /\ left = {} /\ ~In("done") /\ ~In("failed")
    /\ pass' = pass + 1 /\ left' = ToVisit(graph, Passes[pass + 1])
    /\ UNCHANGED <<graph, promised>>

Next ==
    \/ WholeGraph \/ NextPass
    \/ \E n \in left : AtNode(n) \/ BuildThrows(n)

Spec == Init /\ [][Next]_vars

-----------------------------------------------------------------------------
(* What is in the graph is alive: what the order, the inputs, the outputs    *)
(* and the connections of the nodes name is in the map (a node that left it  *)
(* is destroyed), every node under its own id.                               *)
TypeOK ==
    /\ pass \in DOMAIN Passes
    /\ left \subseteq {0} \cup Alive(graph)
    /\ \A i \in DOMAIN graph.map : graph.nodes[graph.map[i]].id = i
    /\ ToSet(graph.order) \cup ToSet(graph.inputs) \cup ToSet(graph.outputs) \subseteq Alive(graph)
    /\ \A n \in Alive(graph) :
          ToSet(Deps(graph, n)) \cup ToSet(Users(graph, n)) \subseteq Alive(graph)

(* Dependencies and users say the same: a node has another as a dependency   *)
(* as often as that one has it as a user.                                    *)
Times(s, n) == Cardinality({i \in DOMAIN s : s[i] = n})
UsersMirrorDependencies ==
    \A n, d \in Alive(graph) : Times(Deps(graph, n), d) = Times(Users(graph, d), n)

(* The processing order is one (nodes_ordering.cpp:46 relies on it in every  *)
(* pass): each node of the program once, behind all it depends on.           *)
OrderIsTopological ==
    /\ ToSet(graph.order) = Alive(graph) /\ IsInjective(graph.order)
    /\ \A n \in Alive(graph), d \in Alive(graph) :
          d \in ToSet(Deps(graph, n)) => Position(graph, d) < Position(graph, n)

(* Whatever was fused, moved, removed or computed ahead: the outputs of the  *)
(* program are those of the topology and compute what they computed there.   *)
OutputsKeepMeaning == OutputMeaning(graph) = promised

(* Only what no input of the network can change is marked constant, for      *)
(* propagate_constants computes it once and for all.                         *)
ConstantsAreConstant ==
    \A n \in Alive(graph) :
        graph.nodes[n].constant =>
            \A m \in Marked(graph, {n}) : graph.nodes[m].kind # "input"

(* When the build is over nothing constant is left for the network to        *)
(* compute, and no data that no output reads.                                *)
ConstantsPropagated ==
    In("done") =>
        \A n \in Alive(graph) :
            graph.nodes[n].constant =>
                graph.nodes[n].kind = "data" /\ n \in Marked(graph, ToSet(graph.outputs))
=============================================================================
