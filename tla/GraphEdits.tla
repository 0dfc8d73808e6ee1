------------------------------ MODULE GraphEdits ------------------------------
(***************************************************************************)
(* The operations of program_impl and program_node that edit the graph of  *)
(* a program (program.cpp, program_node.cpp), as operators on a record     *)
(*   nodes    every node there ever was, by the number it was created as   *)
(*   map      nodes_map: the nodes of the program by their ids             *)
(*   order    the processing order                                         *)
(*   inputs   the nodes without dependencies                               *)
(*   outputs  the nodes whose results the user asked for.                  *)
(* The graph is kept four times over: as dependencies, as users, in the    *)
(* map and in the order; every operation must see to all of them.  A node  *)
(* that is not in the map any more is destroyed.                           *)
(*                                                                         *)
(* RemoveFromUsersOnly, ReplaceAtEnd and ExtractForgettingOutput are wrong *)
(* on purpose: each is what a plausible slip would make of the definition  *)
(* after it.                                                               *)
(***************************************************************************)
EXTENDS Naturals, Sequences, FiniteSets, SequencesExt

(* The id of a primitive of the topology, and one made from other ids. *)
Id(s) == [tag |-> s, of |-> << >>]
Derived(s, ids) == [tag |-> s, of |-> ids]

(* What a primitive computes, as a term; args is a set of <<position, term>>, *)
(* or of <<how often, term>> where the order does not matter.               *)
Term(op, args) == [op |-> op, args |-> args]
NoTerm == Term("none", {})

NewNode(id, kind, value, blocked) ==
    [id |-> id, kind |-> kind, value |-> value, blocked |-> blocked, deps |-> << >>,
     users |-> << >>, output |-> FALSE, constant |-> kind = "data", activated |-> FALSE]

(* The elements of s that are in S, and those that are not e, in their order. *)
Among(s, S) == FoldLeft(LAMBDA t, x : IF x \in S THEN Append(t, x) ELSE t, << >>, s)
Without(s, e) == Among(s, ToSet(s) \ {e})

(* The first place of e in s, 0 if it has none. *)
FirstAt(s, e) == SelectInSeq(s, LAMBDA x : x = e)

Alive(g) == {g.map[i] : i \in DOMAIN g.map}
Deps(g, n) == g.nodes[n].deps
Users(g, n) == g.nodes[n].users
Dep(g, n, i) == g.nodes[n].deps[i]
IsInput(g, n) == Deps(g, n) = << >>
Position(g, n) == FirstAt(g.order, n)

(* program_impl::get_or_create; the node is created if the id is new. *)
GetOrCreate(g, id, kind, value) ==
    IF id \in DOMAIN g.map THEN g
    ELSE [g EXCEPT !.nodes = Append(@, NewNode(id, kind, value, FALSE)),
                   !.map = [i \in DOMAIN @ \cup {id} |->
                               IF i = id THEN Len(g.nodes) + 1 ELSE @[i]]]

Erase(map, id) == [i \in DOMAIN map \ {id} |-> map[i]]

-----------------------------------------------------------------------------
(* program_impl::add_connection, remove_connection (every occurrence). *)
AddConnection(g, prev, next) ==
    [g EXCEPT !.nodes[prev].users = Append(@, next), !.nodes[next].deps = Append(@, prev)]

RemoveFromUsersOnly(g, prev, next) == [g EXCEPT !.nodes[prev].users = Without(@, next)]

RemoveConnection(g, prev, next) ==
    [g EXCEPT !.nodes[prev].users = Without(@, next), !.nodes[next].deps = Without(@, prev)]

(* program_impl::remove_if_dangling. *)
RemoveIfDangling(g, n) ==
    IF Users(g, n) # << >> \/ Deps(g, n) # << >> \/ g.nodes[n].output THEN g
    ELSE [g EXCEPT !.inputs = Without(@, n), !.order = Without(@, n),
                   !.map = Erase(@, g.nodes[n].id)]

(* program_node::replace_dependency, by index and by node. *)
ReplaceDependency(g, n, i, new) ==
    LET old == Dep(g, n, i)
        h == RemoveIfDangling([g EXCEPT !.nodes[old].users = RemoveFirst(@, n)], old)
    IN IF old = new THEN g
       ELSE [h EXCEPT !.nodes[n].deps[i] = new, !.nodes[new].users = Append(@, n)]

ReplaceDependencyOn(g, n, old, new) ==
    IF old \in ToSet(Deps(g, n))
    THEN ReplaceDependency(g, n, FirstAt(Deps(g, n), old), new)
    ELSE g

(* program_impl::replace_all_usages: the list of users shrinks at its front  *)
(* while the loop walks along it.                                           *)
ReplaceAllUsages(g, old, new) ==
    FoldLeft(LAMBDA h, u : ReplaceDependencyOn(h, u, old, new), g, Users(g, old))

(* program_impl::add_intermediate between next and its i-th dependency, with *)
(* or without connecting the new node to that dependency.                    *)
Connect(g, prev, n) ==
    [AddConnection(g, prev, n) EXCEPT !.order = InsertAt(@, Position(g, prev) + 1, n)]

AddIntermediateThrows(g, n, connect) == connect /\ Deps(g, n) # << >>

AddIntermediate(g, n, next, i, connect) ==
    LET prev == Dep(g, next, i)
        h == IF connect THEN Connect(g, prev, n) ELSE g
    IN [ReplaceDependency(h, next, i, n) EXCEPT !.nodes[n].constant = g.nodes[prev].constant]

-----------------------------------------------------------------------------
(* program_impl::rename. *)
Rename(g, n, id) ==
    [g EXCEPT !.map = [i \in DOMAIN Erase(@, g.nodes[n].id) \cup {id} |-> IF i = id THEN n ELSE @[i]],
              !.nodes[n].id = id]

(* program_impl::replace: the new node, not yet connected, takes the place,  *)
(* the users and the id of the old one, and each of its dependencies once.   *)
CopyDependencies(g, old, new) ==
    FoldLeft(LAMBDA h, d : IF d \in ToSet(Deps(h, old))
                           THEN RemoveConnection(AddConnection(h, d, new), d, old)
                           ELSE h,
             g, Deps(g, old))

AppendUsers(g, old, new) ==
    [FoldLeft(LAMBDA h, u :
                 LET i == FirstAt(Deps(h, u), old) IN
                 [h EXCEPT !.nodes[new].users = Append(@, u),
                           !.nodes[u].deps = IF i = 0 THEN @ ELSE ReplaceAt(@, i, new)],
              g, Users(g, old))
        EXCEPT !.nodes[old].users = << >>]

TakeOver(g, old, new) ==
    LET isInput == IsInput(g, new)
        output == g.nodes[old].output
        h == [g EXCEPT
                !.outputs = IF output THEN Append(Without(@, old), new) ELSE @,
                !.nodes[old].output = FALSE, !.nodes[new].output = output,
                !.inputs = Without(IF isInput THEN Append(@, new) ELSE @, old),
                !.nodes[new].constant = g.nodes[old].constant,
                !.map = Erase(@, g.nodes[old].id)]
    IN Rename(h, new, g.nodes[old].id)

ReplaceAtEnd(g, old, new) ==
    [TakeOver(AppendUsers(CopyDependencies(g, old, new), old, new), old, new)
        EXCEPT !.order = Append(Without(@, old), new)]

Replace(g, old, new) ==
    [TakeOver(AppendUsers(CopyDependencies(g, old, new), old, new), old, new)
        EXCEPT !.order = ReplaceAll(@, old, new)]

(* program_impl::extract_and_remove: the only dependency takes over the      *)
(* users and, from an output, its id; two outputs cannot become one.         *)
HandOverOutput(g, n) ==
    LET prev == Dep(g, n, 1)  id == g.nodes[n].id
        h == [g EXCEPT !.nodes[n].output = FALSE, !.outputs = Append(Without(@, n), prev)]
    IN [Rename(Rename(h, n, Derived("tmp", <<id>>)), prev, id)
           EXCEPT !.nodes[prev].output = TRUE]

Detach(g, n) ==
    LET prev == Dep(g, n, 1)
        h == [g EXCEPT !.nodes[n].deps = << >>, !.nodes[prev].users = Without(@, n)]
    IN IF Users(h, n) # << >> THEN ReplaceAllUsages(h, n, prev) ELSE RemoveIfDangling(h, n)

ExtractForgettingOutput(g, n) ==
    IF Len(Deps(g, n)) # 1 THEN g
    ELSE Detach(g, n)

ExtractAndRemove(g, n) ==
    IF Len(Deps(g, n)) # 1 \/ (g.nodes[n].output /\ g.nodes[Dep(g, n, 1)].output) THEN g
    ELSE Detach(IF g.nodes[n].output THEN HandOverOutput(g, n) ELSE g, n)

(* program_impl::remove_nodes: the node leaves its dependencies and users,   *)
(* and they leave it.                                                        *)
NoLongerUses(nodes, n) ==
    FoldLeft(LAMBDA ns, d : [ns EXCEPT ![d].users = Without(@, n)], nodes, nodes[n].deps)
NoLongerUsed(nodes, n) ==
    FoldLeft(LAMBDA ns, u : [ns EXCEPT ![u].deps = Without(@, n)], nodes, nodes[n].users)
Isolated(nodes, n) ==
    [NoLongerUsed(NoLongerUses(nodes, n), n) EXCEPT ![n].deps = << >>, ![n].users = << >>]

RemoveNode(g, n) ==
    [g EXCEPT !.nodes = Isolated(@, n),
              !.inputs = Without(@, n), !.order = Without(@, n), !.map = Erase(@, g.nodes[n].id)]

RemoveNodes(g, s) == FoldLeft(RemoveNode, g, s)

-----------------------------------------------------------------------------
(* The term a node computes.  Fuel keeps a cycle from being followed for ever. *)
Positions(terms) == {<<i, terms[i]>> : i \in DOMAIN terms}
Sum(terms) ==
    Term("sum", {<<Cardinality({i \in DOMAIN terms : terms[i] = t}), t>> : t \in ToSet(terms)})

Computed(node, terms) ==
    CASE node.kind \in {"input", "data"} -> node.value
      [] node.kind \in {"reorder", "generic"} -> terms[1]
      [] node.kind = "eltwise" -> Sum(terms)
      [] node.kind = "fused" ->      \* input, second input of the sum, weights
            Sum(<<Term("convolution", Positions(RemoveAt(terms, 2))), terms[2]>>)
      [] node.kind = "deconvolution" /\ Len(terms) > 2 ->     \* with the fused sum
            Sum(<<Term(node.kind, Positions(<<terms[1], terms[2]>>)), terms[3]>>)
      [] OTHER -> Term(node.kind, Positions(terms))

Meaning(g) ==
    LET Of[fuel \in 0..Len(g.nodes)] ==
            [n \in DOMAIN g.nodes |->
                IF fuel = 0 THEN NoTerm
                ELSE LET node == g.nodes[n]
                         terms == [i \in DOMAIN node.deps |-> Of[fuel - 1][node.deps[i]]]
                         term == Computed(node, terms)
                     IN IF node.activated THEN Term("activation", {<<1, term>>}) ELSE term]
    IN Of[Len(g.nodes)]

(* What the user gets under the ids of the outputs. *)
OutputMeaning(g) ==
    [id \in {g.nodes[o].id : o \in ToSet(g.outputs)} |-> Meaning(g)[g.map[id]]]
=============================================================================
