---------------------------- MODULE MCProgramGraph ----------------------------
(***************************************************************************)
(* Topologies for the compiler: x is the input of the network, w and v are *)
(* data, and the primitives a, b, c, ... come after them in the order they *)
(* were added.                                                             *)
(***************************************************************************)
EXTENDS ProgramGraph

P(id, kind, deps) ==
    [id |-> id, kind |-> kind, deps |-> deps, blocked |-> FALSE, output |-> FALSE]
Out(p) == [p EXCEPT !.output = TRUE]
Conv(id, deps) == [P(id, "convolution", deps) EXCEPT !.blocked = TRUE]
Deconv(id, dep) == P(id, "deconvolution", <<dep, 2>>)
Reorder(id, dep) == P(id, "reorder", <<dep>>)
Act(id, dep) == P(id, "activation", <<dep>>)
Sum2(id, d, e) == P(id, "eltwise", <<d, e>>)

Data == <<P("x", "input", << >>), P("w", "data", << >>)>>

(* Topologies of three primitives.  With one output, the last, all but those *)
(* that begin with an activation of the input; with two, the last two, those *)
(* that begin with a convolution or a reorder.  An activation behind a       *)
(* reorder is left out (LosesActivation).                                    *)
Before(k) == {1} \cup 3..(k - 1)
Primitives(k, id) ==
    {Conv(id, <<d, 2>>) : d \in Before(k)} \cup {Reorder(id, d) : d \in Before(k)}
        \cup {Act(id, d) : d \in Before(k)}
        \cup UNION {{Sum2(id, d, e) : e \in {e \in Before(k) : d <= e}} : d \in Before(k)}

LosesActivation(t) ==
    \E n \in DOMAIN t : t[n].kind = "activation" /\ t[t[n].deps[1]].kind = "reorder"

Generated ==
    {Data \o <<a, b, Out(c)>> :
        a \in Primitives(3, "a") \ {Act("a", 1)}, b \in Primitives(4, "b"), c \in Primitives(5, "c")}
    \cup {Data \o <<a, Out(b), Out(c)>> :
        a \in {Conv("a", <<1, 2>>), Reorder("a", 1)}, b \in Primitives(4, "b"), c \in Primitives(5, "c")}

AllUsed(t) == \A n \in 3..Len(t) : t[n].output \/ \E m \in 3..Len(t) : n \in ToSet(t[m].deps)

(* Sums of deconvolutions; sums behind convolutions that may become one      *)
(* primitive; weights and biases that are computed, shared, or an output.    *)
Special ==
  { Data \o <<Deconv("a", 1), Deconv("b", 1), Out(Sum2("c", 3, 4))>>,
    Data \o <<Deconv("a", 1), Deconv("b", 1), Sum2("c", 4, 3), Act("d", 5), Out(Reorder("e", 6))>>,
    Data \o <<Conv("a", <<1, 2>>), Sum2("b", 1, 3), Act("c", 4), Out(Reorder("d", 5))>>,
    Data \o <<Conv("a", <<1, 2>>), Conv("b", <<1, 2>>), Sum2("c", 3, 4), Act("d", 5), Out(Sum2("e", 6, 4))>>,
    Data \o <<P("v", "data", << >>), Reorder("a", 2), Reorder("b", 3),
               Out(Conv("c", <<1, 4, 5>>)), Out(Conv("d", <<1, 4, 3>>))>>,
    Data \o <<P("v", "data", << >>), Sum2("a", 2, 3), Out(Reorder("b", 4)), Act("c", 5), Sum2("d", 1, 6),
               Out(Act("e", 7))>> }

MCTopologies == Special \cup {t \in Generated : AllUsed(t) /\ ~LosesActivation(t)}

(* The topology of reorder_gpu_opt.remove_redundant_activation_fuse, with a  *)
(* second user of the input.                                                 *)
ReluBehindReorder ==
  { Data \o <<Reorder("a", 1), Act("b", 3), Out(Conv("c", <<4, 2>>)), Out(Conv("d", <<1, 2>>))>> }

-----------------------------------------------------------------------------
(* Topologies whose programs are not what was asked for either: the first    *)
(* loses the activation fused into the convolution; in the others the first  *)
(* deconvolution has other users, is summed with itself, or has an           *)
(* activation of its own; the last has weights a kernel wants reordered and  *)
(* another one as they are.                                                  *)
ActivatedConvolution ==
  { Data \o <<Conv("a", <<1, 2>>), Act("b", 3), Sum2("c", 1, 4), Act("d", 5), Out(Reorder("e", 6))>> }
SummedDeconvolutions ==
  { Data \o <<Deconv("a", 1), Deconv("b", 1), Sum2("c", 3, 4), Out(Conv("d", <<3, 2>>)), Out(Reorder("e", 5))>>,
    Data \o <<Deconv("a", 1), Out(Sum2("b", 3, 3)), Out(Reorder("c", 1))>>,
    Data \o <<Deconv("a", 1), Act("b", 3), Deconv("c", 1), Sum2("d", 4, 5), Out(Reorder("e", 6))>> }
SharedWeights ==
  { Data \o <<Reorder("a", 2), Out(Conv("b", <<1, 3>>)), Out(P("c", "convolution", <<1, 3>>))>> }
=============================================================================
