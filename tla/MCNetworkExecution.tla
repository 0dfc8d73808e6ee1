-------------------------- MODULE MCNetworkExecution --------------------------
(* Small networks for NetworkExecution: an input "x", a constant "w" and the *)
(* primitives "a".."f".                                                      *)
EXTENDS NetworkExecution, TLC

Gpu(deps) == [kind |-> "gpu", deps |-> deps, reads |-> <<deps>>]
TwoKernels(d1, d2) == [kind |-> "gpu", deps |-> {d1, d2}, reads |-> <<{d1}, {d2}>>]
Cpu(deps) == [kind |-> "cpu", deps |-> deps, reads |-> <<deps>>]
View(d) == [kind |-> "view", deps |-> {d}, reads |-> << >>]
Leaf(k) == [kind |-> k, deps |-> {}, reads |-> << >>]

(* What nobody uses is an output. *)
Graph(order, prims) ==
    LET p == ("x" :> Leaf("input") @@ "w" :> Leaf("data") @@ prims)
        users(n) == {u \in DOMAIN p : n \in p[u].deps}
    IN [order |-> order, deps |-> [n \in DOMAIN p |-> p[n].deps],
        kind |-> [n \in DOMAIN p |-> p[n].kind],
        reads |-> [n \in DOMAIN p |-> p[n].reads],
        bytes |-> [n \in DOMAIN p |-> 1],
        outputs |-> {n \in DOMAIN p : p[n].kind # "data" /\ users(n) = {}}]

Compile(prims) ==
    LET deps == [n \in {"x", "w"} \cup DOMAIN prims |->
                    IF n \in DOMAIN prims THEN prims[n].deps ELSE {}]
    IN Graph(BfsProcessingOrder(<<"x", "w">> \o SelectSeq(<<"a", "b", "c", "d", "e", "f">>,
                                                   LAMBDA n : n \in DOMAIN prims), deps),
             prims)

-----------------------------------------------------------------------------
(* Networks of five kernels, each on one GPU kernel, in the order the        *)
(* compiler gives them: chains, diamonds and parallel branches.              *)
SixNodes == {"x", "a", "b", "c", "d", "e"}
GpuGraphs ==
    {Compile("a" :> Gpu({"x", "w"}) @@ "b" :> Gpu(B) @@ "c" :> Gpu(C) @@
             "d" :> Gpu(D) @@ "e" :> Gpu(E)) :
        B \in {{"x"}, {"a"}}, C \in {{"x"}, {"a"}, {"b"}, {"a", "b"}},
        D \in {{"a"}, {"b"}, {"c"}, {"b", "c"}}, E \in {{"c", "d"}, {"b", "d"}, {"d"}}}

(* The same chain with different sizes: larger outputs are placed first.     *)
Chain == Compile("a" :> Gpu({"x"}) @@ "b" :> Gpu({"a"}) @@ "c" :> Gpu({"b"}) @@
                 "d" :> Gpu({"c"}) @@ "e" :> Gpu({"d"}))
Tapered == [Chain EXCEPT !.bytes["a"] = 2, !.bytes["d"] = 3]

(* A primitive of two kernels, and a crop in place, in a chain.              *)
KernelPairChain ==
    Compile("a" :> Gpu({"x"}) @@ "b" :> Gpu({"x"}) @@ "c" :> TwoKernels("a", "b") @@
            "d" :> Gpu({"c"}) @@ "e" :> Gpu({"d"}))
CropChain ==
    Compile("a" :> Gpu({"x"}) @@ "b" :> View("a") @@ "c" :> Gpu({"b"}) @@
            "d" :> Gpu({"a", "c"}) @@ "e" :> Gpu({"d"}))
Repeatable == {Chain, Tapered, KernelPairChain, CropChain}

(* A primitive on the CPU between kernels, or at the end.                    *)
CpuBetween ==
    Compile("a" :> Gpu({"x"}) @@ "b" :> Gpu({"a"}) @@ "c" :> Cpu({"b"}) @@
            "d" :> Gpu({"c"}) @@ "e" :> Gpu({"d"}))
CpuLast ==
    Compile("a" :> Gpu({"x"}) @@ "b" :> Gpu({"a"}) @@ "c" :> Gpu({"a"}) @@
            "d" :> Gpu({"b"}) @@ "e" :> Cpu({"c", "d"}))
SingleExecution == GpuGraphs \cup {CpuBetween, CpuLast}

-----------------------------------------------------------------------------
(* d is handed over while the second kernel of c, which reads a, may still   *)
(* run: the barrier between b and d came with that kernel.                   *)
KernelPairBranch ==
    {Compile("a" :> Gpu({"x"}) @@ "b" :> Gpu({"a"}) @@ "c" :> TwoKernels("x", "a") @@
             "d" :> Gpu({"b"}) @@ "e" :> Gpu({"c", "d"}))}

(* The primitive on the CPU waits for b; c may still read a.                 *)
CpuBranch ==
    {Compile("a" :> Gpu({"x"}) @@ "b" :> Gpu({"a"}) @@ "c" :> Gpu({"a"}) @@
             "d" :> Cpu({"b"}) @@ "e" :> Gpu({"c", "d"}))}

(* e reads a through the crop, which is behind the last barrier; d may still *)
(* read b.                                                                   *)
SevenNodes == SixNodes \cup {"f"}
CropBranch ==
    {Compile("a" :> Gpu({"x"}) @@ "b" :> Gpu({"x"}) @@ "c" :> View("a") @@
             "d" :> Gpu({"b"}) @@ "e" :> Gpu({"c"}) @@ "f" :> Gpu({"d", "e"}))}

(* The only user of a is the crop, not the primitive on the CPU behind it.   *)
FourNodes == {"x", "a", "b", "c"}
CropBeforeCpu == {Compile("a" :> Gpu({"x"}) @@ "b" :> View("a") @@ "c" :> Cpu({"b"}))}

OneChain == {Chain}
=============================================================================
