----------------------------- MODULE MCMemoryPool -----------------------------
(* Small instances of MemoryPool: three networks over three primitives, of   *)
(* which one may be internal, and programs that differ in their layouts and *)
(* in which pairs of primitives must not share.                             *)
EXTENDS MemoryPool, TLC

Plain(b) == [kind |-> "plain", key |-> 0, feature |-> b, batch |-> 1, depth |-> 1,
             bytes |-> b]
Image(b) == [Plain(b) EXCEPT !.kind = "image", !.key = 2]

(* Padded outputs of one key: they differ in feature, batch and depth only. *)
Padded(f, b, d) == [kind |-> "padded", key |-> 1, feature |-> f, batch |-> b,
                    depth |-> d, bytes |-> f * b * d]

MCLayouts == {Plain(1), Plain(2), Plain(3), Plain(4), Padded(1, 1, 1), Padded(1, 1, 2),
              Padded(2, 1, 1), Padded(1, 3, 1), Image(1), Image(2)}

Buffer(l, deps) ==
    [layout |-> l, deps |-> deps, optimized |-> FALSE, generic |-> FALSE,
     shareable |-> TRUE, output |-> FALSE, builds |-> {}]
Output(l) == [Buffer(l, {}) EXCEPT !.output = TRUE]
Optimized(l) == [Buffer(l, {}) EXCEPT !.optimized = TRUE]

(* A chain a -> b -> c, c the output: neighbours are restricted. *)
Chain(la, lb) ==
    ("a" :> Buffer(la, {"b"}) @@ "b" :> Buffer(lb, {"a", "c"}) @@
     "c" :> Output(Plain(1)))

(* Branches: c may take the buffer of a or of b, which exclude each other. *)
Branches(la, lb, lc) ==
    ("a" :> Buffer(la, {"b"}) @@ "b" :> Buffer(lb, {"a"}) @@ "c" :> Buffer(lc, {}))

(* Two optimized-out primitives, a concatenation and the crop it asks for. *)
Concats(la, lb) ==
    ("a" :> [Optimized(la) EXCEPT !.builds = {"b"}] @@ "b" :> Optimized(lb) @@ "c" :> Output(Image(2)))

MCNodes == {"a", "b", "c"}
MCPrograms ==
    {Chain(Plain(2), Padded(1, 1, 1)), Branches(Plain(3), Plain(2), Plain(1)),
     Branches(Padded(2, 1, 1), Padded(1, 3, 1), Padded(1, 1, 2)),
     Concats(Plain(3), Image(1))}
MCUserLayout == [m \in UserMemories |-> IF m = "m1" THEN Plain(1) ELSE Plain(4)]

(* Networks only differ by being internal. *)
Renaming == Permutations(Networks \ Internal)

(* Two networks whose optimized-out nodes are all plain buffers. *)
ConcatPrograms == {Concats(Plain(3), Plain(2)), Concats(Plain(2), Plain(1))}

(* Two programs that differ in the depth of a padded output. *)
DepthPrograms ==
    {Chain(Plain(2), Padded(1, 1, d)) : d \in {1, 2}}
=============================================================================
