------------------------------ MODULE FoldFacts ------------------------------
(***************************************************************************)
(* What holds before the first step of a FoldLeft and is kept by each step *)
(* holds of its result.  The library's induction theorems cannot be used   *)
(* for this, for they take operators as arguments; here the operators are  *)
(* constants, and a module that needs the fact for a fold of its own       *)
(* instantiates this one with them: Op(a, b, h, x) is the step from h with *)
(* the element x, P(a, b, c, s, k, h) what holds of h after k steps.       *)
(*                                                                         *)
(* Each instance brings along everything this module extends, and tlapm    *)
(* pays for it at every obligation.  So the module extends little, and     *)
(* that the natural numbers are inductive, which the library proves from   *)
(* a well-founded order, is a hypothesis here: NatInductive in             *)
(* ProgramGraphProofs proves it once for all instances.                    *)
(***************************************************************************)
EXTENDS Folds, Integers, Sequences, TLAPS

CONSTANTS Op(_, _, _, _), P(_, _, _, _, _, _)

(* The greatest of a set of numbers: a fold takes the elements of a sequence *)
(* from the last position back.                                              *)
Greatest(S) == CHOOSE x \in S : \A y \in S : x >= y

(* The fold the facts are about: FoldLeft of SequencesExt, as it is defined. *)
Fold(a, b, base, s) ==
    MapThenFoldSet(LAMBDA x, h : Op(a, b, h, x), base,
                   LAMBDA i : s[i], LAMBDA S : Greatest(S), DOMAIN s)

(* The recursion that defines a fold, over the subsets of the first k positions. *)
Unfolds(a, b, base, s, k, f) ==
    f = [S \in SUBSET (1..k) |->
            IF S = {} THEN base ELSE Op(a, b, f[S \ {Greatest(S)}], s[Greatest(S)])]

(* The last of the first k + 1 positions is their greatest. *)
LEMMA LastIsMax ==
    ASSUME NEW k \in Nat, NEW S \in SUBSET (1..(k + 1)), k + 1 \in S
    PROVE  Greatest(S) = k + 1
<1>1. \A x \in S : x \in Nat /\ x <= k + 1
  OBVIOUS
<1>2. \A y \in S : k + 1 >= y
  BY <1>1
<1>3. ASSUME NEW x \in S, \A y \in S : x >= y PROVE x = k + 1
  BY <1>1, <1>3
<1> QED BY <1>2, <1>3 DEF Greatest

(* The recursion has a solution, which grows with k. *)
LEMMA UnfoldsFurther ==
    ASSUME NEW a, NEW b, NEW base, NEW s, NEW k \in Nat, NEW f, Unfolds(a, b, base, s, k, f)
    PROVE  \E g : Unfolds(a, b, base, s, k + 1, g)
<1> DEFINE g == [S \in SUBSET (1..(k + 1)) |->
                    IF k + 1 \in S THEN Op(a, b, f[S \ {k + 1}], s[k + 1]) ELSE f[S]]
<1>1. 1..k \subseteq 1..(k + 1) /\ k + 1 \notin 1..k /\ 1..(k + 1) = 1..k \cup {k + 1}
  OBVIOUS
<1>2. ASSUME NEW S \in SUBSET (1..(k + 1))
      PROVE  g[S] = IF S = {} THEN base ELSE Op(a, b, g[S \ {Greatest(S)}], s[Greatest(S)])
  <2>1. CASE k + 1 \in S
    <3>1. Greatest(S) = k + 1 /\ S # {}
      BY <2>1, LastIsMax
    <3>2. S \ {k + 1} \in SUBSET (1..(k + 1)) /\ k + 1 \notin S \ {k + 1}
      OBVIOUS
    <3>3. g[S \ {k + 1}] = f[S \ {k + 1}]
      BY <3>2, Zenon
    <3> HIDE DEF g
    <3>4. g[S] = Op(a, b, f[S \ {k + 1}], s[k + 1])
      BY <2>1, Zenon DEF g
    <3> QED BY <3>1, <3>3, <3>4
  <2>2. CASE k + 1 \notin S
    <3>1. S \in SUBSET (1..k)
      BY <2>2, <1>1, Zenon
    <3>2. f[S] = IF S = {} THEN base ELSE Op(a, b, f[S \ {Greatest(S)}], s[Greatest(S)])
      BY <3>1, Zenon DEF Unfolds
    <3>3. g[S] = f[S]
      BY <2>2, Zenon
    <3>4. S \ {Greatest(S)} \in SUBSET (1..(k + 1)) /\ k + 1 \notin S \ {Greatest(S)}
      BY <2>2, Zenon
    <3>5. g[S \ {Greatest(S)}] = f[S \ {Greatest(S)}]
      BY <3>4, Zenon
    <3> HIDE DEF g
    <3> QED BY <3>2, <3>3, <3>5, Zenon
  <2> QED BY <2>1, <2>2, Zenon
<1>3. g = [S \in SUBSET (1..(k + 1)) |-> g[S]]
  BY Zenon
<1> HIDE DEF g
<1>4. [S \in SUBSET (1..(k + 1)) |-> g[S]]
        = [S \in SUBSET (1..(k + 1)) |->
              IF S = {} THEN base ELSE Op(a, b, g[S \ {Greatest(S)}], s[Greatest(S)])]
  BY <1>2, Zenon
<1>5. Unfolds(a, b, base, s, k + 1, g)
  BY <1>3, <1>4, Zenon DEF Unfolds
<1> QED BY <1>5, Zenon

(* So it has a solution for every k. *)
LEMMA UnfoldsAll ==
    ASSUME NEW a, NEW b, NEW base, NEW s,
           \A S : 0 \in S /\ (\A k \in Nat : k \in S => k + 1 \in S) => Nat \subseteq S
    PROVE  \A k \in Nat : \E f : Unfolds(a, b, base, s, k, f)
<1> DEFINE K == {k \in Nat : \E f : Unfolds(a, b, base, s, k, f)}
<1>1. 0 \in K
  <2> DEFINE f == [S \in SUBSET (1..0) |-> base]
  <2>1. \A S \in SUBSET (1..0) : S = {}
    OBVIOUS
  <2>2. f = [S \in SUBSET (1..0) |->
                IF S = {} THEN base ELSE Op(a, b, f[S \ {Greatest(S)}], s[Greatest(S)])]
    BY <2>1
  <2>3. Unfolds(a, b, base, s, 0, f)
    BY <2>2, Zenon DEF Unfolds
  <2> QED BY <2>3, 0 \in Nat, Zenon
<1>2. \A k \in Nat : k \in K => k + 1 \in K
  BY UnfoldsFurther
<1> QED BY <1>1, <1>2, Zenon

(* A fold is the last of a chain of intermediate results: the first is the   *)
(* base, and each later one is a step from the one before it.                *)
THEOREM FoldSteps ==
    (\A S : 0 \in S /\ (\A k \in Nat : k \in S => k + 1 \in S) => Nat \subseteq S) =>
    \A a, b, base, T : \A s \in Seq(T) :
        \E h : /\ h[0] = base
               /\ \A k \in 1..Len(s) : h[k] = Op(a, b, h[k - 1], s[k])
               /\ Fold(a, b, base, s) = h[Len(s)]
<1> SUFFICES ASSUME \A S : 0 \in S /\ (\A k \in Nat : k \in S => k + 1 \in S) => Nat \subseteq S,
                    NEW a, NEW b, NEW base, NEW T, NEW s \in Seq(T)
             PROVE  \E h : /\ h[0] = base
                           /\ \A k \in 1..Len(s) : h[k] = Op(a, b, h[k - 1], s[k])
                           /\ Fold(a, b, base, s) = h[Len(s)]
  BY Zenon
<1> DEFINE n == Len(s)
           D == DOMAIN s
           iter == CHOOSE f : f = [S \in SUBSET D |->
                        IF S = {} THEN base ELSE Op(a, b, f[S \ {Greatest(S)}], s[Greatest(S)])]
           h == [k \in 0..n |-> iter[1..k]]
<1>1. n \in Nat /\ D = 1..n
  OBVIOUS
<1>2. Fold(a, b, base, s) = iter[D]
  BY DEF Fold, MapThenFoldSet
<1>3. PICK f : f = [S \in SUBSET D |->
                IF S = {} THEN base ELSE Op(a, b, f[S \ {Greatest(S)}], s[Greatest(S)])]
  <2>1. PICK f : Unfolds(a, b, base, s, n, f)
    BY <1>1, UnfoldsAll, Zenon
  <2>2. f = [S \in SUBSET D |->
                IF S = {} THEN base ELSE Op(a, b, f[S \ {Greatest(S)}], s[Greatest(S)])]
    BY <2>1, <1>1, Zenon DEF Unfolds
  <2> QED BY <2>2, Zenon
<1>4. iter = [S \in SUBSET D |->
                IF S = {} THEN base ELSE Op(a, b, iter[S \ {Greatest(S)}], s[Greatest(S)])]
  BY <1>3, Zenon
<1> HIDE DEF iter, D, n
<1>5. iter[{}] = base
  BY <1>4, Zenon
<1>6. ASSUME NEW k \in 1..n
      PROVE  iter[1..k] = Op(a, b, iter[1..(k - 1)], s[k])
  <2>1. k - 1 \in Nat /\ 1..k \in SUBSET D /\ 1..k # {} /\ k \in 1..k
    BY <1>1
  <2>2. Greatest(1..k) = k
    BY <2>1, LastIsMax, (k - 1) + 1 = k
  <2>3. (1..k) \ {k} = 1..(k - 1)
    BY <2>1
  <2> QED BY <1>4, <2>1, <2>2, <2>3
<1>7. h[0] = base
  BY <1>1, <1>5, 1..0 = {}
<1>8. \A k \in 1..n : h[k] = Op(a, b, h[k - 1], s[k])
  BY <1>1, <1>6
<1>9. Fold(a, b, base, s) = h[n]
  BY <1>1, <1>2
<1> HIDE DEF h
<1> QED BY <1>7, <1>8, <1>9 DEF n

(* What holds of the base and is kept by each step holds of the fold. *)
THEOREM FoldInduction ==
    (\A S : 0 \in S /\ (\A k \in Nat : k \in S => k + 1 \in S) => Nat \subseteq S) =>
    \A a, b, c, base, T : \A s \in Seq(T) :
        /\ P(a, b, c, s, 0, base)
        /\ \A k \in 1..Len(s) : \A h : P(a, b, c, s, k - 1, h)
                                        => P(a, b, c, s, k, Op(a, b, h, s[k]))
        => P(a, b, c, s, Len(s), Fold(a, b, base, s))
<1> SUFFICES ASSUME \A S : 0 \in S /\ (\A k \in Nat : k \in S => k + 1 \in S) => Nat \subseteq S,
                    NEW a, NEW b, NEW c, NEW base, NEW T, NEW s \in Seq(T),
                    P(a, b, c, s, 0, base),
                    \A k \in 1..Len(s) : \A h : P(a, b, c, s, k - 1, h)
                                                 => P(a, b, c, s, k, Op(a, b, h, s[k]))
             PROVE  P(a, b, c, s, Len(s), Fold(a, b, base, s))
  OBVIOUS
<1>1. PICK h : /\ h[0] = base
               /\ \A k \in 1..Len(s) : h[k] = Op(a, b, h[k - 1], s[k])
               /\ Fold(a, b, base, s) = h[Len(s)]
  BY FoldSteps
<1> DEFINE K == {k \in Nat : k <= Len(s) => P(a, b, c, s, k, h[k])}
<1>2. 0 \in K
  BY <1>1
<1>3. ASSUME NEW k \in Nat, k \in K PROVE k + 1 \in K
  <2> SUFFICES ASSUME k + 1 <= Len(s) PROVE P(a, b, c, s, k + 1, h[k + 1])
    OBVIOUS
  <2>1. k + 1 \in 1..Len(s) /\ (k + 1) - 1 = k /\ P(a, b, c, s, k, h[k])
    BY <1>3
  <2>2. P(a, b, c, s, k + 1, Op(a, b, h[k], s[k + 1]))
    BY <2>1
  <2> QED BY <1>1, <2>1, <2>2
<1>4. Len(s) \in Nat /\ Nat \subseteq K
  <2> HIDE DEF K
  <2> QED BY <1>2, <1>3
<1> QED BY <1>1, <1>4
=============================================================================
