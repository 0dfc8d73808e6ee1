-------------------------- MODULE ProgramGraphProofs --------------------------
(* Dependencies and users of the nodes of a program mirror each other: the   *)
(* invariant UsersMirrorDependencies of ProgramGraph for every topology,     *)
(* under the one assumption that its primitives name primitives it has.      *)
(*                                                                           *)
(* The proof goes from lists to graphs to passes: how often something is in  *)
(* a list after each list operation; what an edit of the graph keeps of the  *)
(* links (Edit); what a rewrite that adds nodes keeps (Step); what replace,  *)
(* the fusings and the propagation of constants do; the graph a topology     *)
(* starts with; and last the inductive invariant.  A loop of the code is a   *)
(* fold, and what holds after each of its turns is shown by FoldFacts.       *)
EXTENDS ProgramGraph, FiniteSetTheorems, SequenceTheorems, WellFoundedInduction, TLAPS

-----------------------------------------------------------------------------
(* Lists.  Two lists are compared by how often each element is in them.      *)

(* Induction over the natural numbers, for a set of them. *)
LEMMA NatInductive ==
    \A S : 0 \in S /\ (\A k \in Nat : k \in S => k + 1 \in S) => Nat \subseteq S
<1> SUFFICES ASSUME NEW S, 0 \in S, \A k \in Nat : k \in S => k + 1 \in S, Nat \ S # {}
             PROVE  FALSE
  OBVIOUS
<1>1. \E x \in Nat \ S : \A y \in Nat \ S : ~ (<<y, x>> \in OpToRel(<, Nat))
  BY NatLessThanWellFounded, WFMin, Zenon
<1>2. \A x, y \in Nat : y < x => <<y, x>> \in OpToRel(<, Nat)
  BY Zenon DEF OpToRel
<1> HIDE DEF OpToRel
<1>3. PICK x \in Nat \ S : \A y \in Nat : y < x => y \in S
  BY <1>1, <1>2, Zenon
<1>4. x # 0 /\ x - 1 \in Nat /\ x - 1 < x /\ (x - 1) + 1 = x
  BY <1>3
<1> QED BY <1>3, <1>4

(* The places of x in s. *)
Places(s, x) == {i \in DOMAIN s : s[i] = x}

(* How often something is in a sequence is a natural number, 0 if it is not. *)
LEMMA TimesNat ==
    ASSUME NEW D, NEW s \in Seq(D), NEW x
    PROVE  /\ IsFiniteSet(Places(s, x)) /\ Times(s, x) \in Nat
           /\ Times(s, x) = Cardinality(Places(s, x))
           /\ Times(s, x) = 0 <=> x \notin ToSet(s)
<1>1. DOMAIN s = 1..Len(s) /\ Len(s) \in Nat
  BY LenProperties
<1>2. IsFiniteSet(1..Len(s))
  BY <1>1, FS_Interval, SMT
<1>3. Places(s, x) \in SUBSET (1..Len(s))
  BY <1>1 DEF Places
<1>4. IsFiniteSet(Places(s, x))
  BY <1>2, <1>3, FS_Subset
<1>5. Times(s, x) = Cardinality(Places(s, x))
  BY DEF Times, Places
<1>6. Cardinality(Places(s, x)) \in Nat
  BY <1>4, FS_CardinalityType
<1>7. Places(s, x) = {} <=> x \notin ToSet(s)
  BY DEF Places, ToSet
<1> QED BY <1>4, <1>5, <1>6, <1>7, FS_EmptySet

(* Of two sequences in a row, it is the sum. *)
LEMMA TimesConcat ==
    ASSUME NEW D, NEW s \in Seq(D), NEW t \in Seq(D), NEW x
    PROVE  Times(s \o t, x) = Times(s, x) + Times(t, x)
<1> DEFINE A == Places(s, x)
           B == Places(t, x)
           C == {i \in DOMAIN (s \o t) : i > Len(s) /\ (s \o t)[i] = x}
           shift == [i \in B |-> i + Len(s)]
<1>1. /\ Len(s) \in Nat /\ DOMAIN s = 1..Len(s)
      /\ Len(t) \in Nat /\ DOMAIN t = 1..Len(t)
      /\ s \o t \in Seq(D) /\ DOMAIN (s \o t) = 1..(Len(s) + Len(t))
  BY LenProperties, ConcatProperties
<1>2. \A i \in 1..(Len(s) + Len(t)) :
          (s \o t)[i] = IF i <= Len(s) THEN s[i] ELSE t[i - Len(s)]
  BY ConcatProperties
<1>3. Places(s \o t, x) = A \cup C
  BY <1>1, <1>2 DEF Places
<1>4. A \cap C = {}
  BY <1>1 DEF Places
<1>5. shift \in Bijection(B, C)
  <2>1. \A i \in B : i \in 1..Len(t) /\ t[i] = x
    BY <1>1 DEF Places
  <2>2. \A i \in B : shift[i] \in C
    BY <1>1, <1>2, <2>1
  <2>3. \A i, j \in B : shift[i] = shift[j] => i = j
    BY <1>1, <2>1
  <2>4. ASSUME NEW i \in C PROVE \E j \in B : shift[j] = i
    <3>1. i - Len(s) \in B
      BY <1>1, <1>2 DEF Places
    <3> QED BY <1>1, <3>1
  <2> HIDE DEF B, C
  <2>5. shift \in [B -> C]
    BY <2>2
  <2> HIDE DEF shift
  <2>6. shift \in Injection(B, C) /\ shift \in Surjection(B, C)
    BY <2>3, <2>4, <2>5, Zenon DEF Injection, Surjection, IsInjective
  <2> QED BY <2>6, Zenon DEF Bijection
<1>6. IsFiniteSet(A) /\ IsFiniteSet(B) /\ Cardinality(A) \in Nat /\ Cardinality(B) \in Nat
  BY TimesNat
<1>7. IsFiniteSet(C) /\ Cardinality(C) = Cardinality(B)
  BY <1>5, <1>6, FS_Bijection DEF ExistsBijection
<1> HIDE DEF A, B, C, shift
<1>8. Cardinality(A \cup C) = Cardinality(A) + Cardinality(B)
  <2>1. Cardinality(A \cap C) = 0
    BY <1>4, FS_EmptySet
  <2>2. Cardinality(A \cup C) = Cardinality(A) + Cardinality(C) - Cardinality(A \cap C)
    BY <1>6, <1>7, FS_Union, Zenon
  <2> QED BY <1>6, <1>7, <2>1, <2>2
<1> QED BY <1>1, <1>3, <1>8, TimesNat DEF A, B

(* An empty sequence and a sequence of one element, counted. *)
LEMMA TimesOne ==
    ASSUME NEW D, NEW e \in D, NEW x
    PROVE  /\ << >> \in Seq(D) /\ Times(<< >>, x) = 0
           /\ <<e>> \in Seq(D) /\ Times(<<e>>, x) = IF x = e THEN 1 ELSE 0
<1>1. << >> \in Seq(D) /\ <<e>> \in Seq(D) /\ DOMAIN << >> = {} /\ DOMAIN <<e>> = {1}
  BY SMT
<1>2. Places(<< >>, x) = {} /\ Places(<<e>>, x) = IF x = e THEN {1} ELSE {}
  BY <1>1, SMT DEF Places
<1>3. /\ Times(<< >>, x) = Cardinality(Places(<< >>, x))
      /\ Times(<<e>>, x) = Cardinality(Places(<<e>>, x))
  BY <1>1, TimesNat
<1> QED BY <1>1, <1>2, <1>3, FS_EmptySet, FS_Singleton

(* Nothing is in the empty sequence. *)
LEMMA TimesNone == \A x : Times(<< >>, x) = 0
<1>1. ASSUME NEW x PROVE Times(<< >>, x) = 0
  <2>1. << >> \in Seq({x}) /\ ToSet(<< >>) = {}
    BY SMT DEF ToSet
  <2> QED BY <2>1, TimesNat
<1> QED BY <1>1

(* push_back adds its element once. *)
LEMMA TimesAppend ==
    ASSUME NEW D, NEW s \in Seq(D), NEW e \in D
    PROVE  /\ Append(s, e) \in Seq(D)
           /\ \A x : Times(Append(s, e), x) = Times(s, x) + (IF x = e THEN 1 ELSE 0)
<1> SUFFICES ASSUME NEW x
             PROVE  /\ Append(s, e) \in Seq(D)
                    /\ Times(Append(s, e), x) = Times(s, x) + (IF x = e THEN 1 ELSE 0)
  OBVIOUS
<1>1. Append(s, e) = s \o <<e>> /\ <<e>> \in Seq(D)
  BY AppendIsConcat, TimesOne
<1>2. Times(s \o <<e>>, x) = Times(s, x) + Times(<<e>>, x)
  BY <1>1, TimesConcat
<1>3. Append(s, e) \in Seq(D)
  BY AppendProperties
<1> QED BY <1>1, <1>2, <1>3, TimesOne

(* With another element in its i-th place, it is one less for the old        *)
(* element and one more for the new one.                                     *)
LEMMA TimesReplace ==
    ASSUME NEW D, NEW s \in Seq(D), NEW i \in DOMAIN s, NEW e \in D
    PROVE  /\ [s EXCEPT ![i] = e] \in Seq(D) /\ Len([s EXCEPT ![i] = e]) = Len(s)
           /\ \A x : Times([s EXCEPT ![i] = e], x)
                      = Times(s, x) - (IF x = s[i] THEN 1 ELSE 0) + (IF x = e THEN 1 ELSE 0)
<1> SUFFICES ASSUME NEW x
             PROVE  /\ [s EXCEPT ![i] = e] \in Seq(D) /\ Len([s EXCEPT ![i] = e]) = Len(s)
                    /\ Times([s EXCEPT ![i] = e], x)
                      = Times(s, x) - (IF x = s[i] THEN 1 ELSE 0) + (IF x = e THEN 1 ELSE 0)
  OBVIOUS
<1> DEFINE t == [s EXCEPT ![i] = e]
           A == Places(s, x)
           B == Places(t, x)
<1>1. i \in 1..Len(s) /\ DOMAIN s = 1..Len(s)
  BY LenProperties
<1>2. t \in Seq(D) /\ Len(t) = Len(s) /\ DOMAIN t = DOMAIN s
  BY <1>1, ExceptSeq
<1>3. \A j \in DOMAIN s : t[j] = IF j = i THEN e ELSE s[j]
  OBVIOUS
<1>4. /\ IsFiniteSet(A) /\ Cardinality(A) \in Nat
      /\ Times(s, x) = Cardinality(A) /\ Times(t, x) = Cardinality(B)
  BY <1>2, TimesNat
<1>5. B = IF x = e THEN A \cup {i} ELSE A \ {i}
  BY <1>2, <1>3 DEF Places
<1>6. i \in A <=> x = s[i]
  BY DEF Places
<1> HIDE DEF A, B, t
<1>7. /\ Cardinality(A \cup {i}) = IF i \in A THEN Cardinality(A) ELSE Cardinality(A) + 1
      /\ Cardinality(A \ {i}) = IF i \in A THEN Cardinality(A) - 1 ELSE Cardinality(A)
  BY <1>4, FS_AddElement, FS_RemoveElement
<1>8. x = e => Times(t, x) = Times(s, x) - (IF x = s[i] THEN 1 ELSE 0) + 1
  BY <1>4, <1>5, <1>6, <1>7
<1>9. x # e => Times(t, x) = Times(s, x) - (IF x = s[i] THEN 1 ELSE 0)
  BY <1>4, <1>5, <1>6, <1>7
<1> QED BY <1>2, <1>4, <1>8, <1>9 DEF t

(* The first place of x: FirstAt and RemoveFirst look for it. *)
LEMMA FirstPlace ==
    ASSUME NEW D, NEW s \in Seq(D), NEW x
    PROVE  /\ FirstAt(s, x) \in 0..Len(s)
           /\ x \in ToSet(s) => FirstAt(s, x) \in DOMAIN s /\ s[FirstAt(s, x)] = x
           /\ x \notin ToSet(s) => FirstAt(s, x) = 0
<1> DEFINE I == {i \in 1..Len(s) : s[i] = x}
<1>1. DOMAIN s = 1..Len(s) /\ Len(s) \in Nat
  BY LenProperties
<1>2. I = {} <=> x \notin ToSet(s)
  BY <1>1 DEF ToSet
<1>3. FirstAt(s, x) = IF I # {} THEN Min(I) ELSE 0
  BY DEF FirstAt, SelectInSeq
<1>4. I # {} => Min(I) \in I
  <2> SUFFICES ASSUME I # {} PROVE Min(I) \in I
    OBVIOUS
  <2>1. I \in SUBSET Nat
    BY <1>1
  <2> HIDE DEF I
  <2>2. \E i \in I : \A j \in I : ~ (<<j, i>> \in OpToRel(<, Nat))
    BY <2>1, NatLessThanWellFounded, WFMin, Zenon
  <2>3. \A i, j \in Nat : j < i => <<j, i>> \in OpToRel(<, Nat)
    BY Zenon DEF OpToRel
  <2>4. \A i, j \in Nat : j < i \/ i <= j
    OBVIOUS
  <2> HIDE DEF OpToRel
  <2>5. \E i \in I : \A j \in I : i <= j
    BY <2>1, <2>2, <2>3, <2>4, Zenon
  <2> QED BY <2>5, Zenon DEF Min
<1> QED BY <1>1, <1>2, <1>3, <1>4

(* A part of a list is a list of the same things. *)
LEMMA SubSeqType ==
    ASSUME NEW D, NEW s \in Seq(D), NEW i \in 1..(Len(s) + 1), NEW j \in 0..Len(s)
    PROVE  SubSeq(s, i, j) \in Seq(D)
<1>1. Len(s) \in Nat /\ DOMAIN s = 1..Len(s)
  BY LenProperties
<1>2. \A k \in i..j : s[k] \in D
  BY <1>1, ElementOfSeq
<1> QED BY <1>1, <1>2, SubSeqProperties

(* A sequence is what is in front of a place of it, the element there and    *)
(* what is behind it.                                                        *)
LEMMA TimesSplit ==
    ASSUME NEW D, NEW s \in Seq(D), NEW i \in 1..(Len(s) + 1), NEW x
    PROVE  /\ SubSeq(s, 1, i - 1) \in Seq(D) /\ SubSeq(s, i, Len(s)) \in Seq(D)
           /\ Times(s, x) = Times(SubSeq(s, 1, i - 1), x) + Times(SubSeq(s, i, Len(s)), x)
<1>1. Len(s) \in Nat
  BY LenProperties
<1>2. SubSeq(s, 1, i - 1) \in Seq(D) /\ SubSeq(s, i, Len(s)) \in Seq(D)
  BY <1>1, SubSeqType
<1>3. SubSeq(s, 1, i - 1) \o SubSeq(s, (i - 1) + 1, Len(s)) = SubSeq(s, 1, Len(s))
  <2>1. 1 \in 1..(Len(s) + 1) /\ i - 1 \in (1 - 1)..Len(s) /\ Len(s) \in (i - 1)..Len(s)
    BY <1>1
  <2> QED BY <2>1, ConcatAdjacentSubSeq
<1>4. s = SubSeq(s, 1, i - 1) \o SubSeq(s, i, Len(s))
  BY <1>1, <1>3, SubSeqFull, (i - 1) + 1 = i
<1> QED BY ZenonT(60), <1>2, <1>4, TimesConcat

(* Erasing a place takes away its element once. *)
LEMMA TimesRemoveAt ==
    ASSUME NEW D, NEW s \in Seq(D), NEW i \in DOMAIN s, NEW x
    PROVE  /\ RemoveAt(s, i) \in Seq(D)
           /\ Times(RemoveAt(s, i), x) = Times(s, x) - (IF x = s[i] THEN 1 ELSE 0)
<1>1. Len(s) \in Nat /\ i \in 1..Len(s) /\ s[i] \in D
  BY LenProperties, ElementOfSeq
<1> DEFINE A == SubSeq(s, 1, i - 1)
           B == SubSeq(s, i, Len(s))
           C == SubSeq(s, i + 1, Len(s))
<1>2. /\ A \in Seq(D) /\ B \in Seq(D) /\ C \in Seq(D)
      /\ Times(s, x) = Times(A, x) + Times(B, x)
  BY <1>1, TimesSplit, SubSeqType
<1>3. B = <<s[i]>> \o C
  <2>1. Len(s) \in i..Len(s)
    BY <1>1
  <2> QED BY <1>1, <2>1, SubSeqRecursiveFirst
<1>4. Times(B, x) = (IF x = s[i] THEN 1 ELSE 0) + Times(C, x)
  <2> HIDE DEF A, B, C
  <2>1. <<s[i]>> \in Seq(D) /\ Times(<<s[i]>>, x) = IF x = s[i] THEN 1 ELSE 0
    BY <1>1, TimesOne
  <2>2. Times(<<s[i]>> \o C, x) = Times(<<s[i]>>, x) + Times(C, x)
    BY ZenonT(60), <1>2, <2>1, TimesConcat
  <2> QED BY <1>3, <2>1, <2>2
<1>5. A \o C \in Seq(D) /\ Times(A \o C, x) = Times(A, x) + Times(C, x)
  BY ZenonT(60), <1>2, TimesConcat, ConcatProperties
<1>6. RemoveAt(s, i) = A \o C
  BY DEF RemoveAt
<1>7. Times(A, x) \in Nat /\ Times(C, x) \in Nat
  BY <1>2, TimesNat
<1> HIDE DEF A, B, C
<1> QED BY <1>2, <1>4, <1>5, <1>6, <1>7

(* What is erased where find found it is there once less. *)
LEMMA TimesRemoveFirst ==
    ASSUME NEW D, NEW s \in Seq(D), NEW e
    PROVE  /\ RemoveFirst(s, e) \in Seq(D)
           /\ \A x : Times(RemoveFirst(s, e), x)
                      = IF x = e /\ e \in ToSet(s) THEN Times(s, x) - 1 ELSE Times(s, x)
<1> SUFFICES ASSUME NEW x
             PROVE  /\ RemoveFirst(s, e) \in Seq(D)
                    /\ Times(RemoveFirst(s, e), x)
                      = IF x = e /\ e \in ToSet(s) THEN Times(s, x) - 1 ELSE Times(s, x)
  OBVIOUS
<1>1. DOMAIN s = 1..Len(s)
  BY LenProperties
<1>2. RemoveFirst(s, e) = IF e \in ToSet(s) THEN RemoveAt(s, FirstAt(s, e)) ELSE s
  BY <1>1 DEF RemoveFirst, FirstAt, ToSet
<1>3. CASE e \in ToSet(s)
  <2>1. FirstAt(s, e) \in DOMAIN s /\ s[FirstAt(s, e)] = e
    BY <1>3, FirstPlace
  <2>2. /\ RemoveAt(s, FirstAt(s, e)) \in Seq(D)
        /\ Times(RemoveAt(s, FirstAt(s, e)), x) = Times(s, x) - (IF x = e THEN 1 ELSE 0)
    BY <2>1, TimesRemoveAt
  <2>3. Times(s, x) \in Nat
    BY TimesNat
  <2> QED BY <1>2, <1>3, <2>2, <2>3
<1>4. CASE e \notin ToSet(s)
  BY <1>2, <1>4
<1> QED BY <1>3, <1>4

(* insert adds its element once, wherever it is put. *)
LEMMA TimesInsertAt ==
    ASSUME NEW D, NEW s \in Seq(D), NEW i \in 1..(Len(s) + 1), NEW e \in D
    PROVE  /\ InsertAt(s, i, e) \in Seq(D)
           /\ \A x : Times(InsertAt(s, i, e), x) = Times(s, x) + (IF x = e THEN 1 ELSE 0)
<1> SUFFICES ASSUME NEW x
             PROVE  /\ InsertAt(s, i, e) \in Seq(D)
                    /\ Times(InsertAt(s, i, e), x) = Times(s, x) + (IF x = e THEN 1 ELSE 0)
  OBVIOUS
<1> DEFINE A == SubSeq(s, 1, i - 1)
           B == SubSeq(s, i, Len(s))
<1>1. /\ A \in Seq(D) /\ B \in Seq(D) /\ <<e>> \in Seq(D)
      /\ Times(s, x) = Times(A, x) + Times(B, x)
  BY TimesSplit, TimesOne
<1>2. InsertAt(s, i, e) = (A \o <<e>>) \o B
  BY <1>1, ConcatAssociative DEF InsertAt
<1> HIDE DEF A, B
<1>3. A \o <<e>> \in Seq(D) /\ (A \o <<e>>) \o B \in Seq(D)
  BY <1>1, ConcatProperties
<1>4. Times(A \o <<e>>, x) = Times(A, x) + Times(<<e>>, x)
  BY ZenonT(60), <1>1, TimesConcat
<1>5. Times((A \o <<e>>) \o B, x) = Times(A \o <<e>>, x) + Times(B, x)
  <2> DEFINE Ae == A \o <<e>>
  <2>1. Ae \in Seq(D)
    BY <1>3
  <2> HIDE DEF Ae
  <2>2. Times(Ae \o B, x) = Times(Ae, x) + Times(B, x)
    BY <1>1, <2>1, TimesConcat
  <2> QED BY <2>2 DEF Ae
<1>6. Times(A, x) \in Nat /\ Times(B, x) \in Nat
  BY <1>1, TimesNat
<1> QED BY <1>1, <1>2, <1>3, <1>4, <1>5, <1>6, TimesOne

(* Among, as a fold the fold facts are about. *)
AmongOp(S, b, t, x) == IF x \in S THEN Append(t, x) ELSE t
AmongInv(S, b, D, s, k, t) ==
    /\ t \in Seq(D)
    /\ \A x : Times(t, x) = IF x \in S THEN Times(SubSeq(s, 1, k), x) ELSE 0
AmongFold == INSTANCE FoldFacts WITH Op <- AmongOp, P <- AmongInv

(* What is selected from a sequence is as often in the result as in it. *)
LEMMA TimesAmong ==
    ASSUME NEW D, NEW s \in Seq(D), NEW S
    PROVE  /\ Among(s, S) \in Seq(D)
           /\ \A x : Times(Among(s, S), x) = IF x \in S THEN Times(s, x) ELSE 0
<1>1. Among(s, S) = AmongFold!Fold(S, 0, << >>, s)
  BY SMT DEF Among, AmongFold!Fold, AmongOp, FoldLeft, MapThenFoldSet,
             AmongFold!MapThenFoldSet, Max, AmongFold!Greatest
<1>2. Len(s) \in Nat /\ DOMAIN s = 1..Len(s) /\ SubSeq(s, 1, Len(s)) = s /\ SubSeq(s, 1, 0) = << >>
  BY LenProperties, SubSeqFull, SubSeqEmpty
<1>3. AmongInv(S, 0, D, s, 0, << >>)
  <2>1. << >> \in Seq(D) /\ \A x : Times(<< >>, x) = 0
    BY TimesNone, SMT
  <2> QED BY <1>2, <2>1 DEF AmongInv
<1>4. ASSUME NEW k \in 1..Len(s), NEW t, AmongInv(S, 0, D, s, k - 1, t)
      PROVE  AmongInv(S, 0, D, s, k, AmongOp(S, 0, t, s[k]))
  <2>1. /\ s[k] \in D /\ k - 1 \in 0..Len(s) /\ 1 \in 1..(Len(s) + 1)
        /\ 1 \in 1..Len(s) /\ k \in 1..Len(s)
    BY <1>2
  <2>2. SubSeq(s, 1, k - 1) \in Seq(D)
    BY <2>1, SubSeqType
  <2>3. SubSeq(s, 1, k) = Append(SubSeq(s, 1, k - 1), s[k])
    <3>1. SubSeq(s, 1, k) = SubSeq(s, 1, k - 1) \o <<s[k]>>
      BY <2>1, SubSeqRecursiveSecond
    <3> QED BY <2>1, <2>2, <3>1, AppendIsConcat
  <2>4. \A x : Times(SubSeq(s, 1, k), x)
                 = Times(SubSeq(s, 1, k - 1), x) + (IF x = s[k] THEN 1 ELSE 0)
    <3>1. \A x : Times(Append(SubSeq(s, 1, k - 1), s[k]), x)
                   = Times(SubSeq(s, 1, k - 1), x) + (IF x = s[k] THEN 1 ELSE 0)
      BY <2>1, <2>2, TimesAppend, ZenonT(60)
    <3> QED BY <2>3, <3>1
  <2>5. \A x : Times(SubSeq(s, 1, k - 1), x) \in Nat
    BY <2>2, TimesNat
  <2>6. t \in Seq(D)
    BY <1>4 DEF AmongInv
  <2>7. CASE s[k] \in S
    <3>1. Append(t, s[k]) \in Seq(D)
      BY <2>1, <2>6, AppendProperties
    <3>2. \A x : Times(Append(t, s[k]), x) = Times(t, x) + (IF x = s[k] THEN 1 ELSE 0)
      BY <2>1, <2>6, TimesAppend
    <3> QED BY <1>4, <2>4, <2>5, <2>7, <3>1, <3>2 DEF AmongInv, AmongOp
  <2>8. CASE s[k] \notin S
    BY <1>4, <2>4, <2>5, <2>8 DEF AmongInv, AmongOp
  <2> QED BY <2>7, <2>8
<1>5. AmongInv(S, 0, D, s, Len(s), AmongFold!Fold(S, 0, << >>, s))
  BY <1>3, <1>4, AmongFold!FoldInduction, NatInductive
<1> QED BY <1>1, <1>2, <1>5 DEF AmongInv

(* list::remove takes all occurrences away and no other. *)
LEMMA TimesWithout ==
    ASSUME NEW D, NEW s \in Seq(D), NEW e
    PROVE  /\ Without(s, e) \in Seq(D)
           /\ \A x : Times(Without(s, e), x) = IF x = e THEN 0 ELSE Times(s, x)
<1>1. Without(s, e) \in Seq(D)
  BY TimesAmong DEF Without
<1>2. \A x : Times(Without(s, e), x) = IF x \in ToSet(s) \ {e} THEN Times(s, x) ELSE 0
  BY TimesAmong DEF Without
<1>3. \A x : x \notin ToSet(s) => Times(s, x) = 0
  BY TimesNat
<1> QED BY <1>1, <1>2, <1>3

(* What is in a sequence is in its set, and the set is over its elements. *)
LEMMA ToSetType ==
    ASSUME NEW D, NEW s \in Seq(D)
    PROVE  /\ ToSet(s) \subseteq D
           /\ \A x : x \in ToSet(s) <=> Times(s, x) > 0
           /\ \A i \in DOMAIN s : s[i] \in ToSet(s) /\ s[i] \in D
<1>1. \A i \in DOMAIN s : s[i] \in D
  BY LenProperties, ElementOfSeq
<1>2. \A x : Times(s, x) \in Nat /\ (Times(s, x) = 0 <=> x \notin ToSet(s))
  BY TimesNat
<1> QED BY <1>1, <1>2 DEF ToSet

(* Replacing an element by another of the set keeps the list over the set. *)
LEMMA ReplaceAllType ==
    ASSUME NEW D, NEW s \in Seq(D), NEW old, NEW new \in D
    PROVE  ReplaceAll(s, old, new) \in Seq(D)
<1>1. Len(s) \in Nat /\ \A i \in 1..Len(s) : s[i] \in D
  BY LenProperties, ElementOfSeq
<1>2. ReplaceAll(s, old, new) \in [1..Len(s) -> D]
  BY <1>1 DEF ReplaceAll
<1> QED BY <1>1, <1>2, SeqDef

(* Two places of an element make it there twice. *)
LEMMA TwoPlaces ==
    ASSUME NEW D, NEW s \in Seq(D), NEW i \in DOMAIN s, NEW j \in DOMAIN s, i # j, s[i] = s[j]
    PROVE  Times(s, s[i]) > 1
<1> DEFINE A == Places(s, s[i])
<1>1. IsFiniteSet(A) /\ Cardinality(A) \in Nat /\ Times(s, s[i]) = Cardinality(A)
  BY TimesNat
<1>2. i \in A /\ j \in A \ {i}
  BY DEF Places
<1> HIDE DEF A
<1>3. IsFiniteSet(A \ {i}) /\ Cardinality(A \ {i}) = Cardinality(A) - 1
  BY <1>1, <1>2, FS_RemoveElement
<1>4. Cardinality(A \ {i}) # 0
  BY <1>2, <1>3, FS_EmptySet
<1>5. Cardinality(A \ {i}) \in Nat
  BY <1>3, FS_CardinalityType
<1> QED BY <1>1, <1>3, <1>4, <1>5

(* Sequences joined. *)
JoinedOp(a, b, s, t) == s \o t
JoinedInv(a, b, D, seqs, k, s) == s \in Seq(D)
JoinedFold == INSTANCE FoldFacts WITH Op <- JoinedOp, P <- JoinedInv

(* Lists of nodes one after the other are a list of nodes. *)
LEMMA JoinedType ==
    ASSUME NEW D, NEW seqs \in Seq(Seq(D))
    PROVE  Joined(seqs) \in Seq(D)
<1>1. Joined(seqs) = JoinedFold!Fold(0, 0, << >>, seqs)
  BY SMT DEF Joined, JoinedFold!Fold, JoinedOp, FoldLeft, MapThenFoldSet,
             JoinedFold!MapThenFoldSet, Max, JoinedFold!Greatest
<1>2. JoinedInv(0, 0, D, seqs, 0, << >>)
  BY TimesOne DEF JoinedInv
<1>3. ASSUME NEW k \in 1..Len(seqs), NEW s, JoinedInv(0, 0, D, seqs, k - 1, s)
      PROVE  JoinedInv(0, 0, D, seqs, k, JoinedOp(0, 0, s, seqs[k]))
  BY <1>3, ElementOfSeq, ConcatProperties DEF JoinedInv, JoinedOp
<1>4. JoinedInv(0, 0, D, seqs, Len(seqs), JoinedFold!Fold(0, 0, << >>, seqs))
  BY <1>2, <1>3, JoinedFold!FoldInduction, NatInductive
<1> QED BY <1>1, <1>4 DEF JoinedInv

-----------------------------------------------------------------------------
(* Graphs, edits of a graph, and the operations that are edits. *)

(* What every graph is, whatever the passes did: the nodes are a sequence of *)
(* node records whose lists name nodes, as the order and the map do.         *)
NodeFields == {"id", "kind", "value", "blocked", "deps", "users", "output", "constant", "activated"}
NodeOver(node, D) == DOMAIN node = NodeFields /\ node.deps \in Seq(D) /\ node.users \in Seq(D)
NodesOver(ns) ==
    /\ ns \in Seq(ToSet(ns))
    /\ \A n \in DOMAIN ns : NodeOver(ns[n], DOMAIN ns)
Shape(g) ==
    /\ DOMAIN g = {"nodes", "map", "order", "inputs", "outputs"}
    /\ NodesOver(g.nodes)
    /\ g.order \in Seq(DOMAIN g.nodes)
    /\ \A i \in DOMAIN g.map : g.map[i] \in DOMAIN g.nodes

(* Node a has b as a dependency as often as b has a as a user. *)
Linked(ns, a, b) == Times(ns[a].deps, b) = Times(ns[b].users, a)

(* The nodes are those they were, but for their lists and flags. *)
Alike(ns, ms) ==
    /\ DOMAIN ms = DOMAIN ns /\ ms = [n \in DOMAIN ms |-> ms[n]]
    /\ \A n \in DOMAIN ns :
          /\ DOMAIN ms[n] = DOMAIN ns[n]
          /\ ms[n].id = ns[n].id /\ ms[n].kind = ns[n].kind /\ ms[n].output = ns[n].output

(* An edit of the nodes keeps them, and every pair that agrees. *)
NodesEdit(ns, ms) ==
    /\ NodesOver(ms) /\ Alike(ns, ms)
    /\ \A a, b \in DOMAIN ns : Linked(ns, a, b) => Linked(ms, a, b)

(* An edit of the graph: nothing is created, what is in the map was in it. *)
Edit(g, h) ==
    /\ Shape(h) /\ NodesEdit(g.nodes, h.nodes)
    /\ \A i \in DOMAIN h.map : i \in DOMAIN g.map /\ h.map[i] = g.map[i]

(* A function on positions is a sequence over what it takes. *)
LEMMA SeqOfItself ==
    ASSUME NEW f, NEW n \in Nat, DOMAIN f = 1..n, f = [i \in DOMAIN f |-> f[i]]
    PROVE  f \in Seq(ToSet(f))
<1>1. \A i \in 1..n : f[i] \in ToSet(f)
  BY DEF ToSet
<1>2. f \in [1..n -> ToSet(f)]
  BY <1>1
<1> QED BY <1>2, SeqDef

(* The lists of a graph, and how often something is in them. *)
LEMMA Lists ==
    ASSUME NEW ns, NodesOver(ns)
    PROVE  /\ Len(ns) \in Nat /\ DOMAIN ns = 1..Len(ns)
           /\ \A n \in DOMAIN ns :
                 /\ ns[n].deps \in Seq(DOMAIN ns) /\ ns[n].users \in Seq(DOMAIN ns)
                 /\ DOMAIN ns[n] = NodeFields
                 /\ \A x : Times(ns[n].deps, x) \in Nat /\ Times(ns[n].users, x) \in Nat
<1>1. \A n \in DOMAIN ns : /\ ns[n].deps \in Seq(DOMAIN ns) /\ ns[n].users \in Seq(DOMAIN ns)
                           /\ DOMAIN ns[n] = NodeFields
  BY DEF NodesOver, NodeOver
<1>2. ASSUME NEW n \in DOMAIN ns, NEW x
      PROVE  Times(ns[n].deps, x) \in Nat /\ Times(ns[n].users, x) \in Nat
  BY <1>1, TimesNat
<1>3. Len(ns) \in Nat /\ DOMAIN ns = 1..Len(ns)
  BY DEF NodesOver
<1> QED BY <1>1, <1>2, <1>3

(* Nodes with other lists over the same nodes are nodes. *)
LEMMA NodesAgain ==
    ASSUME NEW ns, NodesOver(ns), NEW ms, Alike(ns, ms),
           \A n \in DOMAIN ns : ms[n].deps \in Seq(DOMAIN ns) /\ ms[n].users \in Seq(DOMAIN ns)
    PROVE  NodesOver(ms)
<1>1. Len(ns) \in Nat /\ DOMAIN ns = 1..Len(ns)
  BY DEF NodesOver
<1>2. DOMAIN ms = DOMAIN ns /\ ms = [n \in DOMAIN ms |-> ms[n]]
  BY DEF Alike
<1>3. \A n \in DOMAIN ns : NodeOver(ms[n], DOMAIN ns)
  BY DEF Alike, NodesOver, NodeOver
<1> QED BY <1>1, <1>2, <1>3, SeqOfItself DEF NodesOver

(* How a graph is shown to be an edit of another. *)
LEMMA EditOf ==
    ASSUME NEW g, Shape(g), NEW h, DOMAIN h = DOMAIN g, Alike(g.nodes, h.nodes),
           \A n \in DOMAIN g.nodes : /\ h.nodes[n].deps \in Seq(DOMAIN g.nodes)
                                     /\ h.nodes[n].users \in Seq(DOMAIN g.nodes),
           h.order \in Seq(DOMAIN g.nodes),
           \A i \in DOMAIN h.map : i \in DOMAIN g.map /\ h.map[i] = g.map[i],
           \A a, b \in DOMAIN g.nodes : Linked(g.nodes, a, b) => Linked(h.nodes, a, b)
    PROVE  Edit(g, h)
<1>1. NodesOver(h.nodes) /\ DOMAIN h.nodes = DOMAIN g.nodes
  BY NodesAgain DEF Shape, Alike
<1>2. Shape(h)
  BY <1>1 DEF Shape
<1> QED BY <1>1, <1>2 DEF Edit, NodesEdit

(* A graph is an edit of itself. *)
LEMMA EditRefl ==
    ASSUME NEW g, Shape(g)
    PROVE  Edit(g, g)
<1>1. g.nodes = [n \in DOMAIN g.nodes |-> g.nodes[n]]
  BY DEF Shape, NodesOver
<1> QED BY <1>1 DEF Edit, NodesEdit, Alike, Shape

(* Edits can follow one another. *)
LEMMA EditTrans ==
    ASSUME NEW f, NEW g, NEW h, Edit(f, g), Edit(g, h)
    PROVE  Edit(f, h)
<1>1. NodesEdit(f.nodes, h.nodes)
  BY DEF Edit, NodesEdit, Alike
<1> QED BY <1>1 DEF Edit

(* add_connection is an edit, and appends at both ends. *)
LEMMA AddConnectionEdits ==
    ASSUME NEW g, Shape(g), NEW prev \in DOMAIN g.nodes, NEW next \in DOMAIN g.nodes
    PROVE  LET h == AddConnection(g, prev, next) IN
           /\ Edit(g, h) /\ h.map = g.map /\ h.order = g.order
           /\ \A m \in DOMAIN g.nodes :
                 /\ Users(h, m) = IF m = prev THEN Append(Users(g, m), next) ELSE Users(g, m)
                 /\ Deps(h, m) = IF m = next THEN Append(Deps(g, m), prev) ELSE Deps(g, m)
<1> DEFINE D == DOMAIN g.nodes
           s == Append(g.nodes[prev].users, next)
           t == Append(g.nodes[next].deps, prev)
           h == AddConnection(g, prev, next)
<1>1. NodesOver(g.nodes)
  BY DEF Shape
<1>2. /\ s \in Seq(D)
      /\ \A x : Times(s, x) = Times(g.nodes[prev].users, x) + (IF x = next THEN 1 ELSE 0)
      /\ t \in Seq(D)
      /\ \A x : Times(t, x) = Times(g.nodes[next].deps, x) + (IF x = prev THEN 1 ELSE 0)
  <2>1. g.nodes[prev].users \in Seq(D) /\ g.nodes[next].deps \in Seq(D)
    BY <1>1, Lists
  <2>2. /\ s \in Seq(D)
        /\ \A x : Times(s, x) = Times(g.nodes[prev].users, x) + (IF x = next THEN 1 ELSE 0)
    BY <2>1, TimesAppend, ZenonT(60)
  <2>3. /\ t \in Seq(D)
        /\ \A x : Times(t, x) = Times(g.nodes[next].deps, x) + (IF x = prev THEN 1 ELSE 0)
    BY <2>1, TimesAppend, ZenonT(60)
  <2> QED BY <2>2, <2>3
<1>3. DOMAIN h = DOMAIN g /\ h.map = g.map /\ h.order = g.order
  BY DEF Shape, AddConnection
<1>4. Alike(g.nodes, h.nodes)
  BY ZenonT(60) DEF Shape, AddConnection, NodesOver, NodeOver, NodeFields, Alike
<1>5. \A m \in D : /\ h.nodes[m].users = IF m = prev THEN s ELSE g.nodes[m].users
                   /\ h.nodes[m].deps = IF m = next THEN t ELSE g.nodes[m].deps
  BY DEF Shape, AddConnection, NodesOver, NodeOver, NodeFields
<1> HIDE DEF s, t, h
<1>6. \A m \in D : h.nodes[m].deps \in Seq(D) /\ h.nodes[m].users \in Seq(D)
  BY <1>1, <1>2, <1>5, Lists
<1>7. ASSUME NEW a \in D, NEW b \in D, Linked(g.nodes, a, b) PROVE Linked(h.nodes, a, b)
  <2>1. Times(g.nodes[a].deps, b) \in Nat /\ Times(g.nodes[b].users, a) \in Nat
    BY <1>1, Lists
  <2>2. Times(h.nodes[a].deps, b)
          = Times(g.nodes[a].deps, b) + (IF a = next /\ b = prev THEN 1 ELSE 0)
    BY <1>2, <1>5, <2>1
  <2>3. Times(h.nodes[b].users, a)
          = Times(g.nodes[b].users, a) + (IF a = next /\ b = prev THEN 1 ELSE 0)
    BY <1>2, <1>5, <2>1
  <2> QED BY <1>7, <2>2, <2>3 DEF Linked
<1>8. Edit(g, h)
  BY <1>3, <1>4, <1>6, <1>7, EditOf DEF Shape
<1> QED BY <1>3, <1>5, <1>8 DEF Users, Deps, s, t, h

(* remove_connection is an edit, and removes at both ends whatever is there. *)
LEMMA RemoveConnectionEdits ==
    ASSUME NEW g, Shape(g), NEW prev \in DOMAIN g.nodes, NEW next \in DOMAIN g.nodes
    PROVE  LET h == RemoveConnection(g, prev, next) IN
           /\ Edit(g, h) /\ h.map = g.map /\ h.order = g.order
           /\ \A m \in DOMAIN g.nodes :
                 /\ Users(h, m) = IF m = prev THEN Without(Users(g, m), next) ELSE Users(g, m)
                 /\ Deps(h, m) = IF m = next THEN Without(Deps(g, m), prev) ELSE Deps(g, m)
<1> DEFINE D == DOMAIN g.nodes
           s == Without(g.nodes[prev].users, next)
           t == Without(g.nodes[next].deps, prev)
           h == RemoveConnection(g, prev, next)
<1>1. NodesOver(g.nodes)
  BY DEF Shape
<1>2. /\ s \in Seq(D)
      /\ \A x : Times(s, x) = IF x = next THEN 0 ELSE Times(g.nodes[prev].users, x)
      /\ t \in Seq(D)
      /\ \A x : Times(t, x) = IF x = prev THEN 0 ELSE Times(g.nodes[next].deps, x)
  BY SMTT(40), <1>1, Lists, TimesWithout
<1>3. DOMAIN h = DOMAIN g /\ h.map = g.map /\ h.order = g.order
  BY DEF Shape, RemoveConnection
<1>4. Alike(g.nodes, h.nodes)
  BY ZenonT(60) DEF Shape, RemoveConnection, NodesOver, NodeOver, NodeFields, Alike
<1>5. \A m \in D : /\ h.nodes[m].users = IF m = prev THEN s ELSE g.nodes[m].users
                   /\ h.nodes[m].deps = IF m = next THEN t ELSE g.nodes[m].deps
  BY DEF Shape, RemoveConnection, NodesOver, NodeOver, NodeFields
<1> HIDE DEF s, t, h
<1>6. \A m \in D : h.nodes[m].deps \in Seq(D) /\ h.nodes[m].users \in Seq(D)
  BY <1>1, <1>2, <1>5, Lists
<1>7. ASSUME NEW a \in D, NEW b \in D, Linked(g.nodes, a, b) PROVE Linked(h.nodes, a, b)
  <2>1. Times(h.nodes[a].deps, b)
          = IF a = next /\ b = prev THEN 0 ELSE Times(g.nodes[a].deps, b)
    BY <1>2, <1>5
  <2>2. Times(h.nodes[b].users, a)
          = IF a = next /\ b = prev THEN 0 ELSE Times(g.nodes[b].users, a)
    BY <1>2, <1>5
  <2> QED BY <1>7, <2>1, <2>2 DEF Linked
<1>8. Edit(g, h)
  BY <1>3, <1>4, <1>6, <1>7, EditOf DEF Shape
<1> QED BY <1>3, <1>5, <1>8 DEF Users, Deps, s, t, h

(* How many more times a has b as a dependency than b has a as a user. *)
Gap(ns, a, b) == Times(ns[a].deps, b) - Times(ns[b].users, a)

(* Flags, the order and the map are no links. *)
LEMMA EditOfFlags ==
    ASSUME NEW g, Shape(g), NEW h, DOMAIN h = DOMAIN g, Alike(g.nodes, h.nodes),
           \A n \in DOMAIN g.nodes : /\ h.nodes[n].deps = g.nodes[n].deps
                                     /\ h.nodes[n].users = g.nodes[n].users,
           h.order \in Seq(DOMAIN g.nodes),
           \A i \in DOMAIN h.map : i \in DOMAIN g.map /\ h.map[i] = g.map[i]
    PROVE  Edit(g, h)
<1>1. \A n \in DOMAIN g.nodes : /\ h.nodes[n].deps \in Seq(DOMAIN g.nodes)
                                /\ h.nodes[n].users \in Seq(DOMAIN g.nodes)
  BY Lists DEF Shape
<1>2. \A a, b \in DOMAIN g.nodes : Linked(g.nodes, a, b) => Linked(h.nodes, a, b)
  BY DEF Linked
<1> QED BY <1>1, <1>2, EditOf

(* remove_if_dangling changes no link. *)
LEMMA RemoveIfDanglingEdits ==
    ASSUME NEW g, Shape(g), NEW n \in DOMAIN g.nodes
    PROVE  LET h == RemoveIfDangling(g, n) IN
           Edit(g, h) /\ h.nodes = g.nodes
<1> DEFINE h == RemoveIfDangling(g, n)
<1>1. DOMAIN h = DOMAIN g /\ h.nodes = g.nodes
  BY DEF Shape, RemoveIfDangling
<1>2. Alike(g.nodes, h.nodes)
  BY <1>1 DEF Alike, Shape, NodesOver
<1>3. h.order \in Seq(DOMAIN g.nodes)
  BY TimesWithout DEF Shape, RemoveIfDangling
<1>4. \A i \in DOMAIN h.map : i \in DOMAIN g.map /\ h.map[i] = g.map[i]
  BY DEF Shape, RemoveIfDangling, Erase
<1> HIDE DEF h
<1> QED BY <1>1, <1>2, <1>3, <1>4, EditOfFlags DEF h

(* The i-th dependency of a node becomes another: its users follow.  Where   *)
(* the lists disagreed they still do, as much as before, but for the old     *)
(* dependency.                                                               *)
LEMMA ReplaceDependencyEdits ==
    ASSUME NEW g, Shape(g), NEW n \in DOMAIN g.nodes, NEW i \in DOMAIN Deps(g, n),
           NEW new \in DOMAIN g.nodes
    PROVE  LET h == ReplaceDependency(g, n, i, new) IN
           /\ Edit(g, h)
           /\ \A m \in DOMAIN g.nodes :
                 Deps(h, m) = IF m = n THEN [Deps(g, n) EXCEPT ![i] = new] ELSE Deps(g, m)
           /\ \A a, b \in DOMAIN g.nodes :
                 b # Dep(g, n, i) => Gap(h.nodes, a, b) = Gap(g.nodes, a, b)
<1> DEFINE D == DOMAIN g.nodes
           old == Dep(g, n, i)
           h == ReplaceDependency(g, n, i, new)
<1>1. NodesOver(g.nodes) /\ Deps(g, n) = g.nodes[n].deps /\ Deps(g, n) \in Seq(D)
  BY Lists DEF Shape, Deps
<1>2. old = g.nodes[n].deps[i] /\ old \in D
  BY <1>1, ToSetType DEF Dep
<1>3. CASE old = new
  <2>1. h = g
    BY <1>3 DEF ReplaceDependency
  <2>2. Deps(g, n) = [Deps(g, n) EXCEPT ![i] = new]
    <3>1. Deps(g, n) \in [1..Len(Deps(g, n)) -> D]
      BY <1>1, SeqDef
    <3> QED BY <1>2, <1>3, <3>1 DEF Deps
  <2>3. \A m \in D : Deps(h, m) = IF m = n THEN [Deps(g, n) EXCEPT ![i] = new] ELSE Deps(g, m)
    BY <2>1, <2>2
  <2> HIDE DEF h
  <2> QED BY <2>1, <2>3, EditRefl DEF h
<1>4. CASE old # new
  <2> DEFINE s == RemoveFirst(g.nodes[old].users, n)
             t == [g.nodes[n].deps EXCEPT ![i] = new]
             u == Append(g.nodes[new].users, n)
             e == [g EXCEPT !.nodes[old].users = RemoveFirst(@, n)]
             d == RemoveIfDangling(e, old)
             f == [d EXCEPT !.nodes[n].deps[i] = new, !.nodes[new].users = Append(@, n)]
  <2>1. h = f
    BY <1>4 DEF ReplaceDependency
  <2>2. /\ s \in Seq(D)
        /\ \A x : Times(s, x) = IF x = n /\ n \in ToSet(g.nodes[old].users)
                                THEN Times(g.nodes[old].users, x) - 1
                                ELSE Times(g.nodes[old].users, x)
    <3>1. g.nodes[old].users \in Seq(D)
      BY <1>1, <1>2, Lists
    <3> QED BY <3>1, TimesRemoveFirst
  <2>3. /\ t \in Seq(D)
        /\ \A x : Times(t, x) = Times(g.nodes[n].deps, x) - (IF x = old THEN 1 ELSE 0)
                                                          + (IF x = new THEN 1 ELSE 0)
    BY SMTT(60), <1>1, <1>2, TimesReplace
  <2>4. /\ u \in Seq(D)
        /\ \A x : Times(u, x) = Times(g.nodes[new].users, x) + (IF x = n THEN 1 ELSE 0)
    <3>1. g.nodes[new].users \in Seq(D)
      BY <1>1, Lists
    <3> QED BY <3>1, TimesAppend, ZenonT(60)
  <2>5. /\ DOMAIN e = DOMAIN g /\ e.map = g.map /\ e.order = g.order /\ Alike(g.nodes, e.nodes)
        /\ \A m \in D : /\ e.nodes[m].users = IF m = old THEN s ELSE g.nodes[m].users
                        /\ e.nodes[m].deps = g.nodes[m].deps
    BY <1>2 DEF Shape, NodesOver, NodeOver, NodeFields, Alike
  <2>6. Shape(e)
    <3> HIDE DEF e, s
    <3>1. \A m \in D : e.nodes[m].deps \in Seq(D) /\ e.nodes[m].users \in Seq(D)
      BY <1>1, <2>2, <2>5, Lists
    <3>2. NodesOver(e.nodes)
      BY <1>1, <2>5, <3>1, NodesAgain
    <3> QED BY <2>5, <3>2 DEF Shape, Alike
  <2> HIDE DEF e, s
  <2>7. Edit(e, d) /\ d.nodes = e.nodes
    BY <1>2, <2>5, <2>6, RemoveIfDanglingEdits DEF Alike
  <2> HIDE DEF d
  <2>8. /\ DOMAIN f = DOMAIN g /\ f.map = d.map /\ f.order = d.order /\ Alike(d.nodes, f.nodes)
        /\ \A m \in D : /\ f.nodes[m].deps = IF m = n THEN [d.nodes[n].deps EXCEPT ![i] = new]
                                             ELSE d.nodes[m].deps
                        /\ f.nodes[m].users = IF m = new THEN Append(d.nodes[new].users, n)
                                              ELSE d.nodes[m].users
    <3>1. /\ DOMAIN d = DOMAIN g /\ d.nodes = e.nodes /\ DOMAIN d.nodes = D
          /\ DOMAIN d = {"nodes", "map", "order", "inputs", "outputs"}
          /\ d.nodes = [m \in DOMAIN d.nodes |-> d.nodes[m]]
          /\ \A m \in D : DOMAIN d.nodes[m] = NodeFields
      BY <2>5, <2>7, Lists DEF Edit, Shape, Alike
    <3> QED BY ZenonT(60), <3>1 DEF NodeFields, Alike
  <2>9. \A m \in D : /\ f.nodes[m].deps = IF m = n THEN t ELSE g.nodes[m].deps
                     /\ f.nodes[m].users = IF m = old THEN s
                                           ELSE IF m = new THEN u ELSE g.nodes[m].users
    <3>1. ASSUME NEW m \in D
          PROVE  d.nodes[m].deps = g.nodes[m].deps
                 /\ d.nodes[m].users = IF m = old THEN s ELSE g.nodes[m].users
      BY <2>5, <2>7
    <3>2. n \in D /\ new \in D /\ old # new
      BY <1>2, <1>4
    <3>3. d.nodes[n].deps = g.nodes[n].deps /\ d.nodes[new].users = g.nodes[new].users
      BY <3>1, <3>2
    <3> HIDE DEF f
    <3> QED BY <2>8, <3>1, <3>2, <3>3
  <2> HIDE DEF f, t, u
  <2>10. /\ Alike(g.nodes, f.nodes) /\ f.order \in Seq(D)
         /\ \A j \in DOMAIN f.map : j \in DOMAIN g.map /\ f.map[j] = g.map[j]
    BY <2>5, <2>7, <2>8 DEF Edit, NodesEdit, Alike, Shape
  <2>11. \A m \in D : f.nodes[m].deps \in Seq(D) /\ f.nodes[m].users \in Seq(D)
    BY <1>1, <2>2, <2>3, <2>4, <2>9, Lists
  <2>12. ASSUME NEW a \in D, NEW b \in D
         PROVE  /\ b # old => Gap(f.nodes, a, b) = Gap(g.nodes, a, b)
                /\ Linked(g.nodes, a, b) => Linked(f.nodes, a, b)
    <3>1. Times(g.nodes[a].deps, b) \in Nat /\ Times(g.nodes[b].users, a) \in Nat
      BY <1>1, Lists
    <3>2. Times(f.nodes[a].deps, b)
            = Times(g.nodes[a].deps, b) - (IF a = n /\ b = old THEN 1 ELSE 0)
                                        + (IF a = n /\ b = new THEN 1 ELSE 0)
      BY <2>3, <2>9, <3>1
    <3>3. Times(f.nodes[b].users, a)
            = Times(g.nodes[b].users, a)
                - (IF a = n /\ b = old /\ n \in ToSet(g.nodes[old].users) THEN 1 ELSE 0)
                + (IF a = n /\ b = new THEN 1 ELSE 0)
      BY <1>4, <2>2, <2>4, <2>9, <3>1
    <3>4. a = n /\ b = old /\ Linked(g.nodes, a, b) => n \in ToSet(g.nodes[old].users)
      <4>1. Times(g.nodes[n].deps, old) # 0
        BY <1>1, <1>2, TimesNat DEF ToSet
      <4>2. Times(g.nodes[old].users, n) # 0 => n \in ToSet(g.nodes[old].users)
        BY <1>1, <1>2, Lists, TimesNat
      <4> QED BY <4>1, <4>2 DEF Linked
    <3> QED BY <3>1, <3>2, <3>3, <3>4 DEF Linked, Gap
  <2>13. Edit(g, f)
    BY <2>8, <2>10, <2>11, <2>12, EditOf
  <2>14. \A m \in D : Deps(f, m) = IF m = n THEN [Deps(g, n) EXCEPT ![i] = new] ELSE Deps(g, m)
    BY <2>9 DEF Deps, t
  <2> HIDE DEF h
  <2> QED BY <2>1, <2>12, <2>13, <2>14 DEF h
<1> QED BY <1>3, <1>4

(* What replacing old by another node leaves of a graph. *)
Replacing(g, old, h) ==
    /\ Edit(g, h)
    /\ \A m \in DOMAIN g.nodes : Len(Deps(h, m)) = Len(Deps(g, m))
    /\ \A a, b \in DOMAIN g.nodes : b # old => Gap(h.nodes, a, b) = Gap(g.nodes, a, b)

(* replace_dependency leaves both ends of every link in step. *)
LEMMA ReplaceDependencyOnEdits ==
    ASSUME NEW g, Shape(g), NEW n \in DOMAIN g.nodes, NEW old, NEW new \in DOMAIN g.nodes
    PROVE  Replacing(g, old, ReplaceDependencyOn(g, n, old, new))
<1>1. CASE old \notin ToSet(Deps(g, n))
  BY <1>1, EditRefl DEF ReplaceDependencyOn, Replacing
<1>2. CASE old \in ToSet(Deps(g, n))
  <2> DEFINE i == FirstAt(Deps(g, n), old)
             h == ReplaceDependency(g, n, i, new)
  <2>1. Deps(g, n) \in Seq(DOMAIN g.nodes)
    BY Lists DEF Shape, Deps
  <2>2. i \in DOMAIN Deps(g, n) /\ Dep(g, n, i) = old
    BY <1>2, <2>1, FirstPlace DEF Dep, Deps
  <2> HIDE DEF i
  <2>3. /\ Edit(g, h)
        /\ \A m \in DOMAIN g.nodes :
              Deps(h, m) = IF m = n THEN [Deps(g, n) EXCEPT ![i] = new] ELSE Deps(g, m)
        /\ \A a, b \in DOMAIN g.nodes : b # old => Gap(h.nodes, a, b) = Gap(g.nodes, a, b)
    BY <2>2, ReplaceDependencyEdits
  <2> HIDE DEF h
  <2>4. Len([Deps(g, n) EXCEPT ![i] = new]) = Len(Deps(g, n))
    BY <2>1, <2>2, TimesReplace
  <2>5. \A m \in DOMAIN g.nodes : Len(Deps(h, m)) = Len(Deps(g, m))
    BY <2>3, <2>4
  <2>6. Replacing(g, old, h)
    BY <2>3, <2>5 DEF Replacing
  <2> QED BY <1>2, <2>6 DEF ReplaceDependencyOn, h, i
<1> QED BY <1>1, <1>2

(* The loop over the users of the old node. *)
UsagesOp(old, new, h, u) == ReplaceDependencyOn(h, u, old, new)
UsagesInv(old, new, g, s, k, h) == Replacing(g, old, h)
UsagesFold == INSTANCE FoldFacts WITH Op <- UsagesOp, P <- UsagesInv

(* replace_all_usages replaces a node wherever it is a dependency. *)
LEMMA ReplaceAllUsagesEdits ==
    ASSUME NEW g, Shape(g), NEW old \in DOMAIN g.nodes, NEW new \in DOMAIN g.nodes
    PROVE  Replacing(g, old, ReplaceAllUsages(g, old, new))
<1> DEFINE s == Users(g, old)
<1>1. ReplaceAllUsages(g, old, new) = UsagesFold!Fold(old, new, g, s)
  BY SMT DEF ReplaceAllUsages, UsagesFold!Fold, UsagesOp, FoldLeft, MapThenFoldSet,
             UsagesFold!MapThenFoldSet, Max, UsagesFold!Greatest
<1>2. s \in Seq(DOMAIN g.nodes)
  BY Lists DEF Shape, Users
<1> HIDE DEF s
<1>3. UsagesInv(old, new, g, s, 0, g)
  BY EditRefl DEF UsagesInv, Replacing
<1>4. ASSUME NEW k \in 1..Len(s), NEW h, UsagesInv(old, new, g, s, k - 1, h)
      PROVE  UsagesInv(old, new, g, s, k, UsagesOp(old, new, h, s[k]))
  <2> DEFINE f == UsagesOp(old, new, h, s[k])
  <2>1. s[k] \in DOMAIN g.nodes
    BY <1>2, ElementOfSeq
  <2>2. Edit(g, h) /\ Shape(h) /\ DOMAIN h.nodes = DOMAIN g.nodes
    BY <1>4 DEF UsagesInv, Replacing, Edit, NodesEdit, Alike
  <2>3. Replacing(h, old, f)
    BY <2>1, <2>2, ReplaceDependencyOnEdits DEF UsagesOp
  <2> HIDE DEF f
  <2>4. Edit(g, f)
    BY <2>2, <2>3, EditTrans DEF Replacing
  <2>5. Replacing(g, old, f)
    BY <1>4, <2>2, <2>3, <2>4 DEF UsagesInv, Replacing
  <2> QED BY <2>5 DEF UsagesInv, f
<1>5. UsagesInv(old, new, g, s, Len(s), UsagesFold!Fold(old, new, g, s))
  BY <1>2, <1>3, <1>4, UsagesFold!FoldInduction, NatInductive
<1> QED BY <1>1, <1>5 DEF UsagesInv

(* An intermediate node, connected to the dependency first or not. *)
LEMMA ConnectEdits ==
    ASSUME NEW g, Shape(g), NEW prev \in DOMAIN g.nodes, NEW n \in DOMAIN g.nodes
    PROVE  LET h == Connect(g, prev, n) IN
           /\ Edit(g, h)
           /\ \A m \in DOMAIN g.nodes :
                 Deps(h, m) = IF m = n THEN Append(Deps(g, m), prev) ELSE Deps(g, m)
<1> DEFINE f == AddConnection(g, prev, n)
           h == Connect(g, prev, n)
<1>1. /\ Edit(g, f) /\ f.order = g.order
      /\ \A m \in DOMAIN g.nodes :
            Deps(f, m) = IF m = n THEN Append(Deps(g, m), prev) ELSE Deps(g, m)
  BY AddConnectionEdits
<1>2. Shape(f) /\ DOMAIN f.nodes = DOMAIN g.nodes
  BY <1>1 DEF Edit, NodesEdit, Alike
<1>3. h = [f EXCEPT !.order = InsertAt(@, Position(g, prev) + 1, n)]
  BY DEF Connect
<1>4. InsertAt(g.order, Position(g, prev) + 1, n) \in Seq(DOMAIN g.nodes)
  <2>1. g.order \in Seq(DOMAIN g.nodes) /\ Len(g.order) \in Nat
    BY DEF Shape
  <2>2. Position(g, prev) + 1 \in 1..(Len(g.order) + 1)
    BY <2>1, FirstPlace DEF Position
  <2> QED BY <2>1, <2>2, TimesInsertAt
<1> HIDE DEF f, h
<1>5. /\ DOMAIN h = DOMAIN f /\ h.nodes = f.nodes /\ h.map = f.map
      /\ h.order \in Seq(DOMAIN f.nodes)
  BY <1>1, <1>2, <1>3, <1>4 DEF Shape
<1>6. Alike(f.nodes, h.nodes)
  BY <1>2, <1>5 DEF Alike, Shape, NodesOver
<1>7. Edit(f, h)
  BY <1>2, <1>5, <1>6, EditOfFlags
<1>8. Edit(g, h)
  BY <1>1, <1>7, EditTrans
<1> QED BY <1>1, <1>5, <1>8 DEF h, Deps

(* add_intermediate keeps every dependency but the one it comes between. *)
LEMMA AddIntermediateEdits ==
    ASSUME NEW g, Shape(g), NEW n \in DOMAIN g.nodes, NEW next \in DOMAIN g.nodes,
           NEW i \in DOMAIN Deps(g, next), NEW connect
    PROVE  LET h == AddIntermediate(g, n, next, i, connect) IN
           /\ Edit(g, h)
           /\ \A d \in ToSet(Deps(g, next)) :
                 d # Dep(g, next, i) => d \in ToSet(Deps(h, next))
<1> DEFINE D == DOMAIN g.nodes
           prev == Dep(g, next, i)
           f == IF connect THEN Connect(g, prev, n) ELSE g
           e == ReplaceDependency(f, next, i, n)
           h == AddIntermediate(g, n, next, i, connect)
<1>1. Deps(g, next) \in Seq(D)
  BY Lists DEF Shape, Deps
<1>2. prev \in D /\ prev = Deps(g, next)[i]
  BY <1>1, ToSetType DEF Dep, Deps
<1>3. /\ Edit(g, f)
      /\ \/ Deps(f, next) = Deps(g, next)
         \/ Deps(f, next) = Append(Deps(g, next), prev)
  <2>1. CASE connect
    <3>1. LET k == Connect(g, prev, n) IN
          /\ Edit(g, k)
          /\ \A m \in DOMAIN g.nodes :
                Deps(k, m) = IF m = n THEN Append(Deps(g, m), prev) ELSE Deps(g, m)
      BY <1>2, ConnectEdits
    <3> QED BY <2>1, <3>1
  <2>2. CASE ~connect
    BY <2>2, EditRefl
  <2> QED BY <2>1, <2>2
<1> HIDE DEF f
<1>4. Shape(f) /\ DOMAIN f.nodes = D
  BY <1>3 DEF Edit, NodesEdit, Alike
<1>5. /\ Deps(f, next) \in Seq(D) /\ i \in DOMAIN Deps(f, next) /\ Deps(f, next)[i] = prev
      /\ \A x : Times(Deps(f, next), x) >= Times(Deps(g, next), x)
  <2>1. \A x : Times(Deps(g, next), x) \in Nat
    BY <1>1, TimesNat
  <2>2. CASE Deps(f, next) = Deps(g, next)
    BY <1>1, <1>2, <2>1, <2>2
  <2>3. CASE Deps(f, next) = Append(Deps(g, next), prev)
    <3>1. /\ Append(Deps(g, next), prev) \in Seq(D)
          /\ \A x : Times(Append(Deps(g, next), prev), x)
                      = Times(Deps(g, next), x) + (IF x = prev THEN 1 ELSE 0)
      BY <1>1, <1>2, TimesAppend
    <3>2. /\ i \in DOMAIN Append(Deps(g, next), prev)
          /\ Append(Deps(g, next), prev)[i] = Deps(g, next)[i]
      BY <1>1, <1>2, AppendProperties
    <3> QED BY <1>2, <2>1, <2>3, <3>1, <3>2
  <2> QED BY <1>3, <2>2, <2>3
<1>6. /\ Edit(f, e)
      /\ Deps(e, next) = [Deps(f, next) EXCEPT ![i] = n]
  BY <1>4, <1>5, ReplaceDependencyEdits
<1>7. ASSUME NEW d \in ToSet(Deps(g, next)), d # prev PROVE d \in ToSet(Deps(e, next))
  <2>1. Times(Deps(g, next), d) \in Nat \ {0} /\ Times(Deps(f, next), d) \in Nat \ {0}
    <3>1. Times(Deps(g, next), d) \in Nat /\ Times(Deps(g, next), d) # 0
      BY <1>1, TimesNat
    <3>2. Times(Deps(f, next), d) \in Nat
      BY <1>5, TimesNat
    <3> QED BY <1>5, <3>1, <3>2
  <2>2. /\ Deps(e, next) \in Seq(D)
        /\ Times(Deps(e, next), d)
             = Times(Deps(f, next), d) - (IF d = prev THEN 1 ELSE 0) + (IF d = n THEN 1 ELSE 0)
    <3> DEFINE s == Deps(f, next)
    <3>1. s \in Seq(D) /\ i \in DOMAIN s /\ s[i] = prev /\ Deps(e, next) = [s EXCEPT ![i] = n]
      BY <1>5, <1>6
    <3> HIDE DEF s
    <3>2. /\ [s EXCEPT ![i] = n] \in Seq(D)
          /\ \A x : Times([s EXCEPT ![i] = n], x)
                      = Times(s, x) - (IF x = s[i] THEN 1 ELSE 0) + (IF x = n THEN 1 ELSE 0)
      <4>1. s \in Seq(D) /\ i \in DOMAIN s /\ n \in D
        BY <3>1
      <4>2. n \in DOMAIN g.nodes
        OBVIOUS
      <4> HIDE DEF D
      <4> QED BY <4>1, TimesReplace, SMTT(30)
    <3> QED BY <3>1, <3>2 DEF s
  <2>3. Times(Deps(e, next), d) # 0
    BY <1>7, <2>1, <2>2
  <2> QED BY <2>2, <2>3, TimesNat
<1>8. h = [e EXCEPT !.nodes[n].constant = g.nodes[prev].constant]
  BY DEF AddIntermediate, f
<1> HIDE DEF e, h
<1>9. Shape(e) /\ DOMAIN e.nodes = D /\ \A m \in D : DOMAIN e.nodes[m] = NodeFields
  BY <1>4, <1>6, Lists DEF Edit, NodesEdit, Alike, Shape
<1>10. /\ DOMAIN h = DOMAIN e /\ h.map = e.map /\ h.order = e.order /\ Alike(e.nodes, h.nodes)
       /\ \A m \in D : h.nodes[m].deps = e.nodes[m].deps /\ h.nodes[m].users = e.nodes[m].users
  BY <1>8, <1>9 DEF Shape, Alike, NodeFields
<1>11. Edit(e, h)
  BY <1>9, <1>10, EditOfFlags DEF Shape
<1>12. Edit(g, h)
  BY <1>3, <1>6, <1>11, EditTrans
<1>13. Deps(h, next) = Deps(e, next)
  BY <1>10 DEF Deps
<1> QED BY <1>7, <1>12, <1>13 DEF h

-----------------------------------------------------------------------------
(* Whole graphs, whose lists all agree. *)

(* Every node of the map has the id it has there; and as long as no pass     *)
(* works on it, no id is one under which a pass creates a node it expects to *)
(* be new.                                                                   *)
Ids(g) == \A i \in DOMAIN g.map : g.nodes[g.map[i]].id = i
Clean(id) == id.tag \in {"fused", "const_prop"} => id.of = << >>
CleanIds(g) == \A n \in DOMAIN g.nodes : Clean(g.nodes[n].id)
Good(g) == Shape(g) /\ Ids(g) /\ CleanIds(g)

(* Dependencies and users say the same, of all nodes there ever were or only *)
(* of those of the program.                                                  *)
Mirror(ns, A) == \A a, b \in A : Linked(ns, a, b)
Whole(g) == Good(g) /\ Mirror(g.nodes, DOMAIN g.nodes)
Partly(g) == Good(g) /\ Mirror(g.nodes, Alive(g))

(* Nodes are created, but stay what they are. *)
Grown(g, h) ==
    /\ DOMAIN g.nodes \subseteq DOMAIN h.nodes
    /\ \A n \in DOMAIN g.nodes : h.nodes[n].kind = g.nodes[n].kind

(* An edit of a whole graph is whole. *)
LEMMA EditWhole ==
    ASSUME NEW g, NEW h, Edit(g, h), Whole(g)
    PROVE  Whole(h) /\ Grown(g, h)
<1>1. Shape(h) /\ NodesEdit(g.nodes, h.nodes) /\ DOMAIN h.nodes = DOMAIN g.nodes
  BY DEF Edit, NodesEdit, Alike
<1>2. \A n \in DOMAIN g.nodes : h.nodes[n].id = g.nodes[n].id /\ h.nodes[n].kind = g.nodes[n].kind
  BY <1>1 DEF NodesEdit, Alike
<1>3. \A i \in DOMAIN g.map : g.map[i] \in DOMAIN g.nodes /\ g.nodes[g.map[i]].id = i
  BY DEF Whole, Good, Shape, Ids
<1>4. Ids(h)
  BY <1>2, <1>3 DEF Edit, Ids
<1>5. CleanIds(h)
  BY <1>1, <1>2 DEF Whole, Good, CleanIds
<1>6. Mirror(h.nodes, DOMAIN h.nodes)
  BY <1>1 DEF Whole, Mirror, NodesEdit
<1> QED BY <1>1, <1>2, <1>4, <1>5, <1>6 DEF Whole, Good, Grown

(* The only dependency of a node takes over its users; whether the two lists *)
(* agreed about that dependency does not matter.                             *)
LEMMA DetachEdits ==
    ASSUME NEW g, Shape(g), NEW n \in DOMAIN g.nodes, Len(Deps(g, n)) = 1
    PROVE  LET h == Detach(g, n) IN
           /\ Shape(h) /\ Alike(g.nodes, h.nodes)
           /\ \A i \in DOMAIN h.map : i \in DOMAIN g.map /\ h.map[i] = g.map[i]
           /\ \A a, b \in DOMAIN g.nodes :
                 Linked(g.nodes, a, b) \/ (a = n /\ b = Dep(g, n, 1)) => Linked(h.nodes, a, b)
<1> DEFINE D == DOMAIN g.nodes
           prev == Dep(g, n, 1)
           s == Without(g.nodes[prev].users, n)
           e == [g EXCEPT !.nodes[n].deps = << >>, !.nodes[prev].users = Without(@, n)]
           h == Detach(g, n)
<1>1. NodesOver(g.nodes) /\ Deps(g, n) = g.nodes[n].deps /\ Deps(g, n) \in Seq(D)
  BY Lists DEF Shape, Deps
<1>2. prev \in D /\ DOMAIN g.nodes[n].deps = {1} /\ prev = g.nodes[n].deps[1]
  <2>1. DOMAIN Deps(g, n) = 1..1
    BY <1>1
  <2> QED BY <1>1, <2>1, ToSetType DEF Dep
<1>3. /\ s \in Seq(D)
      /\ \A x : Times(s, x) = IF x = n THEN 0 ELSE Times(g.nodes[prev].users, x)
  <2>1. g.nodes[prev].users \in Seq(D)
    BY <1>1, <1>2, Lists
  <2> QED BY <2>1, TimesWithout
<1>4. /\ DOMAIN e = DOMAIN g /\ e.map = g.map /\ e.order = g.order /\ Alike(g.nodes, e.nodes)
      /\ \A m \in D : /\ e.nodes[m].deps = IF m = n THEN << >> ELSE g.nodes[m].deps
                      /\ e.nodes[m].users = IF m = prev THEN s ELSE g.nodes[m].users
  BY ZenonT(60), <1>2 DEF Shape, NodesOver, NodeOver, NodeFields, Alike
<1>5. h = IF Users(e, n) # << >> THEN ReplaceAllUsages(e, n, prev) ELSE RemoveIfDangling(e, n)
  BY DEF Detach
<1> HIDE DEF e, s, h
<1>6. Shape(e) /\ DOMAIN e.nodes = D
  <2>1. << >> \in Seq(D)
    OBVIOUS
  <2>2. \A m \in D : e.nodes[m].deps \in Seq(D) /\ e.nodes[m].users \in Seq(D)
    BY <1>1, <1>3, <1>4, <2>1, Lists
  <2>3. NodesOver(e.nodes)
    BY <1>1, <1>4, <2>2, NodesAgain
  <2> QED BY <1>4, <2>3 DEF Shape, Alike
<1>7. ASSUME NEW a \in D, NEW b \in D, Linked(g.nodes, a, b) \/ (a = n /\ b = prev)
      PROVE  Linked(e.nodes, a, b)
  <2>1. CASE a = n
    <3>1. Times(e.nodes[a].deps, b) = 0
      BY <1>4, <2>1, TimesNone
    <3>2. CASE b = prev
      BY <1>3, <1>4, <2>1, <3>1, <3>2 DEF Linked
    <3>3. CASE b # prev
      <4>1. b \notin ToSet(g.nodes[n].deps)
        BY <1>2, <3>3 DEF ToSet
      <4>2. Times(g.nodes[n].deps, b) = 0
        BY <1>1, <4>1, TimesNat
      <4> QED BY <1>4, <1>7, <2>1, <3>1, <3>3, <4>2 DEF Linked
    <3> QED BY <3>2, <3>3
  <2>2. CASE a # n
    BY <1>3, <1>4, <1>7, <2>2 DEF Linked
  <2> QED BY <2>1, <2>2
<1>8. Edit(e, h)
  <2>1. Edit(e, ReplaceAllUsages(e, n, prev))
    BY <1>2, <1>6, ReplaceAllUsagesEdits DEF Replacing
  <2>2. Edit(e, RemoveIfDangling(e, n))
    BY <1>6, RemoveIfDanglingEdits
  <2> QED BY <1>5, <2>1, <2>2
<1>9. /\ Shape(h) /\ Alike(g.nodes, h.nodes)
      /\ \A i \in DOMAIN h.map : i \in DOMAIN g.map /\ h.map[i] = g.map[i]
  BY <1>4, <1>8 DEF Edit, NodesEdit, Alike
<1>10. \A a, b \in D : Linked(e.nodes, a, b) => Linked(h.nodes, a, b)
  BY <1>6, <1>8 DEF Edit, NodesEdit
<1> QED BY <1>7, <1>9, <1>10 DEF h

(* What extract_and_remove does to a node with one dependency is an edit. *)
LEMMA DetachIsEdit ==
    ASSUME NEW g, Shape(g), NEW n \in DOMAIN g.nodes, Len(Deps(g, n)) = 1
    PROVE  Edit(g, Detach(g, n))
BY DetachEdits DEF Edit, NodesEdit, Shape

(* A node gets another id, in the map as well. *)
LEMMA RenameKeeps ==
    ASSUME NEW g, Shape(g), NEW n \in DOMAIN g.nodes, NEW id
    PROVE  LET h == Rename(g, n, id) IN
           /\ Shape(h) /\ DOMAIN h.nodes = DOMAIN g.nodes
           /\ \A m \in DOMAIN g.nodes :
                 /\ h.nodes[m].id = IF m = n THEN id ELSE g.nodes[m].id
                 /\ h.nodes[m].kind = g.nodes[m].kind /\ h.nodes[m].output = g.nodes[m].output
                 /\ h.nodes[m].deps = g.nodes[m].deps /\ h.nodes[m].users = g.nodes[m].users
           /\ DOMAIN h.map = (DOMAIN g.map \ {g.nodes[n].id}) \cup {id}
           /\ \A i \in DOMAIN h.map : h.map[i] = IF i = id THEN n ELSE g.map[i]
           /\ Ids(g) => Ids(h)
<1> DEFINE D == DOMAIN g.nodes
           h == Rename(g, n, id)
<1>1. NodesOver(g.nodes)
  BY DEF Shape
<1>2. /\ DOMAIN h = DOMAIN g /\ h.order = g.order
      /\ DOMAIN h.nodes = D /\ h.nodes = [m \in DOMAIN h.nodes |-> h.nodes[m]]
      /\ DOMAIN h.map = (DOMAIN g.map \ {g.nodes[n].id}) \cup {id}
      /\ \A i \in DOMAIN h.map : h.map[i] = IF i = id THEN n ELSE g.map[i]
  BY DEF Shape, Rename, Erase
<1>3. \A m \in D :
         /\ DOMAIN h.nodes[m] = DOMAIN g.nodes[m]
         /\ h.nodes[m].id = IF m = n THEN id ELSE g.nodes[m].id
         /\ h.nodes[m].kind = g.nodes[m].kind /\ h.nodes[m].output = g.nodes[m].output
         /\ h.nodes[m].deps = g.nodes[m].deps /\ h.nodes[m].users = g.nodes[m].users
  BY DEF Shape, Rename, NodesOver, NodeOver, NodeFields
<1> HIDE DEF h
<1>4. NodesOver(h.nodes)
  <2>1. \A m \in D : NodeOver(h.nodes[m], D)
    BY <1>1, <1>3 DEF NodesOver, NodeOver
  <2>2. h.nodes \in Seq(ToSet(h.nodes))
    <3>1. Len(g.nodes) \in Nat /\ DOMAIN h.nodes = 1..Len(g.nodes)
      BY <1>1, <1>2, Lists
    <3> QED BY <1>2, <3>1, SeqOfItself
  <2> QED BY <1>2, <2>1, <2>2 DEF NodesOver
<1>5. Shape(h)
  BY <1>2, <1>4 DEF Shape
<1>6. Ids(g) => Ids(h)
  BY <1>2, <1>3 DEF Ids, Shape
<1> QED BY <1>2, <1>3, <1>5, <1>6 DEF h

(* Nothing but ids, flags, the order and the map changes. *)
SameLinks(g, h) ==
    /\ DOMAIN h.nodes = DOMAIN g.nodes
    /\ \A m \in DOMAIN g.nodes :
          /\ h.nodes[m].kind = g.nodes[m].kind
          /\ h.nodes[m].deps = g.nodes[m].deps /\ h.nodes[m].users = g.nodes[m].users

(* The same fields, of the same nodes. *)
Frame(g, h) ==
    /\ DOMAIN h = DOMAIN g /\ DOMAIN h.nodes = DOMAIN g.nodes
    /\ h.nodes = [n \in DOMAIN h.nodes |-> h.nodes[n]]
    /\ \A n \in DOMAIN g.nodes : DOMAIN h.nodes[n] = DOMAIN g.nodes[n]

(* A change that keeps lists over the nodes keeps the shape. *)
LEMMA ShapeAgain ==
    ASSUME NEW g, Shape(g), NEW h, Frame(g, h), h.order \in Seq(DOMAIN g.nodes),
           \A i \in DOMAIN h.map : h.map[i] \in DOMAIN g.nodes,
           \A n \in DOMAIN g.nodes : /\ h.nodes[n].deps \in Seq(DOMAIN g.nodes)
                                     /\ h.nodes[n].users \in Seq(DOMAIN g.nodes)
    PROVE  Shape(h)
<1>1. Len(g.nodes) \in Nat /\ DOMAIN h.nodes = 1..Len(g.nodes)
  BY Lists DEF Shape, Frame
<1>2. h.nodes \in Seq(ToSet(h.nodes))
  <2>1. h.nodes = [n \in DOMAIN h.nodes |-> h.nodes[n]]
    BY DEF Frame
  <2> QED BY <1>1, <2>1, SeqOfItself
<1>3. \A n \in DOMAIN g.nodes : NodeOver(h.nodes[n], DOMAIN g.nodes)
  BY DEF Frame, Shape, NodesOver, NodeOver
<1>4. DOMAIN h = DOMAIN g /\ DOMAIN h.nodes = DOMAIN g.nodes
  BY DEF Frame
<1>5. NodesOver(h.nodes)
  BY <1>2, <1>3, <1>4 DEF NodesOver
<1> QED BY <1>4, <1>5 DEF Shape

(* A node that was an output hands its id over: whatever the ids are, each   *)
(* node of the map keeps the one it has there.                               *)
LEMMA HandOverOutputKeeps ==
    ASSUME NEW g, Good(g), NEW n \in DOMAIN g.nodes, Dep(g, n, 1) \in DOMAIN g.nodes
    PROVE  Good(HandOverOutput(g, n)) /\ SameLinks(g, HandOverOutput(g, n))
<1> DEFINE D == DOMAIN g.nodes
           prev == Dep(g, n, 1)
           id == g.nodes[n].id
           outputs == Append(Without(g.outputs, n), prev)
           tmp == Derived("tmp", <<id>>)
           e == [g EXCEPT !.nodes[n].output = FALSE, !.outputs = outputs]
           f == Rename(e, n, tmp)
           k == Rename(f, prev, id)
           h == [k EXCEPT !.nodes[prev].output = TRUE]
<1>1. HandOverOutput(g, n) = h
  BY DEF HandOverOutput
<1>2. Clean(tmp) /\ Clean(id)
  BY DEF Clean, Derived, Good, CleanIds
<1>3. /\ Shape(e) /\ SameLinks(g, e) /\ e.map = g.map
      /\ \A m \in D : e.nodes[m].id = g.nodes[m].id
  <2>1. /\ Frame(g, e) /\ SameLinks(g, e) /\ e.map = g.map /\ e.order = g.order
        /\ \A m \in D : e.nodes[m].id = g.nodes[m].id
    BY DEF Good, Shape, NodesOver, NodeOver, NodeFields, Frame, SameLinks
  <2> HIDE DEF e
  <2>2. \A m \in D : e.nodes[m].deps \in Seq(D) /\ e.nodes[m].users \in Seq(D)
    BY <2>1, Lists DEF Good, Shape, SameLinks
  <2> QED BY <2>1, <2>2, ShapeAgain DEF Good, Shape
<1> HIDE DEF e, tmp, id
<1>4. Ids(e) /\ DOMAIN e.nodes = D
  BY <1>3 DEF Good, Ids, Shape, SameLinks
<1>5. /\ Shape(f) /\ DOMAIN f.nodes = D /\ Ids(f)
      /\ \A m \in D : /\ f.nodes[m].id = IF m = n THEN tmp ELSE e.nodes[m].id
                      /\ f.nodes[m].kind = e.nodes[m].kind
                      /\ f.nodes[m].deps = e.nodes[m].deps /\ f.nodes[m].users = e.nodes[m].users
  BY <1>3, <1>4, RenameKeeps
<1> HIDE DEF f, prev
<1>6. /\ Shape(k) /\ DOMAIN k.nodes = D /\ Ids(k)
      /\ \A m \in D : /\ k.nodes[m].id = IF m = prev THEN id ELSE f.nodes[m].id
                      /\ k.nodes[m].kind = f.nodes[m].kind
                      /\ k.nodes[m].deps = f.nodes[m].deps /\ k.nodes[m].users = f.nodes[m].users
  BY <1>5, RenameKeeps DEF prev
<1> HIDE DEF k
<1>7. /\ Shape(h) /\ SameLinks(k, h) /\ h.map = k.map
      /\ \A m \in D : h.nodes[m].id = k.nodes[m].id
  <2>1. prev \in D /\ NodesOver(k.nodes) /\ \A m \in D : DOMAIN k.nodes[m] = NodeFields
    BY <1>6, Lists DEF prev, Shape
  <2>2. /\ Frame(k, h) /\ SameLinks(k, h) /\ h.map = k.map /\ h.order = k.order
        /\ \A m \in D : h.nodes[m].id = k.nodes[m].id
    BY <1>6, <2>1 DEF Shape, NodeFields, Frame, SameLinks
  <2> HIDE DEF h
  <2>3. \A m \in D : h.nodes[m].deps \in Seq(D) /\ h.nodes[m].users \in Seq(D)
    BY <1>6, <2>1, <2>2, Lists DEF SameLinks
  <2> QED BY <1>6, <2>2, <2>3, ShapeAgain DEF Shape
<1> HIDE DEF h
<1>9. SameLinks(g, h)
  BY <1>3, <1>5, <1>6, <1>7 DEF SameLinks
<1>10. Ids(h)
  BY <1>6, <1>7 DEF Ids, Shape
<1>11. CleanIds(h)
  BY <1>2, <1>3, <1>5, <1>6, <1>7, <1>9 DEF CleanIds, SameLinks, Good
<1> QED BY <1>1, <1>7, <1>9, <1>10, <1>11 DEF Good

(* What keeps the links of a whole graph keeps it whole. *)
LEMMA SameLinksWhole ==
    ASSUME NEW g, NEW h, Whole(g), Good(h), SameLinks(g, h)
    PROVE  Whole(h) /\ Grown(g, h)
BY DEF Whole, SameLinks, Mirror, Linked, Grown

(* A graph that has grown from a grown one has grown. *)
LEMMA GrownTrans ==
    ASSUME NEW f, NEW g, NEW h, Grown(f, g), Grown(g, h)
    PROVE  Grown(f, h)
BY DEF Grown

(* extract_and_remove keeps a whole graph whole. *)
LEMMA ExtractAndRemoveWhole ==
    ASSUME NEW g, Whole(g), NEW n \in DOMAIN g.nodes
    PROVE  Whole(ExtractAndRemove(g, n)) /\ Grown(g, ExtractAndRemove(g, n))
<1> DEFINE out == g.nodes[n].output
           e == IF out THEN HandOverOutput(g, n) ELSE g
<1>1. Grown(g, g)
  BY DEF Grown
<1>2. CASE ExtractAndRemove(g, n) = g
  BY <1>1, <1>2
<1>3. CASE Len(Deps(g, n)) = 1 /\ ExtractAndRemove(g, n) = Detach(e, n)
  <2>1. Dep(g, n, 1) \in DOMAIN g.nodes
    <3>1. Deps(g, n) \in Seq(DOMAIN g.nodes) /\ Deps(g, n) = g.nodes[n].deps
      BY Lists DEF Whole, Good, Shape, Deps
    <3>2. 1 \in DOMAIN Deps(g, n)
      BY <1>3, <3>1
    <3> QED BY <3>1, <3>2, ToSetType DEF Dep
  <2>2. Whole(e) /\ Grown(g, e) /\ DOMAIN e.nodes = DOMAIN g.nodes /\ Deps(e, n) = Deps(g, n)
    <3>1. CASE out
      <4>1. Good(HandOverOutput(g, n)) /\ SameLinks(g, HandOverOutput(g, n))
        BY <2>1, HandOverOutputKeeps DEF Whole
      <4> QED BY <3>1, <4>1, SameLinksWhole DEF SameLinks, Deps
    <3>2. CASE ~out
      BY <1>1, <3>2
    <3> QED BY <3>1, <3>2
  <2> HIDE DEF e
  <2>3. Edit(e, Detach(e, n))
    BY <1>3, <2>2, DetachIsEdit DEF Whole, Good
  <2>4. Whole(Detach(e, n)) /\ Grown(e, Detach(e, n))
    BY <2>2, <2>3, EditWhole
  <2> QED BY <1>3, <2>2, <2>4, GrownTrans
<1> QED BY <1>2, <1>3 DEF ExtractAndRemove

(* Of a node that is no output it is an edit. *)
LEMMA ExtractAndRemoveIsEdit ==
    ASSUME NEW g, Shape(g), NEW n \in DOMAIN g.nodes, ~g.nodes[n].output
    PROVE  Edit(g, ExtractAndRemove(g, n))
<1>1. ExtractAndRemove(g, n) = g \/ (Len(Deps(g, n)) = 1 /\ ExtractAndRemove(g, n) = Detach(g, n))
  BY DEF ExtractAndRemove
<1> QED BY <1>1, EditRefl, DetachIsEdit

(* Nodes are alike themselves. *)
LEMMA AlikeRefl ==
    ASSUME NEW ns, NodesOver(ns)
    PROVE  Alike(ns, ns)
<1>1. ns = [n \in DOMAIN ns |-> ns[n]]
  BY DEF NodesOver
<1> QED BY <1>1 DEF Alike

(* The loop over the dependencies of a node that is removed: it leaves their *)
(* users, once and for all.                                                  *)
UsesOp(n, b, ns, d) == [ns EXCEPT ![d].users = Without(@, n)]
UsesInv(n, b, ms, s, k, ns) ==
    /\ NodesOver(ns) /\ Alike(ms, ns)
    /\ \A m \in DOMAIN ms :
          /\ ns[m].deps = ms[m].deps
          /\ \A x : x # n => Times(ns[m].users, x) = Times(ms[m].users, x)
          /\ Times(ns[m].users, n) \in {0, Times(ms[m].users, n)}
    /\ \A j \in 1..k : Times(ns[s[j]].users, n) = 0
UsesFold == INSTANCE FoldFacts WITH Op <- UsesOp, P <- UsesInv

(* Erasing a node from the users of its dependencies changes nothing else. *)
LEMMA NoLongerUsesKeeps ==
    ASSUME NEW ms, NodesOver(ms), NEW n \in DOMAIN ms
    PROVE  LET ns == NoLongerUses(ms, n) IN
           /\ NodesOver(ns) /\ Alike(ms, ns)
           /\ \A m \in DOMAIN ms :
                 /\ ns[m].deps = ms[m].deps
                 /\ \A x : x # n => Times(ns[m].users, x) = Times(ms[m].users, x)
                 /\ Times(ns[m].users, n) \in {0, Times(ms[m].users, n)}
                 /\ m \in ToSet(ms[n].deps) => Times(ns[m].users, n) = 0
<1> DEFINE D == DOMAIN ms
           s == ms[n].deps
           result == NoLongerUses(ms, n)
<1>1. result = UsesFold!Fold(n, 0, ms, s)
  BY SMT DEF NoLongerUses, UsesFold!Fold, UsesOp, FoldLeft, MapThenFoldSet,
             UsesFold!MapThenFoldSet, Max, UsesFold!Greatest
<1>2. s \in Seq(D) /\ Len(s) \in Nat /\ DOMAIN s = 1..Len(s)
  BY Lists
<1> HIDE DEF s, result
<1>3. UsesInv(n, 0, ms, s, 0, ms)
  BY AlikeRefl DEF UsesInv
<1>4. ASSUME NEW k \in 1..Len(s), NEW ns, UsesInv(n, 0, ms, s, k - 1, ns)
      PROVE  UsesInv(n, 0, ms, s, k, UsesOp(n, 0, ns, s[k]))
  <2> DEFINE d == s[k]
             t == Without(ns[d].users, n)
             r == UsesOp(n, 0, ns, d)
  <2>1. d \in D /\ DOMAIN ns = D /\ NodesOver(ns) /\ Alike(ms, ns)
    BY <1>2, <1>4, ElementOfSeq DEF UsesInv, Alike
  <2>2. t \in Seq(D) /\ \A x : Times(t, x) = IF x = n THEN 0 ELSE Times(ns[d].users, x)
    <3>1. ns[d].users \in Seq(D)
      BY <2>1, Lists
    <3> QED BY <3>1, TimesWithout
  <2>3. /\ Alike(ns, r)
        /\ \A m \in D : /\ r[m].users = IF m = d THEN t ELSE ns[m].users
                        /\ r[m].deps = ns[m].deps
    BY <2>1 DEF UsesOp, Alike, NodesOver, NodeOver, NodeFields
  <2> HIDE DEF t, r
  <2>4. Alike(ms, r)
    BY <2>1, <2>3 DEF Alike
  <2>5. NodesOver(r)
    <3>1. \A m \in D : r[m].deps \in Seq(D) /\ r[m].users \in Seq(D)
      BY <2>1, <2>2, <2>3, Lists
    <3> QED BY <2>1, <2>3, <3>1, NodesAgain
  <2>6. \A m \in D :
           /\ r[m].deps = ms[m].deps
           /\ \A x : x # n => Times(r[m].users, x) = Times(ms[m].users, x)
           /\ Times(r[m].users, n) \in {0, Times(ms[m].users, n)}
    BY SMTT(40), <1>4, <2>2, <2>3 DEF UsesInv
  <2>7. ASSUME NEW j \in 1..k PROVE Times(r[s[j]].users, n) = 0
    <3>1. s[j] \in D
      BY <1>2, ElementOfSeq
    <3>2. CASE s[j] = d
      BY <2>1, <2>2, <2>3, <3>2
    <3>3. CASE s[j] # d
      <4>1. j \in 1..(k - 1)
        BY <3>3
      <4> QED BY <1>4, <2>3, <3>1, <3>3, <4>1 DEF UsesInv
    <3> QED BY <3>2, <3>3
  <2> QED BY <2>4, <2>5, <2>6, <2>7 DEF UsesInv, r
<1>5. UsesInv(n, 0, ms, s, Len(s), result)
  BY <1>1, <1>2, <1>3, <1>4, UsesFold!FoldInduction, NatInductive
<1>6. \A m \in ToSet(s) : Times(result[m].users, n) = 0
  BY <1>2, <1>5 DEF UsesInv, ToSet
<1> QED BY <1>5, <1>6 DEF UsesInv, s, result

(* And the loop over its users: they leave it.                               *)
UsedOp(n, b, ns, u) == [ns EXCEPT ![u].deps = Without(@, n)]
UsedInv(n, b, ms, s, k, ns) ==
    /\ NodesOver(ns) /\ Alike(ms, ns)
    /\ \A m \in DOMAIN ms :
          /\ ns[m].users = ms[m].users
          /\ \A x : x # n => Times(ns[m].deps, x) = Times(ms[m].deps, x)
          /\ Times(ns[m].deps, n) \in {0, Times(ms[m].deps, n)}
    /\ \A j \in 1..k : Times(ns[s[j]].deps, n) = 0
UsedFold == INSTANCE FoldFacts WITH Op <- UsedOp, P <- UsedInv

(* Erasing a node from the dependencies of its users changes nothing else. *)
LEMMA NoLongerUsedKeeps ==
    ASSUME NEW ms, NodesOver(ms), NEW n \in DOMAIN ms
    PROVE  LET ns == NoLongerUsed(ms, n) IN
           /\ NodesOver(ns) /\ Alike(ms, ns)
           /\ \A m \in DOMAIN ms :
                 /\ ns[m].users = ms[m].users
                 /\ \A x : x # n => Times(ns[m].deps, x) = Times(ms[m].deps, x)
                 /\ Times(ns[m].deps, n) \in {0, Times(ms[m].deps, n)}
                 /\ m \in ToSet(ms[n].users) => Times(ns[m].deps, n) = 0
<1> DEFINE D == DOMAIN ms
           s == ms[n].users
           result == NoLongerUsed(ms, n)
<1>1. result = UsedFold!Fold(n, 0, ms, s)
  BY SMT DEF NoLongerUsed, UsedFold!Fold, UsedOp, FoldLeft, MapThenFoldSet,
             UsedFold!MapThenFoldSet, Max, UsedFold!Greatest
<1>2. s \in Seq(D) /\ Len(s) \in Nat /\ DOMAIN s = 1..Len(s)
  BY Lists
<1> HIDE DEF s, result
<1>3. UsedInv(n, 0, ms, s, 0, ms)
  BY AlikeRefl DEF UsedInv
<1>4. ASSUME NEW k \in 1..Len(s), NEW ns, UsedInv(n, 0, ms, s, k - 1, ns)
      PROVE  UsedInv(n, 0, ms, s, k, UsedOp(n, 0, ns, s[k]))
  <2> DEFINE u == s[k]
             t == Without(ns[u].deps, n)
             r == UsedOp(n, 0, ns, u)
  <2>1. u \in D /\ DOMAIN ns = D /\ NodesOver(ns) /\ Alike(ms, ns)
    BY <1>2, <1>4, ElementOfSeq DEF UsedInv, Alike
  <2>2. t \in Seq(D) /\ \A x : Times(t, x) = IF x = n THEN 0 ELSE Times(ns[u].deps, x)
    <3>1. ns[u].deps \in Seq(D)
      BY <2>1, Lists
    <3> QED BY <3>1, TimesWithout
  <2>3. /\ Alike(ns, r)
        /\ \A m \in D : /\ r[m].deps = IF m = u THEN t ELSE ns[m].deps
                        /\ r[m].users = ns[m].users
    BY <2>1 DEF UsedOp, Alike, NodesOver, NodeOver, NodeFields
  <2> HIDE DEF t, r
  <2>4. Alike(ms, r)
    BY <2>1, <2>3 DEF Alike
  <2>5. NodesOver(r)
    <3>1. \A m \in D : r[m].deps \in Seq(D) /\ r[m].users \in Seq(D)
      BY <2>1, <2>2, <2>3, Lists
    <3> QED BY <2>1, <2>3, <3>1, NodesAgain
  <2>6. \A m \in D :
           /\ r[m].users = ms[m].users
           /\ \A x : x # n => Times(r[m].deps, x) = Times(ms[m].deps, x)
           /\ Times(r[m].deps, n) \in {0, Times(ms[m].deps, n)}
    BY SMTT(40), <1>4, <2>2, <2>3 DEF UsedInv
  <2>7. ASSUME NEW j \in 1..k PROVE Times(r[s[j]].deps, n) = 0
    <3>1. s[j] \in D
      BY <1>2, ElementOfSeq
    <3>2. CASE s[j] = u
      BY <2>1, <2>2, <2>3, <3>2
    <3>3. CASE s[j] # u
      <4>1. j \in 1..(k - 1)
        BY <3>3
      <4> QED BY <1>4, <2>3, <3>1, <3>3, <4>1 DEF UsedInv
    <3> QED BY <3>2, <3>3
  <2> QED BY <2>4, <2>5, <2>6, <2>7 DEF UsedInv, r
<1>5. UsedInv(n, 0, ms, s, Len(s), result)
  BY <1>1, <1>2, <1>3, <1>4, UsedFold!FoldInduction, NatInductive
<1>6. \A m \in ToSet(s) : Times(result[m].deps, n) = 0
  BY <1>2, <1>5 DEF UsedInv, ToSet
<1> QED BY <1>5, <1>6 DEF UsedInv, s, result

(* After both, nothing but the node itself knows of it, and it knows nothing. *)
LEMMA IsolatedEdits ==
    ASSUME NEW ns, NodesOver(ns), NEW n \in DOMAIN ns
    PROVE  NodesEdit(ns, Isolated(ns, n))
<1> DEFINE D == DOMAIN ns
           es == NoLongerUses(ns, n)
           fs == NoLongerUsed(es, n)
           ms == [fs EXCEPT ![n].deps = << >>, ![n].users = << >>]
<1>1. /\ NodesOver(es) /\ Alike(ns, es) /\ DOMAIN es = D
      /\ \A m \in D :
            /\ es[m].deps = ns[m].deps
            /\ \A x : x # n => Times(es[m].users, x) = Times(ns[m].users, x)
            /\ Times(es[m].users, n) \in {0, Times(ns[m].users, n)}
            /\ m \in ToSet(ns[n].deps) => Times(es[m].users, n) = 0
  BY NoLongerUsesKeeps DEF Alike
<1> HIDE DEF es
<1>2. /\ NodesOver(fs) /\ Alike(es, fs) /\ DOMAIN fs = D
      /\ \A m \in D :
            /\ fs[m].users = es[m].users
            /\ \A x : x # n => Times(fs[m].deps, x) = Times(es[m].deps, x)
            /\ Times(fs[m].deps, n) \in {0, Times(es[m].deps, n)}
            /\ m \in ToSet(es[n].users) => Times(fs[m].deps, n) = 0
  <2>1. n \in DOMAIN es /\ NodesOver(es)
    BY <1>1
  <2>2. /\ NodesOver(fs) /\ Alike(es, fs)
        /\ \A m \in DOMAIN es :
              /\ fs[m].users = es[m].users
              /\ \A x : x # n => Times(fs[m].deps, x) = Times(es[m].deps, x)
              /\ Times(fs[m].deps, n) \in {0, Times(es[m].deps, n)}
              /\ m \in ToSet(es[n].users) => Times(fs[m].deps, n) = 0
    BY <2>1, NoLongerUsedKeeps, Zenon
  <2>3. DOMAIN fs = DOMAIN es
    BY <2>2 DEF Alike
  <2> HIDE DEF fs
  <2> QED BY <1>1, <2>2, <2>3
<1> HIDE DEF fs
<1>3. /\ Alike(fs, ms)
      /\ \A m \in D : /\ ms[m].deps = IF m = n THEN << >> ELSE fs[m].deps
                      /\ ms[m].users = IF m = n THEN << >> ELSE fs[m].users
  BY ZenonT(60), <1>2 DEF Alike, NodesOver, NodeOver, NodeFields
<1>4. Isolated(ns, n) = ms
  BY DEF Isolated, es, fs
<1> HIDE DEF ms
<1>5. Alike(ns, ms)
  BY <1>1, <1>2, <1>3 DEF Alike
<1>6. NodesOver(ms)
  <2>1. << >> \in Seq(D)
    OBVIOUS
  <2>2. \A m \in D : ms[m].deps \in Seq(D) /\ ms[m].users \in Seq(D)
    BY <1>2, <1>3, <2>1, Lists
  <2> QED BY <1>2, <1>3, <2>2, NodesAgain
<1>7. ASSUME NEW a \in D, NEW b \in D, Linked(ns, a, b) PROVE Linked(ms, a, b)
  <2>1. \A x : Times(<< >>, x) = 0
    BY TimesNone
  <2>2. CASE a # n /\ b # n
    <3>1. Times(ms[a].deps, b) = Times(fs[a].deps, b)
              /\ Times(ms[b].users, a) = Times(fs[b].users, a)
      BY <1>3, <2>2
    <3>2. Times(fs[a].deps, b) = Times(es[a].deps, b)
              /\ Times(fs[b].users, a) = Times(es[b].users, a)
      BY <1>2, <2>2
    <3>3. Times(es[a].deps, b) = Times(ns[a].deps, b)
              /\ Times(es[b].users, a) = Times(ns[b].users, a)
      BY <1>1, <2>2
    <3> QED BY <1>7, <3>1, <3>2, <3>3 DEF Linked
  <2>3. CASE a = n
    <3>1. b # n => Times(es[b].users, n) = 0
      <4>1. b \notin ToSet(ns[n].deps) => Times(ns[n].deps, b) = 0
        BY Lists, TimesNat
      <4> QED BY <1>1, <1>7, <2>3, <4>1 DEF Linked
    <3> QED BY <1>2, <1>3, <2>1, <2>3, <3>1 DEF Linked
  <2>4. CASE a # n /\ b = n
    <3>1. Times(fs[a].deps, n) = 0
      <4>1. CASE a \in ToSet(es[n].users)
        BY <1>2, <4>1
      <4>2. CASE a \notin ToSet(es[n].users)
        <5>1. Times(es[n].users, a) = 0
          BY <1>1, <4>2, Lists, TimesNat
        <5>2. Times(ns[n].users, a) = 0
          BY <1>1, <2>4, <5>1
        <5>3. Times(es[a].deps, n) = 0
          BY <1>1, <1>7, <2>4, <5>2 DEF Linked
        <5> QED BY <1>2, <5>3
      <4> QED BY <4>1, <4>2
    <3> QED BY <1>3, <2>1, <2>4, <3>1 DEF Linked
  <2> QED BY <2>2, <2>3, <2>4
<1> QED BY <1>4, <1>5, <1>6, <1>7 DEF NodesEdit

(* A change of the nodes that is an edit makes an edit of the graph. *)
LEMMA EditOfNodes ==
    ASSUME NEW g, Shape(g), NEW h, DOMAIN h = DOMAIN g, NodesEdit(g.nodes, h.nodes),
           h.order \in Seq(DOMAIN g.nodes),
           \A i \in DOMAIN h.map : i \in DOMAIN g.map /\ h.map[i] = g.map[i]
    PROVE  Edit(g, h)
<1>1. NodesOver(h.nodes) /\ DOMAIN h.nodes = DOMAIN g.nodes
  BY DEF NodesEdit, Alike
<1>2. Shape(h)
  BY <1>1 DEF Shape
<1> QED BY <1>2 DEF Edit

(* An edit has the shape of a graph. *)
LEMMA EditShape ==
    ASSUME NEW g, NEW h, Edit(g, h)
    PROVE  Shape(h) /\ DOMAIN h.nodes = DOMAIN g.nodes
BY DEF Edit, NodesEdit, Alike

(* Taking a node out of the graph is an edit. *)
LEMMA RemoveNodeEdits ==
    ASSUME NEW g, Shape(g), NEW n \in DOMAIN g.nodes
    PROVE  Edit(g, RemoveNode(g, n))
<1> DEFINE h == RemoveNode(g, n)
<1>1. DOMAIN h = DOMAIN g /\ h.nodes = Isolated(g.nodes, n)
  BY DEF Shape, RemoveNode
<1>2. NodesEdit(g.nodes, h.nodes)
  BY <1>1, IsolatedEdits DEF Shape
<1>3. h.order \in Seq(DOMAIN g.nodes)
  BY TimesWithout DEF Shape, RemoveNode
<1>4. \A i \in DOMAIN h.map : i \in DOMAIN g.map /\ h.map[i] = g.map[i]
  BY DEF Shape, RemoveNode, Erase
<1> HIDE DEF h
<1> QED BY <1>1, <1>2, <1>3, <1>4, EditOfNodes DEF h

(* Taking a constant node away is an edit. *)
LEMMA RemoveConstantEdits ==
    ASSUME NEW g, Shape(g), NEW n \in DOMAIN g.nodes
    PROVE  Edit(g, RemoveConstant(g, n))
<1> DEFINE e == [g EXCEPT !.nodes = Isolated(@, n)]
<1>1. /\ DOMAIN e = DOMAIN g /\ e.nodes = Isolated(g.nodes, n)
      /\ e.order = g.order /\ e.map = g.map
  BY DEF Shape
<1>2. RemoveConstant(g, n) = g \/ RemoveConstant(g, n) = RemoveIfDangling(e, n)
  BY DEF RemoveConstant
<1> HIDE DEF e
<1>3. NodesEdit(g.nodes, e.nodes)
  BY <1>1, IsolatedEdits DEF Shape
<1>4. Edit(g, e)
  BY <1>1, <1>3, EditOfNodes DEF Shape
<1>5. Edit(e, RemoveIfDangling(e, n))
  BY <1>4, EditShape, RemoveIfDanglingEdits
<1> QED BY <1>2, <1>4, <1>5, EditTrans, EditRefl

(* A mark changes no dependency. *)
LEMMA MarkIfConstantEdits ==
    ASSUME NEW g, Shape(g), NEW n \in DOMAIN g.nodes
    PROVE  LET h == MarkIfConstant(g, n) IN
           Edit(g, h) /\ \A m \in DOMAIN g.nodes : Deps(h, m) = Deps(g, m)
<1> DEFINE value == \A d \in ToSet(Deps(g, n)) : g.nodes[d].constant
           e == [g EXCEPT !.nodes[n].constant = value]
<1>1. MarkIfConstant(g, n) = g \/ MarkIfConstant(g, n) = e
  BY DEF MarkIfConstant
<1> HIDE DEF value
<1>2. /\ DOMAIN e = DOMAIN g /\ e.order = g.order /\ e.map = g.map /\ Alike(g.nodes, e.nodes)
      /\ \A m \in DOMAIN g.nodes : /\ e.nodes[m].deps = g.nodes[m].deps
                                   /\ e.nodes[m].users = g.nodes[m].users
  BY DEF Shape, NodesOver, NodeOver, NodeFields, Alike
<1> HIDE DEF e
<1>3. Edit(g, e)
  BY <1>2, EditOfFlags DEF Shape
<1> QED BY <1>1, <1>2, <1>3, EditRefl DEF Deps

-----------------------------------------------------------------------------
(* Loops that take nodes out or mark them. *)

(* Loops of edits are edits. *)
EditInv(a, b, g, s, k, h) == Edit(g, h)
RemoveOp(a, b, h, n) == RemoveNode(h, n)
RemoveFold == INSTANCE FoldFacts WITH Op <- RemoveOp, P <- EditInv
ConstantOp(a, b, h, n) == RemoveConstant(h, n)
ConstantFold == INSTANCE FoldFacts WITH Op <- ConstantOp, P <- EditInv
MarkOp(a, b, h, n) == MarkIfConstant(h, n)
MarkFold == INSTANCE FoldFacts WITH Op <- MarkOp, P <- EditInv

(* Taking nodes out one after the other is an edit. *)
LEMMA RemoveNodesEdits ==
    ASSUME NEW g, Shape(g), NEW s \in Seq(DOMAIN g.nodes)
    PROVE  Edit(g, RemoveNodes(g, s))
<1>1. RemoveNodes(g, s) = RemoveFold!Fold(0, 0, g, s)
  BY SMT DEF RemoveNodes, RemoveFold!Fold, RemoveOp, FoldLeft, MapThenFoldSet,
             RemoveFold!MapThenFoldSet, Max, RemoveFold!Greatest
<1>2. EditInv(0, 0, g, s, 0, g)
  BY EditRefl DEF EditInv
<1>3. ASSUME NEW k \in 1..Len(s), NEW h, EditInv(0, 0, g, s, k - 1, h)
      PROVE  EditInv(0, 0, g, s, k, RemoveOp(0, 0, h, s[k]))
  <2>1. Edit(g, h) /\ Shape(h) /\ s[k] \in DOMAIN h.nodes
    BY <1>3, EditShape, ElementOfSeq DEF EditInv
  <2>2. Edit(h, RemoveNode(h, s[k]))
    BY <2>1, RemoveNodeEdits
  <2> QED BY <2>1, <2>2, EditTrans DEF EditInv, RemoveOp
<1>4. EditInv(0, 0, g, s, Len(s), RemoveFold!Fold(0, 0, g, s))
  BY <1>2, <1>3, RemoveFold!FoldInduction, NatInductive
<1> QED BY <1>1, <1>4 DEF EditInv

(* The end of propagate_constants, which takes the constants away, is an edit. *)
LEMMA RemoveConstantsEdits ==
    ASSUME NEW g, Shape(g)
    PROVE  Edit(g, RemoveConstants(g))
<1> DEFINE s == g.order
<1>1. RemoveConstants(g) = ConstantFold!Fold(0, 0, g, s)
  BY SMT DEF RemoveConstants, ConstantFold!Fold, ConstantOp, FoldLeft, MapThenFoldSet,
             ConstantFold!MapThenFoldSet, Max, ConstantFold!Greatest
<1>2. s \in Seq(DOMAIN g.nodes)
  BY DEF Shape
<1> HIDE DEF s
<1>3. EditInv(0, 0, g, s, 0, g)
  BY EditRefl DEF EditInv
<1>4. ASSUME NEW k \in 1..Len(s), NEW h, EditInv(0, 0, g, s, k - 1, h)
      PROVE  EditInv(0, 0, g, s, k, ConstantOp(0, 0, h, s[k]))
  <2>1. Edit(g, h) /\ Shape(h) /\ s[k] \in DOMAIN h.nodes
    BY <1>2, <1>4, EditShape, ElementOfSeq DEF EditInv
  <2>2. Edit(h, RemoveConstant(h, s[k]))
    BY <2>1, RemoveConstantEdits
  <2> QED BY <2>1, <2>2, EditTrans DEF EditInv, ConstantOp
<1>5. EditInv(0, 0, g, s, Len(s), ConstantFold!Fold(0, 0, g, s))
  BY <1>2, <1>3, <1>4, ConstantFold!FoldInduction, NatInductive
<1> QED BY <1>1, <1>5 DEF EditInv

(* mark_constants is an edit. *)
LEMMA MarkConstantsEdits ==
    ASSUME NEW g, Shape(g)
    PROVE  Edit(g, MarkConstants(g))
<1> DEFINE s == g.order
<1>1. MarkConstants(g) = MarkFold!Fold(0, 0, g, s)
  BY SMT DEF MarkConstants, MarkFold!Fold, MarkOp, FoldLeft, MapThenFoldSet,
             MarkFold!MapThenFoldSet, Max, MarkFold!Greatest
<1>2. s \in Seq(DOMAIN g.nodes)
  BY DEF Shape
<1> HIDE DEF s
<1>3. EditInv(0, 0, g, s, 0, g)
  BY EditRefl DEF EditInv
<1>4. ASSUME NEW k \in 1..Len(s), NEW h, EditInv(0, 0, g, s, k - 1, h)
      PROVE  EditInv(0, 0, g, s, k, MarkOp(0, 0, h, s[k]))
  <2>1. Edit(g, h) /\ Shape(h) /\ s[k] \in DOMAIN h.nodes
    BY <1>2, <1>4, EditShape, ElementOfSeq DEF EditInv
  <2>2. Edit(h, MarkIfConstant(h, s[k]))
    BY <2>1, MarkIfConstantEdits
  <2> QED BY <2>1, <2>2, EditTrans DEF EditInv, MarkOp
<1>5. EditInv(0, 0, g, s, Len(s), MarkFold!Fold(0, 0, g, s))
  BY <1>2, <1>3, <1>4, MarkFold!FoldInduction, NatInductive
<1> QED BY <1>1, <1>5 DEF EditInv

(* trim_to_outputs is an edit. *)
LEMMA TrimToOutputsEdits ==
    ASSUME NEW g, Shape(g)
    PROVE  Edit(g, TrimToOutputs(g))
<1>1. \A S : Among(g.order, S) \in Seq(DOMAIN g.nodes)
  BY TimesAmong DEF Shape
<1>2. Edit(g, TrimFrom(g, ToSet(g.outputs)))
  <2> DEFINE kept == Marked(g, ToSet(g.outputs)
            \cup {n \in ToSet(g.order) : g.nodes[n].kind = "input"})
             s == Among(g.order, ToSet(g.order) \ kept)
  <2>1. TrimFrom(g, ToSet(g.outputs)) = RemoveNodes(g, s)
    BY DEF TrimFrom
  <2> HIDE DEF kept
  <2>2. s \in Seq(DOMAIN g.nodes)
    BY <1>1
  <2> HIDE DEF s
  <2> QED BY <2>1, <2>2, RemoveNodesEdits
<1> QED BY <1>2, EditRefl DEF TrimToOutputs

-----------------------------------------------------------------------------
(* Steps: rewrites that may add nodes. *)

(* A sequence over some elements is one over more. *)
LEMMA SeqMore ==
    ASSUME NEW D, NEW E, D \subseteq E, NEW s \in Seq(D)
    PROVE  s \in Seq(E)
<1>1. Len(s) \in Nat /\ s \in [1..Len(s) -> D]
  BY SeqDef
<1>2. s \in [1..Len(s) -> E]
  BY <1>1
<1> QED BY <1>1, <1>2, SeqDef

(* A node is created under an id that was not there: nothing knows of it. *)
LEMMA Created ==
    ASSUME NEW g, Shape(g), NEW id, id \notin DOMAIN g.map, NEW kind, NEW value
    PROVE  LET h == GetOrCreate(g, id, kind, value)
               new == Len(g.nodes) + 1 IN
           /\ Shape(h) /\ new \notin DOMAIN g.nodes
           /\ DOMAIN h.nodes = DOMAIN g.nodes \cup {new}
           /\ \A m \in DOMAIN g.nodes : h.nodes[m] = g.nodes[m]
           /\ h.nodes[new].id = id /\ ~h.nodes[new].output
           /\ h.nodes[new].deps = << >> /\ h.nodes[new].users = << >>
           /\ DOMAIN h.map = DOMAIN g.map \cup {id}
           /\ \A i \in DOMAIN h.map : h.map[i] = IF i = id THEN new ELSE g.map[i]
           /\ \A a, b \in DOMAIN h.nodes :
                 (a \in DOMAIN g.nodes /\ b \in DOMAIN g.nodes => Linked(g.nodes, a, b))
                    => Linked(h.nodes, a, b)
<1> DEFINE D == DOMAIN g.nodes
           h == GetOrCreate(g, id, kind, value)
           new == Len(g.nodes) + 1
           node == NewNode(id, kind, value, FALSE)
<1>1. NodesOver(g.nodes) /\ Len(g.nodes) \in Nat /\ D = 1..Len(g.nodes)
  BY Lists DEF Shape
<1>2. /\ DOMAIN h = DOMAIN g /\ h.order = g.order
      /\ h.nodes = Append(g.nodes, node)
      /\ DOMAIN h.map = DOMAIN g.map \cup {id}
      /\ \A i \in DOMAIN h.map : h.map[i] = IF i = id THEN new ELSE g.map[i]
  BY DEF GetOrCreate, Shape
<1>3. /\ DOMAIN node = NodeFields /\ node.id = id /\ node.output = FALSE
      /\ node.deps = << >> /\ node.users = << >>
  BY DEF NewNode, NodeFields
<1> HIDE DEF h, node
<1>4. /\ h.nodes \in Seq(ToSet(g.nodes) \cup {node})
      /\ DOMAIN h.nodes = D \cup {new} /\ new \notin D
      /\ \A m \in D : h.nodes[m] = g.nodes[m]
      /\ h.nodes[new] = node
  <2>1. g.nodes \in Seq(ToSet(g.nodes) \cup {node})
    BY <1>1, SeqMore DEF NodesOver
  <2>2. /\ Append(g.nodes, node) \in Seq(ToSet(g.nodes) \cup {node})
        /\ Len(Append(g.nodes, node)) = Len(g.nodes) + 1
        /\ \A i \in 1..Len(g.nodes) : Append(g.nodes, node)[i] = g.nodes[i]
        /\ Append(g.nodes, node)[Len(g.nodes) + 1] = node
    BY <2>1, AppendProperties
  <2>3. DOMAIN h.nodes = 1..(Len(g.nodes) + 1)
    BY <1>2, <2>2
  <2> QED BY <1>1, <1>2, <2>2, <2>3
<1> DEFINE E == DOMAIN h.nodes
<1>5. \A m \in E : NodeOver(h.nodes[m], E)
  <2>1. << >> \in Seq(E)
    OBVIOUS
  <2>2. NodeOver(node, E)
    BY <1>3, <2>1 DEF NodeOver
  <2>3. ASSUME NEW m \in D PROVE NodeOver(g.nodes[m], E)
    <3>1. D \subseteq E
      BY <1>4
    <3>2. g.nodes[m].deps \in Seq(E) /\ g.nodes[m].users \in Seq(E)
      <4>1. g.nodes[m].deps \in Seq(D) /\ g.nodes[m].users \in Seq(D)
        BY <1>1, Lists
      <4> HIDE DEF D, E
      <4> QED BY <3>1, <4>1, SeqMore
    <3> QED BY <1>1, <3>2, Lists DEF NodeOver
  <2> QED BY <1>4, <2>2, <2>3
<1>6. Shape(h)
  <2>1. Len(h.nodes) \in Nat /\ E = 1..Len(h.nodes) /\ h.nodes = [m \in E |-> h.nodes[m]]
    BY <1>4
  <2>2. h.nodes \in Seq(ToSet(h.nodes))
    BY <2>1, SeqOfItself
  <2>3. NodesOver(h.nodes)
    BY <1>5, <2>2 DEF NodesOver
  <2>4. h.order \in Seq(E)
    <3>1. g.order \in Seq(D) /\ D \subseteq E
      BY <1>4 DEF Shape
    <3> QED BY <1>2, <3>1, SeqMore
  <2>5. \A i \in DOMAIN h.map : h.map[i] \in E
    BY <1>2, <1>4 DEF Shape
  <2> QED BY <1>2, <2>3, <2>4, <2>5 DEF Shape
<1>7. ASSUME NEW a \in E, NEW b \in E, a \in D /\ b \in D => Linked(g.nodes, a, b)
      PROVE  Linked(h.nodes, a, b)
  <2>1. \A m \in D : Times(g.nodes[m].deps, new) = 0 /\ Times(g.nodes[m].users, new) = 0
    <3>1. ASSUME NEW m \in D
              PROVE new \notin ToSet(g.nodes[m].deps) /\ new \notin ToSet(g.nodes[m].users)
      BY <1>1, <1>4, Lists, ToSetType
    <3> QED BY <1>1, <3>1, Lists, TimesNat
  <2>2. \A x : Times(h.nodes[new].deps, x) = 0 /\ Times(h.nodes[new].users, x) = 0
    BY <1>3, <1>4, TimesNone
  <2>3. CASE a \in D /\ b \in D
    BY <1>4, <1>7, <2>3 DEF Linked
  <2>4. CASE a = new
    BY <1>4, <2>1, <2>2, <2>4 DEF Linked
  <2>5. CASE b = new
    BY <1>4, <2>1, <2>2, <2>5 DEF Linked
  <2> QED BY <1>4, <2>3, <2>4, <2>5
<1>8. h.nodes[new].id = id /\ ~h.nodes[new].output
  BY <1>3, <1>4
<1> QED BY <1>2, <1>3, <1>4, <1>6, <1>7, <1>8 DEF h

(* A step of a pass: nodes are created, under ids of their own, and what is  *)
(* in the map was in it or is new.  Every pair that agreed does, and so do   *)
(* the new nodes with all others.                                            *)
Step(g, h) ==
    /\ Shape(h) /\ Grown(g, h)
    /\ \A n \in DOMAIN g.nodes : h.nodes[n].id = g.nodes[n].id
    /\ \A n \in DOMAIN h.nodes \ DOMAIN g.nodes : Clean(h.nodes[n].id)
    /\ \A i \in DOMAIN h.map :
          \/ i \in DOMAIN g.map /\ h.map[i] = g.map[i]
          \/ h.map[i] \in DOMAIN h.nodes \ DOMAIN g.nodes /\ h.nodes[h.map[i]].id = i
    /\ \A a, b \in DOMAIN h.nodes :
          (a \in DOMAIN g.nodes /\ b \in DOMAIN g.nodes => Linked(g.nodes, a, b))
             => Linked(h.nodes, a, b)

(* An edit is a step that adds no node. *)
LEMMA EditIsStep ==
    ASSUME NEW g, NEW h, Edit(g, h)
    PROVE  Step(g, h)
<1>1. Shape(h) /\ DOMAIN h.nodes = DOMAIN g.nodes
  BY EditShape
<1> QED BY <1>1 DEF Edit, NodesEdit, Alike, Step, Grown

(* Steps can follow one another. *)
LEMMA StepTrans ==
    ASSUME NEW f, NEW g, NEW h, Step(f, g), Step(g, h)
    PROVE  Step(f, h)
<1>1. Grown(f, h)
  BY GrownTrans DEF Step
<1>2. /\ DOMAIN f.nodes \subseteq DOMAIN g.nodes /\ DOMAIN g.nodes \subseteq DOMAIN h.nodes
      /\ \A n \in DOMAIN f.nodes : h.nodes[n].id = f.nodes[n].id
      /\ \A n \in DOMAIN h.nodes \ DOMAIN f.nodes : Clean(h.nodes[n].id)
  BY DEF Step, Grown
<1>3. ASSUME NEW i \in DOMAIN h.map
      PROVE  \/ i \in DOMAIN f.map /\ h.map[i] = f.map[i]
             \/ h.map[i] \in DOMAIN h.nodes \ DOMAIN f.nodes /\ h.nodes[h.map[i]].id = i
  BY <1>2 DEF Step
<1>4. ASSUME NEW a \in DOMAIN h.nodes, NEW b \in DOMAIN h.nodes,
             a \in DOMAIN f.nodes /\ b \in DOMAIN f.nodes => Linked(f.nodes, a, b)
      PROVE  Linked(h.nodes, a, b)
  BY <1>2, <1>4 DEF Step
<1> QED BY <1>1, <1>2, <1>3, <1>4 DEF Step

(* A step of a good graph makes a good graph. *)
LEMMA StepGood ==
    ASSUME NEW g, NEW h, Step(g, h), Good(g)
    PROVE  Good(h) /\ Grown(g, h)
<1>1. CleanIds(h)
  BY DEF Step, Good, CleanIds, Grown
<1>2. Ids(h)
  BY DEF Step, Good, Ids, Shape
<1> QED BY <1>1, <1>2 DEF Step, Good

(* A step of a whole graph makes a whole graph. *)
LEMMA StepWhole ==
    ASSUME NEW g, NEW h, Step(g, h), Whole(g)
    PROVE  Whole(h) /\ Grown(g, h)
<1>1. Mirror(h.nodes, DOMAIN h.nodes)
  BY DEF Whole, Mirror, Step
<1> QED BY <1>1, StepGood DEF Whole

(* A step of a graph that is right at the living nodes makes another. *)
LEMMA StepPartly ==
    ASSUME NEW g, NEW h, Step(g, h), Partly(g)
    PROVE  Partly(h) /\ Grown(g, h)
<1>1. \A a \in Alive(h) : a \in DOMAIN h.nodes /\ (a \in DOMAIN g.nodes => a \in Alive(g))
  BY DEF Alive, Step, Shape
<1>2. Mirror(h.nodes, Alive(h))
  BY <1>1 DEF Partly, Mirror, Step
<1> QED BY <1>2, StepGood DEF Partly

(* get_or_create adds at most a node without links. *)
LEMMA GetOrCreateSteps ==
    ASSUME NEW g, Shape(g), NEW id, Clean(id), NEW kind, NEW value
    PROVE  LET h == GetOrCreate(g, id, kind, value) IN
           /\ Step(g, h) /\ id \in DOMAIN h.map /\ h.map[id] \in DOMAIN h.nodes
           /\ \A m \in DOMAIN g.nodes : Deps(h, m) = Deps(g, m)
<1> DEFINE h == GetOrCreate(g, id, kind, value)
           new == Len(g.nodes) + 1
<1>1. CASE id \in DOMAIN g.map
  <2>1. h = g
    BY <1>1 DEF GetOrCreate
  <2> HIDE DEF h
  <2> QED BY <1>1, <2>1, EditRefl, EditIsStep DEF Shape, h
<1>2. CASE id \notin DOMAIN g.map
  <2>1. /\ Shape(h) /\ new \notin DOMAIN g.nodes
        /\ DOMAIN h.nodes = DOMAIN g.nodes \cup {new}
        /\ \A m \in DOMAIN g.nodes : h.nodes[m] = g.nodes[m]
        /\ h.nodes[new].id = id
        /\ DOMAIN h.map = DOMAIN g.map \cup {id}
        /\ \A i \in DOMAIN h.map : h.map[i] = IF i = id THEN new ELSE g.map[i]
        /\ \A a, b \in DOMAIN h.nodes :
              (a \in DOMAIN g.nodes /\ b \in DOMAIN g.nodes => Linked(g.nodes, a, b))
                 => Linked(h.nodes, a, b)
    BY <1>2, Created
  <2> HIDE DEF h, new
  <2>2. Step(g, h)
    BY <2>1 DEF Step, Grown
  <2>3. \A m \in DOMAIN g.nodes : Deps(h, m) = Deps(g, m)
    BY <2>1 DEF Deps
  <2> QED BY <2>1, <2>2, <2>3 DEF h
<1> QED BY <1>1, <1>2

(* The i-th dependency of a node is one. *)
LEMMA DepType ==
    ASSUME NEW g, Shape(g), NEW n \in DOMAIN g.nodes, NEW i \in DOMAIN Deps(g, n)
    PROVE  /\ Deps(g, n) \in Seq(DOMAIN g.nodes) /\ Dep(g, n, i) = Deps(g, n)[i]
           /\ Dep(g, n, i) \in DOMAIN g.nodes
<1>1. Deps(g, n) \in Seq(DOMAIN g.nodes) /\ Dep(g, n, i) = Deps(g, n)[i]
  BY Lists DEF Shape, Deps, Dep
<1> QED BY <1>1, ToSetType

(* A node that is no input has a dependency. *)
LEMMA FirstDep ==
    ASSUME NEW g, Shape(g), NEW n \in DOMAIN g.nodes, ~IsInput(g, n)
    PROVE  1 \in DOMAIN Deps(g, n)
<1>1. Deps(g, n) \in Seq(DOMAIN g.nodes) /\ Deps(g, n) # << >>
  BY Lists DEF Shape, Deps, IsInput
<1> QED BY <1>1

(* A reorder between a node and a dependency is a step. *)
LEMMA AddReorderSteps ==
    ASSUME NEW g, Shape(g), NEW n \in DOMAIN g.nodes, NEW i \in DOMAIN Deps(g, n)
    PROVE  Step(g, AddReorder(g, n, i))
<1> DEFINE id == Derived("reorder", <<g.nodes[Dep(g, n, i)].id>>)
           h == GetOrCreate(g, id, "reorder", NoTerm)
           connect == IsInput(h, h.map[id])
<1>1. Clean(id)
  BY DEF Clean, Derived
<1>2. AddReorder(g, n, i) = AddIntermediate(h, h.map[id], n, i, connect)
  BY DEF AddReorder
<1> HIDE DEF id, connect
<1>3. /\ Step(g, h) /\ h.map[id] \in DOMAIN h.nodes
      /\ \A m \in DOMAIN g.nodes : Deps(h, m) = Deps(g, m)
  BY <1>1, GetOrCreateSteps
<1> HIDE DEF h
<1>4. Shape(h) /\ n \in DOMAIN h.nodes /\ i \in DOMAIN Deps(h, n)
  BY <1>3 DEF Step, Grown
<1>5. Edit(h, AddIntermediate(h, h.map[id], n, i, connect))
  BY <1>3, <1>4, AddIntermediateEdits
<1> QED BY <1>2, <1>3, <1>5, EditIsStep, StepTrans

(* An order with a node inserted somewhere. *)
LEMMA ReorderedEdits ==
    ASSUME NEW g, Shape(g), NEW order \in Seq(DOMAIN g.nodes)
    PROVE  LET h == [g EXCEPT !.order = order] IN
           Edit(g, h) /\ h.nodes = g.nodes /\ h.map = g.map
<1> DEFINE h == [g EXCEPT !.order = order]
<1>1. /\ DOMAIN h = DOMAIN g /\ h.nodes = g.nodes /\ h.map = g.map
      /\ h.order \in Seq(DOMAIN g.nodes)
  BY DEF Shape
<1> HIDE DEF h
<1>2. Alike(g.nodes, h.nodes)
  BY <1>1, AlikeRefl DEF Shape
<1>3. Edit(g, h)
  BY <1>1, <1>2, EditOfFlags
<1> QED BY <1>1, <1>3 DEF h

(* Behind a node there is always room in the order. *)
LEMMA InsertBehind ==
    ASSUME NEW g, Shape(g), NEW p, NEW n \in DOMAIN g.nodes
    PROVE  InsertAt(g.order, Position(g, p) + 1, n) \in Seq(DOMAIN g.nodes)
<1>1. g.order \in Seq(DOMAIN g.nodes) /\ Len(g.order) \in Nat
  BY DEF Shape
<1>2. Position(g, p) + 1 \in 1..(Len(g.order) + 1)
  BY <1>1, FirstPlace DEF Position
<1> QED BY <1>1, <1>2, TimesInsertAt

(* A reorder behind a node's first dependency is a step, and leaves it a dependency. *)
LEMMA AddReorderBackSteps ==
    ASSUME NEW g, Shape(g), NEW n \in DOMAIN g.nodes, ~IsInput(g, n)
    PROVE  LET h == AddReorderBack(g, n) IN
           Step(g, h) /\ ~IsInput(h, n)
<1> DEFINE id == Derived("reorder_back", <<g.nodes[n].id>>)
           created == GetOrCreate(g, id, "reorder", NoTerm)
           back == created.map[id]
           order == InsertAt(created.order, Position(created, n) + 1, back)
           e == [created EXCEPT !.order = order]
           f == ReplaceAllUsages(e, n, back)
           k == AddConnection(f, n, back)
           h == MarkIfConstant(k, back)
<1>1. Clean(id)
  BY DEF Clean, Derived
<1>2. AddReorderBack(g, n) = h
  BY DEF AddReorderBack
<1> HIDE DEF id
<1>3. /\ Step(g, created) /\ back \in DOMAIN created.nodes
      /\ Deps(created, n) = Deps(g, n)
  BY <1>1, GetOrCreateSteps
<1> HIDE DEF created
<1>4. Shape(created) /\ n \in DOMAIN created.nodes
  BY <1>3 DEF Step, Grown
<1> HIDE DEF back
<1>5. Edit(created, e) /\ e.nodes = created.nodes
  <2>1. order \in Seq(DOMAIN created.nodes)
    BY <1>3, <1>4, InsertBehind
  <2> HIDE DEF order
  <2> QED BY <1>4, <2>1, ReorderedEdits
<1> HIDE DEF e
<1>6. Shape(e) /\ n \in DOMAIN e.nodes /\ back \in DOMAIN e.nodes /\ Deps(e, n) = Deps(g, n)
  BY <1>3, <1>4, <1>5, EditShape DEF Deps
<1>7. Edit(e, f) /\ Len(Deps(f, n)) = Len(Deps(e, n))
  BY <1>6, ReplaceAllUsagesEdits DEF Replacing
<1> HIDE DEF f
<1>8. Shape(f) /\ n \in DOMAIN f.nodes /\ back \in DOMAIN f.nodes /\ Deps(f, n) # << >>
  <2>1. Shape(f) /\ DOMAIN f.nodes = DOMAIN e.nodes
    BY <1>7, EditShape
  <2>2. Deps(g, n) \in Seq(DOMAIN g.nodes) /\ Deps(g, n) # << >>
    BY Lists DEF Shape, Deps, IsInput
  <2> QED BY <1>6, <1>7, <2>1, <2>2
<1>9. Edit(f, k) /\ Deps(k, n) # << >>
  <2>1. /\ Edit(f, k)
        /\ Deps(k, n) = IF n = back THEN Append(Deps(f, n), n) ELSE Deps(f, n)
    BY <1>8, AddConnectionEdits
  <2>2. Deps(f, n) \in Seq(DOMAIN f.nodes)
    BY <1>8, Lists DEF Shape, Deps
  <2>3. Append(Deps(f, n), n) # << >>
    BY <1>8, <2>2, AppendProperties
  <2> QED BY <1>8, <2>1, <2>3
<1> HIDE DEF k
<1>10. Edit(k, h) /\ Deps(h, n) = Deps(k, n)
  <2>1. Shape(k) /\ n \in DOMAIN k.nodes /\ back \in DOMAIN k.nodes
    BY <1>8, <1>9, EditShape
  <2> QED BY <2>1, MarkIfConstantEdits
<1> HIDE DEF h
<1>11. Edit(created, h)
  BY <1>5, <1>7, <1>9, <1>10, EditTrans
<1>12. Step(g, h)
  BY <1>3, <1>11, EditIsStep, StepTrans
<1> QED BY <1>2, <1>9, <1>10, <1>12 DEF IsInput

(* Going past a reorder that is already there is a step. *)
LEMMA PassByReorderSteps ==
    ASSUME NEW g, Shape(g), NEW n \in DOMAIN g.nodes, ~IsInput(g, n), ~IsInput(g, Dep(g, n, 1))
    PROVE  Step(g, PassByReorder(g, n))
<1> DEFINE reorder == Dep(g, n, 1)
           h == ReplaceDependency(g, n, 1, Dep(g, reorder, 1))
<1>1. reorder \in DOMAIN g.nodes /\ 1 \in DOMAIN Deps(g, n)
  BY FirstDep, DepType
<1>2. Dep(g, reorder, 1) \in DOMAIN g.nodes
  BY <1>1, FirstDep, DepType
<1>3. Edit(g, h)
  BY <1>1, <1>2, ReplaceDependencyEdits
<1>4. \/ PassByReorder(g, n) = h
      \/ ~h.nodes[reorder].output /\ PassByReorder(g, n) = ExtractAndRemove(h, reorder)
  BY DEF PassByReorder
<1> HIDE DEF h, reorder
<1>5. ~h.nodes[reorder].output => Edit(h, ExtractAndRemove(h, reorder))
  BY <1>1, <1>3, EditShape, ExtractAndRemoveIsEdit
<1>6. Edit(g, PassByReorder(g, n))
  BY <1>3, <1>4, <1>5, EditTrans
<1> QED BY <1>6, EditIsStep

(* Whatever reorder_inputs does to one node is a step. *)
LEMMA ReorderInputSteps ==
    ASSUME NEW g, Shape(g), NEW n \in DOMAIN g.nodes, ~IsInput(g, n),
           NEW h \in ReorderInput(g, n)
    PROVE  Step(g, h)
<1>1. Step(g, g)
  BY EditRefl, EditIsStep
<1>2. Step(g, AddReorder(g, n, 1))
  BY FirstDep, AddReorderSteps
<1>3. Step(g, AddReorder(AddReorderBack(g, n), n, 1))
  <2> DEFINE e == AddReorderBack(g, n)
  <2>1. Step(g, e) /\ ~IsInput(e, n)
    BY AddReorderBackSteps
  <2> HIDE DEF e
  <2>2. Shape(e) /\ n \in DOMAIN e.nodes
    BY <2>1 DEF Step, Grown
  <2>3. Step(e, AddReorder(e, n, 1))
    BY <2>1, <2>2, FirstDep, AddReorderSteps
  <2> QED BY <2>1, <2>3, StepTrans DEF e
<1>4. ~IsInput(g, Dep(g, n, 1)) => Step(g, PassByReorder(g, n))
  BY PassByReorderSteps
<1> QED BY <1>1, <1>2, <1>3, <1>4 DEF ReorderInput

(* Whatever pre_optimize_bias does to one node is a step. *)
LEMMA PreOptimizeBiasSteps ==
    ASSUME NEW g, Shape(g), NEW n \in DOMAIN g.nodes, NEW h \in PreOptimizeBias(g, n)
    PROVE  Step(g, h)
<1>1. Step(g, g)
  BY EditRefl, EditIsStep
<1>2. Len(Deps(g, n)) = 3 => 3 \in DOMAIN Deps(g, n)
  <2>1. Deps(g, n) \in Seq(DOMAIN g.nodes)
    BY Lists DEF Shape, Deps
  <2> QED BY <2>1
<1> QED BY <1>1, <1>2, AddReorderSteps DEF PreOptimizeBias

(* What post_optimize_weights does to one node is a step. *)
LEMMA PostOptimizeWeightsSteps ==
    ASSUME NEW g, Shape(g), NEW n \in DOMAIN g.nodes, WeightsAt(g, n) \in DOMAIN Deps(g, n)
    PROVE  Step(g, PostOptimizeWeights(g, n))
<1> DEFINE i == WeightsAt(g, n)
           id == Derived("generic_layer", <<g.nodes[Dep(g, n, i)].id>>)
           h == GetOrCreate(g, id, "generic", NoTerm)
           connect == id \notin DOMAIN g.map
           result == AddIntermediate(h, h.map[id], n, i, connect)
<1>1. Clean(id)
  BY DEF Clean, Derived
<1>2. PostOptimizeWeights(g, n) = g \/ PostOptimizeWeights(g, n) = result
  BY DEF PostOptimizeWeights
<1> HIDE DEF id, connect, i
<1>3. /\ Step(g, h) /\ h.map[id] \in DOMAIN h.nodes
      /\ \A m \in DOMAIN g.nodes : Deps(h, m) = Deps(g, m)
  BY <1>1, GetOrCreateSteps
<1> HIDE DEF h
<1>4. Shape(h) /\ n \in DOMAIN h.nodes /\ i \in DOMAIN Deps(h, n)
  BY <1>3 DEF Step, Grown, i
<1>5. Edit(h, result)
  BY <1>3, <1>4, AddIntermediateEdits
<1> HIDE DEF result
<1>6. Step(g, result)
  BY <1>3, <1>5, EditIsStep, StepTrans
<1> QED BY <1>2, <1>6, EditRefl, EditIsStep

(* A chain of reorders is of nodes, and as long as none is an output, taking *)
(* them out one by one is an edit.                                           *)
ChainOp(g, b, chain, m) ==
    IF GoesOn(g, Last(chain)) THEN Append(chain, Dep(g, Last(chain), 1)) ELSE chain
ChainInv(g, b, c, s, k, chain) == chain \in Seq(DOMAIN g.nodes) /\ chain # << >>
ChainFold == INSTANCE FoldFacts WITH Op <- ChainOp, P <- ChainInv
ExtractOp(a, b, h, n) == ExtractAndRemove(h, n)
ExtractFold == INSTANCE FoldFacts WITH Op <- ExtractOp, P <- EditInv

(* The reorders in front of a node are nodes. *)
LEMMA ReorderChainType ==
    ASSUME NEW g, Shape(g), NEW n \in DOMAIN g.nodes
    PROVE  ReorderChain(g, n) \in Seq(DOMAIN g.nodes)
<1> DEFINE D == DOMAIN g.nodes
           s == g.order
<1>1. ReorderChain(g, n) = ChainFold!Fold(g, 0, <<n>>, s)
  BY SMT DEF ReorderChain, ChainFold!Fold, ChainOp, FoldLeft, MapThenFoldSet,
             ChainFold!MapThenFoldSet, Max, ChainFold!Greatest
<1>2. s \in Seq(D)
  BY DEF Shape
<1> HIDE DEF s
<1>3. ChainInv(g, 0, 0, s, 0, <<n>>)
  <2>1. <<n>> \in Seq(D) /\ <<n>> # << >>
    <3>1. <<n>> \in Seq(D)
      <4>1. n \in D
        OBVIOUS
      <4> HIDE DEF D
      <4> QED BY <4>1, TimesOne
    <3>2. Len(<<n>>) = 1
      OBVIOUS
    <3> QED BY <3>1, <3>2, EmptySeq
  <2> QED BY <2>1 DEF ChainInv
<1>4. ASSUME NEW k \in 1..Len(s), NEW chain, ChainInv(g, 0, 0, s, k - 1, chain)
      PROVE  ChainInv(g, 0, 0, s, k, ChainOp(g, 0, chain, s[k]))
  <2>1. chain \in Seq(D) /\ chain # << >> /\ Last(chain) \in D
    BY <1>4 DEF ChainInv, Last
  <2>2. CASE GoesOn(g, Last(chain))
    <3>1. ~IsInput(g, Last(chain))
      <4>1. Deps(g, Last(chain)) # << >>
        <5>1. Deps(g, Last(chain)) \in Seq(D) /\ Len(Deps(g, Last(chain))) = 1
          BY <2>1, <2>2, Lists DEF GoesOn, Shape, Deps
        <5> QED BY SMTT(40), <5>1, EmptySeq
      <4> QED BY <4>1 DEF IsInput
    <3>2. Dep(g, Last(chain), 1) \in D
      BY <2>1, <3>1, FirstDep, DepType
    <3>3. Append(chain, Dep(g, Last(chain), 1)) \in Seq(D)
          /\ Append(chain, Dep(g, Last(chain), 1)) # << >>
      BY <2>1, <3>2, AppendProperties
    <3> QED BY <2>2, <3>3 DEF ChainInv, ChainOp
  <2>3. CASE ~GoesOn(g, Last(chain))
    BY <1>4, <2>3 DEF ChainInv, ChainOp
  <2> QED BY <2>2, <2>3
<1>5. ChainInv(g, 0, 0, s, Len(s), ChainFold!Fold(g, 0, <<n>>, s))
  BY <1>2, <1>3, <1>4, ChainFold!FoldInduction, NatInductive
<1> QED BY <1>1, <1>5 DEF ChainInv

(* Whatever remove_redundant_reorders does to one node is a step. *)
LEMMA RemoveRedundantReorderSteps ==
    ASSUME NEW g, Shape(g), NEW n \in DOMAIN g.nodes, NEW h \in RemoveRedundantReorder(g, n)
    PROVE  Step(g, h)
<1> DEFINE s == ReorderChain(g, n)
           e == FoldLeft(ExtractAndRemove, g, s)
<1>1. h = g \/ (h = e /\ \A r \in ToSet(s) : ~g.nodes[r].output)
  BY DEF RemoveRedundantReorder
<1>2. s \in Seq(DOMAIN g.nodes)
  BY ReorderChainType
<1>3. e = ExtractFold!Fold(0, 0, g, s)
  BY SMT DEF ExtractFold!Fold, ExtractOp, FoldLeft, MapThenFoldSet,
             ExtractFold!MapThenFoldSet, Max, ExtractFold!Greatest
<1> HIDE DEF s, e
<1>4. ASSUME \A r \in ToSet(s) : ~g.nodes[r].output PROVE Edit(g, e)
  <2>1. EditInv(0, 0, g, s, 0, g)
    BY EditRefl DEF EditInv
  <2>2. ASSUME NEW k \in 1..Len(s), NEW f, EditInv(0, 0, g, s, k - 1, f)
        PROVE  EditInv(0, 0, g, s, k, ExtractOp(0, 0, f, s[k]))
    <3>1. Edit(g, f) /\ Shape(f) /\ s[k] \in DOMAIN f.nodes /\ s[k] \in DOMAIN g.nodes
      BY <1>2, <2>2, EditShape, ElementOfSeq DEF EditInv
    <3>2. ~f.nodes[s[k]].output
      <4>1. ~g.nodes[s[k]].output
        BY <1>2, <1>4, ToSetType
      <4> QED BY <3>1, <4>1 DEF Edit, NodesEdit, Alike
    <3>3. Edit(f, ExtractAndRemove(f, s[k]))
      BY <3>1, <3>2, ExtractAndRemoveIsEdit
    <3> QED BY <3>1, <3>3, EditTrans DEF EditInv, ExtractOp
  <2>3. EditInv(0, 0, g, s, Len(s), ExtractFold!Fold(0, 0, g, s))
    BY <1>2, <2>1, <2>2, ExtractFold!FoldInduction, NatInductive
  <2> QED BY <1>3, <2>3 DEF EditInv
<1> QED BY <1>1, <1>4, EditRefl, EditIsStep

(* Reorders between a node and some of its dependencies, each of which it    *)
(* has once: the others stay where they are, to be looked at later.          *)
LEMMA ReorderBetweenSteps ==
    ASSUME NEW g, Shape(g), NEW n \in DOMAIN g.nodes, NEW dep \in ToSet(Deps(g, n))
    PROVE  LET h == ReorderBetween(g, n, dep) IN
           /\ Step(g, h)
           /\ \A d \in ToSet(Deps(g, n)) : d # dep => d \in ToSet(Deps(h, n))
<1> DEFINE id == Derived("reorder", <<g.nodes[dep].id, g.nodes[n].id>>)
           e == GetOrCreate(g, id, "reorder", NoTerm)
           i == FirstAt(Deps(e, n), dep)
           h == AddIntermediate(e, e.map[id], n, i, TRUE)
<1>1. Clean(id)
  BY DEF Clean, Derived
<1>2. ReorderBetween(g, n, dep) = h
  BY DEF ReorderBetween
<1> HIDE DEF id
<1>3. /\ Step(g, e) /\ e.map[id] \in DOMAIN e.nodes
      /\ Deps(e, n) = Deps(g, n)
  BY <1>1, GetOrCreateSteps
<1> HIDE DEF e
<1>4. Shape(e) /\ n \in DOMAIN e.nodes
  BY <1>3 DEF Step, Grown
<1>5. i \in DOMAIN Deps(e, n) /\ Dep(e, n, i) = dep
  <2>1. Deps(e, n) \in Seq(DOMAIN e.nodes) /\ dep \in ToSet(Deps(e, n))
    BY <1>3, <1>4, Lists DEF Shape, Deps
  <2>2. i \in DOMAIN Deps(e, n) /\ Deps(e, n)[i] = dep
    BY <2>1, FirstPlace
  <2> QED BY <1>4, <2>2, DepType
<1> HIDE DEF i
<1>6. /\ Edit(e, h)
      /\ \A d \in ToSet(Deps(e, n)) : d # Dep(e, n, i) => d \in ToSet(Deps(h, n))
  BY <1>3, <1>4, <1>5, AddIntermediateEdits
<1> HIDE DEF h
<1>7. Step(g, h)
  BY <1>3, <1>6, EditIsStep, StepTrans
<1> QED BY <1>2, <1>3, <1>5, <1>6, <1>7

RequiredOp(n, b, h, d) == ReorderBetween(h, n, d)
RequiredInv(n, b, g, s, k, h) ==
    /\ Step(g, h)
    /\ \A j \in (k + 1)..Len(s) : s[j] \in ToSet(Deps(h, n))
RequiredFold == INSTANCE FoldFacts WITH Op <- RequiredOp, P <- RequiredInv

(* The reorders a node requires are added by a step. *)
LEMMA AddRequiredReordersSteps ==
    ASSUME NEW g, Shape(g), NEW n \in DOMAIN g.nodes, NEW deps, ~Twice(g, n, deps)
    PROVE  Step(g, AddRequiredReorders(g, n, deps))
<1> DEFINE s == Among(Deps(g, n), deps)
<1>1. AddRequiredReorders(g, n, deps) = RequiredFold!Fold(n, 0, g, s)
  BY SMT DEF AddRequiredReorders, RequiredFold!Fold, RequiredOp, FoldLeft, MapThenFoldSet,
             RequiredFold!MapThenFoldSet, Max, RequiredFold!Greatest
<1>2. Deps(g, n) \in Seq(DOMAIN g.nodes)
  BY Lists DEF Shape, Deps
<1>3. /\ s \in Seq(DOMAIN g.nodes)
      /\ \A x : Times(s, x) = IF x \in deps THEN Times(Deps(g, n), x) ELSE 0
  BY <1>2, TimesAmong
<1>4. \A x \in deps : ~(Times(Deps(g, n), x) > 1)
  BY DEF Twice, Times, Dep, Deps
<1> HIDE DEF s
<1>5. \A j, k \in 1..Len(s) : j # k => s[j] # s[k]
  <2>1. ASSUME NEW j \in DOMAIN s, NEW k \in DOMAIN s, j # k, s[j] = s[k] PROVE FALSE
    <3>1. Times(s, s[j]) > 1
      BY <1>3, <2>1, TwoPlaces
    <3> QED BY <1>3, <1>4, <3>1
  <2> QED BY <1>3, <2>1
<1>6. \A j \in 1..Len(s) : s[j] \in ToSet(Deps(g, n))
  <2>1. ASSUME NEW j \in 1..Len(s) PROVE s[j] \in ToSet(Deps(g, n))
    <3>1. Times(s, s[j]) > 0
      BY <1>3, ToSetType
    <3>2. Times(Deps(g, n), s[j]) > 0
      BY <1>3, <3>1
    <3> QED BY <1>2, <3>2, ToSetType
  <2> QED BY <2>1
<1>7. RequiredInv(n, 0, g, s, 0, g)
  BY <1>6, EditRefl, EditIsStep DEF RequiredInv
<1>8. ASSUME NEW k \in 1..Len(s), NEW h, RequiredInv(n, 0, g, s, k - 1, h)
      PROVE  RequiredInv(n, 0, g, s, k, RequiredOp(n, 0, h, s[k]))
  <2> DEFINE f == ReorderBetween(h, n, s[k])
  <2>1. Len(s) \in Nat /\ k \in ((k - 1) + 1)..Len(s)
    BY <1>3
  <2>2. Step(g, h) /\ Shape(h) /\ n \in DOMAIN h.nodes /\ s[k] \in ToSet(Deps(h, n))
    BY <1>8, <2>1 DEF RequiredInv, Step, Grown
  <2>3. /\ Step(h, f)
        /\ \A d \in ToSet(Deps(h, n)) : d # s[k] => d \in ToSet(Deps(f, n))
    BY <2>2, ReorderBetweenSteps
  <2> HIDE DEF f
  <2>4. Step(g, f)
    BY <2>2, <2>3, StepTrans
  <2>5. ASSUME NEW j \in (k + 1)..Len(s) PROVE s[j] \in ToSet(Deps(f, n))
    <3>1. j \in ((k - 1) + 1)..Len(s) /\ j \in 1..Len(s) /\ j # k
      BY <2>1
    <3>2. s[j] # s[k]
      BY <1>5, <3>1
    <3> QED BY <1>8, <2>3, <3>1, <3>2 DEF RequiredInv
  <2> QED BY <2>4, <2>5 DEF RequiredInv, RequiredOp, f
<1>9. RequiredInv(n, 0, g, s, Len(s), RequiredFold!Fold(n, 0, g, s))
  BY <1>3, <1>7, <1>8, RequiredFold!FoldInduction, NatInductive
<1> QED BY <1>1, <1>9 DEF RequiredInv

-----------------------------------------------------------------------------
(* The order by distance, and fusings that take one node away. *)

(* The order by distance is a sequence of nodes. *)
LEMMA CalculateBfsType ==
    ASSUME NEW g, Shape(g)
    PROVE  CalculateBfs(g) \in Seq(DOMAIN g.nodes)
<1> DEFINE D == DOMAIN g.nodes
           level(k) == {n \in ToSet(g.order) : Distance(g)[n] = k - 1}
           levels == [k \in 1..Len(g.order) |-> Among(g.order, level(k))]
<1>1. g.order \in Seq(D) /\ Len(g.order) \in Nat
  BY DEF Shape
<1>2. CalculateBfs(g) = Joined(levels)
  BY DEF CalculateBfs
<1> HIDE DEF level
<1>3. \A k \in 1..Len(g.order) : Among(g.order, level(k)) \in Seq(D)
  BY <1>1, TimesAmong
<1>4. levels \in [1..Len(g.order) -> Seq(D)]
  BY <1>3
<1> HIDE DEF levels
<1>5. levels \in Seq(Seq(D))
  BY <1>1, <1>4, SeqDef
<1> QED BY <1>2, <1>5, JoinedType

(* The node before an activation is marked as activated, and the activation  *)
(* goes.                                                                     *)
LEMMA FuseActivationWhole ==
    ASSUME NEW g, Whole(g), NEW n \in DOMAIN g.nodes, Len(Deps(g, n)) = 1
    PROVE  Whole(FuseActivation(g, n)) /\ Grown(g, FuseActivation(g, n))
<1> DEFINE d == Dep(g, n, 1)
           e == [g EXCEPT !.nodes[d].activated = TRUE]
<1>1. FuseActivation(g, n) = ExtractAndRemove(e, n)
  BY DEF FuseActivation
<1>2. d \in DOMAIN g.nodes /\ Shape(g)
  <2>1. Deps(g, n) \in Seq(DOMAIN g.nodes) /\ Shape(g)
    BY Lists DEF Whole, Good, Shape, Deps
  <2>2. 1 \in DOMAIN Deps(g, n)
    BY <2>1
  <2> QED BY <2>1, <2>2, DepType
<1> HIDE DEF d
<1>3. /\ DOMAIN e = DOMAIN g /\ e.order = g.order /\ e.map = g.map /\ Alike(g.nodes, e.nodes)
      /\ \A m \in DOMAIN g.nodes : /\ e.nodes[m].deps = g.nodes[m].deps
                                   /\ e.nodes[m].users = g.nodes[m].users
  BY <1>2 DEF Shape, NodesOver, NodeOver, NodeFields, Alike
<1> HIDE DEF e
<1>4. Edit(g, e)
  BY <1>2, <1>3, EditOfFlags DEF Shape
<1>5. Whole(e) /\ Grown(g, e) /\ n \in DOMAIN e.nodes
  BY <1>4, EditWhole, EditShape
<1>6. Whole(ExtractAndRemove(e, n)) /\ Grown(e, ExtractAndRemove(e, n))
  BY <1>5, ExtractAndRemoveWhole
<1> QED BY <1>1, <1>5, <1>6, GrownTrans

(* The second deconvolution of a sum becomes a dependency of the first,      *)
(* which is moved to the place of the sum.                                   *)
LEMMA FuseSkipLayersWhole ==
    ASSUME NEW g, Whole(g), NEW n \in ToSet(g.order), g.nodes[n].kind = "eltwise",
           CanFuseSkipLayers(g, n)
    PROVE  Whole(FuseSkipLayers(g, n)) /\ Grown(g, FuseSkipLayers(g, n))
<1> DEFINE D == DOMAIN g.nodes
           to == Dep(g, n, 1)
           other == Dep(g, n, 2)
           e == AddConnection(g, other, to)
           h == RemoveConnection(e, other, n)
           moved == Without(h.order, to)
           order == InsertAt(moved, FirstAt(moved, n), to)
           f == [h EXCEPT !.order = order]
           flag == h.nodes[to].activated \/ h.nodes[n].activated
           k == [f EXCEPT !.nodes[to].activated = flag]
<1>1. Shape(g) /\ g.order \in Seq(D) /\ n \in D
  <2>1. Shape(g) /\ g.order \in Seq(D)
    BY DEF Whole, Good, Shape
  <2> QED BY <2>1, ToSetType
<1>2. to \in D /\ other \in D /\ to # n
  <2>1. Deps(g, n) \in Seq(D) /\ Len(Deps(g, n)) = 2
    BY <1>1, Lists DEF Shape, Deps, CanFuseSkipLayers
  <2>2. 1 \in DOMAIN Deps(g, n) /\ 2 \in DOMAIN Deps(g, n)
    BY <2>1
  <2>3. to \in D /\ other \in D /\ to \in ToSet(Deps(g, n))
    BY <1>1, <2>1, <2>2, DepType, ToSetType
  <2> QED BY <2>3 DEF CanFuseSkipLayers
<1> HIDE DEF to, other
<1>3. Edit(g, e) /\ e.order = g.order
  BY <1>1, <1>2, AddConnectionEdits
<1>4. Shape(e) /\ DOMAIN e.nodes = D
  BY <1>3, EditShape
<1> HIDE DEF e
<1>5. Edit(e, h) /\ h.order = e.order
  BY <1>1, <1>2, <1>4, RemoveConnectionEdits
<1>6. Shape(h) /\ DOMAIN h.nodes = D
  BY <1>4, <1>5, EditShape
<1> HIDE DEF h
<1>7. order \in Seq(D)
  <2>1. h.order \in Seq(D) /\ n \in ToSet(h.order)
    BY <1>1, <1>3, <1>5
  <2>2. moved \in Seq(D) /\ Times(moved, n) = Times(h.order, n)
    BY <1>2, <2>1, TimesWithout
  <2>3. n \in ToSet(moved)
    BY <2>1, <2>2, TimesNat
  <2> HIDE DEF moved
  <2>4. FirstAt(moved, n) \in DOMAIN moved
    BY <2>2, <2>3, FirstPlace
  <2>5. FirstAt(moved, n) \in 1..(Len(moved) + 1)
    BY <2>2, <2>4
  <2>6. to \in D
    BY <1>2
  <2> HIDE DEF D
  <2> QED BY <2>2, <2>5, <2>6, TimesInsertAt
<1> HIDE DEF order
<1>8. Edit(h, f)
  BY <1>6, <1>7, ReorderedEdits
<1> HIDE DEF f, flag
<1>9. Shape(f) /\ DOMAIN f.nodes = D
  BY <1>6, <1>8, EditShape
<1>10. /\ DOMAIN k = DOMAIN f /\ k.order = f.order /\ k.map = f.map /\ Alike(f.nodes, k.nodes)
       /\ \A m \in D : k.nodes[m].deps = f.nodes[m].deps /\ k.nodes[m].users = f.nodes[m].users
  BY <1>2, <1>9 DEF Shape, NodesOver, NodeOver, NodeFields, Alike
<1>11. FuseSkipLayers(g, n) = ExtractAndRemove(k, n)
  <2>1. k = [h EXCEPT !.order = order, !.nodes[to].activated = @ \/ h.nodes[n].activated]
    BY <1>6 DEF f, flag, Shape
  <2> QED BY <2>1 DEF FuseSkipLayers, to, other, e, h, order
<1> HIDE DEF k
<1>12. Edit(f, k)
  BY <1>9, <1>10, EditOfFlags DEF Shape
<1>13. Edit(g, k)
  BY <1>3, <1>5, <1>8, <1>12, EditTrans
<1>14. Whole(k) /\ Grown(g, k) /\ n \in DOMAIN k.nodes
  BY <1>1, <1>13, EditWhole, EditShape
<1>15. Whole(ExtractAndRemove(k, n)) /\ Grown(k, ExtractAndRemove(k, n))
  BY <1>14, ExtractAndRemoveWhole
<1> QED BY <1>11, <1>14, <1>15, GrownTrans

(* How often something is among the first elements of a sequence. *)
LEMMA TimesPrefix ==
    ASSUME NEW D, NEW s \in Seq(D), NEW k \in 1..Len(s)
    PROVE  /\ s[k] \in D
           /\ \A x : /\ Times(SubSeq(s, 1, k), x)
                          = Times(SubSeq(s, 1, k - 1), x) + (IF x = s[k] THEN 1 ELSE 0)
                     /\ Times(SubSeq(s, 1, k - 1), x) \in Nat
<1>1. /\ Len(s) \in Nat /\ s[k] \in D /\ k - 1 \in 0..Len(s) /\ 1 \in 1..(Len(s) + 1)
      /\ 1 \in 1..Len(s)
  BY ElementOfSeq
<1>2. SubSeq(s, 1, k - 1) \in Seq(D)
  BY <1>1, SubSeqType
<1>3. SubSeq(s, 1, k) = Append(SubSeq(s, 1, k - 1), s[k])
  <2>1. SubSeq(s, 1, k) = SubSeq(s, 1, k - 1) \o <<s[k]>>
    BY <1>1, SubSeqRecursiveSecond
  <2> QED BY <1>1, <1>2, <2>1, AppendIsConcat
<1>4. \A x : Times(Append(SubSeq(s, 1, k - 1), s[k]), x)
               = Times(SubSeq(s, 1, k - 1), x) + (IF x = s[k] THEN 1 ELSE 0)
  BY <1>1, <1>2, TimesAppend, ZenonT(60)
<1>5. \A x : Times(SubSeq(s, 1, k - 1), x) \in Nat
  BY <1>2, TimesNat
<1> QED BY <1>1, <1>3, <1>4, <1>5

-----------------------------------------------------------------------------
(* replace: the dependencies, the users, the id and the outputs. *)

(* The first part of replace: the dependencies of the old node become those  *)
(* of the new one.                                                           *)
CopyOp(old, new, h, d) ==
    IF d \in ToSet(Deps(h, old)) THEN RemoveConnection(AddConnection(h, d, new), d, old) ELSE h
CopyInv(old, new, g, s, k, h) ==
    /\ Edit(g, h) /\ h.map = g.map
    /\ Users(h, old) = Users(g, old) /\ Users(h, new) = Users(g, new)
    /\ \A m \in DOMAIN g.nodes : m # old /\ m # new => Deps(h, m) = Deps(g, m)
    /\ k = 0 => Deps(h, old) = Deps(g, old)
    /\ k # 0 => Deps(h, new) # << >>
CopyFold == INSTANCE FoldFacts WITH Op <- CopyOp, P <- CopyInv

(* replace gives the new node the dependencies of the old one, and takes them there. *)
LEMMA CopyDependenciesEdits ==
    ASSUME NEW g, Shape(g), NEW old \in DOMAIN g.nodes, NEW new \in DOMAIN g.nodes, old # new,
           old \notin ToSet(Deps(g, old)), new \notin ToSet(Deps(g, old))
    PROVE  LET h == CopyDependencies(g, old, new) IN
           /\ Edit(g, h) /\ h.map = g.map
           /\ Users(h, old) = Users(g, old) /\ Users(h, new) = Users(g, new)
           /\ \A m \in DOMAIN g.nodes : m # old /\ m # new => Deps(h, m) = Deps(g, m)
           /\ Deps(g, old) # << >> => Deps(h, new) # << >>
           /\ Deps(g, old) = << >> => h = g
<1> DEFINE D == DOMAIN g.nodes
           s == Deps(g, old)
           result == CopyDependencies(g, old, new)
<1>1. result = CopyFold!Fold(old, new, g, s)
  BY SMT DEF CopyDependencies, CopyFold!Fold, CopyOp, FoldLeft, MapThenFoldSet,
             CopyFold!MapThenFoldSet, Max, CopyFold!Greatest
<1>2. s \in Seq(D) /\ Len(s) \in Nat /\ old \notin ToSet(s) /\ new \notin ToSet(s)
          /\ s = Deps(g, old)
  BY Lists DEF Shape, Deps
<1> HIDE DEF s, result
<1>3. CopyInv(old, new, g, s, 0, g)
  BY EditRefl DEF CopyInv
<1>4. ASSUME NEW k \in 1..Len(s), NEW h, CopyInv(old, new, g, s, k - 1, h)
      PROVE  CopyInv(old, new, g, s, k, CopyOp(old, new, h, s[k]))
  <2> DEFINE d == s[k]
             e == AddConnection(h, d, new)
             f == RemoveConnection(e, d, old)
  <2>1. d \in D /\ d \in ToSet(s) /\ d # old /\ d # new
    BY <1>2, ToSetType
  <2>2. Edit(g, h) /\ Shape(h) /\ DOMAIN h.nodes = D
    BY <1>4, EditShape DEF CopyInv
  <2>3. CASE d \in ToSet(Deps(h, old))
    <3> HIDE DEF d
    <3>1. /\ Edit(h, e) /\ e.map = h.map
          /\ \A m \in D :
                /\ Users(e, m) = IF m = d THEN Append(Users(h, m), new) ELSE Users(h, m)
                /\ Deps(e, m) = IF m = new THEN Append(Deps(h, m), d) ELSE Deps(h, m)
      <4>1. Shape(h) /\ d \in DOMAIN h.nodes /\ new \in DOMAIN h.nodes /\ D = DOMAIN h.nodes
        BY <2>1, <2>2
      <4> QED BY SMTT(40), <4>1, AddConnectionEdits
    <3>2. Shape(e) /\ DOMAIN e.nodes = D
      BY <2>2, <3>1, EditShape
    <3> HIDE DEF e
    <3>3. /\ Edit(e, f) /\ f.map = e.map
          /\ \A m \in D :
                /\ Users(f, m) = IF m = d THEN Without(Users(e, m), old) ELSE Users(e, m)
                /\ Deps(f, m) = IF m = old THEN Without(Deps(e, m), d) ELSE Deps(e, m)
      BY <2>1, <3>2, RemoveConnectionEdits
    <3>4. Deps(f, new) # << >>
      <4>1. Deps(h, new) \in Seq(D)
        BY <2>2, Lists DEF Shape, Deps
      <4>2. Append(Deps(h, new), d) # << >>
        BY <2>1, <4>1, AppendProperties
      <4> QED BY <3>1, <3>3, <4>2
    <3> HIDE DEF f
    <3>5. Edit(g, f)
      BY <2>2, <3>1, <3>3, EditTrans
    <3>6. f.map = g.map /\ Users(f, old) = Users(g, old) /\ Users(f, new) = Users(g, new)
      BY <1>4, <2>1, <3>1, <3>3 DEF CopyInv
    <3>7. \A m \in D : m # old /\ m # new => Deps(f, m) = Deps(g, m)
      BY <1>4, <3>1, <3>3 DEF CopyInv
    <3>8. CopyInv(old, new, g, s, k, f)
      BY <3>4, <3>5, <3>6, <3>7 DEF CopyInv
    <3> QED BY <2>3, <3>8 DEF CopyOp, f, e, d
  <2>4. CASE d \notin ToSet(Deps(h, old))
    <3>1. k - 1 # 0
      <4>1. k - 1 = 0 => Deps(h, old) = s
        BY <1>2, <1>4 DEF CopyInv
      <4> QED BY <2>1, <2>4, <4>1
    <3>2. CopyInv(old, new, g, s, k, h)
      BY <1>4, <3>1 DEF CopyInv
    <3> QED BY <2>4, <3>2 DEF CopyOp
  <2> QED BY <2>3, <2>4
<1>5. CopyInv(old, new, g, s, Len(s), result)
  BY <1>1, <1>2, <1>3, <1>4, CopyFold!FoldInduction, NatInductive
<1>6. s # << >> => Len(s) # 0
  BY <1>2, EmptySeq
<1>7. s = << >> => result = g
  <2>1. PICK f : f[0] = g /\ CopyFold!Fold(old, new, g, s) = f[Len(s)]
    <3>1. \A a, b, base, T : \A q \in Seq(T) :
              \E h : /\ h[0] = base
                     /\ \A k \in 1..Len(q) : h[k] = CopyOp(a, b, h[k - 1], q[k])
                     /\ CopyFold!Fold(a, b, base, q) = h[Len(q)]
      BY CopyFold!FoldSteps, NatInductive, Zenon
    <3> QED BY <1>2, <3>1
  <2>2. s = << >> => Len(s) = 0
    BY EmptySeq
  <2> QED BY <1>1, <2>1, <2>2
<1> QED BY <1>2, <1>5, <1>6, <1>7 DEF CopyInv, result

(* The second part of replace: the users of the old node become those of the *)
(* new one; of each as many dependencies on the old node change.             *)
AppendOp(old, new, h, u) ==
    LET i == FirstAt(Deps(h, u), old) IN
    [h EXCEPT !.nodes[new].users = Append(@, u),
              !.nodes[u].deps = IF i = 0 THEN @ ELSE ReplaceAt(@, i, new)]
AppendInv(old, new, g, s, k, h) ==
    /\ Shape(h) /\ Alike(g.nodes, h.nodes) /\ h.map = g.map
    /\ \A m \in DOMAIN g.nodes : m # new => Users(h, m) = Users(g, m)
    /\ \A x : Times(Users(h, new), x) = Times(Users(g, new), x) + Times(SubSeq(s, 1, k), x)
    /\ \A a \in DOMAIN g.nodes :
          /\ Len(Deps(h, a)) = Len(Deps(g, a))
          /\ \A x : x # old /\ x # new => Times(Deps(h, a), x) = Times(Deps(g, a), x)
          /\ Times(SubSeq(s, 1, k), a) <= Times(Deps(g, a), old)
               => /\ Times(Deps(h, a), old) = Times(Deps(g, a), old) - Times(SubSeq(s, 1, k), a)
                  /\ Times(Deps(h, a), new) = Times(Deps(g, a), new) + Times(SubSeq(s, 1, k), a)
AppendFold == INSTANCE FoldFacts WITH Op <- AppendOp, P <- AppendInv

(* One user. *)
UserAppended(old, new, u, h, f) ==
    /\ Shape(f) /\ Alike(h.nodes, f.nodes) /\ f.map = h.map
    /\ \A m \in DOMAIN h.nodes : m # new => Users(f, m) = Users(h, m)
    /\ \A x : Times(Users(f, new), x) = Times(Users(h, new), x) + (IF x = u THEN 1 ELSE 0)
    /\ \A m \in DOMAIN h.nodes : m # u => Deps(f, m) = Deps(h, m)
    /\ Len(Deps(f, u)) = Len(Deps(h, u))
    /\ \A x : x # old /\ x # new => Times(Deps(f, u), x) = Times(Deps(h, u), x)
    /\ Times(Deps(h, u), old) > 0
         => /\ Times(Deps(f, u), old) = Times(Deps(h, u), old) - 1
            /\ Times(Deps(f, u), new) = Times(Deps(h, u), new) + 1

(* One turn of the loop in which replace hands a user to the new node. *)
LEMMA AppendUser ==
    ASSUME NEW h, Shape(h), NEW old, NEW new \in DOMAIN h.nodes, old # new, NEW u \in DOMAIN h.nodes
    PROVE  UserAppended(old, new, u, h, AppendOp(old, new, h, u))
<1> DEFINE D == DOMAIN h.nodes
           i == FirstAt(Deps(h, u), old)
           t == Append(h.nodes[new].users, u)
           s == h.nodes[u].deps
           r == IF i = 0 THEN s ELSE ReplaceAt(s, i, new)
           f == AppendOp(old, new, h, u)
<1>1. NodesOver(h.nodes) /\ s \in Seq(D) /\ h.nodes[new].users \in Seq(D) /\ s = Deps(h, u)
  BY Lists DEF Shape, Deps
<1>2. t \in Seq(D) /\ \A x : Times(t, x) = Times(h.nodes[new].users, x) + (IF x = u THEN 1 ELSE 0)
  <2>1. u \in D
    OBVIOUS
  <2> HIDE DEF D
  <2> QED BY <1>1, <2>1, TimesAppend
<1>3. /\ DOMAIN f = DOMAIN h /\ f.map = h.map /\ f.order = h.order /\ Alike(h.nodes, f.nodes)
      /\ \A m \in D : /\ f.nodes[m].users = IF m = new THEN t ELSE h.nodes[m].users
                      /\ f.nodes[m].deps = IF m = u THEN r ELSE h.nodes[m].deps
  <2>1. f = [h EXCEPT !.nodes[new].users = Append(@, u),
                      !.nodes[u].deps = IF i = 0 THEN @ ELSE ReplaceAt(@, i, new)]
    BY DEF AppendOp
  <2> HIDE DEF f, i
  <2>2. \A m \in D : DOMAIN h.nodes[m] = NodeFields
    BY <1>1, Lists
  <2> QED BY <2>1, <2>2, ZenonT(60) DEF Shape, NodeFields, Alike
<1>4. /\ r \in Seq(D) /\ Len(r) = Len(s)
      /\ \A x : x # old /\ x # new => Times(r, x) = Times(s, x)
      /\ Times(s, old) > 0 => Times(r, old) = Times(s, old) - 1 /\ Times(r, new) = Times(s, new) + 1
  <2>1. CASE old \in ToSet(s)
    <3>1. i \in DOMAIN s /\ s[i] = old /\ i # 0
      <4>1. i \in DOMAIN s /\ s[i] = old
        BY <1>1, <2>1, FirstPlace
      <4> QED BY <1>1, <4>1
    <3>2. r = [s EXCEPT ![i] = new]
      BY <3>1 DEF ReplaceAt
    <3>3. new \in D
      OBVIOUS
    <3> HIDE DEF r, i, s, D
    <3>4. /\ [s EXCEPT ![i] = new] \in Seq(D) /\ Len([s EXCEPT ![i] = new]) = Len(s)
          /\ \A x : Times([s EXCEPT ![i] = new], x)
                      = Times(s, x) - (IF x = s[i] THEN 1 ELSE 0) + (IF x = new THEN 1 ELSE 0)
      BY <1>1, <3>1, <3>3, TimesReplace
    <3>5. Times(s, old) \in Nat /\ Times(s, new) \in Nat /\ \A x : Times(s, x) \in Nat
      BY <1>1, TimesNat
    <3>6. r \in Seq(D) /\ Len(r) = Len(s)
      BY <3>2, <3>4
    <3>7. ASSUME NEW x, x # old, x # new PROVE Times(r, x) = Times(s, x)
      <4>1. Times([s EXCEPT ![i] = new], x) = Times(s, x) - 0 + 0
        BY <3>1, <3>4, <3>7
      <4> QED BY <3>2, <3>5, <4>1
    <3>8. Times(r, old) = Times(s, old) - 1 /\ Times(r, new) = Times(s, new) + 1
      <4>1. Times(r, old) = Times(s, old) - 1 + 0
        BY <3>1, <3>2, <3>4, <3>5
      <4>2. Times(r, new) = Times(s, new) - 0 + 1
        BY <3>1, <3>2, <3>4, <3>5
      <4> QED BY <3>5, <4>1, <4>2
    <3> QED BY <3>6, <3>7, <3>8
  <2>2. CASE old \notin ToSet(s)
    <3>1. i = 0 /\ Times(s, old) = 0
      <4>1. i = 0
        BY <1>1, <2>2, FirstPlace
      <4>2. Times(s, old) = 0
        BY <1>1, <2>2, TimesNat
      <4> QED BY <4>1, <4>2
    <3>2. r = s
      BY <3>1
    <3> HIDE DEF r, s
    <3> QED BY <1>1, <3>1, <3>2
  <2> QED BY <2>1, <2>2
<1> HIDE DEF f, t, r
<1>5. Shape(f)
  <2>1. \A m \in D : f.nodes[m].deps \in Seq(D) /\ f.nodes[m].users \in Seq(D)
    BY <1>1, <1>2, <1>3, <1>4, Lists
  <2>2. NodesOver(f.nodes)
    BY <1>1, <1>3, <2>1, NodesAgain
  <2> QED BY <1>3, <2>2 DEF Shape, Alike
<1> QED BY <1>1, <1>2, <1>3, <1>4, <1>5 DEF Users, Deps, f, UserAppended

(* The loop of replace over the users hands all of them over, with their links. *)
LEMMA AppendUsersKeeps ==
    ASSUME NEW g, Shape(g), NEW old \in DOMAIN g.nodes, NEW new \in DOMAIN g.nodes, old # new
    PROVE  LET h == AppendUsers(g, old, new)
               q(a) == Times(Users(g, old), a) IN
           /\ Shape(h) /\ Alike(g.nodes, h.nodes) /\ h.map = g.map
           /\ \A m \in DOMAIN g.nodes :
                 m # new => Users(h, m) = IF m = old THEN << >> ELSE Users(g, m)
           /\ \A x : Times(Users(h, new), x) = Times(Users(g, new), x) + q(x)
           /\ \A a \in DOMAIN g.nodes :
                 /\ Len(Deps(h, a)) = Len(Deps(g, a))
                 /\ \A x : x # old /\ x # new => Times(Deps(h, a), x) = Times(Deps(g, a), x)
                 /\ q(a) <= Times(Deps(g, a), old)
                      => /\ Times(Deps(h, a), old) = Times(Deps(g, a), old) - q(a)
                         /\ Times(Deps(h, a), new) = Times(Deps(g, a), new) + q(a)
<1> DEFINE D == DOMAIN g.nodes
           s == Users(g, old)
           e == AppendFold!Fold(old, new, g, s)
           h == [e EXCEPT !.nodes[old].users = << >>]
<1>1. AppendUsers(g, old, new) = h
  BY SMT DEF AppendUsers, AppendFold!Fold, AppendOp, FoldLeft, MapThenFoldSet,
             AppendFold!MapThenFoldSet, Max, AppendFold!Greatest
<1>2. /\ s \in Seq(D) /\ Len(s) \in Nat /\ SubSeq(s, 1, 0) = << >> /\ SubSeq(s, 1, Len(s)) = s
      /\ s = Users(g, old)
  <2>1. s \in Seq(D)
    BY Lists DEF Shape, Users
  <2> QED BY <2>1, SubSeqFull, SubSeqEmpty
<1> HIDE DEF s
<1>3. AppendInv(old, new, g, s, 0, g)
  <2>1. \A x : Times(<< >>, x) = 0 /\ Times(Users(g, new), x) \in Nat
    BY TimesNone, Lists DEF Shape, Users
  <2>2. \A a \in D : Times(Deps(g, a), old) \in Nat /\ Times(Deps(g, a), new) \in Nat
    BY Lists DEF Shape, Deps
  <2>3. Alike(g.nodes, g.nodes)
    BY AlikeRefl DEF Shape
  <2>4. \A x : Times(Users(g, new), x) = Times(Users(g, new), x) + Times(SubSeq(s, 1, 0), x)
    <3>1. ASSUME NEW x
              PROVE Times(Users(g, new), x) = Times(Users(g, new), x) + Times(SubSeq(s, 1, 0), x)
      <4>1. Times(SubSeq(s, 1, 0), x) = 0
        BY <1>2, <2>1
      <4>2. Times(Users(g, new), x) \in Nat
        BY <2>1
      <4> QED BY <4>1, <4>2
    <3> QED BY <3>1
  <2>5. ASSUME NEW a \in D
        PROVE  /\ Times(Deps(g, a), old) = Times(Deps(g, a), old) - Times(SubSeq(s, 1, 0), a)
               /\ Times(Deps(g, a), new) = Times(Deps(g, a), new) + Times(SubSeq(s, 1, 0), a)
    <3>1. Times(SubSeq(s, 1, 0), a) = 0
      BY <1>2, <2>1
    <3>2. Times(Deps(g, a), old) \in Nat /\ Times(Deps(g, a), new) \in Nat
      BY <2>2
    <3> QED BY <3>1, <3>2
  <2> QED BY <2>3, <2>4, <2>5 DEF AppendInv
<1>4. ASSUME NEW k \in 1..Len(s), NEW f, AppendInv(old, new, g, s, k - 1, f)
      PROVE  AppendInv(old, new, g, s, k, AppendOp(old, new, f, s[k]))
  <2> DEFINE u == s[k]
             r == AppendOp(old, new, f, u)
             T(x) == Times(SubSeq(s, 1, k - 1), x)
  <2>1. /\ u \in D
        /\ \A x : /\ Times(SubSeq(s, 1, k), x) = T(x) + (IF x = u THEN 1 ELSE 0)
                  /\ T(x) \in Nat
    BY <1>2, TimesPrefix
  <2>2. Shape(f) /\ DOMAIN f.nodes = D /\ Alike(g.nodes, f.nodes) /\ f.map = g.map
    BY <1>4 DEF AppendInv, Alike
  <2> HIDE DEF u, e, h
  <2>3. /\ Shape(r) /\ Alike(f.nodes, r.nodes) /\ r.map = f.map
        /\ \A m \in D : m # new => Users(r, m) = Users(f, m)
        /\ \A x : Times(Users(r, new), x) = Times(Users(f, new), x) + (IF x = u THEN 1 ELSE 0)
        /\ \A m \in D : m # u => Deps(r, m) = Deps(f, m)
        /\ Len(Deps(r, u)) = Len(Deps(f, u))
        /\ \A x : x # old /\ x # new => Times(Deps(r, u), x) = Times(Deps(f, u), x)
        /\ Times(Deps(f, u), old) > 0
             => /\ Times(Deps(r, u), old) = Times(Deps(f, u), old) - 1
                /\ Times(Deps(r, u), new) = Times(Deps(f, u), new) + 1
    <3>1. Shape(f) /\ new \in DOMAIN f.nodes /\ u \in DOMAIN f.nodes /\ old # new
              /\ D = DOMAIN f.nodes
      BY <2>1, <2>2
    <3>2. UserAppended(old, new, u, f, AppendOp(old, new, f, u))
      BY <3>1, AppendUser, Zenon
    <3>3. UserAppended(old, new, u, f, r)
      BY <3>2
    <3> HIDE DEF r, T, D
    <3> QED BY <3>1, <3>3, Zenon DEF UserAppended
  <2> HIDE DEF r, D
  <2>4. \A x : Times(Users(g, new), x) \in Nat
    BY Lists DEF Shape, Users
  <2>5. \A a \in D : /\ Times(Deps(g, a), old) \in Nat /\ Times(Deps(g, a), new) \in Nat
    BY Lists DEF Shape, Deps, D
  <2>6. Shape(r) /\ Alike(g.nodes, r.nodes) /\ r.map = g.map
    BY <2>2, <2>3 DEF Alike
  <2>7. \A m \in D : m # new => Users(r, m) = Users(g, m)
    BY <1>4, <2>3 DEF AppendInv, D
  <2>8. \A x : Times(Users(r, new), x) = Times(Users(g, new), x) + Times(SubSeq(s, 1, k), x)
    BY <1>4, <2>1, <2>3, <2>4 DEF AppendInv
  <2>9. ASSUME NEW a \in D
        PROVE  /\ Len(Deps(r, a)) = Len(Deps(g, a))
               /\ \A x : x # old /\ x # new => Times(Deps(r, a), x) = Times(Deps(g, a), x)
    BY <1>4, <2>3 DEF AppendInv, D
  <2>10. ASSUME NEW a \in D, Times(SubSeq(s, 1, k), a) <= Times(Deps(g, a), old)
         PROVE  /\ Times(Deps(r, a), old) = Times(Deps(g, a), old) - Times(SubSeq(s, 1, k), a)
                /\ Times(Deps(r, a), new) = Times(Deps(g, a), new) + Times(SubSeq(s, 1, k), a)
    <3>1. T(a) <= Times(Deps(g, a), old) /\ (a = u => T(a) < Times(Deps(g, a), old))
      BY <2>1, <2>5, <2>10
    <3>2. /\ Times(Deps(f, a), old) = Times(Deps(g, a), old) - T(a)
          /\ Times(Deps(f, a), new) = Times(Deps(g, a), new) + T(a)
      BY <1>4, <3>1 DEF AppendInv, D
    <3> QED BY SMTT(60), <2>1, <2>3, <2>5, <3>1, <3>2
  <2>11. AppendInv(old, new, g, s, k, r)
    BY <2>6, <2>7, <2>8, <2>9, <2>10 DEF AppendInv, D
  <2> QED BY <2>11 DEF r, u
<1>5. AppendInv(old, new, g, s, Len(s), e)
  BY <1>2, <1>3, <1>4, AppendFold!FoldInduction, NatInductive
<1> HIDE DEF e
<1>6. /\ Shape(e) /\ DOMAIN e.nodes = D /\ Alike(g.nodes, e.nodes) /\ e.map = g.map
      /\ \A m \in D : DOMAIN e.nodes[m] = NodeFields
  <2>1. Shape(e) /\ DOMAIN e.nodes = D /\ Alike(g.nodes, e.nodes) /\ e.map = g.map
    BY <1>5 DEF AppendInv, Alike
  <2> QED BY <2>1, Lists DEF Shape
<1>7. /\ DOMAIN h = DOMAIN e /\ h.map = e.map /\ h.order = e.order /\ Alike(e.nodes, h.nodes)
      /\ \A m \in D : /\ h.nodes[m].users = IF m = old THEN << >> ELSE e.nodes[m].users
                      /\ h.nodes[m].deps = e.nodes[m].deps
  BY <1>6 DEF Shape, NodeFields, Alike
<1> HIDE DEF h
<1>8. Shape(h)
  <2>1. << >> \in Seq(D)
    OBVIOUS
  <2>2. \A m \in D : h.nodes[m].deps \in Seq(D) /\ h.nodes[m].users \in Seq(D)
    BY <1>6, <1>7, <2>1, Lists DEF Shape
  <2>3. NodesOver(h.nodes)
    BY <1>6, <1>7, <2>2, NodesAgain DEF Shape
  <2> QED BY <1>6, <1>7, <2>3 DEF Shape, Alike
<1>9. Alike(g.nodes, h.nodes) /\ h.map = g.map
  BY <1>6, <1>7 DEF Alike
<1>10. \A m \in D : /\ Users(h, m) = IF m = old THEN << >> ELSE Users(e, m)
                    /\ Deps(h, m) = Deps(e, m)
  BY <1>7 DEF Users, Deps
<1>11. /\ \A m \in D : m # new => Users(h, m) = IF m = old THEN << >> ELSE Users(g, m)
       /\ \A x : Times(Users(h, new), x) = Times(Users(g, new), x) + Times(s, x)
  BY <1>2, <1>5, <1>10 DEF AppendInv
<1>12. \A a \in D :
          /\ Len(Deps(h, a)) = Len(Deps(g, a))
          /\ \A x : x # old /\ x # new => Times(Deps(h, a), x) = Times(Deps(g, a), x)
          /\ Times(s, a) <= Times(Deps(g, a), old)
               => /\ Times(Deps(h, a), old) = Times(Deps(g, a), old) - Times(s, a)
                  /\ Times(Deps(h, a), new) = Times(Deps(g, a), new) + Times(s, a)
  <2>1. SubSeq(s, 1, Len(s)) = s
    BY <1>2
  <2> QED BY <1>5, <1>10, <2>1, ZenonT(60) DEF AppendInv
<1> QED BY <1>1, <1>2, <1>8, <1>9, <1>11, <1>12

(* The third part of replace: the new node takes over the id, the place in   *)
(* the map and the flags.                                                    *)
TakenOver(g, old, new, h) ==
    /\ Shape(h) /\ SameLinks(g, h) /\ Ids(h)
    /\ \A m \in DOMAIN g.nodes :
          /\ h.nodes[m].id = IF m = new THEN g.nodes[old].id ELSE g.nodes[m].id
          /\ m # old /\ m # new => h.nodes[m].output = g.nodes[m].output
    /\ DOMAIN h.map = (DOMAIN g.map \ {g.nodes[new].id}) \cup {g.nodes[old].id}
    /\ \A i \in DOMAIN h.map : h.map[i] = IF i = g.nodes[old].id THEN new ELSE g.map[i]

(* replace gives the new node the id and the outputs of the old one. *)
LEMMA TakeOverKeeps ==
    ASSUME NEW g, Shape(g), Ids(g),
           NEW old \in DOMAIN g.nodes, NEW new \in DOMAIN g.nodes, old # new
    PROVE  TakenOver(g, old, new, TakeOver(g, old, new))
<1> DEFINE D == DOMAIN g.nodes
           id == g.nodes[old].id
           output == g.nodes[old].output
           outputs == IF output THEN Append(Without(g.outputs, old), new) ELSE g.outputs
           inputs == Without(IF IsInput(g, new) THEN Append(g.inputs, new) ELSE g.inputs, old)
           constant == g.nodes[old].constant
           e == [g EXCEPT !.outputs = outputs,
                          !.nodes[old].output = FALSE, !.nodes[new].output = output,
                          !.inputs = inputs,
                          !.nodes[new].constant = constant,
                          !.map = Erase(@, id)]
           h == Rename(e, new, id)
<1>1. TakeOver(g, old, new) = h
  <2>1. e = [g EXCEPT
                !.outputs = IF output THEN Append(Without(@, old), new) ELSE @,
                !.nodes[old].output = FALSE, !.nodes[new].output = output,
                !.inputs = Without(IF IsInput(g, new) THEN Append(@, new) ELSE @, old),
                !.nodes[new].constant = g.nodes[old].constant,
                !.map = Erase(@, g.nodes[old].id)]
    BY DEF Shape
  <2> HIDE DEF e
  <2> QED BY <2>1 DEF TakeOver
<1>2. NodesOver(g.nodes) /\ \A m \in D : DOMAIN g.nodes[m] = NodeFields
  BY Lists DEF Shape
<1> HIDE DEF id, output, outputs, inputs, constant
<1>3. /\ Frame(g, e) /\ e.order = g.order
      /\ DOMAIN e.map = DOMAIN g.map \ {id} /\ \A i \in DOMAIN e.map : e.map[i] = g.map[i]
      /\ \A m \in D :
            /\ e.nodes[m].id = g.nodes[m].id /\ e.nodes[m].kind = g.nodes[m].kind
            /\ e.nodes[m].deps = g.nodes[m].deps /\ e.nodes[m].users = g.nodes[m].users
            /\ m # old /\ m # new => e.nodes[m].output = g.nodes[m].output
  <2> DEFINE ns == [g.nodes EXCEPT ![old].output = FALSE, ![new].output = output,
                                   ![new].constant = constant]
  <2>1. DOMAIN e = DOMAIN g /\ e.order = g.order /\ e.map = Erase(g.map, id)
    BY DEF Shape
  <2>2. e.nodes = ns
    BY DEF Shape
  <2>3. DOMAIN ns = D /\ ns = [m \in DOMAIN ns |-> ns[m]]
    OBVIOUS
  <2>4. \A m \in D :
            /\ DOMAIN ns[m] = DOMAIN g.nodes[m]
            /\ ns[m].id = g.nodes[m].id /\ ns[m].kind = g.nodes[m].kind
            /\ ns[m].deps = g.nodes[m].deps /\ ns[m].users = g.nodes[m].users
            /\ m # old /\ m # new => ns[m].output = g.nodes[m].output
    BY <1>2 DEF NodeFields
  <2> HIDE DEF e, ns
  <2>5. DOMAIN e.map = DOMAIN g.map \ {id} /\ \A i \in DOMAIN e.map : e.map[i] = g.map[i]
    BY <2>1 DEF Erase
  <2> QED BY <2>1, <2>2, <2>3, <2>4, <2>5 DEF Frame
<1> HIDE DEF e
<1>4. Shape(e) /\ DOMAIN e.nodes = D
  <2>1. DOMAIN e.nodes = D
    BY <1>3 DEF Frame
  <2>2. \A m \in D : e.nodes[m].deps \in Seq(D) /\ e.nodes[m].users \in Seq(D)
    BY <1>2, <1>3, Lists
  <2>3. \A i \in DOMAIN e.map : e.map[i] \in D
    BY <1>3 DEF Shape
  <2>4. e.order \in Seq(D)
    BY <1>3 DEF Shape
  <2>5. Shape(e)
    BY <1>3, <2>2, <2>3, <2>4, ShapeAgain
  <2> QED BY <2>1, <2>5
<1>5. Ids(e)
  BY <1>3 DEF Ids, Shape
<1>6. /\ Shape(h) /\ DOMAIN h.nodes = D
      /\ \A m \in D :
            /\ h.nodes[m].id = IF m = new THEN id ELSE e.nodes[m].id
            /\ h.nodes[m].kind = e.nodes[m].kind /\ h.nodes[m].output = e.nodes[m].output
            /\ h.nodes[m].deps = e.nodes[m].deps /\ h.nodes[m].users = e.nodes[m].users
      /\ DOMAIN h.map = (DOMAIN e.map \ {e.nodes[new].id}) \cup {id}
      /\ \A i \in DOMAIN h.map : h.map[i] = IF i = id THEN new ELSE e.map[i]
      /\ Ids(h)
  <2>1. Shape(e) /\ new \in DOMAIN e.nodes
    BY <1>4
  <2> QED BY <1>4, <1>5, <2>1, RenameKeeps
<1> HIDE DEF h
<1>7. SameLinks(g, h)
  BY <1>3, <1>6 DEF SameLinks
<1>8. \A m \in D :
          /\ h.nodes[m].id = IF m = new THEN id ELSE g.nodes[m].id
          /\ m # old /\ m # new => h.nodes[m].output = g.nodes[m].output
  BY <1>3, <1>6
<1>9. DOMAIN h.map = (DOMAIN g.map \ {g.nodes[new].id}) \cup {id}
  BY <1>3, <1>6
<1>10. \A i \in DOMAIN h.map : h.map[i] = IF i = id THEN new ELSE g.map[i]
  BY <1>3, <1>6
<1>11. TakenOver(g, old, new, h)
  BY <1>6, <1>7, <1>8, <1>9, <1>10 DEF TakenOver, id
<1> QED BY <1>1, <1>11

(* What replace leaves: all pairs agree that did, the one of a node and the  *)
(* new one if the old one did not have the node more often as a user than    *)
(* that one has it as a dependency.                                          *)
Replaced(g, old, new, h) ==
    /\ Shape(h) /\ Ids(h) /\ DOMAIN h.nodes = DOMAIN g.nodes
    /\ \A m \in DOMAIN g.nodes :
          /\ h.nodes[m].kind = g.nodes[m].kind
          /\ h.nodes[m].id = IF m = new THEN g.nodes[old].id ELSE g.nodes[m].id
          /\ m # old /\ m # new =>
                /\ h.nodes[m].output = g.nodes[m].output
                /\ Len(Deps(h, m)) = Len(Deps(g, m))
                /\ \A x : x # old /\ x # new => Times(Deps(h, m), x) = Times(Deps(g, m), x)
    /\ DOMAIN h.map = (DOMAIN g.map \ {g.nodes[new].id}) \cup {g.nodes[old].id}
    /\ \A i \in DOMAIN h.map : h.map[i] = IF i = g.nodes[old].id THEN new ELSE g.map[i]
    /\ \A x : Times(Users(h, new), x) = Times(Users(g, new), x) + Times(Users(g, old), x)
    /\ Deps(g, old) # << >> => Deps(h, new) # << >>
    /\ \A a, b \in DOMAIN g.nodes : b # new /\ Linked(g.nodes, a, b) => Linked(h.nodes, a, b)
    /\ \A a \in DOMAIN g.nodes :
          /\ Linked(g.nodes, a, new)
          /\ \/ Linked(g.nodes, a, old)
             \/ a # old /\ a # new /\ Times(Users(g, old), a) <= Times(Deps(g, a), old)
          => Linked(h.nodes, a, new)

(* replace puts a node in the place of another, its links, its id and all. *)
THEOREM ReplaceKeeps ==
    ASSUME NEW g, Shape(g), Ids(g),
           NEW old \in DOMAIN g.nodes, NEW new \in DOMAIN g.nodes, old # new,
           old \notin ToSet(Deps(g, old)), new \notin ToSet(Deps(g, old))
    PROVE  Replaced(g, old, new, Replace(g, old, new))
<1> DEFINE D == DOMAIN g.nodes
           c == CopyDependencies(g, old, new)
           e == AppendUsers(c, old, new)
           f == TakeOver(e, old, new)
           h == Replace(g, old, new)
           q(a) == Times(Users(c, old), a)
<1>1. /\ Edit(g, c) /\ c.map = g.map
      /\ Users(c, old) = Users(g, old) /\ Users(c, new) = Users(g, new)
      /\ \A m \in D : m # old /\ m # new => Deps(c, m) = Deps(g, m)
      /\ Deps(g, old) # << >> => Deps(c, new) # << >>
  BY CopyDependenciesEdits
<1> HIDE DEF c
<1>2. Shape(c) /\ DOMAIN c.nodes = D
  BY <1>1, EditShape
<1>3. /\ Shape(e) /\ Alike(c.nodes, e.nodes) /\ e.map = c.map
      /\ \A m \in D : m # new => Users(e, m) = IF m = old THEN << >> ELSE Users(c, m)
      /\ \A x : Times(Users(e, new), x) = Times(Users(c, new), x) + q(x)
      /\ \A a \in D :
            /\ Len(Deps(e, a)) = Len(Deps(c, a))
            /\ \A x : x # old /\ x # new => Times(Deps(e, a), x) = Times(Deps(c, a), x)
            /\ q(a) <= Times(Deps(c, a), old)
                 => /\ Times(Deps(e, a), old) = Times(Deps(c, a), old) - q(a)
                    /\ Times(Deps(e, a), new) = Times(Deps(c, a), new) + q(a)
  <2>1. Shape(c) /\ old \in DOMAIN c.nodes /\ new \in DOMAIN c.nodes /\ D = DOMAIN c.nodes
    BY <1>2
  <2> QED BY <2>1, AppendUsersKeeps
<1> HIDE DEF e
<1>4. /\ DOMAIN e.nodes = D /\ e.map = g.map
      /\ \A m \in D : /\ e.nodes[m].id = g.nodes[m].id /\ e.nodes[m].kind = g.nodes[m].kind
                      /\ e.nodes[m].output = g.nodes[m].output
  BY <1>1, <1>2, <1>3 DEF Edit, NodesEdit, Alike
<1>5. Ids(e)
  BY <1>4 DEF Ids, Shape
<1>6. TakenOver(e, old, new, f)
  BY <1>3, <1>4, <1>5, TakeOverKeeps
<1> HIDE DEF f
<1>7. /\ Shape(f) /\ DOMAIN f.nodes = D
      /\ \A m \in D : Deps(f, m) = Deps(e, m) /\ Users(f, m) = Users(e, m)
  BY <1>4, <1>6 DEF TakenOver, SameLinks, Deps, Users
<1>8. /\ DOMAIN h = DOMAIN f /\ h.nodes = f.nodes /\ h.map = f.map
      /\ h.order \in Seq(D)
  <2>1. h = [f EXCEPT !.order = ReplaceAll(@, old, new)]
    BY DEF Replace, f, e, c
  <2>2. f.order \in Seq(D) /\ new \in D
    BY <1>7 DEF Shape
  <2>3. ReplaceAll(f.order, old, new) \in Seq(D)
    <3> HIDE DEF D
    <3> QED BY <2>2, ReplaceAllType
  <2> HIDE DEF h
  <2> QED BY <1>7, <2>1, <2>3 DEF Shape
<1> HIDE DEF h
<1>9. Shape(h) /\ Ids(h) /\ DOMAIN h.nodes = D
  BY <1>6, <1>7, <1>8 DEF Shape, Ids, TakenOver
<1>10. \A m \in D : Deps(h, m) = Deps(e, m) /\ Users(h, m) = Users(e, m)
  BY <1>7, <1>8 DEF Deps, Users
<1>11. \A m \in D :
          /\ h.nodes[m].kind = g.nodes[m].kind
          /\ h.nodes[m].id = IF m = new THEN g.nodes[old].id ELSE g.nodes[m].id
          /\ m # old /\ m # new => h.nodes[m].output = g.nodes[m].output
  BY <1>4, <1>6, <1>8 DEF TakenOver, SameLinks
<1>12. ASSUME NEW m \in D, m # old, m # new
       PROVE  /\ Len(Deps(h, m)) = Len(Deps(g, m))
              /\ \A x : x # old /\ x # new => Times(Deps(h, m), x) = Times(Deps(g, m), x)
  BY <1>1, <1>3, <1>10, <1>12
<1>13. /\ DOMAIN h.map = (DOMAIN g.map \ {g.nodes[new].id}) \cup {g.nodes[old].id}
       /\ \A i \in DOMAIN h.map : h.map[i] = IF i = g.nodes[old].id THEN new ELSE g.map[i]
  BY <1>4, <1>6, <1>8 DEF TakenOver
<1>14. \A x : Times(Users(h, new), x) = Times(Users(g, new), x) + Times(Users(g, old), x)
  BY <1>1, <1>3, <1>10
<1>15. Deps(g, old) # << >> => Deps(h, new) # << >>
  <2>1. Deps(c, new) \in Seq(D) /\ Deps(e, new) \in Seq(D)
    BY <1>2, <1>3, <1>4, Lists DEF Shape, Deps
  <2>2. Len(Deps(e, new)) = Len(Deps(c, new))
    BY <1>3
  <2> QED BY <1>1, <1>10, <2>1, <2>2, EmptySeq
<1>16. ASSUME NEW a \in D, NEW b \in D, Linked(g.nodes, a, b), b # new
       PROVE  Linked(h.nodes, a, b)
  <2>1. Linked(c.nodes, a, b)
    BY <1>1, <1>16 DEF Edit, NodesEdit
  <2>2. Times(Deps(c, a), b) = Times(Users(c, b), a)
    BY <2>1 DEF Linked, Deps, Users
  <2>3. CASE b # old
    BY <1>3, <1>10, <1>16, <2>2, <2>3 DEF Linked, Deps, Users
  <2>4. CASE b = old
    <3>1. Users(h, b) = << >> /\ Times(<< >>, a) = 0
      BY <1>3, <1>10, <1>16, <2>4, TimesNone
    <3>2. q(a) \in Nat /\ Times(Deps(c, a), old) = q(a)
      BY <1>2, <2>2, <2>4, Lists DEF Shape, Users
    <3>3. Times(Deps(e, a), old) = q(a) - q(a)
      BY <1>3, <3>2
    <3>4. Times(Deps(h, a), old) = 0
      BY <1>10, <3>2, <3>3
    <3> QED BY <2>4, <3>1, <3>4 DEF Linked, Deps, Users
  <2> QED BY <2>3, <2>4
<1>17. ASSUME NEW a \in D, Linked(g.nodes, a, new),
              \/ Linked(g.nodes, a, old)
              \/ a # old /\ a # new /\ Times(Users(g, old), a) <= Times(Deps(g, a), old)
       PROVE  Linked(h.nodes, a, new)
  <2>1. Times(Deps(c, a), new) = Times(Users(c, new), a)
    BY <1>1, <1>17 DEF Edit, NodesEdit, Linked, Deps, Users
  <2>2. q(a) <= Times(Deps(c, a), old)
    <3>1. CASE Linked(g.nodes, a, old)
      <4>1. Times(Deps(c, a), old) = Times(Users(c, old), a)
        BY <1>1, <3>1 DEF Edit, NodesEdit, Linked, Deps, Users
      <4>2. Times(Users(c, old), a) \in Nat
        BY <1>2, Lists DEF Shape, Users
      <4> QED BY <4>1, <4>2
    <3>2. CASE a # old /\ a # new /\ Times(Users(g, old), a) <= Times(Deps(g, a), old)
      BY <1>1, <3>2
    <3> QED BY <1>17, <3>1, <3>2
  <2>3. Times(Deps(h, a), new) = Times(Users(h, new), a)
    BY <1>3, <1>10, <2>1, <2>2
  <2> QED BY <2>3 DEF Linked, Deps, Users
<1> HIDE DEF q
<1>18. Replaced(g, old, new, h)
  BY <1>9, <1>11, <1>12, <1>13, <1>14, <1>15, <1>16, <1>17 DEF Replaced
<1> QED BY <1>18 DEF h

(* A graph stays good when its nodes keep their ids and nothing enters the   *)
(* map.                                                                      *)
LEMMA GoodAgain ==
    ASSUME NEW g, Good(g), NEW h, Shape(h), Alike(g.nodes, h.nodes),
           \A i \in DOMAIN h.map : i \in DOMAIN g.map /\ h.map[i] = g.map[i]
    PROVE  Good(h)
<1>1. \A m \in DOMAIN g.nodes : h.nodes[m].id = g.nodes[m].id
  BY DEF Alike
<1>2. DOMAIN h.nodes = DOMAIN g.nodes
  BY DEF Alike
<1>3. \A i \in DOMAIN g.map : g.map[i] \in DOMAIN g.nodes /\ g.nodes[g.map[i]].id = i
  BY DEF Good, Shape, Ids
<1>4. Ids(h)
  BY <1>1, <1>3 DEF Ids
<1>5. CleanIds(h)
  BY <1>1, <1>2 DEF Good, CleanIds
<1> QED BY <1>4, <1>5 DEF Good

(* A selection from two elements. *)
LEMMA WithoutSecond ==
    ASSUME NEW D, NEW s \in Seq(D), Len(s) = 2, s[1] # s[2]
    PROVE  Len(Without(s, s[2])) = 1 /\ Without(s, s[2])[1] = s[1]
<1> DEFINE S == ToSet(s) \ {s[2]}
<1>1. Without(s, s[2]) = AmongFold!Fold(S, 0, << >>, s)
  BY SMT DEF Without, Among, AmongFold!Fold, AmongOp, FoldLeft, MapThenFoldSet,
             AmongFold!MapThenFoldSet, Max, AmongFold!Greatest
<1>2. s[1] \in S /\ s[2] \notin S
  BY ToSetType
<1> HIDE DEF S
<1>3. PICK h : /\ h[0] = << >>
               /\ \A k \in 1..Len(s) : h[k] = AmongOp(S, 0, h[k - 1], s[k])
               /\ AmongFold!Fold(S, 0, << >>, s) = h[Len(s)]
  <2> DEFINE none == << >>
             zero == 0
  <2>1. s \in Seq(D)
    OBVIOUS
  <2> HIDE DEF none, zero
  <2>2. \E h : /\ h[0] = none
               /\ \A k \in 1..Len(s) : h[k] = AmongOp(S, zero, h[k - 1], s[k])
               /\ AmongFold!Fold(S, zero, none, s) = h[Len(s)]
    <3>1. \A a, b, base, T : \A q \in Seq(T) :
              \E h : /\ h[0] = base
                     /\ \A k \in 1..Len(q) : h[k] = AmongOp(a, b, h[k - 1], q[k])
                     /\ AmongFold!Fold(a, b, base, q) = h[Len(q)]
      BY AmongFold!FoldSteps, NatInductive, Zenon
    <3> QED BY <2>1, <3>1
  <2> QED BY <2>2 DEF none, zero
<1>4. h[1] = AmongOp(S, 0, h[0], s[1]) /\ h[2] = AmongOp(S, 0, h[1], s[2])
  BY <1>3
<1>5. h[2] = Append(<< >>, s[1])
  BY <1>2, <1>3, <1>4 DEF AmongOp
<1> QED BY <1>1, <1>3, <1>5

-----------------------------------------------------------------------------
(* Fusing a convolution with a sum. *)

(* While a convolution and a sum become one primitive there is one pair      *)
(* whose lists differ: the sum still depends on the new node, which does not *)
(* have it as a user.                                                        *)
Off(ns, sum, new) ==
    \A a, b \in DOMAIN ns :
        Times(ns[a].deps, b) = Times(ns[b].users, a) + (IF a = sum /\ b = new THEN 1 ELSE 0)

Fusing(g, sum, new) ==
    /\ Good(g) /\ Off(g.nodes, sum, new)
    /\ sum \in DOMAIN g.nodes /\ new \in DOMAIN g.nodes /\ sum # new
    /\ ~g.nodes[sum].output
    /\ Len(Deps(g, sum)) = 2 /\ Deps(g, new) # << >>

(* It is so from when the users of the new node are forgotten ... *)
LEMMA BlankFusing ==
    ASSUME NEW g, Whole(g), NEW sum \in DOMAIN g.nodes, NEW new \in DOMAIN g.nodes, sum # new,
           ~g.nodes[sum].output, Len(Deps(g, sum)) = 2, Deps(g, new) # << >>,
           \A x : Times(Users(g, new), x) = IF x = sum THEN 1 ELSE 0
    PROVE  LET h == [g EXCEPT !.nodes[new].users = << >>] IN
           Fusing(h, sum, new) /\ Grown(g, h)
<1> DEFINE D == DOMAIN g.nodes
           h == [g EXCEPT !.nodes[new].users = << >>]
<1>1. Shape(g) /\ Good(g) /\ NodesOver(g.nodes) /\ Mirror(g.nodes, D)
  BY DEF Whole, Good, Shape
<1>2. \A m \in D : DOMAIN g.nodes[m] = NodeFields
  BY <1>1, Lists
<1>3. /\ DOMAIN h = DOMAIN g /\ h.map = g.map /\ h.order = g.order /\ Alike(g.nodes, h.nodes)
      /\ \A m \in D : /\ h.nodes[m].users = IF m = new THEN << >> ELSE g.nodes[m].users
                      /\ h.nodes[m].deps = g.nodes[m].deps
  BY <1>1, <1>2 DEF Shape, NodesOver, NodeFields, Alike
<1> HIDE DEF h
<1>4. Shape(h) /\ DOMAIN h.nodes = D
  <2>1. << >> \in Seq(D)
    OBVIOUS
  <2>2. \A m \in D : h.nodes[m].deps \in Seq(D) /\ h.nodes[m].users \in Seq(D)
    BY <1>1, <1>3, <2>1, Lists
  <2>3. NodesOver(h.nodes)
    BY <1>1, <1>3, <2>2, NodesAgain
  <2> QED BY <1>1, <1>3, <2>3 DEF Shape, Alike
<1>5. Good(h)
  BY <1>1, <1>3, <1>4, GoodAgain
<1>6. ASSUME NEW a \in D, NEW b \in D
      PROVE  Times(h.nodes[a].deps, b)
               = Times(h.nodes[b].users, a) + (IF a = sum /\ b = new THEN 1 ELSE 0)
  <2>1. Times(g.nodes[a].deps, b) = Times(g.nodes[b].users, a) /\ Times(g.nodes[b].users, a) \in Nat
    BY <1>1, Lists DEF Mirror, Linked
  <2>2. CASE b # new
    BY <1>3, <2>1, <2>2
  <2>3. CASE b = new
    <3>1. Times(g.nodes[b].users, a) = IF a = sum THEN 1 ELSE 0
      BY <2>3 DEF Users
    <3>2. Times(h.nodes[b].users, a) = 0
      BY <1>3, <2>3, TimesNone
    <3> QED BY <1>3, <2>1, <2>3, <3>1, <3>2
  <2> QED BY <2>2, <2>3
<1>7. Deps(h, sum) = Deps(g, sum) /\ Deps(h, new) = Deps(g, new)
  BY <1>3 DEF Deps
<1>8. ~h.nodes[sum].output /\ Grown(g, h)
  BY <1>3, <1>4 DEF Alike, Grown
<1> QED BY <1>4, <1>5, <1>6, <1>7, <1>8 DEF Fusing, Off, h

(* ... while the users of the sum become those of the new node ... *)
LEMMA TakenFusing ==
    ASSUME NEW g, NEW sum, NEW new, Fusing(g, sum, new)
    PROVE  LET h == ReplaceAllUsages(g, sum, new) IN
           Fusing(h, sum, new) /\ Grown(g, h)
<1> DEFINE D == DOMAIN g.nodes
           h == ReplaceAllUsages(g, sum, new)
<1>1. /\ Shape(g) /\ Good(g) /\ sum \in D /\ new \in D /\ sum # new /\ ~g.nodes[sum].output
      /\ Len(Deps(g, sum)) = 2 /\ Deps(g, new) # << >> /\ NodesOver(g.nodes)
  BY DEF Fusing, Good, Shape
<1>2. Replacing(g, sum, h)
  BY <1>1, ReplaceAllUsagesEdits
<1> HIDE DEF h
<1>3. Shape(h) /\ DOMAIN h.nodes = D /\ Alike(g.nodes, h.nodes) /\ NodesOver(h.nodes)
  BY <1>2 DEF Replacing, Edit, NodesEdit, Alike
<1>4. Good(h)
  BY <1>1, <1>2, <1>3, GoodAgain DEF Replacing, Edit
<1>5. ASSUME NEW a \in D, NEW b \in D
      PROVE  Times(h.nodes[a].deps, b)
               = Times(h.nodes[b].users, a) + (IF a = sum /\ b = new THEN 1 ELSE 0)
  <2>1. Times(g.nodes[a].deps, b)
          = Times(g.nodes[b].users, a) + (IF a = sum /\ b = new THEN 1 ELSE 0)
    BY DEF Fusing, Off
  <2>2. /\ Times(g.nodes[b].users, a) \in Nat
        /\ Times(h.nodes[a].deps, b) \in Nat /\ Times(h.nodes[b].users, a) \in Nat
    BY <1>1, <1>3, Lists
  <2>3. CASE b = sum
    <3>1. Linked(g.nodes, a, b)
      BY <1>1, <2>1, <2>2, <2>3 DEF Linked
    <3>2. Linked(h.nodes, a, b)
      BY <1>2, <3>1 DEF Replacing, Edit, NodesEdit
    <3> QED BY <1>1, <2>2, <2>3, <3>2 DEF Linked
  <2>4. CASE b # sum
    <3>1. Gap(h.nodes, a, b) = Gap(g.nodes, a, b)
      BY <1>2, <2>4 DEF Replacing
    <3> QED BY <2>1, <2>2, <3>1 DEF Gap
  <2> QED BY <2>3, <2>4
<1>6. Len(Deps(h, sum)) = 2 /\ Deps(h, new) # << >>
  <2>1. Len(Deps(h, sum)) = Len(Deps(g, sum)) /\ Len(Deps(h, new)) = Len(Deps(g, new))
    BY <1>1, <1>2 DEF Replacing
  <2>2. Deps(g, new) \in Seq(D) /\ Deps(h, new) \in Seq(D)
    BY <1>1, <1>3, Lists DEF Deps
  <2> QED BY <1>1, <2>1, <2>2, EmptySeq
<1>7. ~h.nodes[sum].output /\ Grown(g, h)
  BY <1>1, <1>3 DEF Alike, Grown
<1> QED BY <1>1, <1>3, <1>4, <1>5, <1>6, <1>7 DEF Fusing, Off, h

(* ... and the other summand becomes an input of it. *)
LEMMA ReadsFusing ==
    ASSUME NEW g, NEW sum, NEW new, Fusing(g, sum, new), NEW second \in DOMAIN g.nodes, NEW blocked
    PROVE  LET h == [g EXCEPT !.nodes[second].users = Append(@, new),
                              !.nodes[new].deps = InsertAt(@, 2, second),
                              !.nodes[new].activated = TRUE,
                              !.nodes[new].blocked = blocked] IN
           Fusing(h, sum, new) /\ Grown(g, h)
<1> DEFINE D == DOMAIN g.nodes
           s == Append(g.nodes[second].users, new)
           t == InsertAt(g.nodes[new].deps, 2, second)
           h == [g EXCEPT !.nodes[second].users = Append(@, new),
                          !.nodes[new].deps = InsertAt(@, 2, second),
                          !.nodes[new].activated = TRUE,
                          !.nodes[new].blocked = blocked]
           e == [g EXCEPT !.nodes[second].users = s]
           f == [e EXCEPT !.nodes[new].deps = t]
<1>1. /\ Shape(g) /\ Good(g) /\ sum \in D /\ new \in D /\ sum # new /\ ~g.nodes[sum].output
      /\ Len(Deps(g, sum)) = 2 /\ Deps(g, new) # << >> /\ NodesOver(g.nodes)
  BY DEF Fusing, Good, Shape
<1>2. \A m \in D : DOMAIN g.nodes[m] = NodeFields
  BY <1>1, Lists
<1>3. s \in Seq(D)
          /\ \A x : Times(s, x) = Times(g.nodes[second].users, x) + (IF x = new THEN 1 ELSE 0)
  <2>1. g.nodes[second].users \in Seq(D) /\ new \in D
    BY <1>1, Lists
  <2> HIDE DEF D
  <2> QED BY <2>1, TimesAppend
<1>4. /\ t \in Seq(D) /\ Len(t) # 0
      /\ \A x : Times(t, x) = Times(g.nodes[new].deps, x) + (IF x = second THEN 1 ELSE 0)
  <2>1. g.nodes[new].deps \in Seq(D) /\ second \in D /\ g.nodes[new].deps # << >>
    BY <1>1, Lists DEF Deps
  <2>2. 2 \in 1..(Len(g.nodes[new].deps) + 1)
    BY <2>1, EmptySeq
  <2> HIDE DEF D
  <2>3. /\ t \in Seq(D)
        /\ \A x : Times(t, x) = Times(g.nodes[new].deps, x) + (IF x = second THEN 1 ELSE 0)
    <3> DEFINE w == g.nodes[new].deps
    <3>1. w \in Seq(D) /\ 2 \in 1..(Len(w) + 1) /\ second \in D
      BY <2>1, <2>2
    <3> HIDE DEF w
    <3>2. /\ InsertAt(w, 2, second) \in Seq(D)
          /\ \A x : Times(InsertAt(w, 2, second), x) = Times(w, x) + (IF x = second THEN 1 ELSE 0)
      BY <3>1, TimesInsertAt
    <3> QED BY <3>2, Zenon DEF w, t
  <2>4. Times(t, second) > 0
    <3>1. Times(g.nodes[new].deps, second) \in Nat
      BY <2>1, TimesNat
    <3> QED BY <2>3, <3>1
  <2>5. t # << >>
    BY <2>4, TimesNone
  <2> QED BY <2>3, <2>5, EmptySeq
<1>5. /\ DOMAIN h = DOMAIN g /\ h.map = g.map /\ h.order = g.order /\ Alike(g.nodes, h.nodes)
      /\ \A m \in D : /\ h.nodes[m].users = IF m = second THEN s ELSE g.nodes[m].users
                      /\ h.nodes[m].deps = IF m = new THEN t ELSE g.nodes[m].deps
  <2> DEFINE ns == [g.nodes EXCEPT ![second].users = Append(@, new),
                                   ![new].deps = InsertAt(@, 2, second),
                                   ![new].activated = TRUE, ![new].blocked = blocked]
  <2>1. DOMAIN h = DOMAIN g /\ h.map = g.map /\ h.order = g.order /\ h.nodes = ns
    BY <1>1 DEF Shape
  <2>2. Alike(g.nodes, ns)
    BY ZenonT(60), <1>1, <1>2 DEF NodeFields, Alike
  <2>3. \A m \in D : /\ ns[m].users = IF m = second THEN s ELSE g.nodes[m].users
                     /\ ns[m].deps = IF m = new THEN t ELSE g.nodes[m].deps
    BY <1>1, <1>2 DEF NodeFields
  <2> HIDE DEF h, ns, s, t
  <2> QED BY <2>1, <2>2, <2>3
<1> HIDE DEF h, s, t
<1>6. Shape(h) /\ DOMAIN h.nodes = D
  <2>1. \A m \in D : h.nodes[m].deps \in Seq(D) /\ h.nodes[m].users \in Seq(D)
    BY <1>1, <1>3, <1>4, <1>5, Lists
  <2>2. NodesOver(h.nodes)
    BY <1>1, <1>5, <2>1, NodesAgain
  <2> QED BY <1>1, <1>5, <2>2 DEF Shape, Alike
<1>7. Good(h)
  BY <1>1, <1>5, <1>6, GoodAgain
<1>8. ASSUME NEW a \in D, NEW b \in D
      PROVE  Times(h.nodes[a].deps, b)
               = Times(h.nodes[b].users, a) + (IF a = sum /\ b = new THEN 1 ELSE 0)
  <2>1. Times(g.nodes[a].deps, b)
          = Times(g.nodes[b].users, a) + (IF a = sum /\ b = new THEN 1 ELSE 0)
    BY DEF Fusing, Off
  <2>2. Times(g.nodes[b].users, a) \in Nat /\ Times(g.nodes[a].deps, b) \in Nat
    BY <1>1, Lists
  <2>3. Times(h.nodes[a].deps, b)
          = Times(g.nodes[a].deps, b) + (IF a = new /\ b = second THEN 1 ELSE 0)
    BY <1>4, <1>5, <2>2
  <2>4. Times(h.nodes[b].users, a)
          = Times(g.nodes[b].users, a) + (IF a = new /\ b = second THEN 1 ELSE 0)
    BY <1>3, <1>5, <2>2
  <2> QED BY <2>1, <2>2, <2>3, <2>4
<1>9. Deps(h, sum) = Deps(g, sum) /\ Deps(h, new) = t /\ t # << >>
  <2>1. t # << >>
    BY <1>4, EmptySeq
  <2> QED BY <1>1, <1>5, <2>1 DEF Deps
<1>10. ~h.nodes[sum].output /\ Grown(g, h)
  BY <1>1, <1>5, <1>6 DEF Alike, Grown
<1> QED BY <1>1, <1>6, <1>7, <1>8, <1>9, <1>10 DEF Fusing, Off, h

(* The sum loses its second dependency, and its first, the new node, if that *)
(* is still one, when it goes: all pairs agree again.                        *)
LEMMA FusedWhole ==
    ASSUME NEW g, NEW sum, NEW new, Fusing(g, sum, new)
    PROVE  LET h == ExtractAndRemove(RemoveConnection(g, Dep(g, sum, 2), sum), sum) IN
           Whole(h) /\ Grown(g, h)
<1> DEFINE D == DOMAIN g.nodes
           x == Dep(g, sum, 2)
           s == Deps(g, sum)
           e == RemoveConnection(g, x, sum)
           h == ExtractAndRemove(e, sum)
<1>1. /\ Shape(g) /\ Good(g) /\ sum \in D /\ new \in D /\ sum # new /\ ~g.nodes[sum].output
      /\ s \in Seq(D) /\ Len(s) = 2 /\ NodesOver(g.nodes)
  BY Lists DEF Fusing, Good, Shape, Deps
<1>2. x = s[2] /\ x \in D /\ s[1] \in D
  <2>1. 1 \in DOMAIN s /\ 2 \in DOMAIN s
    BY <1>1
  <2> QED BY <1>1, <2>1, ToSetType DEF Dep, Deps
<1>3. \A a, b \in D :
        Times(g.nodes[a].deps, b) = Times(g.nodes[b].users, a)
                  + (IF a = sum /\ b = new THEN 1 ELSE 0)
  BY DEF Fusing, Off
<1> HIDE DEF x
<1>4. /\ Edit(g, e)
      /\ \A m \in D :
            /\ Users(e, m) = IF m = x THEN Without(Users(g, m), sum) ELSE Users(g, m)
            /\ Deps(e, m) = IF m = sum THEN Without(Deps(g, m), x) ELSE Deps(g, m)
  BY <1>1, <1>2, RemoveConnectionEdits
<1> HIDE DEF e, s
<1>5. Shape(e) /\ DOMAIN e.nodes = D /\ Alike(g.nodes, e.nodes) /\ Good(e)
  <2>1. /\ Shape(e) /\ DOMAIN e.nodes = D /\ Alike(g.nodes, e.nodes)
        /\ \A i \in DOMAIN e.map : i \in DOMAIN g.map /\ e.map[i] = g.map[i]
    BY <1>4 DEF Edit, NodesEdit, Alike
  <2> QED BY <1>1, <2>1, GoodAgain
<1>6. ASSUME NEW a \in D, NEW b \in D
      PROVE  Linked(e.nodes, a, b) \/ (a = sum /\ b = new /\ x # new)
  <2>1. /\ Times(g.nodes[b].users, a) \in Nat /\ Times(g.nodes[a].deps, b) \in Nat
        /\ Users(g, b) \in Seq(D) /\ Deps(g, a) \in Seq(D)
    BY <1>1, Lists DEF Users, Deps
  <2>2. CASE a = sum /\ b = x
    <3>1. Times(Deps(e, a), b) = 0
      BY <1>4, <2>1, <2>2, TimesWithout
    <3>2. Times(Users(e, b), a) = 0
      BY <1>4, <2>1, <2>2, TimesWithout
    <3> QED BY <3>1, <3>2 DEF Linked, Deps, Users
  <2>3. CASE ~(a = sum /\ b = x)
    <3>1. Times(Deps(e, a), b) = Times(Deps(g, a), b)
      BY <1>4, <2>1, <2>3, TimesWithout
    <3>2. Times(Users(e, b), a) = Times(Users(g, b), a)
      BY <1>4, <2>1, <2>3, TimesWithout
    <3>3. ~(a = sum /\ b = new) => Times(g.nodes[a].deps, b) = Times(g.nodes[b].users, a)
      BY <1>3, <2>1
    <3> QED BY <2>3, <3>1, <3>2, <3>3 DEF Linked, Deps, Users
  <2> QED BY <2>2, <2>3
<1>7. Grown(g, e)
  BY <1>5 DEF Alike, Grown
<1>8. CASE x = new
  <2>1. Whole(e)
    BY <1>5, <1>6, <1>8 DEF Whole, Mirror
  <2>2. Whole(h) /\ Grown(e, h)
    BY <1>1, <1>5, <2>1, ExtractAndRemoveWhole
  <2> QED BY <1>7, <2>2, GrownTrans DEF e, x
<1>9. CASE x # new
  <2>1. s[1] = new
    <3>1. Times(s, new) > 0
      <4>1. Times(g.nodes[new].users, sum) \in Nat
        BY <1>1, Lists
      <4>2. Times(s, new) = Times(g.nodes[new].users, sum) + 1
        BY <1>1, <1>3 DEF s, Deps
      <4> QED BY <4>1, <4>2
    <3>2. new \in ToSet(s)
      BY <1>1, <3>1, ToSetType
    <3>3. DOMAIN s = {1, 2}
      BY <1>1
    <3> QED BY <1>2, <1>9, <3>2, <3>3 DEF ToSet
  <2>2. Len(Without(s, s[2])) = 1 /\ Without(s, s[2])[1] = s[1]
    BY <1>1, <1>2, <1>9, <2>1, WithoutSecond
  <2>3. Len(Deps(e, sum)) = 1 /\ Dep(e, sum, 1) = new
    BY <1>1, <1>2, <1>4, <2>1, <2>2 DEF s, Dep, Deps
  <2>4. ~e.nodes[sum].output
    BY <1>1, <1>5 DEF Alike
  <2>5. h = Detach(e, sum)
    BY <2>3, <2>4 DEF ExtractAndRemove
  <2> HIDE DEF h
  <2>6. /\ Shape(h) /\ Alike(e.nodes, h.nodes)
        /\ \A i \in DOMAIN h.map : i \in DOMAIN e.map /\ h.map[i] = e.map[i]
        /\ \A a, b \in DOMAIN e.nodes :
              Linked(e.nodes, a, b) \/ (a = sum /\ b = Dep(e, sum, 1)) => Linked(h.nodes, a, b)
    BY <1>1, <1>5, <2>3, <2>5, DetachEdits
  <2>7. Good(h)
    BY <1>5, <2>6, GoodAgain
  <2>8. Mirror(h.nodes, DOMAIN h.nodes)
    BY <1>5, <1>6, <2>3, <2>6 DEF Mirror, Alike
  <2>9. Grown(e, h)
    BY <2>6 DEF Alike, Grown
  <2> QED BY <1>7, <2>7, <2>8, <2>9, GrownTrans DEF Whole, h, e, x
<1> QED BY <1>8, <1>9

(* A sequence of one element. *)
LEMMA OnlyElement ==
    ASSUME NEW D, NEW s \in Seq(D), Len(s) = 1
    PROVE  s[1] \in D /\ s = <<s[1]>>
<1>1. s[1] \in D
  BY ElementOfSeq
<1>2. s = <<s[1]>>
  BY SMT
<1> QED BY <1>1, <1>2

(* The new node that takes the place of the convolution. *)
LEMMA FuseReplaces ==
    ASSUME NEW g, Whole(g), NEW n \in DOMAIN g.nodes, g.nodes[n].kind = "convolution",
           CanFuseConvEltwise(g, n)
    PROVE  LET sum == Users(g, n)[1]
               id == Derived("fused", <<g.nodes[n].id, g.nodes[sum].id>>)
               created == GetOrCreate(g, id, "fused", NoTerm)
               new == created.map[id]
               h == Replace(created, n, new) IN
           /\ Whole(h) /\ Grown(g, h)
           /\ sum \in DOMAIN g.nodes /\ sum \in DOMAIN h.nodes /\ new \in DOMAIN h.nodes
           /\ sum # new /\ ~h.nodes[sum].output
           /\ Len(Deps(g, sum)) = 2 /\ Len(Deps(h, sum)) = 2 /\ Deps(h, new) # << >>
           /\ \A x : Times(Users(h, new), x) = IF x = sum THEN 1 ELSE 0
<1> DEFINE D == DOMAIN g.nodes
           sum == Users(g, n)[1]
           id == Derived("fused", <<g.nodes[n].id, g.nodes[sum].id>>)
           created == GetOrCreate(g, id, "fused", NoTerm)
           new == created.map[id]
           fresh == Len(g.nodes) + 1
           h == Replace(created, n, new)
<1>1. Shape(g) /\ Ids(g) /\ CleanIds(g) /\ Mirror(g.nodes, D) /\ NodesOver(g.nodes)
  BY DEF Whole, Good, Shape
<1>2. /\ Users(g, n) \in Seq(D) /\ Deps(g, n) \in Seq(D) /\ Len(Users(g, n)) = 1
      /\ sum \in D /\ Users(g, n) = <<sum>>
  <2>1. Users(g, n) \in Seq(D) /\ Deps(g, n) \in Seq(D) /\ Len(Users(g, n)) = 1
    BY <1>1, Lists DEF Users, Deps, CanFuseConvEltwise
  <2> HIDE DEF D
  <2> QED BY <2>1, OnlyElement
<1>3. /\ sum # n /\ ~g.nodes[sum].output /\ Len(Deps(g, sum)) = 2 /\ Deps(g, n) # << >>
  BY DEF CanFuseConvEltwise, IsInput
<1>4. \A x : Times(Users(g, n), x) = IF x = sum THEN 1 ELSE 0
  <2>1. sum \in D /\ Users(g, n) = <<sum>>
    BY <1>2
  <2> HIDE DEF sum, D
  <2>2. \A x : Times(<<sum>>, x) = IF x = sum THEN 1 ELSE 0
    BY <2>1, TimesOne
  <2> QED BY <2>1, <2>2
<1>5. n \notin ToSet(Deps(g, n))
  <2>1. Times(Deps(g, n), n) = 0
    BY <1>1, <1>3, <1>4 DEF Mirror, Linked, Deps, Users
  <2> QED BY <1>2, <2>1, TimesNat
<1> HIDE DEF sum
<1>6. id \notin DOMAIN g.map
  <2>1. ~Clean(id)
    <3>1. <<g.nodes[n].id, g.nodes[sum].id>> # << >>
      OBVIOUS
    <3> QED BY <3>1 DEF Clean, Derived
  <2>2. ASSUME NEW i \in DOMAIN g.map PROVE Clean(i)
    BY <1>1 DEF Ids, CleanIds, Shape
  <2> QED BY <2>1, <2>2
<1> HIDE DEF id
<1>7. /\ Shape(created) /\ fresh \notin D /\ DOMAIN created.nodes = D \cup {fresh}
      /\ \A m \in D : created.nodes[m] = g.nodes[m]
      /\ created.nodes[fresh].id = id /\ ~created.nodes[fresh].output
      /\ created.nodes[fresh].deps = << >> /\ created.nodes[fresh].users = << >>
      /\ DOMAIN created.map = DOMAIN g.map \cup {id}
      /\ \A i \in DOMAIN created.map : created.map[i] = IF i = id THEN fresh ELSE g.map[i]
      /\ \A a, b \in DOMAIN created.nodes :
            (a \in D /\ b \in D => Linked(g.nodes, a, b)) => Linked(created.nodes, a, b)
  BY <1>1, <1>6, Created
<1> HIDE DEF created, fresh
<1>8. new = fresh
  BY <1>7
<1>9. Ids(created) /\ \A a, b \in DOMAIN created.nodes : Linked(created.nodes, a, b)
  <2>1. Ids(created)
    BY <1>1, <1>7 DEF Ids, Shape
  <2> QED BY <1>1, <1>7, <2>1 DEF Mirror
<1> HIDE DEF new
<1>10. /\ \A m \in D : Deps(created, m) = Deps(g, m) /\ Users(created, m) = Users(g, m)
       /\ new \notin ToSet(Deps(g, n)) /\ new \in DOMAIN created.nodes /\ new \notin D
       /\ n \in DOMAIN created.nodes /\ n # new
       /\ sum \in DOMAIN created.nodes /\ sum # new
  <2>1. ToSet(Deps(g, n)) \subseteq D
    BY <1>2, ToSetType
  <2> QED BY <1>2, <1>7, <1>8, <2>1 DEF Deps, Users
<1>11. Replaced(created, n, new, h)
  <2>1. n \notin ToSet(Deps(created, n)) /\ new \notin ToSet(Deps(created, n))
    BY <1>5, <1>10
  <2> QED BY <1>7, <1>9, <1>10, <2>1, ReplaceKeeps
<1> HIDE DEF h
<1>12. Shape(h) /\ Ids(h) /\ DOMAIN h.nodes = DOMAIN created.nodes
  BY <1>11 DEF Replaced
<1>13. \A a, b \in DOMAIN h.nodes : Linked(h.nodes, a, b)
  <2>1. ASSUME NEW a \in DOMAIN created.nodes, NEW b \in DOMAIN created.nodes
        PROVE  Linked(h.nodes, a, b)
    <3>1. CASE b # new
      BY <1>9, <1>11, <3>1 DEF Replaced
    <3>2. CASE b = new
      BY <1>9, <1>10, <1>11, <3>2 DEF Replaced
    <3> QED BY <3>1, <3>2
  <2> QED BY <1>12, <2>1
<1>14. CleanIds(h)
  <2>1. ASSUME NEW m \in DOMAIN created.nodes PROVE Clean(h.nodes[m].id)
    <3>1. h.nodes[m].id = IF m = new THEN created.nodes[n].id ELSE created.nodes[m].id
      BY <1>11 DEF Replaced
    <3>2. \A j \in D : Clean(created.nodes[j].id)
      BY <1>1, <1>7 DEF CleanIds
    <3>3. m = new \/ m \in D
      BY <1>7, <1>8
    <3> QED BY <1>10, <3>1, <3>2, <3>3
  <2> QED BY <1>12, <2>1 DEF CleanIds
<1>15. Grown(g, h)
  BY <1>7, <1>11 DEF Replaced, Grown
<1>16. Whole(h)
  BY <1>12, <1>13, <1>14 DEF Whole, Good, Mirror
<1>17. /\ ~h.nodes[sum].output /\ Len(Deps(h, sum)) = 2 /\ Deps(h, new) # << >>
  <2>1. /\ h.nodes[sum].output = created.nodes[sum].output
        /\ Len(Deps(h, sum)) = Len(Deps(created, sum))
    BY <1>3, <1>10, <1>11 DEF Replaced
  <2>2. Deps(h, new) # << >>
    BY <1>3, <1>10, <1>11 DEF Replaced
  <2> QED BY <1>2, <1>3, <1>7, <1>10, <2>1, <2>2
<1>18. \A x : Times(Users(h, new), x) = IF x = sum THEN 1 ELSE 0
  <2>1. ASSUME NEW x PROVE Times(Users(h, new), x) = IF x = sum THEN 1 ELSE 0
    <3>1. Times(Users(h, new), x) = Times(Users(created, new), x) + Times(Users(created, n), x)
      BY <1>11 DEF Replaced
    <3>2. Times(Users(created, new), x) = 0
      BY <1>7, <1>8, TimesNone DEF Users
    <3>3. Times(Users(created, n), x) = IF x = sum THEN 1 ELSE 0
      BY <1>4, <1>10
    <3> QED BY <3>1, <3>2, <3>3
  <2> QED BY <2>1
<1> QED BY <1>2, <1>3, <1>10, <1>12, <1>15, <1>16, <1>17, <1>18 DEF h, new, created, id, sum

(* What a node depends on besides the convolution that is fused with it. *)
LEMMA SecondSummand ==
    ASSUME NEW g, Shape(g), NEW sum \in DOMAIN g.nodes, Len(Deps(g, sum)) = 2, NEW n
    PROVE  OtherSummand(g, n, sum) \in DOMAIN g.nodes
<1>1. 1 \in DOMAIN Deps(g, sum) /\ 2 \in DOMAIN Deps(g, sum)
  BY Lists DEF Shape, Deps
<1>2. Dep(g, sum, 1) \in DOMAIN g.nodes /\ Dep(g, sum, 2) \in DOMAIN g.nodes
  BY <1>1, DepType
<1> QED BY <1>2 DEF OtherSummand

(* The second half of the fusing: the new node takes the place of the sum.   *)
LEMMA FusedIntoWhole ==
    ASSUME NEW g, Whole(g), NEW sum \in DOMAIN g.nodes, NEW new \in DOMAIN g.nodes, sum # new,
           ~g.nodes[sum].output, Len(Deps(g, sum)) = 2, Deps(g, new) # << >>,
           \A x : Times(Users(g, new), x) = IF x = sum THEN 1 ELSE 0,
           NEW second \in DOMAIN g.nodes, NEW n
    PROVE  LET h == FusedInto(g, n, sum, second, new) IN Whole(h) /\ Grown(g, h)
<1> DEFINE blank == [g EXCEPT !.nodes[new].users = << >>]
           taken == ReplaceAllUsages(blank, sum, new)
<1>1. Fusing(blank, sum, new) /\ Grown(g, blank)
  BY BlankFusing
<1>2. Fusing(taken, sum, new) /\ Grown(blank, taken)
  <2> HIDE DEF blank
  <2> QED BY <1>1, TakenFusing
<1> DEFINE reads == [taken EXCEPT !.nodes[second].users = Append(@, new),
                                  !.nodes[new].deps = InsertAt(@, 2, second),
                                  !.nodes[new].activated = TRUE,
                                  !.nodes[new].blocked = g.nodes[n].blocked]
           result == ExtractAndRemove(RemoveConnection(reads, Dep(reads, sum, 2), sum), sum)
<1>3. FusedInto(g, n, sum, second, new) = result
  BY DEF FusedInto
<1> HIDE DEF blank, taken
<1>4. Grown(g, taken) /\ second \in DOMAIN taken.nodes
  <2>1. Grown(g, taken)
    BY <1>1, <1>2, GrownTrans
  <2> QED BY <2>1 DEF Grown
<1>5. Fusing(reads, sum, new) /\ Grown(taken, reads)
  BY <1>2, <1>4, ReadsFusing
<1> HIDE DEF reads
<1>6. Whole(result) /\ Grown(reads, result)
  BY <1>5, FusedWhole
<1> HIDE DEF result
<1>7. Grown(g, result)
  <2>1. Grown(g, reads)
    BY <1>4, <1>5, GrownTrans
  <2> QED BY <1>6, <2>1, GrownTrans
<1> QED BY <1>3, <1>6, <1>7

(* prepare_conv_eltw_fusing: a convolution and the sum after it become one.  *)
THEOREM FuseConvEltwiseWhole ==
    ASSUME NEW g, Whole(g), NEW n \in DOMAIN g.nodes, g.nodes[n].kind = "convolution",
           CanFuseConvEltwise(g, n)
    PROVE  Whole(FuseConvEltwise(g, n)) /\ Grown(g, FuseConvEltwise(g, n))
<1> DEFINE sum == Users(g, n)[1]
           second == OtherSummand(g, n, sum)
           id == Derived("fused", <<g.nodes[n].id, g.nodes[sum].id>>)
           created == GetOrCreate(g, id, "fused", NoTerm)
           new == created.map[id]
           replaced == Replace(created, n, new)
           result == FusedInto(replaced, n, sum, second, new)
<1>1. FuseConvEltwise(g, n) = result
  BY DEF FuseConvEltwise
<1>2. /\ Whole(replaced) /\ Grown(g, replaced)
      /\ sum \in DOMAIN g.nodes /\ sum \in DOMAIN replaced.nodes /\ new \in DOMAIN replaced.nodes
      /\ sum # new /\ ~replaced.nodes[sum].output
      /\ Len(Deps(g, sum)) = 2 /\ Len(Deps(replaced, sum)) = 2 /\ Deps(replaced, new) # << >>
      /\ \A x : Times(Users(replaced, new), x) = IF x = sum THEN 1 ELSE 0
  BY FuseReplaces
<1> HIDE DEF sum, new, replaced
<1>3. second \in DOMAIN g.nodes
  BY <1>2, SecondSummand DEF Whole, Good
<1> HIDE DEF second
<1>4. second \in DOMAIN replaced.nodes
  BY <1>2, <1>3 DEF Grown
<1>5. Whole(result) /\ Grown(replaced, result)
  BY <1>2, <1>4, FusedIntoWhole
<1> HIDE DEF result
<1> QED BY <1>1, <1>2, <1>5, GrownTrans

-----------------------------------------------------------------------------
(* Data in the place of constants. *)

(* The loop over the dependencies of a constant that is computed: it leaves  *)
(* their users.                                                              *)
DisconnectOp(cur, b, h, d) == IF cur \in ToSet(Users(h, d)) THEN RemoveConnection(h, d, cur) ELSE h
DisconnectInv(cur, b, g, s, k, h) ==
    /\ Edit(g, h) /\ h.map = g.map
    /\ \A m \in DOMAIN g.nodes : m # cur => Deps(h, m) = Deps(g, m)
DisconnectFold == INSTANCE FoldFacts WITH Op <- DisconnectOp, P <- DisconnectInv

Disconnected(g, cur, s) ==
    FoldLeft(LAMBDA h, d : IF cur \in ToSet(Users(h, d)) THEN RemoveConnection(h, d, cur) ELSE h,
             g, s)

(* Cutting the links from a node to its dependencies is an edit. *)
LEMMA DisconnectedEdits ==
    ASSUME NEW g, Shape(g), NEW cur \in DOMAIN g.nodes, NEW s \in Seq(DOMAIN g.nodes)
    PROVE  LET h == Disconnected(g, cur, s) IN
           /\ Edit(g, h) /\ h.map = g.map
           /\ \A m \in DOMAIN g.nodes : m # cur => Deps(h, m) = Deps(g, m)
<1>1. Disconnected(g, cur, s) = DisconnectFold!Fold(cur, 0, g, s)
  BY SMT DEF Disconnected, DisconnectFold!Fold, DisconnectOp, FoldLeft, MapThenFoldSet,
             DisconnectFold!MapThenFoldSet, Max, DisconnectFold!Greatest
<1>2. DisconnectInv(cur, 0, g, s, 0, g)
  BY EditRefl DEF DisconnectInv
<1>3. ASSUME NEW k \in 1..Len(s), NEW h, DisconnectInv(cur, 0, g, s, k - 1, h)
      PROVE  DisconnectInv(cur, 0, g, s, k, DisconnectOp(cur, 0, h, s[k]))
  <2> DEFINE d == s[k]
             f == RemoveConnection(h, d, cur)
  <2>1. d \in DOMAIN g.nodes
    BY ElementOfSeq
  <2>2. Edit(g, h) /\ Shape(h) /\ DOMAIN h.nodes = DOMAIN g.nodes
    BY <1>3, EditShape DEF DisconnectInv
  <2>3. /\ Edit(h, f) /\ f.map = h.map
        /\ \A m \in DOMAIN h.nodes : m # cur => Deps(f, m) = Deps(h, m)
    BY <2>1, <2>2, RemoveConnectionEdits
  <2> HIDE DEF f, d
  <2>4. Edit(g, f)
    BY <2>2, <2>3, EditTrans
  <2>5. DisconnectInv(cur, 0, g, s, k, f)
    BY <1>3, <2>2, <2>3, <2>4 DEF DisconnectInv
  <2>6. DisconnectInv(cur, 0, g, s, k, h)
    BY <1>3 DEF DisconnectInv
  <2> QED BY <2>5, <2>6 DEF DisconnectOp, f, d
<1>4. DisconnectInv(cur, 0, g, s, Len(s), DisconnectFold!Fold(cur, 0, g, s))
  BY <1>2, <1>3, DisconnectFold!FoldInduction, NatInductive
<1> QED BY <1>1, <1>4 DEF DisconnectInv

(* Then its own dependencies are forgotten, and its constant users.          *)
Cleared(g, cur, S) ==
    [g EXCEPT !.nodes[cur].deps = << >>, !.nodes[cur].users = Among(@, S)]

(* Once its dependencies are cleared a node has none, and they keep their other users. *)
LEMMA ClearedKeeps ==
    ASSUME NEW g, Shape(g), NEW cur \in DOMAIN g.nodes, NEW S
    PROVE  LET h == Cleared(g, cur, S) IN
           /\ Shape(h) /\ Alike(g.nodes, h.nodes) /\ h.map = g.map
           /\ \A m \in DOMAIN g.nodes :
                 /\ Deps(h, m) = IF m = cur THEN << >> ELSE Deps(g, m)
                 /\ Users(h, m) = IF m = cur THEN Among(Users(g, m), S) ELSE Users(g, m)
<1> DEFINE D == DOMAIN g.nodes
           t == Among(g.nodes[cur].users, S)
           ns == [g.nodes EXCEPT ![cur].deps = << >>, ![cur].users = Among(@, S)]
           h == Cleared(g, cur, S)
<1>1. NodesOver(g.nodes) /\ \A m \in D : DOMAIN g.nodes[m] = NodeFields
  BY Lists DEF Shape
<1>2. /\ DOMAIN h = DOMAIN g /\ h.map = g.map /\ h.order = g.order /\ h.nodes = ns
  BY DEF Shape, Cleared
<1>3. Alike(g.nodes, ns)
  BY <1>1 DEF NodeFields, Alike
<1>4. \A m \in D : /\ ns[m].deps = IF m = cur THEN << >> ELSE g.nodes[m].deps
                   /\ ns[m].users = IF m = cur THEN t ELSE g.nodes[m].users
  BY <1>1 DEF NodeFields
<1> HIDE DEF h, ns
<1>5. t \in Seq(D) /\ << >> \in Seq(D)
  <2>1. g.nodes[cur].users \in Seq(D)
    BY <1>1, Lists
  <2> QED BY <2>1, TimesAmong
<1> HIDE DEF t
<1>6. \A m \in D : h.nodes[m].deps \in Seq(D) /\ h.nodes[m].users \in Seq(D)
  BY <1>1, <1>2, <1>4, <1>5, Lists
<1>7. NodesOver(h.nodes)
  BY <1>1, <1>2, <1>3, <1>6, NodesAgain
<1>8. Shape(h)
  BY <1>2, <1>3, <1>7 DEF Shape, Alike
<1> QED BY <1>2, <1>3, <1>4, <1>8 DEF h, t, Deps, Users

(* A constant that is computed becomes data: the data takes its place in the *)
(* program, and what is in the program agrees as it did.                     *)
DataReplaced(g, h) ==
    /\ Partly(h) /\ Grown(g, h) /\ DOMAIN h.map = DOMAIN g.map

(* A constant node becomes data without dependencies; living nodes keep their links. *)
LEMMA ReplaceByDataPartly ==
    ASSUME NEW g, Partly(g), NEW id \in DOMAIN g.map, NEW value
    PROVE  DataReplaced(g, ReplaceByData(g, id, value))
<1> DEFINE D == DOMAIN g.nodes
           A == Alive(g)
           cur == g.map[id]
           dataId == Derived("const_prop", <<id>>)
           fresh == Len(g.nodes) + 1
           created == GetOrCreate(g, dataId, "data", value)
           s == IF g.nodes[cur].kind = "generic" THEN << >> ELSE Deps(g, cur)
           e == Disconnected(created, cur, s)
           S == {u \in ToSet(e.nodes[cur].users) : ~g.nodes[u].constant}
           f == Cleared(e, cur, S)
           h == Replace(f, cur, fresh)
<1>1. Shape(g) /\ Ids(g) /\ CleanIds(g) /\ Mirror(g.nodes, A) /\ NodesOver(g.nodes)
  BY DEF Partly, Good, Shape
<1>2. cur \in D /\ cur \in A /\ A \subseteq D /\ g.nodes[cur].id = id
  BY <1>1 DEF Shape, Alive, Ids
<1>3. dataId \notin DOMAIN g.map
  <2>1. ~Clean(dataId)
    <3>1. <<id>> # << >>
      OBVIOUS
    <3> QED BY <3>1 DEF Clean, Derived
  <2>2. ASSUME NEW i \in DOMAIN g.map PROVE Clean(i)
    BY <1>1 DEF Ids, CleanIds, Shape
  <2> QED BY <2>1, <2>2
<1> HIDE DEF dataId
<1>4. /\ Shape(created) /\ fresh \notin D /\ DOMAIN created.nodes = D \cup {fresh}
      /\ \A m \in D : created.nodes[m] = g.nodes[m]
      /\ created.nodes[fresh].id = dataId /\ ~created.nodes[fresh].output
      /\ created.nodes[fresh].deps = << >> /\ created.nodes[fresh].users = << >>
      /\ DOMAIN created.map = DOMAIN g.map \cup {dataId}
      /\ \A i \in DOMAIN created.map : created.map[i] = IF i = dataId THEN fresh ELSE g.map[i]
      /\ \A a, b \in DOMAIN created.nodes :
            (a \in D /\ b \in D => Linked(g.nodes, a, b)) => Linked(created.nodes, a, b)
  BY <1>1, <1>3, Created
<1>5. created.map[dataId] = fresh
  BY <1>4
<1>6. s \in Seq(D \cup {fresh})
  <2>1. s \in Seq(D)
    <3>1. Deps(g, cur) \in Seq(D) /\ << >> \in Seq(D)
      BY <1>1, <1>2, Lists DEF Deps
    <3> QED BY <3>1
  <2> HIDE DEF s, D, fresh
  <2> QED BY <2>1, SeqMore
<1>7. ReplaceByData(g, id, value) = h
  <2>1. created.map[Derived("const_prop", <<id>>)] = fresh
    BY <1>5 DEF dataId
  <2> HIDE DEF fresh
  <2>2. ReplaceByData(g, id, value) = Replace(f, cur, created.map[Derived("const_prop", <<id>>)])
    BY DEF ReplaceByData, Disconnected, Cleared, dataId
  <2> QED BY <2>1, <2>2
<1> HIDE DEF created, fresh, s
<1>8. Ids(created)
  BY <1>1, <1>4 DEF Ids, Shape
<1>9. /\ Edit(created, e) /\ e.map = created.map
      /\ \A m \in DOMAIN created.nodes : m # cur => Deps(e, m) = Deps(created, m)
  <2>1. cur \in DOMAIN created.nodes /\ s \in Seq(DOMAIN created.nodes)
    BY <1>2, <1>4, <1>6
  <2> QED BY <1>4, <2>1, DisconnectedEdits
<1> HIDE DEF e
<1>10. Shape(e) /\ DOMAIN e.nodes = D \cup {fresh} /\ NodesOver(e.nodes)
  BY <1>4, <1>9, EditShape DEF Shape
<1>11. /\ Shape(f) /\ Alike(e.nodes, f.nodes) /\ f.map = e.map
       /\ \A m \in DOMAIN e.nodes :
             /\ Deps(f, m) = IF m = cur THEN << >> ELSE Deps(e, m)
             /\ Users(f, m) = IF m = cur THEN Among(Users(e, m), S) ELSE Users(e, m)
  <2>1. cur \in DOMAIN e.nodes
    BY <1>2, <1>10
  <2> HIDE DEF S, cur, h, A
  <2> QED BY <1>10, <2>1, ClearedKeeps
<1> HIDE DEF f, S
<1>12. /\ DOMAIN f.nodes = D \cup {fresh} /\ f.map = created.map
       /\ \A m \in D \cup {fresh} : /\ f.nodes[m].id = created.nodes[m].id
                                    /\ f.nodes[m].kind = created.nodes[m].kind
  BY <1>4, <1>9, <1>10, <1>11 DEF Edit, NodesEdit, Alike
<1>13. Ids(f)
  BY <1>4, <1>8, <1>12 DEF Ids, Shape
<1>14. Replaced(f, cur, fresh, h)
  <2>1. cur \in DOMAIN f.nodes /\ fresh \in DOMAIN f.nodes /\ cur # fresh
    BY <1>2, <1>4, <1>12
  <2>2. Deps(f, cur) = << >>
    BY <1>2, <1>10, <1>11
  <2>3. cur \notin ToSet(Deps(f, cur)) /\ fresh \notin ToSet(Deps(f, cur))
    BY <2>2 DEF ToSet
  <2> QED BY <1>11, <1>13, <2>1, <2>3, ReplaceKeeps
<1> HIDE DEF h, cur
<1>15. Shape(h) /\ Ids(h) /\ DOMAIN h.nodes = D \cup {fresh}
  BY <1>12, <1>14 DEF Replaced
<1>16. /\ f.nodes[cur].id = id /\ f.nodes[fresh].id = dataId
       /\ DOMAIN h.map = DOMAIN g.map
       /\ \A i \in DOMAIN h.map : h.map[i] = IF i = id THEN fresh ELSE g.map[i]
  <2>1. f.nodes[cur].id = id /\ f.nodes[fresh].id = dataId
    BY <1>2, <1>4, <1>12
  <2>2. DOMAIN h.map = ((DOMAIN g.map \cup {dataId}) \ {dataId}) \cup {id}
    BY <1>4, <1>12, <1>14, <2>1 DEF Replaced
  <2>3. DOMAIN h.map = DOMAIN g.map
    BY <1>3, <2>2
  <2>4. \A i \in DOMAIN h.map : h.map[i] = IF i = id THEN fresh ELSE f.map[i]
    BY <1>14, <2>1 DEF Replaced
  <2>5. \A i \in DOMAIN g.map : f.map[i] = g.map[i]
    BY <1>3, <1>4, <1>12
  <2> QED BY <2>1, <2>3, <2>4, <2>5
<1>17. Alive(h) \subseteq (A \ {cur}) \cup {fresh}
  <2>1. ASSUME NEW i \in DOMAIN h.map, i # id PROVE h.map[i] \in A \ {cur}
    <3>1. h.map[i] = g.map[i] /\ i \in DOMAIN g.map
      BY <1>16, <2>1
    <3>2. g.nodes[g.map[i]].id = i
      BY <1>1, <3>1 DEF Ids
    <3> QED BY <1>2, <2>1, <3>1, <3>2 DEF Alive
  <2> QED BY <1>16, <2>1 DEF Alive
<1>18. CleanIds(h)
  <2>1. ASSUME NEW m \in D \cup {fresh} PROVE Clean(h.nodes[m].id)
    <3>1. h.nodes[m].id = IF m = fresh THEN id ELSE f.nodes[m].id
      BY <1>12, <1>14, <1>16 DEF Replaced
    <3>2. \A j \in D : Clean(f.nodes[j].id)
      BY <1>1, <1>4, <1>12 DEF CleanIds
    <3> QED BY <1>2, <1>16, <3>1, <3>2
  <2> QED BY <1>15, <2>1 DEF CleanIds
<1>19. \A a, b \in A \cup {fresh} : Linked(e.nodes, a, b)
  <2>1. \A a, b \in A \cup {fresh} : Linked(created.nodes, a, b)
    BY <1>1, <1>2, <1>4 DEF Mirror
  <2> QED BY <1>2, <1>4, <1>9, <2>1 DEF Edit, NodesEdit
<1>20. ASSUME NEW a \in (A \ {cur}) \cup {fresh}, NEW b \in (A \ {cur}) \cup {fresh}
       PROVE  Linked(f.nodes, a, b)
  <2>1. a # cur /\ b # cur /\ a \in DOMAIN e.nodes /\ b \in DOMAIN e.nodes
    BY <1>2, <1>4, <1>10
  <2>2. f.nodes[a].deps = e.nodes[a].deps /\ f.nodes[b].users = e.nodes[b].users
    BY <1>11, <2>1 DEF Deps, Users
  <2> QED BY <1>19, <2>2 DEF Linked
<1>21. ASSUME NEW a \in (A \ {cur}) \cup {fresh}
       PROVE  \/ Linked(f.nodes, a, cur)
              \/ a # cur /\ a # fresh /\ Times(Users(f, cur), a) <= Times(Deps(f, a), cur)
  <2>1. a # cur /\ a \in DOMAIN e.nodes /\ cur \in DOMAIN e.nodes
    BY <1>2, <1>4, <1>10
  <2>2. /\ Times(Users(e, cur), a) = Times(Deps(e, a), cur) /\ Deps(f, a) = Deps(e, a)
        /\ Times(Users(e, cur), a) \in Nat /\ Users(e, cur) \in Seq(DOMAIN e.nodes)
    BY <1>2, <1>10, <1>11, <1>19, <2>1, Lists DEF Linked, Users, Deps
  <2>3. Times(Users(f, cur), a) = IF a \in S THEN Times(Users(e, cur), a) ELSE 0
    BY <1>11, <2>1, <2>2, TimesAmong
  <2>4. CASE a # fresh
    BY <2>1, <2>2, <2>3, <2>4
  <2>5. CASE a = fresh
    <3>1. Times(Deps(f, a), cur) = 0
      <4>1. Deps(e, a) = << >>
        BY <1>4, <1>9, <2>1, <2>5 DEF Deps
      <4> QED BY <2>2, <4>1, TimesNone
    <3>2. Times(Users(f, cur), a) = 0
      BY <2>2, <2>3, <3>1
    <3> QED BY <3>1, <3>2 DEF Linked, Deps, Users
  <2> QED BY <2>4, <2>5
<1>22. ASSUME NEW a \in Alive(h), NEW b \in Alive(h) PROVE Linked(h.nodes, a, b)
  <2>1. a \in (A \ {cur}) \cup {fresh} /\ b \in (A \ {cur}) \cup {fresh}
    BY <1>17
  <2>2. a \in DOMAIN f.nodes /\ b \in DOMAIN f.nodes
    BY <1>2, <1>12, <2>1
  <2>3. CASE b # fresh
    BY <1>14, <1>20, <2>1, <2>2, <2>3 DEF Replaced
  <2>4. CASE b = fresh
    <3>1. Linked(f.nodes, a, fresh)
      BY <1>20, <2>1, <2>4
    <3>2. \/ Linked(f.nodes, a, cur)
          \/ a # cur /\ a # fresh /\ Times(Users(f, cur), a) <= Times(Deps(f, a), cur)
      BY <1>21, <2>1
    <3> QED BY <1>14, <2>2, <2>4, <3>1, <3>2 DEF Replaced
  <2> QED BY <2>3, <2>4
<1>23. Partly(h)
  BY <1>15, <1>18, <1>22 DEF Partly, Good, Mirror
<1>24. Grown(g, h)
  BY <1>4, <1>12, <1>14, <1>15 DEF Replaced, Grown
<1> QED BY <1>7, <1>16, <1>23, <1>24 DEF DataReplaced

(* What propagate_constants computes are nodes of the graph. *)
LEMMA ConstOutputsType ==
    ASSUME NEW g, Shape(g)
    PROVE  ConstOutputs(g) \in Seq(DOMAIN g.nodes)
<1> DEFINE D == DOMAIN g.nodes
           S == {n \in ToSet(g.order) : g.nodes[n].constant /\ g.nodes[n].kind # "data"}
           constants == Among(g.order, S)
           times(n) == (IF Users(g, n) = << >> \/ g.nodes[n].output THEN <<n>> ELSE << >>)
                       \o IF HasNonConstUser(g, n) THEN <<n>> ELSE << >>
           lists == [i \in DOMAIN constants |-> times(constants[i])]
<1>1. ConstOutputs(g) = Joined(lists)
  BY DEF ConstOutputs
<1>2. constants \in Seq(D)
  <2>1. g.order \in Seq(D)
    BY DEF Shape
  <2> HIDE DEF S, D
  <2> QED BY <2>1, TimesAmong
<1> HIDE DEF constants
<1>3. ASSUME NEW n \in D PROVE times(n) \in Seq(D)
  <2> DEFINE first == IF Users(g, n) = << >> \/ g.nodes[n].output THEN <<n>> ELSE << >>
             second == IF HasNonConstUser(g, n) THEN <<n>> ELSE << >>
  <2>1. <<n>> \in Seq(D) /\ << >> \in Seq(D)
    <3> HIDE DEF D, times, lists, first, second
    <3> QED BY TimesOne
  <2>2. first \in Seq(D) /\ second \in Seq(D)
    BY <2>1
  <2>3. times(n) = first \o second
    OBVIOUS
  <2> HIDE DEF first, second, D, times
  <2>4. first \o second \in Seq(D)
    BY <2>2, ConcatProperties
  <2> QED BY <2>3, <2>4
<1> HIDE DEF times
<1>4. /\ Len(constants) \in Nat /\ DOMAIN constants = 1..Len(constants)
      /\ \A i \in DOMAIN constants : constants[i] \in D
  BY <1>2, LenProperties, ElementOfSeq
<1>5. lists \in [1..Len(constants) -> Seq(D)]
  BY <1>3, <1>4
<1> HIDE DEF lists
<1>6. lists \in Seq(Seq(D))
  BY <1>4, <1>5, SeqDef
<1> QED BY <1>1, <1>6, JoinedType

(* propagate_constants: the constants no one needs go, the others become     *)
(* data one by one; all are still there when their turn comes.               *)
DataOp(g, meaning, h, n) == ReplaceByData(h, g.nodes[n].id, meaning[n])
DataInv(g, meaning, base, s, k, h) == DataReplaced(base, h)
DataFold == INSTANCE FoldFacts WITH Op <- DataOp, P <- DataInv

(* propagate_constants leaves the graph right at the nodes that live. *)
LEMMA PropagateConstantsPartly ==
    ASSUME NEW g, Partly(g), CanPropagate(g)
    PROVE  Partly(PropagateConstants(g)) /\ Grown(g, PropagateConstants(g))
<1> DEFINE base == RemoveConstants(g)
           s == ConstOutputs(g)
           h == PropagateConstants(g)
<1>1. h = DataFold!Fold(g, Meaning(g), base, s)
  BY SMT DEF PropagateConstants, DataFold!Fold, DataOp, FoldLeft, MapThenFoldSet,
             DataFold!MapThenFoldSet, Max, DataFold!Greatest
<1>2. s \in Seq(DOMAIN g.nodes)
  BY ConstOutputsType DEF Partly, Good
<1>3. \A k \in 1..Len(s) : g.nodes[s[k]].id \in DOMAIN base.map
  <2>1. \A n \in ToSet(s) : g.nodes[n].id \in DOMAIN base.map
    BY DEF CanPropagate
  <2> QED BY <1>2, <2>1, ToSetType
<1>4. Partly(base) /\ Grown(g, base)
  <2>1. Step(g, base)
    BY RemoveConstantsEdits, EditIsStep DEF Partly, Good
  <2> QED BY <2>1, StepPartly
<1> HIDE DEF base, s, h
<1>5. DataInv(g, Meaning(g), base, s, 0, base)
  BY <1>4 DEF DataInv, DataReplaced, Grown
<1>6. ASSUME NEW k \in 1..Len(s), NEW e, DataInv(g, Meaning(g), base, s, k - 1, e)
      PROVE  DataInv(g, Meaning(g), base, s, k, DataOp(g, Meaning(g), e, s[k]))
  <2> DEFINE id == g.nodes[s[k]].id
             f == ReplaceByData(e, id, Meaning(g)[s[k]])
  <2>1. Partly(e) /\ Grown(base, e) /\ DOMAIN e.map = DOMAIN base.map
    BY <1>6 DEF DataInv, DataReplaced
  <2>2. id \in DOMAIN e.map
    BY <1>3, <2>1
  <2>3. DataReplaced(e, f)
    BY <2>1, <2>2, ReplaceByDataPartly
  <2>4. DataOp(g, Meaning(g), e, s[k]) = f
    BY DEF DataOp
  <2> HIDE DEF f
  <2>5. DataReplaced(base, f)
    BY <2>1, <2>3, GrownTrans DEF DataReplaced
  <2> QED BY <2>4, <2>5 DEF DataInv
<1>7. DataInv(g, Meaning(g), base, s, Len(s), h)
  BY <1>1, <1>2, <1>5, <1>6, DataFold!FoldInduction, NatInductive
<1> QED BY <1>4, <1>7, GrownTrans DEF DataInv, DataReplaced, h

-----------------------------------------------------------------------------
(* The graph of a topology. *)

(* A visit of node n turns the order of what was visited before into a       *)
(* longer one.                                                               *)
Visits(D) == [D -> [Seq(D) -> Seq(D)]]

(* Nodes that are visited one after another. *)
VisitOp(visit, b, o, u) == visit[u][o]
VisitInv(visit, b, base, s, k, o) == o \in Seq(DOMAIN visit)
VisitFold == INSTANCE FoldFacts WITH Op <- VisitOp, P <- VisitInv

(* Visiting nodes one after the other adds nodes to the order. *)
LEMMA VisitAllType ==
    ASSUME NEW D, NEW visit \in Visits(D), NEW order \in Seq(D), NEW s \in Seq(D)
    PROVE  FoldLeft(LAMBDA o, u : visit[u][o], order, s) \in Seq(D)
<1>1. FoldLeft(LAMBDA o, u : visit[u][o], order, s) = VisitFold!Fold(visit, 0, order, s)
  BY SMT DEF VisitFold!Fold, VisitOp, FoldLeft, MapThenFoldSet,
             VisitFold!MapThenFoldSet, Max, VisitFold!Greatest
<1>2. DOMAIN visit = D
  BY DEF Visits
<1>3. VisitInv(visit, 0, order, s, 0, order)
  BY <1>2 DEF VisitInv
<1>4. ASSUME NEW k \in 1..Len(s), NEW o, VisitInv(visit, 0, order, s, k - 1, o)
      PROVE  VisitInv(visit, 0, order, s, k, VisitOp(visit, 0, o, s[k]))
  <2>1. s[k] \in D
    BY ElementOfSeq
  <2> QED BY <1>2, <1>4, <2>1 DEF Visits, VisitInv, VisitOp
<1>5. VisitInv(visit, 0, order, s, Len(s), VisitFold!Fold(visit, 0, order, s))
  BY <1>3, <1>4, VisitFold!FoldInduction, NatInductive
<1> QED BY <1>1, <1>2, <1>5 DEF VisitInv

(* One level deeper: a node in front of what a visit of its users gives.     *)
LEMMA DepthFirstType ==
    ASSUME NEW g, Shape(g), NEW visit \in Visits(DOMAIN g.nodes)
    PROVE  DepthFirst(g, visit) \in Visits(DOMAIN g.nodes)
<1> DEFINE D == DOMAIN g.nodes
           after(n, order) == FoldLeft(LAMBDA o, u : visit[u][o], order, Users(g, n))
           result(n, order) == IF n \in ToSet(order) THEN order ELSE <<n>> \o after(n, order)
           from(n) == [order \in Seq(D) |-> result(n, order)]
<1>1. ASSUME NEW n \in D, NEW order \in Seq(D) PROVE result(n, order) \in Seq(D)
  <2>1. Users(g, n) \in Seq(D)
    BY Lists DEF Shape, Users
  <2> HIDE DEF D
  <2>2. after(n, order) \in Seq(D)
    BY <2>1, VisitAllType DEF D
  <2> HIDE DEF after
  <2>3. <<n>> \o after(n, order) \in Seq(D)
    BY <2>2, TimesOne, ConcatProperties
  <2> QED BY <2>3
<1>2. DepthFirst(g, visit) = [n \in D |-> from(n)]
  BY DEF DepthFirst
<1> HIDE DEF result
<1>3. \A n \in D : from(n) \in [Seq(D) -> Seq(D)]
  BY <1>1
<1> HIDE DEF from, D
<1> QED BY <1>2, <1>3 DEF Visits, D

(* calc_processing_order gives an order of the nodes. *)
DeeperOp(g, b, visit, n) == DepthFirst(g, visit)
DeeperInv(g, b, base, s, k, visit) == visit \in Visits(DOMAIN g.nodes)
DeeperFold == INSTANCE FoldFacts WITH Op <- DeeperOp, P <- DeeperInv

(* calc_processing_order makes a sequence of nodes. *)
LEMMA CalcProcessingOrderType ==
    ASSUME NEW g, Shape(g), g.inputs \in Seq(DOMAIN g.nodes)
    PROVE  CalcProcessingOrder(g) \in Seq(DOMAIN g.nodes)
<1> DEFINE D == DOMAIN g.nodes
           base == [n \in D |-> [order \in Seq(D) |-> order]]
           s == g.nodes
<1>1. Visit(g) = DeeperFold!Fold(g, 0, base, s)
  BY SMT DEF Visit, DeeperFold!Fold, DeeperOp, FoldLeft, MapThenFoldSet,
             DeeperFold!MapThenFoldSet, Max, DeeperFold!Greatest
<1>2. s \in Seq(ToSet(s))
  BY DEF Shape, NodesOver
<1>3. base \in Visits(D)
  BY DEF Visits
<1> HIDE DEF base, s
<1>4. DeeperInv(g, 0, base, s, 0, base)
  BY <1>3 DEF DeeperInv
<1>5. ASSUME NEW k \in 1..Len(s), NEW visit, DeeperInv(g, 0, base, s, k - 1, visit)
      PROVE  DeeperInv(g, 0, base, s, k, DeeperOp(g, 0, visit, s[k]))
  BY <1>5, DepthFirstType DEF DeeperInv, DeeperOp
<1>6. DeeperInv(g, 0, base, s, Len(s), DeeperFold!Fold(g, 0, base, s))
  BY <1>2, <1>4, <1>5, DeeperFold!FoldInduction, NatInductive
<1>7. Visit(g) \in Visits(D)
  BY <1>1, <1>6 DEF DeeperInv
<1> DEFINE none == << >>
           visit == Visit(g)
<1>8. none \in Seq(D) /\ g.inputs \in Seq(D) /\ visit \in Visits(D)
  BY <1>7, TimesOne
<1>9. CalcProcessingOrder(g) = FoldLeft(LAMBDA o, u : visit[u][o], none, g.inputs)
  BY DEF CalcProcessingOrder
<1> HIDE DEF none, visit, D
<1>10. FoldLeft(LAMBDA o, u : visit[u][o], none, g.inputs) \in Seq(D)
  BY <1>8, VisitAllType
<1> QED BY <1>9, <1>10 DEF D

(* The nodes of a topology, before they are connected. *)
CreateOp(a, b, nodes, p) == Append(nodes, NodeOf(p))
CreateInv(a, b, base, t, k, nodes) ==
    /\ nodes \in Seq({NodeOf(t[j]) : j \in DOMAIN t}) /\ Len(nodes) = k
    /\ \A j \in 1..k : nodes[j] = NodeOf(t[j])
CreateFold == INSTANCE FoldFacts WITH Op <- CreateOp, P <- CreateInv

NodesOf(t) == FoldLeft(LAMBDA nodes, p : Append(nodes, NodeOf(p)), << >>, t)

(* A program starts with one node for each primitive. *)
LEMMA NodesOfTopology ==
    ASSUME NEW t, t \in Seq(ToSet(t))
    PROVE  LET ns == NodesOf(t) IN
           /\ ns \in Seq(ToSet(ns)) /\ DOMAIN ns = DOMAIN t
           /\ \A n \in DOMAIN t : ns[n] = NodeOf(t[n])
<1> DEFINE T == {NodeOf(t[j]) : j \in DOMAIN t}
           ns == NodesOf(t)
           none == << >>
<1>1. ns = CreateFold!Fold(0, 0, none, t)
  BY SMT DEF NodesOf, CreateFold!Fold, CreateOp, FoldLeft, MapThenFoldSet,
             CreateFold!MapThenFoldSet, Max, CreateFold!Greatest
<1>2. none \in Seq(T) /\ Len(none) = 0
  <2> HIDE DEF T
  <2> QED OBVIOUS
<1> HIDE DEF none, ns
<1>3. CreateInv(0, 0, none, t, 0, none)
  BY <1>2 DEF CreateInv
<1>4. ASSUME NEW k \in 1..Len(t), NEW nodes, CreateInv(0, 0, none, t, k - 1, nodes)
      PROVE  CreateInv(0, 0, none, t, k, CreateOp(0, 0, nodes, t[k]))
  <2> DEFINE e == NodeOf(t[k])
  <2>1. k \in DOMAIN t /\ k - 1 \in Nat
    OBVIOUS
  <2>2. e \in T
    BY <2>1
  <2>3. /\ nodes \in Seq(T) /\ Len(nodes) = k - 1
        /\ \A j \in 1..(k - 1) : nodes[j] = NodeOf(t[j])
    BY <1>4 DEF CreateInv
  <2> HIDE DEF T, e
  <2>4. /\ Append(nodes, e) \in Seq(T) /\ Len(Append(nodes, e)) = k
        /\ Append(nodes, e)[k] = e
        /\ \A j \in 1..(k - 1) : Append(nodes, e)[j] = nodes[j]
    BY <2>1, <2>2, <2>3, AppendProperties
  <2>5. \A j \in 1..k : Append(nodes, e)[j] = NodeOf(t[j])
    <3>1. \A j \in 1..k : j = k \/ j \in 1..(k - 1)
      OBVIOUS
    <3> QED BY <2>3, <2>4, <3>1 DEF e
  <2> QED BY <2>4, <2>5 DEF CreateInv, CreateOp, e, T
<1>5. CreateInv(0, 0, none, t, Len(t), ns)
  BY <1>1, <1>3, <1>4, CreateFold!FoldInduction, NatInductive
<1>6. /\ ns \in Seq(T) /\ Len(ns) = Len(t) /\ \A j \in 1..Len(t) : ns[j] = NodeOf(t[j])
  BY <1>5 DEF CreateInv
<1> HIDE DEF T
<1>7. DOMAIN ns = DOMAIN t /\ DOMAIN t = 1..Len(t) /\ Len(t) \in Nat
  BY <1>6
<1>8. ns \in Seq(ToSet(ns))
  <2>1. ns = [n \in DOMAIN ns |-> ns[n]]
    BY <1>6
  <2> QED BY <1>7, <2>1, SeqOfItself
<1> QED BY <1>6, <1>7, <1>8 DEF ns

(* A node of a topology is a node without connections. *)
LEMMA NodeOfPrimitive ==
    ASSUME NEW p
    PROVE  /\ DOMAIN NodeOf(p) = NodeFields
           /\ NodeOf(p).id = Id(p.id)
           /\ NodeOf(p).deps = << >> /\ NodeOf(p).users = << >>
BY DEF NodeOf, NewNode, NodeFields

(* The connections of a node, and of all nodes. *)
DependOp(n, b, h, d) == AddConnection(h, d, n)
DependInv(n, b, g, s, k, h) == Edit(g, h) /\ h.inputs = g.inputs
DependFold == INSTANCE FoldFacts WITH Op <- DependOp, P <- DependInv

(* add_node_dependencies adds links and nothing else. *)
LEMMA AddNodeDependenciesEdits ==
    ASSUME NEW g, Shape(g), NEW n \in DOMAIN g.nodes, NEW s \in Seq(DOMAIN g.nodes)
    PROVE  LET h == AddNodeDependencies(g, n, s) IN
           Edit(g, h) /\ h.inputs = g.inputs
<1>1. AddNodeDependencies(g, n, s) = DependFold!Fold(n, 0, g, s)
  BY SMT DEF AddNodeDependencies, DependFold!Fold, DependOp, FoldLeft, MapThenFoldSet,
             DependFold!MapThenFoldSet, Max, DependFold!Greatest
<1>2. DependInv(n, 0, g, s, 0, g)
  BY EditRefl DEF DependInv
<1>3. ASSUME NEW k \in 1..Len(s), NEW h, DependInv(n, 0, g, s, k - 1, h)
      PROVE  DependInv(n, 0, g, s, k, DependOp(n, 0, h, s[k]))
  <2> DEFINE f == AddConnection(h, s[k], n)
  <2>1. Edit(g, h) /\ Shape(h) /\ DOMAIN h.nodes = DOMAIN g.nodes /\ h.inputs = g.inputs
    BY <1>3, EditShape DEF DependInv
  <2>2. s[k] \in DOMAIN h.nodes /\ n \in DOMAIN h.nodes
    BY <2>1, ElementOfSeq
  <2>3. Edit(h, f)
    BY <2>1, <2>2, AddConnectionEdits
  <2>4. f.inputs = h.inputs
    BY <2>1 DEF AddConnection, Shape
  <2> HIDE DEF f
  <2>5. Edit(g, f) /\ f.inputs = g.inputs
    BY <2>1, <2>3, <2>4, EditTrans
  <2> QED BY <2>5 DEF DependInv, DependOp, f
<1>4. DependInv(n, 0, g, s, Len(s), DependFold!Fold(n, 0, g, s))
  BY <1>2, <1>3, DependFold!FoldInduction, NatInductive
<1> QED BY <1>1, <1>4 DEF DependInv

ConnectOp(t, b, h, n) == AddNodeDependencies(h, n, t[n].deps)
ConnectInv(t, b, g, s, k, h) == Edit(g, h) /\ h.inputs = g.inputs
ConnectFold == INSTANCE FoldFacts WITH Op <- ConnectOp, P <- ConnectInv

Connected(g, t, all) == FoldLeft(LAMBDA h, n : AddNodeDependencies(h, n, t[n].deps), g, all)

(* Connecting the nodes one after the other is an edit. *)
LEMMA ConnectedEdits ==
    ASSUME NEW g, Shape(g), NEW t, \A n \in DOMAIN g.nodes : t[n].deps \in Seq(DOMAIN g.nodes),
           NEW s \in Seq(DOMAIN g.nodes)
    PROVE  LET h == Connected(g, t, s) IN
           Edit(g, h) /\ h.inputs = g.inputs
<1>1. Connected(g, t, s) = ConnectFold!Fold(t, 0, g, s)
  BY SMT DEF Connected, ConnectFold!Fold, ConnectOp, FoldLeft, MapThenFoldSet,
             ConnectFold!MapThenFoldSet, Max, ConnectFold!Greatest
<1>2. ConnectInv(t, 0, g, s, 0, g)
  BY EditRefl DEF ConnectInv
<1>3. ASSUME NEW k \in 1..Len(s), NEW h, ConnectInv(t, 0, g, s, k - 1, h)
      PROVE  ConnectInv(t, 0, g, s, k, ConnectOp(t, 0, h, s[k]))
  <2> DEFINE f == AddNodeDependencies(h, s[k], t[s[k]].deps)
  <2>1. Edit(g, h) /\ Shape(h) /\ DOMAIN h.nodes = DOMAIN g.nodes /\ h.inputs = g.inputs
    BY <1>3, EditShape DEF ConnectInv
  <2>2. s[k] \in DOMAIN h.nodes /\ t[s[k]].deps \in Seq(DOMAIN h.nodes)
    BY <2>1, ElementOfSeq
  <2>3. Edit(h, f) /\ f.inputs = h.inputs
    BY <2>1, <2>2, AddNodeDependenciesEdits
  <2> HIDE DEF f
  <2>4. Edit(g, f) /\ f.inputs = g.inputs
    BY <2>1, <2>3, EditTrans
  <2> QED BY <2>4 DEF ConnectInv, ConnectOp, f
<1>4. ConnectInv(t, 0, g, s, Len(s), ConnectFold!Fold(t, 0, g, s))
  BY <1>2, <1>3, ConnectFold!FoldInduction, NatInductive
<1> QED BY <1>1, <1>4 DEF ConnectInv

(* The graph of a topology: its nodes are connected both ways. *)
LEMMA GraphOfWhole ==
    ASSUME NEW t \in Topologies
    PROVE  Whole(GraphOf(t))
<1> DEFINE D == DOMAIN t
           all == [n \in D |-> n]
           map == [i \in {Id(t[n].id) : n \in D} |-> CHOOSE n \in D : Id(t[n].id) = i]
           inputs == Among(all, {n \in D : t[n].deps = << >>})
           outputs == Among(all, {n \in D : t[n].output})
           g == [nodes |-> NodesOf(t), map |-> map, order |-> << >>,
                 inputs |-> inputs, outputs |-> outputs]
           h == Connected(g, t, all)
           order == CalcProcessingOrder(h)
           e == [h EXCEPT !.order = order]
<1>1. t \in Seq(ToSet(t)) /\ \A n \in D : t[n].deps \in Seq(D)
  BY TopologiesAssumption
<1>2. D = 1..Len(t) /\ Len(t) \in Nat
  BY <1>1
<1>3. /\ NodesOf(t) \in Seq(ToSet(NodesOf(t))) /\ DOMAIN NodesOf(t) = D
      /\ \A n \in D : /\ DOMAIN NodesOf(t)[n] = NodeFields
                      /\ NodesOf(t)[n].id = Id(t[n].id)
                      /\ NodesOf(t)[n].deps = << >> /\ NodesOf(t)[n].users = << >>
  BY <1>1, NodesOfTopology, NodeOfPrimitive
<1>4. all \in Seq(D)
  <2>1. all \in [1..Len(t) -> D]
    BY <1>2
  <2> HIDE DEF all
  <2> QED BY <1>2, <2>1, SeqDef
<1>5. inputs \in Seq(D)
  <2> HIDE DEF D, all
  <2> QED BY <1>4, TimesAmong
<1>6. \A i \in DOMAIN map : map[i] \in D /\ Id(t[map[i]].id) = i
  OBVIOUS
<1>7. GraphOf(t) = MarkConstants(e)
  BY DEF GraphOf, NodesOf, Connected
<1>8. << >> \in Seq(D)
  BY TimesOne
<1> HIDE DEF D, all, map, inputs, outputs
<1>9. /\ DOMAIN g = {"nodes", "map", "order", "inputs", "outputs"}
      /\ g.nodes = NodesOf(t) /\ g.map = map /\ g.order = << >> /\ g.inputs = inputs
  OBVIOUS
<1> HIDE DEF g
<1>10. Shape(g) /\ DOMAIN g.nodes = D
  BY <1>3, <1>6, <1>8, <1>9 DEF Shape, NodesOver, NodeOver
<1>11. Whole(g)
  <2>1. Ids(g)
    BY <1>3, <1>6, <1>9 DEF Ids
  <2>2. CleanIds(g)
    <3>1. \A x : Clean(Id(x))
      BY DEF Clean, Id
    <3> QED BY <1>3, <1>9, <3>1 DEF CleanIds
  <2>3. Mirror(g.nodes, DOMAIN g.nodes)
    BY <1>3, <1>9, TimesNone DEF Mirror, Linked
  <2> QED BY <1>10, <2>1, <2>2, <2>3 DEF Whole, Good
<1>12. Edit(g, h) /\ h.inputs = g.inputs
  <2>1. \A n \in DOMAIN g.nodes : t[n].deps \in Seq(DOMAIN g.nodes)
    BY <1>1, <1>10
  <2> QED BY <1>4, <1>10, <2>1, ConnectedEdits
<1> HIDE DEF h
<1>13. Shape(h) /\ DOMAIN h.nodes = D
  BY <1>10, <1>12, EditShape
<1>14. order \in Seq(DOMAIN h.nodes)
  BY <1>5, <1>9, <1>12, <1>13, CalcProcessingOrderType
<1> HIDE DEF order
<1>15. Edit(h, e)
  BY <1>13, <1>14, ReorderedEdits
<1> HIDE DEF e
<1>16. Edit(e, MarkConstants(e))
  BY <1>15, EditShape, MarkConstantsEdits
<1>17. Edit(g, MarkConstants(e))
  BY <1>12, <1>15, <1>16, EditTrans
<1> QED BY <1>7, <1>11, <1>17, EditWhole

-----------------------------------------------------------------------------
(* The invariant, and that the passes keep it. *)

(* The inductive invariant.  A fused skip layer and a fused convolution need *)
(* all nodes to agree, the dead ones too, and they do until the constants    *)
(* are propagated; from then on the nodes of the program do.                 *)
AtOnce == {"trim_to_outputs", "propagate_constants", "calculate_BFS_processing_order"}

NodeByNode ==
    {"fuse_reorders", "fuse_activations", "fuse_skip_layers", "reorder_inputs",
     "pre_optimize_bias", "prepare_conv_eltw_fusing", "remove_redundant_reorders",
     "add_required_reorders", "post_optimize_weights"}

Agreeing(p, g) == IF p <= 8 THEN Whole(g) ELSE Partly(g)

Visited(p, g, ns) ==
    /\ ns \subseteq IF Passes[p] \in AtOnce THEN {0} ELSE ToSet(g.order)
    /\ Passes[p] = "fuse_skip_layers" => \A n \in ns : g.nodes[n].kind = "eltwise"
    /\ Passes[p] = "prepare_conv_eltw_fusing" => \A n \in ns : g.nodes[n].kind = "convolution"

IInv == pass \in 1..16 /\ Agreeing(pass, graph) /\ Visited(pass, graph, left)

(* Which passes come before and after propagate_constants. *)
LEMMA PassesFacts ==
    ASSUME NEW p \in 1..16
    PROVE  /\ Passes[p] \in {"fuse_reorders", "fuse_activations", "fuse_skip_layers",
                             "prepare_conv_eltw_fusing"} => p <= 8
           /\ Passes[p] = "propagate_constants" => p > 8
           /\ Passes[p] \notin {"done", "failed"} => p + 1 \in 1..15
           /\ p < 16 => Passes[p] \in AtOnce \cup {"done"} \cup NodeByNode
<1>1. p = 1 \/ p = 2 \/ p = 3 \/ p = 4 \/ p = 5 \/ p = 6 \/ p = 7 \/ p = 8 \/ p = 9 \/ p = 10
        \/ p = 11 \/ p = 12 \/ p = 13 \/ p = 14 \/ p = 15 \/ p = 16
  OBVIOUS
<1>2. /\ Passes[1] = "trim_to_outputs" /\ Passes[2] = "fuse_reorders"
      /\ Passes[3] = "fuse_activations" /\ Passes[4] = "fuse_skip_layers"
      /\ Passes[5] = "reorder_inputs" /\ Passes[6] = "pre_optimize_bias"
      /\ Passes[7] = "prepare_conv_eltw_fusing" /\ Passes[8] = "remove_redundant_reorders"
      /\ Passes[9] = "propagate_constants" /\ Passes[10] = "add_required_reorders"
      /\ Passes[11] = "calculate_BFS_processing_order" /\ Passes[12] = "post_optimize_weights"
      /\ Passes[13] = "remove_redundant_reorders" /\ Passes[14] = "propagate_constants"
      /\ Passes[15] = "done" /\ Passes[16] = "failed" /\ Len(Passes) = 16
  BY DEF Passes
<1> QED BY <1>1, <1>2 DEF AtOnce, NodeByNode

(* A step of any kind keeps what agrees. *)
LEMMA StepAgrees ==
    ASSUME NEW p \in 1..16, NEW g, NEW h, Agreeing(p, g), Step(g, h)
    PROVE  Agreeing(p, h) /\ Grown(g, h)
BY StepWhole, StepPartly DEF Agreeing

(* What the invariant says of a graph, whatever the pass. *)
LEMMA AgreeingShape ==
    ASSUME NEW p, NEW g, Agreeing(p, g)
    PROVE  /\ Shape(g) /\ ToSet(g.order) \subseteq DOMAIN g.nodes
           /\ Partly(g)
<1>1. Shape(g)
  BY DEF Agreeing, Whole, Partly, Good
<1>2. ToSet(g.order) \subseteq DOMAIN g.nodes /\ Alive(g) \subseteq DOMAIN g.nodes
  BY <1>1, ToSetType DEF Shape, Alive
<1> QED BY <1>1, <1>2 DEF Agreeing, Whole, Partly, Mirror

(* A rewrite that keeps what agrees keeps the invariant. *)
LEMMA RewriteKeeps ==
    ASSUME IInv, NEW n, NEW results, Rewrite(n, results),
           \A h \in results : Agreeing(pass, h) /\ Grown(graph, h),
           Passes[pass] \in AtOnce => n = 0
    PROVE  IInv'
<1>1. /\ pass' = pass /\ graph' \in results /\ left' = (left \ {n}) \cap ToSet(graph'.order)
  BY DEF Rewrite
<1>2. Agreeing(pass, graph') /\ Grown(graph, graph')
  BY <1>1
<1>3. ASSUME NEW m \in left', Passes[pass] \notin AtOnce
      PROVE  m \in left /\ m \in DOMAIN graph.nodes /\ graph'.nodes[m].kind = graph.nodes[m].kind
  <2>1. m \in left
    BY <1>1
  <2>2. m \in DOMAIN graph.nodes
    BY <1>3, <2>1, AgreeingShape DEF IInv, Visited
  <2> QED BY <1>2, <2>1, <2>2 DEF Grown
<1>4. Visited(pass, graph', left')
  BY <1>1, <1>3 DEF IInv, Visited, AtOnce
<1> QED BY <1>1, <1>2, <1>4 DEF IInv

(* A pass that works on the graph as a whole keeps the invariant. *)
LEMMA WholeGraphKeeps ==
    ASSUME IInv, WholeGraph
    PROVE  IInv'
<1>1. pass \in 1..16 /\ Agreeing(pass, graph) /\ Shape(graph) /\ Partly(graph)
  BY AgreeingShape DEF IInv
<1>2. CASE In("trim_to_outputs") /\ Rewrite(0, {TrimToOutputs(graph)})
  <2>1. Step(graph, TrimToOutputs(graph))
    BY <1>1, TrimToOutputsEdits, EditIsStep
  <2>2. Agreeing(pass, TrimToOutputs(graph)) /\ Grown(graph, TrimToOutputs(graph))
    BY <1>1, <2>1, StepAgrees
  <2> QED BY <1>2, <2>2, RewriteKeeps
<1>3. CASE /\ In("propagate_constants") /\ CanPropagate(graph)
           /\ Rewrite(0, {PropagateConstants(graph)})
  <2>1. Partly(PropagateConstants(graph)) /\ Grown(graph, PropagateConstants(graph))
    BY <1>1, <1>3, PropagateConstantsPartly
  <2>2. pass > 8
    BY <1>1, <1>3, PassesFacts DEF In
  <2>3. Agreeing(pass, PropagateConstants(graph))
    BY <1>1, <2>1, <2>2 DEF Agreeing
  <2> QED BY <1>3, <2>1, <2>3, RewriteKeeps
<1>4. CASE /\ In("calculate_BFS_processing_order")
           /\ Rewrite(0, {[graph EXCEPT !.order = CalculateBfs(graph)]})
  <2> DEFINE order == CalculateBfs(graph)
             h == [graph EXCEPT !.order = order]
  <2>1. order \in Seq(DOMAIN graph.nodes)
    BY <1>1, CalculateBfsType
  <2> HIDE DEF order
  <2>2. Step(graph, h)
    BY <1>1, <2>1, ReorderedEdits, EditIsStep
  <2>3. Rewrite(0, {h})
    BY <1>4 DEF order
  <2> HIDE DEF h
  <2>4. Agreeing(pass, h) /\ Grown(graph, h)
    BY <1>1, <2>2, StepAgrees
  <2> QED BY <2>3, <2>4, RewriteKeeps
<1> QED BY <1>2, <1>3, <1>4 DEF WholeGraph

(* What is known of a node that is visited. *)
LEMMA NodeVisited ==
    ASSUME IInv, NEW n \in left, Passes[pass] \notin AtOnce
    PROVE  /\ pass \in 1..16 /\ Agreeing(pass, graph) /\ Shape(graph)
           /\ n \in ToSet(graph.order) /\ n \in DOMAIN graph.nodes
BY AgreeingShape DEF IInv, Visited

(* The passes that look at their nodes one by one, as long as all agree ... *)
LEMMA FusingPassesKeep ==
    ASSUME IInv, NEW n \in left, NEW results, Rewrite(n, results),
           \/ /\ In("fuse_reorders")
              /\ results = {graph}
                        \cup IF CanFuse(graph, n) THEN {ExtractAndRemove(graph, n)} ELSE {}
           \/ /\ In("fuse_activations")
              /\ results = {graph}
                        \cup IF CanFuseActivation(graph, n) THEN {FuseActivation(graph, n)}
                                        ELSE {}
           \/ /\ In("fuse_skip_layers")
              /\ results = {IF CanFuseSkipLayers(graph, n) THEN FuseSkipLayers(graph, n) ELSE graph}
           \/ /\ In("prepare_conv_eltw_fusing")
              /\ results = {graph} \cup IF CanFuseConvEltwise(graph, n)
                                        THEN {FuseConvEltwise(graph, n)} ELSE {}
    PROVE  IInv'
<1>1. Passes[pass] \notin AtOnce
  BY DEF In, AtOnce
<1>2. /\ pass \in 1..16 /\ Agreeing(pass, graph)
      /\ n \in ToSet(graph.order) /\ n \in DOMAIN graph.nodes
  BY <1>1, NodeVisited
<1>3. pass <= 8
  BY <1>2, PassesFacts DEF In
<1>4. Whole(graph) /\ Grown(graph, graph)
  BY <1>2, <1>3 DEF Agreeing, Grown
<1>5. ASSUME NEW h \in results PROVE Whole(h) /\ Grown(graph, h)
  <2>1. CASE h = graph
    BY <1>4, <2>1
  <2>2. CASE h = ExtractAndRemove(graph, n)
    BY <1>2, <1>4, <2>2, ExtractAndRemoveWhole
  <2>3. CASE CanFuseActivation(graph, n) /\ h = FuseActivation(graph, n)
    <3>1. Len(Deps(graph, n)) = 1
      BY <2>3 DEF CanFuseActivation, CanFuse
    <3> QED BY <1>2, <1>4, <2>3, <3>1, FuseActivationWhole
  <2>4. CASE /\ In("fuse_skip_layers") /\ CanFuseSkipLayers(graph, n)
             /\ h = FuseSkipLayers(graph, n)
    <3>1. graph.nodes[n].kind = "eltwise"
      BY <2>4 DEF IInv, Visited, In
    <3> QED BY <1>2, <1>4, <2>4, <3>1, FuseSkipLayersWhole
  <2>5. CASE /\ In("prepare_conv_eltw_fusing") /\ CanFuseConvEltwise(graph, n)
             /\ h = FuseConvEltwise(graph, n)
    <3>1. graph.nodes[n].kind = "convolution"
      BY <2>5 DEF IInv, Visited, In
    <3> QED BY <1>2, <1>4, <2>5, <3>1, FuseConvEltwiseWhole
  <2> QED BY <2>1, <2>2, <2>3, <2>4, <2>5
<1>6. \A h \in results : Agreeing(pass, h) /\ Grown(graph, h)
  BY <1>3, <1>5 DEF Agreeing
<1> QED BY <1>1, <1>6, RewriteKeeps

(* ... and those whose every rewrite is a step. *)
LEMMA ReorderingPassesKeep ==
    ASSUME IInv, NEW n \in left, NEW results, Rewrite(n, results),
           \/ In("reorder_inputs") /\ ~IsInput(graph, n) /\ results = ReorderInput(graph, n)
           \/ In("pre_optimize_bias") /\ results = PreOptimizeBias(graph, n)
           \/ In("remove_redundant_reorders") /\ results = RemoveRedundantReorder(graph, n)
           \/ /\ In("add_required_reorders")
              /\ results = {AddRequiredReorders(graph, n, deps) :
                               deps \in {S \in SUBSET MayNeedReorder(graph, n)
                                         : ~Twice(graph, n, S)}}
           \/ /\ In("post_optimize_weights") /\ WeightsAt(graph, n) \in DOMAIN Deps(graph, n)
              /\ results = {PostOptimizeWeights(graph, n)}
    PROVE  IInv'
<1>1. Passes[pass] \notin AtOnce
  BY DEF In, AtOnce
<1>2. /\ pass \in 1..16 /\ Agreeing(pass, graph) /\ Shape(graph) /\ n \in DOMAIN graph.nodes
  BY <1>1, NodeVisited
<1>3. ASSUME NEW h \in results PROVE Step(graph, h)
  <2>1. CASE ~IsInput(graph, n) /\ h \in ReorderInput(graph, n)
    BY <1>2, <2>1, ReorderInputSteps
  <2>2. CASE h \in PreOptimizeBias(graph, n)
    BY <1>2, <2>2, PreOptimizeBiasSteps
  <2>3. CASE h \in RemoveRedundantReorder(graph, n)
    BY <1>2, <2>3, RemoveRedundantReorderSteps
  <2>4. ASSUME NEW deps, ~Twice(graph, n, deps), h = AddRequiredReorders(graph, n, deps)
        PROVE  Step(graph, h)
    BY <1>2, <2>4, AddRequiredReordersSteps
  <2>5. CASE WeightsAt(graph, n) \in DOMAIN Deps(graph, n) /\ h = PostOptimizeWeights(graph, n)
    BY <1>2, <2>5, PostOptimizeWeightsSteps
  <2> QED BY <2>1, <2>2, <2>3, <2>4, <2>5
<1>4. \A h \in results : Agreeing(pass, h) /\ Grown(graph, h)
  BY <1>2, <1>3, StepAgrees
<1> QED BY <1>1, <1>4, RewriteKeeps

(* A pass's work at one node keeps the invariant. *)
LEMMA AtNodeKeeps ==
    ASSUME IInv, NEW n \in left, AtNode(n)
    PROVE  IInv'
<1>1. CASE In("fuse_reorders") \/ In("fuse_activations") \/ In("fuse_skip_layers")
              \/ In("prepare_conv_eltw_fusing")
  <2>1. ~In("reorder_inputs") /\ ~In("pre_optimize_bias") /\ ~In("remove_redundant_reorders")
        /\ ~In("add_required_reorders") /\ ~In("post_optimize_weights")
    BY <1>1 DEF In
  <2> QED BY <1>1, <2>1, FusingPassesKeep DEF AtNode
<1>2. CASE ~(In("fuse_reorders") \/ In("fuse_activations") \/ In("fuse_skip_layers")
                \/ In("prepare_conv_eltw_fusing"))
  BY <1>2, ReorderingPassesKeep DEF AtNode
<1> QED BY <1>1, <1>2

(* The nodes of the next pass are picked from the order. *)
LEMMA ToVisitType ==
    ASSUME NEW g, NEW p \in 1..15
    PROVE  Visited(p, g, ToVisit(g, Passes[p]))
<1> DEFINE name == Passes[p]
<1>1. name \in AtOnce \cup {"done"} \cup NodeByNode
  BY PassesFacts
<1> HIDE DEF name
<1>2. CASE name \in AtOnce
  <2>1. ToVisit(g, name) = {0}
    BY <1>2 DEF ToVisit, AtOnce
  <2> QED BY <1>2, <2>1 DEF Visited, AtOnce, name
<1>3. CASE name = "done"
  <2>1. ToVisit(g, name) = {}
    BY <1>3 DEF ToVisit
  <2> QED BY <1>3, <2>1 DEF Visited, AtOnce, name
<1>4. CASE name \in NodeByNode
  <2>1. name \notin AtOnce
    BY <1>4 DEF AtOnce, NodeByNode
  <2>2. ToVisit(g, name) \subseteq ToSet(g.order)
    BY <1>4 DEF ToVisit, OfKind, NodeByNode
  <2>3. name = "fuse_skip_layers" => \A n \in ToVisit(g, name) : g.nodes[n].kind = "eltwise"
    BY DEF ToVisit, OfKind
  <2>4. name = "prepare_conv_eltw_fusing"
          => \A n \in ToVisit(g, name) : g.nodes[n].kind = "convolution"
    BY DEF ToVisit, OfKind
  <2> QED BY <2>1, <2>2, <2>3, <2>4 DEF Visited, name
<1> QED BY <1>1, <1>2, <1>3, <1>4

(* Going on to the next pass keeps the invariant. *)
LEMMA NextPassKeeps ==
    ASSUME IInv, NextPass
    PROVE  IInv'
<1>1. /\ pass \in 1..16 /\ ~In("done") /\ ~In("failed") /\ Agreeing(pass, graph)
      /\ pass' = pass + 1 /\ graph' = graph /\ left' = ToVisit(graph, Passes[pass + 1])
  BY DEF NextPass, IInv
<1>2. pass + 1 \in 1..15
  BY <1>1, PassesFacts DEF In
<1>3. Agreeing(pass + 1, graph)
  BY <1>1, AgreeingShape DEF Agreeing
<1>4. Visited(pass + 1, graph, ToVisit(graph, Passes[pass + 1]))
  BY <1>2, ToVisitType
<1> QED BY <1>1, <1>2, <1>3, <1>4 DEF IInv

(* A build that throws keeps the invariant. *)
LEMMA BuildThrowsKeeps ==
    ASSUME IInv, NEW n, BuildThrows(n)
    PROVE  IInv'
<1>1. /\ pass \in 1..16 /\ Agreeing(pass, graph)
      /\ pass' = Len(Passes) /\ graph' = graph /\ left' = {}
  BY DEF BuildThrows, IInv
<1>2. Len(Passes) = 16 /\ Passes[16] = "failed"
  BY DEF Passes
<1>3. Agreeing(16, graph)
  <2>1. Partly(graph)
    BY <1>1, AgreeingShape
  <2> QED BY <2>1 DEF Agreeing
<1>4. Visited(16, graph, {})
  BY <1>2 DEF Visited
<1> QED BY <1>1, <1>2, <1>3, <1>4 DEF IInv

(* A graph that was just built from its topology is whole. *)
LEMMA InitHolds == Init => IInv
<1> SUFFICES ASSUME Init PROVE IInv
  OBVIOUS
<1>1. PICK topology \in Topologies : graph = GraphOf(topology) /\ pass = 1 /\ left = {0}
  BY DEF Init
<1>2. Whole(graph)
  BY <1>1, GraphOfWhole
<1>3. Passes[1] = "trim_to_outputs"
  BY DEF Passes
<1> QED BY <1>1, <1>2, <1>3 DEF IInv, Agreeing, Visited, AtOnce

(* Every step keeps the invariant. *)
LEMMA NextKeeps == IInv /\ [Next]_vars => IInv'
<1> SUFFICES ASSUME IInv, [Next]_vars PROVE IInv'
  OBVIOUS
<1>1. CASE WholeGraph
  BY <1>1, WholeGraphKeeps
<1>2. CASE NextPass
  BY <1>2, NextPassKeeps
<1>3. CASE \E n \in left : AtNode(n) \/ BuildThrows(n)
  BY <1>3, AtNodeKeeps, BuildThrowsKeeps
<1>4. CASE UNCHANGED vars
  BY <1>4 DEF vars, IInv
<1> QED BY <1>1, <1>2, <1>3, <1>4 DEF Next

-----------------------------------------------------------------------------
(* What holds of every build. *)

(* The inductive invariant holds in every state, whatever the topology. *)
THEOREM Invariance == Spec => []IInv
BY InitHolds, NextKeeps, PTL DEF Spec

(* Whatever passes rewrite the program of whatever topology: dependencies    *)
(* and users say the same of every two nodes of the program.                 *)
THEOREM UsersMirrorDependenciesAlways == Spec => []UsersMirrorDependencies
<1>1. IInv => UsersMirrorDependencies
  BY AgreeingShape DEF IInv, Partly, Mirror, Linked, UsersMirrorDependencies, Deps, Users
<1> QED BY <1>1, Invariance, PTL

(* The order and the map name nodes there are, the lists of each node as    *)
(* well, and the map every node by its own id.                               *)
GraphIsWellFormed ==
    /\ ToSet(graph.order) \cup Alive(graph) \subseteq DOMAIN graph.nodes
    /\ \A n \in DOMAIN graph.nodes :
          ToSet(Deps(graph, n)) \cup ToSet(Users(graph, n)) \subseteq DOMAIN graph.nodes
    /\ \A i \in DOMAIN graph.map : graph.nodes[graph.map[i]].id = i

(* No pass leaves an index, a list or a name of the program dangling. *)
THEOREM GraphIsWellFormedAlways == Spec => []GraphIsWellFormed
<1>1. IInv => GraphIsWellFormed
  <2> SUFFICES ASSUME IInv PROVE GraphIsWellFormed
    OBVIOUS
  <2>1. Shape(graph) /\ Ids(graph) /\ ToSet(graph.order) \subseteq DOMAIN graph.nodes
    BY AgreeingShape DEF IInv, Partly, Good
  <2>2. Alive(graph) \subseteq DOMAIN graph.nodes
    BY <2>1 DEF Shape, Alive
  <2>3. \A n \in DOMAIN graph.nodes :
           ToSet(Deps(graph, n)) \cup ToSet(Users(graph, n)) \subseteq DOMAIN graph.nodes
    <3>1. ASSUME NEW n \in DOMAIN graph.nodes
          PROVE  ToSet(Deps(graph, n)) \cup ToSet(Users(graph, n)) \subseteq DOMAIN graph.nodes
      BY <2>1, Lists, ToSetType DEF Shape, Deps, Users
    <3> QED BY <3>1
  <2> QED BY <2>1, <2>2, <2>3 DEF GraphIsWellFormed, Ids
<1> QED BY <1>1, Invariance, PTL

=============================================================================
