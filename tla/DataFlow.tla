------------------------------- MODULE DataFlow -------------------------------
(***************************************************************************)
(* What executing a network means, without queue, buffers, events and      *)
(* threads: in every execution each primitive is computed once, after all  *)
(* that it needs, and no input is set before the execution that reads the  *)
(* one before is over.                                                     *)
(***************************************************************************)
EXTENDS Naturals

VARIABLES
    needs,      \* the primitives to compute, with those each one reads
    ready,      \* the input for the next execution is there
    execution,  \* number of executions begun
    computed    \* what the last of them has computed

vars == <<needs, ready, execution, computed>>

Init ==
    /\ \A n \in DOMAIN needs : needs[n] \subseteq DOMAIN needs
    /\ ready = FALSE /\ execution = 0 /\ computed = {}

Over == execution = 0 \/ computed = DOMAIN needs

SetInput ==
    /\ ~ready /\ Over
    /\ ready' = TRUE
    /\ UNCHANGED <<needs, execution, computed>>

Execute ==
    /\ ready
    /\ ready' = FALSE /\ execution' = execution + 1 /\ computed' = {}
    /\ UNCHANGED needs

Compute(n) ==
    /\ execution > 0
    /\ n \in DOMAIN needs \ computed /\ needs[n] \subseteq computed
    /\ computed' = computed \cup {n}
    /\ UNCHANGED <<needs, ready, execution>>

Next == SetInput \/ Execute \/ \E n \in DOMAIN needs : Compute(n)

Spec == Init /\ [][Next]_vars
=============================================================================
