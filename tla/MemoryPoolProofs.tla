--------------------------- MODULE MemoryPoolProofs ---------------------------
(* Invariants of MemoryPool for any number of networks, any programs and any *)
(* sizes, from the assumptions the module MemoryPool states: first what the  *)
(* nodes of a network share, then what the engine counts - the bytes the     *)
(* device holds never exceed its memory, and the counter is right until the  *)
(* first refusal.                                                            *)
EXTENDS MemoryPool, FiniteSetTheorems, TLAPS

-----------------------------------------------------------------------------
(* The strengthening.  A user of a record was looked for in the container    *)
(* the record is in, and it was placed unless its network failed: in either  *)
(* case the network was started and its program no longer changes.           *)
UsersPlaced ==
    \A k \in 1..Len(pool) : \A u \in pool[k].users :
        /\ state[u[2]] = "gone" \/ u[1] \in placed[u[2]]
        /\ Container(u[2], u[1]) = pool[k].container

NothingPlacedYet == \A n \in Networks : state[n] = "none" => placed[n] = {}

PaddedRecords ==
    \A k \in 1..Len(pool) :
        pool[k].container = "padded" => pool[k].layout.kind = "padded"

IInv == /\ PoolTypeOK /\ UsersPlaced /\ NothingPlacedYet /\ PaddedRecords
        /\ NoConflictingSharing /\ FitsRecord

-----------------------------------------------------------------------------
(* What a node's container says about the node. *)
LEMMA ContainerFacts ==
    ASSUME PoolTypeOK, NEW n \in Networks, NEW p \in Nodes
    PROVE  /\ Container(n, p) \in {"none", "non_padded", "padded", "across"}
           /\ Container(n, p) \in {"non_padded", "padded"} => Pooled(program[n][p])
           /\ Container(n, p) = "padded" => program[n][p].layout.kind = "padded"
           /\ program[n][p] \in NodeRecord
           /\ program[n][p].layout \in LayoutRecord
<1>1. program[n][p] \in NodeRecord
  BY ProgramsAssumption DEF PoolTypeOK
<1>2. program[n][p].layout \in LayoutRecord
  BY <1>1, LayoutsAssumption DEF NodeRecord
<1>3. program[n][p].layout.kind \in {"plain", "padded", "image"}
  BY <1>2 DEF LayoutRecord
<1> QED BY <1>1, <1>2, <1>3 DEF Container, Pooled, NodeRecord

(* The users of a record are nodes of networks. *)
LEMMA UserFacts ==
    ASSUME pool \in Seq(RecordType), NEW k \in 1..Len(pool), NEW u \in pool[k].users
    PROVE  u[1] \in Nodes /\ u[2] \in Networks /\ u = <<u[1], u[2]>>
<1>1. pool[k].users \subseteq Nodes \X Networks
  <2>1. pool[k] \in RecordType
    OBVIOUS
  <2> QED BY <2>1 DEF RecordType
<1> QED BY <1>1

(* Whatever container the lookup walks, the record it accepts is large       *)
(* enough for the node, unless the node is padded and deeper; and, unless it *)
(* is one of the records across networks, none of its users of that network  *)
(* is a restriction of the node.                                             *)
LEMMA AcceptsFacts ==
    ASSUME PoolTypeOK, PaddedRecords, NEW n \in Networks, NEW p \in Nodes,
           NEW k \in 1..Len(pool), Accepts(Container(n, p), pool[k], n, p)
    PROVE  /\ pool[k].container = Container(n, p)
           /\ \/ program[n][p].layout.bytes <= pool[k].layout.bytes
              \/ Deeper(<<p, n>>, pool[k])
           /\ pool[k].container \in {"non_padded", "padded"} =>
                \A u \in pool[k].users : u[2] = n => u[1] \notin program[n][p].deps
<1> DEFINE l == program[n][p].layout
           r == pool[k]
<1>1. r \in RecordType
  BY DEF PoolTypeOK
<1>2. r.container = Container(n, p) /\ r.container \in {"non_padded", "padded", "across"}
  BY <1>1 DEF Accepts, RecordType
<1>3. CASE r.container = "padded"
  <2>1. FitsPadded(l, r.layout) /\ ~HasConflict(r.users, program[n][p].deps, n)
    BY <1>2, <1>3 DEF Accepts
  <2>2. l.kind = "padded" /\ r.layout.kind = "padded"
    BY <1>2, <1>3, ContainerFacts DEF PaddedRecords
  <2>3. l \in Layouts /\ r.layout \in Layouts
    BY <1>1, ContainerFacts DEF RecordType, NodeRecord
  <2>4. l.depth <= r.layout.depth => l.bytes <= r.layout.bytes
    BY <2>1, <2>2, <2>3, LayoutsAssumption DEF FitsPadded
  <2>5. l.depth \in Nat /\ r.layout.depth \in Nat
    BY <2>3, LayoutsAssumption DEF LayoutRecord
  <2>6. OutputLayout(<<p, n>>) = l
    BY DEF OutputLayout
  <2>7. l.bytes <= r.layout.bytes \/ Deeper(<<p, n>>, r)
    BY <1>3, <2>4, <2>5, <2>6 DEF Deeper
  <2> QED BY <1>2, <2>1, <2>7 DEF HasConflict
<1>4. CASE r.container = "non_padded"
  BY <1>2, <1>4 DEF Accepts, HasConflict
<1>5. CASE r.container = "across"
  BY <1>2, <1>5 DEF Accepts
<1> QED BY <1>2, <1>3, <1>4, <1>5

-----------------------------------------------------------------------------
LEMMA InitIInv == Init => IInv
<1> SUFFICES ASSUME Init PROVE IInv
  OBVIOUS
<1>1. PoolTypeOK
  <2>1. (CHOOSE g \in Programs : TRUE) \in Programs
    BY ProgramsAssumption
  <2> QED BY <2>1 DEF Init, PoolTypeOK
<1>2. Len(pool) = 0
  BY DEF Init
<1> QED
  BY <1>1, <1>2 DEF Init, IInv, UsersPlaced, NothingPlacedYet, PaddedRecords,
     NoConflictingSharing, FitsRecord

-----------------------------------------------------------------------------
(* A record gains a user. *)
LEMMA ShareStep ==
    ASSUME IInv, NEW n \in Networks, NEW p \in Nodes, NEW k \in 1..Len(pool),
           FirstFit(Container(n, p), n, p, k),
           pool' = AddUser(k, <<p, n>>), program' = program,
           state'[n] = "gone" \/ p \in placed'[n],
           \A m \in Networks : placed[m] \subseteq placed'[m],
           \A m \in Networks : state[m] = "gone" => state'[m] = "gone"
    PROVE  /\ pool' \in Seq(RecordType)
           /\ UsersPlaced' /\ PaddedRecords' /\ NoConflictingSharing' /\ FitsRecord'
<1> DEFINE w == <<p, n>>
           r == pool[k]
<1>1. PoolTypeOK /\ PaddedRecords
  BY DEF IInv
<1>2. pool \in Seq(RecordType) /\ r \in RecordType
  BY <1>1 DEF PoolTypeOK
<1> DEFINE r2 == Record(r.container, r.layout, r.users \cup {w}, r.network)
<1>3. pool' = [pool EXCEPT ![k] = r2]
  BY DEF AddUser
<1>4. pool' \in Seq(RecordType) /\ Len(pool') = Len(pool)
  <2>1. <<p, n>> \in Nodes \X Networks
    OBVIOUS
  <2>2. r2 \in RecordType
    BY <1>2, <2>1 DEF Record, RecordType
  <2> HIDE DEF r, r2
  <2> QED BY SMTT(60), <1>2, <1>3, <2>2
<1>5. \A j \in 1..Len(pool) :
         /\ pool'[j].container = pool[j].container
         /\ pool'[j].layout = pool[j].layout
         /\ j # k => pool'[j].users = pool[j].users
         /\ pool'[k].users = r.users \cup {w}
  <2>1. \A j \in 1..Len(pool) : pool'[j] = IF j = k THEN r2 ELSE pool[j]
    <3> HIDE DEF r2
    <3> QED BY SMTT(60), <1>2, <1>3
  <2>2. /\ r2.container = r.container /\ r2.layout = r.layout
        /\ r2.users = r.users \cup {w}
    BY DEF Record
  <2> HIDE DEF r2
  <2> QED BY <2>1, <2>2
<1>6. \A j \in 1..Len(pool) : \A u \in pool[j].users :
         u[1] \in Nodes /\ u[2] \in Networks /\ u = <<u[1], u[2]>>
  BY <1>2, UserFacts
<1>7. /\ r.container = Container(n, p)
      /\ OutputLayout(w).bytes <= r.layout.bytes \/ Deeper(w, r)
      /\ r.container \in {"non_padded", "padded"} =>
           \A u \in r.users : u[2] = n => u[1] \notin program[n][p].deps
  BY <1>1, AcceptsFacts DEF FirstFit, Candidates, OutputLayout
<1>8. \A m \in Networks, q \in Nodes : Container(m, q)' = Container(m, q)
  BY DEF Container
<1>9. w[1] = p /\ w[2] = n
  OBVIOUS
<1>10. UsersPlaced'
  <2> SUFFICES ASSUME NEW j \in 1..Len(pool), NEW u \in pool'[j].users
               PROVE  /\ state'[u[2]] = "gone" \/ u[1] \in placed'[u[2]]
                      /\ Container(u[2], u[1])' = pool'[j].container
    BY <1>4 DEF UsersPlaced
  <2>1. CASE u \in pool[j].users
    <3>1. /\ state[u[2]] = "gone" \/ u[1] \in placed[u[2]]
          /\ Container(u[2], u[1]) = pool[j].container
      BY <2>1 DEF IInv, UsersPlaced
    <3> QED BY <3>1, <2>1, <1>5, <1>6, <1>8
  <2>2. CASE j = k /\ u = w
    BY <2>2, <1>5, <1>7, <1>8, <1>9
  <2> QED BY <2>1, <2>2, <1>5
<1>11. PaddedRecords'
  BY <1>1, <1>4, <1>5 DEF PaddedRecords
<1>12. FitsRecord'
  <2> SUFFICES ASSUME NEW j \in 1..Len(pool), NEW u \in pool'[j].users
               PROVE  OutputLayout(u).bytes <= pool'[j].layout.bytes \/ Deeper(u, pool'[j])
    BY <1>4 DEF FitsRecord, OutputLayout, Deeper
  <2>1. CASE u \in pool[j].users
    BY <2>1, <1>5 DEF IInv, FitsRecord, Deeper
  <2>2. CASE j = k /\ u = w
    BY <2>2, <1>5, <1>7 DEF Deeper
  <2> QED BY <2>1, <2>2, <1>5
<1>13. NoConflictingSharing'
  <2> SUFFICES ASSUME NEW j \in 1..Len(pool'),
                      pool'[j].container \in {"non_padded", "padded"},
                      NEW u \in pool'[j].users, NEW v \in pool'[j].users,
                      u[2] = v[2], u # v
               PROVE  u[1] \notin program'[u[2]][v[1]].deps
    BY SMTT(60) DEF NoConflictingSharing
  <2>0. j \in 1..Len(pool) /\ pool[j].container \in {"non_padded", "padded"}
    BY <1>4, <1>5
  <2>1. CASE u \in pool[j].users /\ v \in pool[j].users
    BY <2>0, <2>1 DEF IInv, NoConflictingSharing
  <2>2. CASE j = k /\ v = w /\ u \in r.users
    BY <2>0, <2>2, <1>7, <1>9
  <2>3. CASE j = k /\ u = w /\ v \in r.users
    <3>1. v[1] \notin program[n][p].deps
      BY <2>0, <2>3, <1>7, <1>9
    <3>2. Container(n, v[1]) = r.container
      BY <2>3, <1>9 DEF IInv, UsersPlaced
    <3>3. Pooled(program[n][v[1]]) /\ Pooled(program[n][p])
      <4>1. /\ v[1] \in Nodes /\ Container(n, p) = r.container
            /\ r.container \in {"non_padded", "padded"}
        BY <2>0, <2>3, <1>6, <1>7
      <4> QED BY <3>2, <4>1, <1>1, ContainerFacts
    <3>4. program[n] \in Programs
      BY <1>1 DEF PoolTypeOK
    <3> QED BY <3>1, <3>3, <3>4, <1>6, <1>9, <2>3, ProgramsAssumption
  <2>4. pool'[j].users = IF j = k THEN r.users \cup {w} ELSE pool[j].users
    BY <2>0, <1>5
  <2>5. program' = program /\ (j = k => pool[j].users = r.users)
    OBVIOUS
  <2> HIDE DEF r, w
  <2> QED BY <2>1, <2>2, <2>3, <2>4, <2>5
<1> QED BY <1>4, <1>10, <1>11, <1>12, <1>13

(* A record is created for its first user. *)
LEMMA CreateStep ==
    ASSUME IInv, NEW n \in Networks, NEW p \in Nodes, NEW c,
           c = Container(n, p), c # "none",
           pool' = Append(pool, Record(c, program[n][p].layout, {<<p, n>>}, n)),
           program' = program, p \in placed'[n],
           \A m \in Networks : placed[m] \subseteq placed'[m],
           \A m \in Networks : state[m] = "gone" => state'[m] = "gone"
    PROVE  /\ pool' \in Seq(RecordType)
           /\ UsersPlaced' /\ PaddedRecords' /\ NoConflictingSharing' /\ FitsRecord'
<1> DEFINE w == <<p, n>>
           l == program[n][p].layout
           r2 == Record(c, l, {w}, n)
           K == Len(pool)
<1>1. PoolTypeOK /\ pool \in Seq(RecordType) /\ K \in Nat
  BY DEF IInv, PoolTypeOK
<1>2. /\ c \in {"non_padded", "padded", "across"}
      /\ l \in Layouts /\ l.bytes \in Nat
      /\ c = "padded" => l.kind = "padded"
  BY <1>1, ContainerFacts DEF NodeRecord, LayoutRecord
<1>3. r2 \in RecordType
  BY <1>2 DEF Record, RecordType
<1>4. /\ r2.container = c /\ r2.layout = l /\ r2.users = {w}
  BY DEF Record
<1>5. /\ pool' \in Seq(RecordType) /\ Len(pool') = K + 1
      /\ \A j \in 1..K : pool'[j] = pool[j]
      /\ pool'[K + 1] = r2
  <2> HIDE DEF r2
  <2> QED BY <1>1, <1>3 DEF r2
<1>6. \A j \in 1..Len(pool') : j \in 1..K \/ j = K + 1
  BY <1>1, <1>5
<1>7. \A m \in Networks, q \in Nodes : Container(m, q)' = Container(m, q)
  BY DEF Container
<1>8. \A j \in 1..K : \A u \in pool[j].users : u[1] \in Nodes /\ u[2] \in Networks
  BY <1>1, UserFacts
<1>9. w[1] = p /\ w[2] = n
  OBVIOUS
<1> HIDE DEF r2, w, l, K
<1>10. UsersPlaced'
  <2> SUFFICES ASSUME NEW j \in 1..Len(pool'), NEW u \in pool'[j].users
               PROVE  /\ state'[u[2]] = "gone" \/ u[1] \in placed'[u[2]]
                      /\ Container(u[2], u[1])' = pool'[j].container
    BY DEF UsersPlaced
  <2>1. CASE j \in 1..K
    <3>1. /\ state[u[2]] = "gone" \/ u[1] \in placed[u[2]]
          /\ Container(u[2], u[1]) = pool[j].container
      BY <2>1, <1>5 DEF IInv, UsersPlaced, K
    <3> QED BY <3>1, <2>1, <1>5, <1>7, <1>8
  <2>2. CASE j = K + 1
    BY <2>2, <1>4, <1>5, <1>7, <1>9
  <2> QED BY <2>1, <2>2, <1>6
<1>11. PaddedRecords'
  BY <1>2, <1>4, <1>5, <1>6 DEF IInv, PaddedRecords, K
<1>12. FitsRecord'
  <2> SUFFICES ASSUME NEW j \in 1..Len(pool'), NEW u \in pool'[j].users
               PROVE  OutputLayout(u).bytes <= pool'[j].layout.bytes \/ Deeper(u, pool'[j])
    BY DEF FitsRecord, OutputLayout, Deeper
  <2>1. CASE j \in 1..K
    BY <2>1, <1>5 DEF IInv, FitsRecord, K
  <2>2. CASE j = K + 1
    <3>1. pool'[j].layout = l /\ u = w
      BY <2>2, <1>4, <1>5
    <3>2. OutputLayout(w) = l
      BY <1>9 DEF OutputLayout, l
    <3>3. OutputLayout(u).bytes <= pool'[j].layout.bytes
      BY ONLY <3>1, <3>2, <1>2
    <3> QED BY <3>3
  <2> QED BY <2>1, <2>2, <1>6
<1>13. NoConflictingSharing'
  <2>1. ASSUME NEW j \in 1..Len(pool')
        PROVE  \/ j \in 1..K /\ pool'[j] = pool[j]
               \/ pool'[j].users = {w}
    BY <1>4, <1>5, <1>6
  <2>2. \A j \in 1..K : pool[j].container \in {"non_padded", "padded"} =>
           \A u, v \in pool[j].users :
              u[2] = v[2] /\ u # v => u[1] \notin program'[u[2]][v[1]].deps
    BY DEF IInv, NoConflictingSharing, K
  <2>3. \A j \in 1..Len(pool') : pool'[j].container \in {"non_padded", "padded"} =>
           \A u, v \in pool'[j].users :
              u[2] = v[2] /\ u # v => u[1] \notin program'[u[2]][v[1]].deps
    <3> TAKE j \in 1..Len(pool')
    <3>1. CASE j \in 1..K /\ pool'[j] = pool[j]
      BY ONLY <2>2, <3>1
    <3>2. CASE pool'[j].users = {w}
      BY ONLY <3>2
    <3> QED BY ONLY <2>1, <3>1, <3>2, j \in 1..Len(pool')
  <2> QED BY ONLY <2>3 DEF NoConflictingSharing
<1> QED BY <1>5, <1>10, <1>11, <1>12, <1>13

(* No record changes, and no program that a user of a record depends on.     *)
LEMMA SamePoolStep ==
    ASSUME IInv, pool' = pool,
           \A m \in Networks :
              /\ placed[m] # {} \/ state[m] = "gone" => program'[m] = program[m]
              /\ placed[m] \subseteq placed'[m]
              /\ state[m] = "gone" => state'[m] = "gone"
    PROVE  UsersPlaced' /\ PaddedRecords' /\ NoConflictingSharing' /\ FitsRecord'
<1>1. \A k \in 1..Len(pool) : \A u \in pool[k].users :
         u[1] \in Nodes /\ u[2] \in Networks
  BY UserFacts DEF IInv, PoolTypeOK
<1>2. \A k \in 1..Len(pool) : \A u \in pool[k].users : program'[u[2]] = program[u[2]]
  BY <1>1 DEF IInv, UsersPlaced
<1>3. UsersPlaced'
  <2> SUFFICES ASSUME NEW k \in 1..Len(pool), NEW u \in pool[k].users
               PROVE  /\ state'[u[2]] = "gone" \/ u[1] \in placed'[u[2]]
                      /\ Container(u[2], u[1])' = pool[k].container
    BY DEF UsersPlaced
  <2>1. /\ state[u[2]] = "gone" \/ u[1] \in placed[u[2]]
        /\ Container(u[2], u[1]) = pool[k].container
    BY DEF IInv, UsersPlaced
  <2>2. Container(u[2], u[1])' = Container(u[2], u[1])
    BY <1>2 DEF Container
  <2> QED BY <2>1, <2>2, <1>1
<1>4. PaddedRecords'
  BY DEF IInv, PaddedRecords
<1>5. FitsRecord'
  BY <1>2 DEF IInv, FitsRecord, OutputLayout, Deeper
<1>6. NoConflictingSharing'
  BY <1>2 DEF IInv, NoConflictingSharing
<1> QED BY <1>3, <1>4, <1>5, <1>6

-----------------------------------------------------------------------------
(* The variables other than the pool keep their types and a network that was *)
(* not started has placed nothing.                                           *)
LEMMA OtherTypes ==
    ASSUME IInv, [Next]_vars
    PROVE  /\ pool' \in Seq(RecordType) => PoolTypeOK'
           /\ NothingPlacedYet'
<1> USE DEF IInv, PoolTypeOK, NothingPlacedYet
<1>1. ASSUME NEW n \in Networks, StartBuild(n)
      PROVE  (pool' \in Seq(RecordType) => PoolTypeOK') /\ NothingPlacedYet'
  BY <1>1 DEF StartBuild
<1>2. ASSUME NEW n \in Networks, DestroyNetwork(n)
      PROVE  (pool' \in Seq(RecordType) => PoolTypeOK') /\ NothingPlacedYet'
  BY <1>2 DEF DestroyNetwork, OwnOnly
<1>3. ASSUME NEW n \in Networks, NEW p \in Nodes, ReuseRecord(n, p)
      PROVE  (pool' \in Seq(RecordType) => PoolTypeOK') /\ NothingPlacedYet'
  BY <1>3 DEF ReuseRecord, NextToPlace, Placed
<1>4. ASSUME NEW n \in Networks, NEW p \in Nodes, ReinterpretThrows(n, p)
      PROVE  (pool' \in Seq(RecordType) => PoolTypeOK') /\ NothingPlacedYet'
  BY <1>4 DEF ReinterpretThrows, NextToPlace, Unwinds, OwnOnly
<1>5. ASSUME NEW n \in Networks, NEW p \in Nodes, NewRecord(n, p)
      PROVE  (pool' \in Seq(RecordType) => PoolTypeOK') /\ NothingPlacedYet'
  BY <1>5 DEF NewRecord, NextToPlace, Placed
<1>6. ASSUME NEW n \in Networks, NEW p \in Nodes, NewOwnMemory(n, p)
      PROVE  (pool' \in Seq(RecordType) => PoolTypeOK') /\ NothingPlacedYet'
  BY <1>6 DEF NewOwnMemory, NextToPlace, Placed
<1>7. ASSUME NEW n \in Networks, NEW p \in Nodes, BuildThrows(n, p)
      PROVE  (pool' \in Seq(RecordType) => PoolTypeOK') /\ NothingPlacedYet'
  BY <1>7 DEF BuildThrows, NextToPlace, Unwinds, OwnOnly
<1>8. ASSUME NEW n \in Networks, NEW p \in Nodes, KeepOutput(n, p)
      PROVE  (pool' \in Seq(RecordType) => PoolTypeOK') /\ NothingPlacedYet'
  BY <1>8 DEF KeepOutput
<1>9. ASSUME NEW n \in Networks, NEW p \in Nodes, DropOutput(n, p)
      PROVE  (pool' \in Seq(RecordType) => PoolTypeOK') /\ NothingPlacedYet'
  BY <1>9 DEF DropOutput
<1>10. ASSUME NEW m \in UserMemories, AllocateUserMemory(m)
       PROVE  (pool' \in Seq(RecordType) => PoolTypeOK') /\ NothingPlacedYet'
  BY <1>10 DEF AllocateUserMemory, networkVars
<1>11. ASSUME NEW m \in UserMemories, ReleaseUserMemory(m)
       PROVE  (pool' \in Seq(RecordType) => PoolTypeOK') /\ NothingPlacedYet'
  BY <1>11 DEF ReleaseUserMemory, networkVars
<1>12. CASE UNCHANGED vars
  BY <1>12 DEF vars
<1> QED
  BY <1>1, <1>2, <1>3, <1>4, <1>5, <1>6, <1>7, <1>8, <1>9, <1>10, <1>11, <1>12
  DEF Next

(* The parts of the invariant that speak of the records, action by action.   *)
PoolInv == /\ pool \in Seq(RecordType)
           /\ UsersPlaced /\ PaddedRecords /\ NoConflictingSharing /\ FitsRecord

LEMMA PoolStep ==
    ASSUME IInv, [Next]_vars
    PROVE  PoolInv'
<1>1. pool \in Seq(RecordType)
  BY DEF IInv, PoolTypeOK
<1>2. ASSUME NEW n \in Networks, StartBuild(n)
      PROVE  PoolInv'
  <2>1. \A m \in Networks :
           /\ placed[m] # {} \/ state[m] = "gone" => program'[m] = program[m]
           /\ placed[m] \subseteq placed'[m]
           /\ state[m] = "gone" => state'[m] = "gone"
    BY <1>2 DEF StartBuild, IInv, PoolTypeOK, NothingPlacedYet
  <2> QED BY <2>1, <1>1, <1>2, SamePoolStep DEF StartBuild, PoolInv
<1>3. ASSUME pool' = pool, program' = program,
             \A m \in Networks : /\ placed[m] \subseteq placed'[m]
                                 /\ state[m] = "gone" => state'[m] = "gone"
      PROVE  PoolInv'
  BY <1>1, <1>3, SamePoolStep DEF PoolInv
<1>4. ASSUME NEW n \in Networks, DestroyNetwork(n)
      PROVE  PoolInv'
  BY <1>3, <1>4 DEF DestroyNetwork, IInv, PoolTypeOK
<1>5. ASSUME NEW n \in Networks, NEW p \in Nodes, ReuseRecord(n, p)
      PROVE  PoolInv'
  <2>1. PICK k \in 1..Len(pool) : /\ FirstFit(Container(n, p), n, p, k)
                                  /\ pool' = AddUser(k, <<p, n>>)
    BY <1>5 DEF ReuseRecord
  <2>2. /\ program' = program /\ p \in placed'[n]
        /\ \A m \in Networks : /\ placed[m] \subseteq placed'[m]
                               /\ state[m] = "gone" => state'[m] = "gone"
    BY <1>5 DEF ReuseRecord, NextToPlace, Placed, IInv, PoolTypeOK
  <2> QED BY <2>1, <2>2, ShareStep DEF PoolInv
<1>6. ASSUME NEW n \in Networks, NEW p \in Nodes, ReinterpretThrows(n, p)
      PROVE  PoolInv'
  <2>1. PICK k \in 1..Len(pool) : /\ FirstFit(Container(n, p), n, p, k)
                                  /\ pool' = AddUser(k, <<p, n>>)
    BY <1>6 DEF ReinterpretThrows
  <2>2. /\ program' = program /\ state'[n] = "gone"
        /\ \A m \in Networks : /\ placed[m] \subseteq placed'[m]
                               /\ state[m] = "gone" => state'[m] = "gone"
    BY <1>6 DEF ReinterpretThrows, NextToPlace, Unwinds, IInv, PoolTypeOK
  <2> QED BY <2>1, <2>2, ShareStep DEF PoolInv
<1>7. ASSUME NEW n \in Networks, NEW p \in Nodes, NewRecord(n, p)
      PROVE  PoolInv'
  <2>1. /\ Container(n, p) # "none"
        /\ pool' = Append(pool, Record(Container(n, p), program[n][p].layout,
                                       {<<p, n>>}, n))
    BY <1>7 DEF NewRecord
  <2>2. /\ program' = program /\ p \in placed'[n]
        /\ \A m \in Networks : /\ placed[m] \subseteq placed'[m]
                               /\ state[m] = "gone" => state'[m] = "gone"
    BY <1>7 DEF NewRecord, NextToPlace, Placed, IInv, PoolTypeOK
  <2> QED BY <2>1, <2>2, CreateStep DEF PoolInv
<1>8. ASSUME NEW n \in Networks, NEW p \in Nodes, NewOwnMemory(n, p)
      PROVE  PoolInv'
  BY <1>3, <1>8 DEF NewOwnMemory, NextToPlace, Placed, IInv, PoolTypeOK
<1>9. ASSUME NEW n \in Networks, NEW p \in Nodes, BuildThrows(n, p)
      PROVE  PoolInv'
  BY <1>3, <1>9 DEF BuildThrows, NextToPlace, Unwinds, IInv, PoolTypeOK
<1>10. ASSUME NEW n \in Networks, NEW p \in Nodes,
              KeepOutput(n, p) \/ DropOutput(n, p)
       PROVE  PoolInv'
  BY <1>3, <1>10 DEF KeepOutput, DropOutput
<1>11. ASSUME NEW m \in UserMemories, AllocateUserMemory(m) \/ ReleaseUserMemory(m)
       PROVE  PoolInv'
  BY <1>3, <1>11 DEF AllocateUserMemory, ReleaseUserMemory, networkVars
<1>12. CASE UNCHANGED vars
  BY <1>3, <1>12 DEF vars
<1> QED
  BY <1>2, <1>4, <1>5, <1>6, <1>7, <1>8, <1>9, <1>10, <1>11, <1>12 DEF Next

-----------------------------------------------------------------------------
THEOREM Invariance == Spec => []IInv
<1>1. IInv /\ [Next]_vars => IInv'
  BY OtherTypes, PoolStep DEF PoolInv, IInv
<1> QED BY InitIInv, <1>1, PTL DEF Spec

(* Records, networks and outputs keep their types: every record is in one of *)
(* the three containers and used by nodes of networks only, and what a user  *)
(* holds has not been given back (memory_impl::~memory_impl).                *)
THEOREM Types == Spec => []PoolTypeOK
<1>1. IInv => PoolTypeOK
  BY DEF IInv
<1> QED BY Invariance, <1>1, PTL

(* Two primitives of one network with a memory dependency between them never *)
(* share a buffer of the pool, whatever is built, fails or is destroyed in   *)
(* between (memory_pool::get_memory with its three lookups).                 *)
THEOREM NoConflict == Spec => []NoConflictingSharing
<1>1. IInv => NoConflictingSharing
  BY DEF IInv
<1> QED BY Invariance, <1>1, PTL

(* A buffer of the pool is large enough for each primitive it is given to:   *)
(* the three lookups compare enough for that, but for the depth of padded    *)
(* layouts (get_from_padded_pool).                                           *)
THEOREM Fits == Spec => []FitsRecord
<1>1. IInv => FitsRecord
  BY DEF IInv
<1> QED BY Invariance, <1>1, PTL

-----------------------------------------------------------------------------
(* Which records a primitive uses.  The record it is given is the only one,  *)
(* for it had none before: nothing is placed twice, and what a network that  *)
(* failed left in the records is not of a network that goes on.              *)
Uses(n, p, k) == k \in 1..Len(pool) /\ <<p, n>> \in pool[k].users

OwnPlaced ==
    \A n \in Networks, p \in Nodes :
        <<p, n>> \in own => state[n] = "gone" \/ p \in placed[n]

OnePlace ==
    \A n \in Networks, p \in Nodes :
        state[n] # "gone" /\ p \in placed[n] =>
            IF <<p, n>> \in own THEN \A j : ~Uses(n, p, j)
            ELSE \E k : \A j : Uses(n, p, j) <=> j = k

BInv == IInv /\ OwnPlaced /\ OnePlace

(* A record shared, or created, adds one user to one record. *)
LEMMA AddUserUses ==
    ASSUME PoolTypeOK, NEW n \in Networks, NEW p \in Nodes, NEW k \in 1..Len(pool),
           pool' = AddUser(k, <<p, n>>)
    PROVE  \A m \in Networks, q \in Nodes : \A j :
              Uses(m, q, j)' <=> Uses(m, q, j) \/ (m = n /\ q = p /\ j = k)
<1> DEFINE r2 == Record(pool[k].container, pool[k].layout, pool[k].users \cup {<<p, n>>},
                        pool[k].network)
<1>1. pool \in Seq(RecordType)
  BY DEF PoolTypeOK
<1>2. pool' = [pool EXCEPT ![k] = r2]
  BY DEF AddUser
<1>3. r2.users = pool[k].users \cup {<<p, n>>}
  BY DEF Record
<1>4. Len(pool') = Len(pool) /\ \A j \in 1..Len(pool) : pool'[j] = IF j = k THEN r2 ELSE pool[j]
  <2> HIDE DEF r2
  <2> QED BY SMTT(60), <1>1, <1>2
<1> HIDE DEF r2
<1> SUFFICES ASSUME NEW m \in Networks, NEW q \in Nodes, NEW j
             PROVE  Uses(m, q, j)' <=> Uses(m, q, j) \/ (m = n /\ q = p /\ j = k)
  OBVIOUS
<1>5. CASE j = k
  BY <1>3, <1>4, <1>5 DEF Uses
<1>6. CASE j # k
  BY <1>4, <1>6 DEF Uses
<1> QED BY <1>5, <1>6

LEMMA AppendUses ==
    ASSUME PoolTypeOK, NEW n \in Networks, NEW p \in Nodes, NEW c, NEW l,
           pool' = Append(pool, Record(c, l, {<<p, n>>}, n))
    PROVE  \A m \in Networks, q \in Nodes : \A j :
              Uses(m, q, j)' <=> Uses(m, q, j) \/ (m = n /\ q = p /\ j = Len(pool) + 1)
<1> DEFINE r2 == Record(c, l, {<<p, n>>}, n)
<1>1. pool \in Seq(RecordType)
  BY DEF PoolTypeOK
<1>2. r2.users = {<<p, n>>}
  BY DEF Record
<1>3. /\ Len(pool') = Len(pool) + 1 /\ Len(pool) \in Nat
      /\ \A j \in 1..Len(pool) : pool'[j] = pool[j]
      /\ pool'[Len(pool) + 1] = r2
  <2> HIDE DEF r2
  <2> QED BY <1>1 DEF r2
<1> HIDE DEF r2
<1> SUFFICES ASSUME NEW m \in Networks, NEW q \in Nodes, NEW j
             PROVE  Uses(m, q, j)' <=> Uses(m, q, j) \/ (m = n /\ q = p /\ j = Len(pool) + 1)
  OBVIOUS
<1>4. /\ j \in 1..Len(pool') <=> j \in 1..Len(pool) \/ j = Len(pool) + 1
      /\ Len(pool) + 1 \notin 1..Len(pool)
  BY <1>3
<1>5. CASE j = Len(pool) + 1
  BY <1>2, <1>3, <1>4, <1>5 DEF Uses
<1>6. CASE j # Len(pool) + 1
  BY <1>3, <1>4, <1>6 DEF Uses
<1> QED BY <1>5, <1>6

(* The three ways a primitive gets its place, ... *)
LEMMA PlacedInRecord ==
    ASSUME BInv, NEW n \in Networks, NEW p \in Nodes, NEW k \in Nat,
           NextToPlace(n, p), Placed(n, p), own' = own,
           \A m \in Networks, q \in Nodes : \A j :
              Uses(m, q, j)' <=> Uses(m, q, j) \/ (m = n /\ q = p /\ j = k)
    PROVE  OwnPlaced' /\ OnePlace'
<1>1. /\ state[n] = "building" /\ p \notin placed[n] /\ PoolTypeOK
      /\ \A m \in Networks : placed'[m] = IF m = n THEN placed[n] \cup {p} ELSE placed[m]
      /\ \A m \in Networks : state'[m] = "gone" <=> state[m] = "gone"
  BY DEF NextToPlace, Placed, BInv, IInv, PoolTypeOK
<1>2. \A j : ~Uses(n, p, j)
  BY <1>1 DEF BInv, IInv, UsersPlaced, Uses
<1>3. OwnPlaced'
  BY <1>1 DEF BInv, OwnPlaced
<1>4. OnePlace'
  <2> SUFFICES ASSUME NEW m \in Networks, NEW q \in Nodes,
                      state'[m] # "gone", q \in placed'[m]
               PROVE  IF <<q, m>> \in own' THEN \A j : ~Uses(m, q, j)'
                      ELSE \E i : \A j : Uses(m, q, j)' <=> j = i
    BY DEF OnePlace
  <2>1. CASE m = n /\ q = p
    <3>1. <<p, n>> \notin own
      BY <1>1 DEF BInv, OwnPlaced
    <3>2. \A j : Uses(n, p, j)' <=> j = k
      BY <1>2
    <3> QED BY <2>1, <3>1, <3>2
  <2>2. CASE ~(m = n /\ q = p)
    <3>1. state[m] # "gone" /\ q \in placed[m]
      BY <1>1, <2>2
    <3>2. IF <<q, m>> \in own THEN \A j : ~Uses(m, q, j)
          ELSE \E i : \A j : Uses(m, q, j) <=> j = i
      BY <3>1 DEF BInv, OnePlace
    <3>3. \A j : Uses(m, q, j)' <=> Uses(m, q, j)
      BY <2>2
    <3> QED BY <3>2, <3>3
  <2> QED BY <2>1, <2>2
<1> QED BY <1>3, <1>4

LEMMA PlacedInOwn ==
    ASSUME BInv, NEW n \in Networks, NEW p \in Nodes, NewOwnMemory(n, p)
    PROVE  OwnPlaced' /\ OnePlace'
<1>1. /\ state[n] = "building" /\ p \notin placed[n] /\ PoolTypeOK
      /\ \A m \in Networks : placed'[m] = IF m = n THEN placed[n] \cup {p} ELSE placed[m]
      /\ \A m \in Networks : state'[m] = "gone" <=> state[m] = "gone"
      /\ own' = own \cup {<<p, n>>} /\ pool' = pool
  BY DEF NewOwnMemory, NextToPlace, Placed, BInv, IInv, PoolTypeOK
<1>2. \A j : ~Uses(n, p, j)
  BY <1>1 DEF BInv, IInv, UsersPlaced, Uses
<1>3. \A m \in Networks, q \in Nodes : <<q, m>> \in own' <=> <<q, m>> \in own \/ (m = n /\ q = p)
  BY <1>1
<1>4. \A m, q, j : Uses(m, q, j)' <=> Uses(m, q, j)
  BY <1>1 DEF Uses
<1>5. OwnPlaced'
  BY <1>1, <1>3 DEF BInv, OwnPlaced
<1>6. OnePlace'
  <2> SUFFICES ASSUME NEW m \in Networks, NEW q \in Nodes,
                      state'[m] # "gone", q \in placed'[m]
               PROVE  IF <<q, m>> \in own' THEN \A j : ~Uses(m, q, j)'
                      ELSE \E i : \A j : Uses(m, q, j)' <=> j = i
    BY DEF OnePlace
  <2>1. CASE m = n /\ q = p
    BY <1>2, <1>3, <1>4, <2>1
  <2>2. CASE ~(m = n /\ q = p)
    <3>1. state[m] # "gone" /\ q \in placed[m]
      BY <1>1, <2>2
    <3>2. IF <<q, m>> \in own THEN \A j : ~Uses(m, q, j)
          ELSE \E i : \A j : Uses(m, q, j) <=> j = i
      BY <3>1 DEF BInv, OnePlace
    <3> QED BY <1>3, <1>4, <2>2, <3>2
  <2> QED BY <2>1, <2>2
<1> QED BY <1>5, <1>6

(* ... and everything else: what a network that is not gone uses stays.      *)
LEMMA PlacesKept ==
    ASSUME BInv,
           \A m \in Networks : /\ placed'[m] = placed[m]
                               /\ state[m] = "gone" => state'[m] = "gone",
           \A m \in Networks, q \in Nodes : state'[m] # "gone" =>
              /\ <<q, m>> \in own' <=> <<q, m>> \in own
              /\ \A j : Uses(m, q, j)' <=> Uses(m, q, j)
    PROVE  OwnPlaced' /\ OnePlace'
<1>1. OwnPlaced'
  BY DEF BInv, OwnPlaced
<1>2. OnePlace'
  <2> SUFFICES ASSUME NEW m \in Networks, NEW q \in Nodes,
                      state'[m] # "gone", q \in placed'[m]
               PROVE  IF <<q, m>> \in own' THEN \A j : ~Uses(m, q, j)'
                      ELSE \E i : \A j : Uses(m, q, j)' <=> j = i
    BY DEF OnePlace
  <2>1. IF <<q, m>> \in own THEN \A j : ~Uses(m, q, j)
        ELSE \E i : \A j : Uses(m, q, j) <=> j = i
    BY DEF BInv, OnePlace
  <2> QED BY <2>1
<1> QED BY <1>1, <1>2

LEMMA PlaceStep ==
    ASSUME BInv, [Next]_vars
    PROVE  OwnPlaced' /\ OnePlace'
<1>1. PoolTypeOK
  BY DEF BInv, IInv
<1>2. ASSUME pool' = pool, placed' = placed,
             \A m \in Networks : state[m] = "gone" => state'[m] = "gone",
             \A m \in Networks, q \in Nodes :
                state'[m] # "gone" => (<<q, m>> \in own' <=> <<q, m>> \in own)
      PROVE  OwnPlaced' /\ OnePlace'
  <2>1. \A m, q, j : Uses(m, q, j)' <=> Uses(m, q, j)
    BY <1>2 DEF Uses
  <2> QED BY <1>2, <2>1, PlacesKept
<1>3. ASSUME NEW n \in Networks, StartBuild(n)
      PROVE  OwnPlaced' /\ OnePlace'
  BY <1>1, <1>2, <1>3 DEF StartBuild, PoolTypeOK
<1>4. ASSUME NEW n \in Networks, DestroyNetwork(n)
      PROVE  OwnPlaced' /\ OnePlace'
  BY <1>1, <1>2, <1>4 DEF DestroyNetwork, OwnOnly, PoolTypeOK
<1>5. ASSUME NEW n \in Networks, NEW p \in Nodes, ReuseRecord(n, p)
      PROVE  OwnPlaced' /\ OnePlace'
  <2>1. PICK k \in 1..Len(pool) : pool' = AddUser(k, <<p, n>>)
    BY <1>5 DEF ReuseRecord
  <2>2. NextToPlace(n, p) /\ Placed(n, p) /\ own' = own
    BY <1>5 DEF ReuseRecord
  <2>3. \A m \in Networks, q \in Nodes : \A j :
           Uses(m, q, j)' <=> Uses(m, q, j) \/ (m = n /\ q = p /\ j = k)
    BY <1>1, <2>1, AddUserUses
  <2>4. k \in Nat
    OBVIOUS
  <2> QED BY <2>2, <2>3, <2>4, PlacedInRecord
<1>6. ASSUME NEW n \in Networks, NEW p \in Nodes, ReinterpretThrows(n, p)
      PROVE  OwnPlaced' /\ OnePlace'
  <2>1. PICK k \in 1..Len(pool) : pool' = AddUser(k, <<p, n>>)
    BY <1>6 DEF ReinterpretThrows
  <2>2. /\ placed' = placed /\ state' = [state EXCEPT ![n] = "gone"]
        /\ own' = own \ OwnOnly(n)
    BY <1>6 DEF ReinterpretThrows, Unwinds
  <2>3. \A m \in Networks : state'[m] = IF m = n THEN "gone" ELSE state[m]
    BY <1>1, <2>2 DEF PoolTypeOK
  <2>4. \A m \in Networks, q \in Nodes : m # n => (<<q, m>> \in own' <=> <<q, m>> \in own)
    BY <2>2 DEF OwnOnly
  <2>5. \A m \in Networks, q \in Nodes : m # n => \A j : Uses(m, q, j)' <=> Uses(m, q, j)
    BY <1>1, <2>1, AddUserUses
  <2> QED BY <2>2, <2>3, <2>4, <2>5, PlacesKept
<1>7. ASSUME NEW n \in Networks, NEW p \in Nodes, NewRecord(n, p)
      PROVE  OwnPlaced' /\ OnePlace'
  <2>1. /\ pool' = Append(pool, Record(Container(n, p), program[n][p].layout, {<<p, n>>}, n))
        /\ NextToPlace(n, p) /\ Placed(n, p) /\ own' = own
    BY <1>7 DEF NewRecord
  <2>2. PICK i \in Nat : i = Len(pool) + 1
    BY <1>1 DEF PoolTypeOK
  <2>3. \A m \in Networks, q \in Nodes : \A j :
           Uses(m, q, j)' <=> Uses(m, q, j) \/ (m = n /\ q = p /\ j = i)
    BY <1>1, <2>1, <2>2, AppendUses
  <2> QED BY <2>1, <2>3, PlacedInRecord
<1>8. ASSUME NEW n \in Networks, NEW p \in Nodes, NewOwnMemory(n, p)
      PROVE  OwnPlaced' /\ OnePlace'
  BY <1>8, PlacedInOwn
<1>9. ASSUME NEW n \in Networks, NEW p \in Nodes, BuildThrows(n, p)
      PROVE  OwnPlaced' /\ OnePlace'
  BY <1>1, <1>2, <1>9 DEF BuildThrows, Unwinds, OwnOnly, PoolTypeOK
<1>10. ASSUME NEW n \in Networks, NEW p \in Nodes, KeepOutput(n, p) \/ DropOutput(n, p)
       PROVE  OwnPlaced' /\ OnePlace'
  BY <1>1, <1>2, <1>10 DEF KeepOutput, DropOutput, PoolTypeOK
<1>11. ASSUME NEW m \in UserMemories, AllocateUserMemory(m) \/ ReleaseUserMemory(m)
       PROVE  OwnPlaced' /\ OnePlace'
  BY <1>2, <1>11 DEF AllocateUserMemory, ReleaseUserMemory, networkVars
<1>12. CASE UNCHANGED vars
  BY <1>2, <1>12 DEF vars
<1> QED
  BY <1>3, <1>4, <1>5, <1>6, <1>7, <1>8, <1>9, <1>10, <1>11, <1>12 DEF Next

(* Every primitive of a network being built or built has one buffer, a       *)
(* record of the pool or memory of its own, and none before it is placed,    *)
(* whatever became of other networks (primitive_inst::allocate_output).      *)
THEOREM OneBuffer == Spec => []OneBufferEach
<1>1. Init => BInv
  BY InitIInv DEF Init, BInv, OwnPlaced, OnePlace
<1>2. BInv /\ [Next]_vars => BInv'
  BY OtherTypes, PoolStep, PlaceStep DEF PoolInv, IInv, BInv
<1>3. BInv => OneBufferEach
  <2> SUFFICES ASSUME BInv, NEW n \in Networks, NEW p \in Nodes,
                      state[n] \in {"building", "built"}
               PROVE  LET records == {k \in 1..Len(pool) : <<p, n>> \in pool[k].users} IN
                      IF p \notin placed[n] THEN records = {} /\ <<p, n>> \notin own
                      ELSE IF <<p, n>> \in own THEN records = {} ELSE Cardinality(records) = 1
    BY DEF OneBufferEach
  <2> DEFINE records == {k \in 1..Len(pool) : <<p, n>> \in pool[k].users}
  <2>1. \A j : j \in records <=> Uses(n, p, j)
    BY DEF Uses
  <2>2. CASE p \notin placed[n]
    <3>1. \A j : ~Uses(n, p, j)
      BY <2>2 DEF BInv, IInv, UsersPlaced, Uses
    <3>2. <<p, n>> \notin own
      BY <2>2 DEF BInv, OwnPlaced
    <3> QED BY <2>1, <2>2, <3>1, <3>2
  <2>3. CASE p \in placed[n] /\ <<p, n>> \in own
    BY <2>1, <2>3 DEF BInv, OnePlace
  <2>4. CASE p \in placed[n] /\ <<p, n>> \notin own
    <3>1. PICK k : \A j : Uses(n, p, j) <=> j = k
      BY <2>4 DEF BInv, OnePlace
    <3>2. records = {k}
      BY <2>1, <3>1
    <3> QED BY <2>4, <3>2, FS_Singleton
  <2> QED BY <2>2, <2>3, <2>4
<1> QED BY <1>1, <1>2, <1>3, PTL DEF Spec

-----------------------------------------------------------------------------
(* Sums.  The sum of the weights of a set is the number of its bricks, of    *)
(* which an element of weight w has w.                                       *)
Bricks(w, S) == {b \in S \X Nat : 1 <= b[2] /\ b[2] <= w[b[1]]}

Total(w, S) == Cardinality(Bricks(w, S))

Weighs(w, S) == IsFiniteSet(S) /\ \A x \in S : w[x] \in Nat

(* A nonempty set of natural numbers has a least element. *)
LEMMA LeastNatural ==
    ASSUME NEW S \in SUBSET Nat, S # {}
    PROVE  \E x \in S : \A y \in S : x <= y
<1>1. \E x \in S : \A y \in S : ~ (<<y, x>> \in OpToRel(<, Nat))
  BY NatLessThanWellFounded, WFMin, Zenon
<1>2. \A x, y \in Nat : y < x => <<y, x>> \in OpToRel(<, Nat)
  BY Zenon DEF OpToRel
<1>3. \A x, y \in Nat : y < x \/ x <= y
  OBVIOUS
<1> HIDE DEF OpToRel
<1> QED BY <1>1, <1>2, <1>3, Zenon

LEMMA OneTotal ==
    ASSUME NEW w, NEW x, w[x] \in Nat
    PROVE  IsFiniteSet(Bricks(w, {x})) /\ Total(w, {x}) = w[x]
<1> DEFINE B == {x} \X (1..w[x])
<1>1. Bricks(w, {x}) = B
  BY DEF Bricks
<1>2. IsFiniteSet({x}) /\ Cardinality({x}) = 1
  BY FS_Singleton
<1>3. IsFiniteSet(1..w[x]) /\ Cardinality(1..w[x]) = w[x]
  BY SMTT(60), FS_Interval
<1>4. IsFiniteSet(B) /\ Cardinality(B) = 1 * w[x]
  <2> HIDE DEF B
  <2> QED BY <1>2, <1>3, FS_Product, ZenonT(60) DEF B
<1> QED BY <1>1, <1>4 DEF Total

LEMMA FiniteBricks ==
    ASSUME NEW w, NEW S, Weighs(w, S)
    PROVE  IsFiniteSet(Bricks(w, S)) /\ Total(w, S) \in Nat
<1> DEFINE f == [x \in S |-> Bricks(w, {x})]
           T == {Bricks(w, {x}) : x \in S}
<1>1. f \in Surjection(S, T)
  BY DEF Surjection
<1>2. IsFiniteSet(T)
  BY <1>1, FS_Surjection DEF Weighs
<1>3. \A b \in T : IsFiniteSet(b)
  BY OneTotal DEF Weighs
<1>4. Bricks(w, S) = UNION T
  BY DEF Bricks
<1>5. IsFiniteSet(UNION T)
  <2> HIDE DEF T
  <2> QED BY <1>2, <1>3, FS_UNION
<1> QED BY <1>4, <1>5, FS_CardinalityType DEF Total

(* Sums of disjoint sets add up. *)
LEMMA AddTotals ==
    ASSUME NEW w, NEW S, NEW T, Weighs(w, S), Weighs(w, T), S \cap T = {}
    PROVE  Weighs(w, S \cup T) /\ Total(w, S \cup T) = Total(w, S) + Total(w, T)
<1>1. Bricks(w, S \cup T) = Bricks(w, S) \cup Bricks(w, T)
  BY DEF Bricks
<1>2. Bricks(w, S) \cap Bricks(w, T) = {}
  BY DEF Bricks
<1>3. IsFiniteSet(Bricks(w, S)) /\ IsFiniteSet(Bricks(w, T))
  BY FiniteBricks
<1>4. Cardinality(Bricks(w, S) \cup Bricks(w, T))
        = Cardinality(Bricks(w, S)) + Cardinality(Bricks(w, T)) - Cardinality({})
  <2>1. Cardinality(Bricks(w, S) \cup Bricks(w, T))
          = Cardinality(Bricks(w, S)) + Cardinality(Bricks(w, T))
            - Cardinality(Bricks(w, S) \cap Bricks(w, T))
    BY <1>3, FS_Union
  <2> QED BY <1>2, <2>1
<1>5. Weighs(w, S \cup T)
  BY FS_Union DEF Weighs
<1>6. Total(w, S) \in Nat /\ Total(w, T) \in Nat
  BY FiniteBricks
<1>7. Total(w, S \cup T) = Total(w, S) + Total(w, T) - 0
  BY <1>1, <1>4, FS_EmptySet DEF Total
<1> QED BY <1>5, <1>6, <1>7

LEMMA SplitTotal ==
    ASSUME NEW w, NEW S, NEW T, Weighs(w, S), T \subseteq S
    PROVE  /\ Weighs(w, T) /\ Weighs(w, S \ T)
           /\ Total(w, S) = Total(w, T) + Total(w, S \ T)
           /\ Total(w, S) \in Nat /\ Total(w, T) \in Nat /\ Total(w, S \ T) \in Nat
<1>1. Weighs(w, T) /\ Weighs(w, S \ T)
  BY FS_Subset DEF Weighs
<1>2. T \cup (S \ T) = S /\ T \cap (S \ T) = {}
  OBVIOUS
<1>3. Total(w, T \cup (S \ T)) = Total(w, T) + Total(w, S \ T)
  BY <1>1, <1>2, AddTotals
<1> QED BY <1>1, <1>2, <1>3, FiniteBricks

LEMMA NoTotal ==
    ASSUME NEW w
    PROVE  Weighs(w, {}) /\ Total(w, {}) = 0
<1>1. Bricks(w, {}) = {}
  BY DEF Bricks
<1> QED BY <1>1, FS_EmptySet DEF Weighs, Total

(* Only the weights of the set's own elements count. *)
LEMMA SameTotal ==
    ASSUME NEW w, NEW v, NEW S, \A x \in S : w[x] = v[x]
    PROVE  Total(w, S) = Total(v, S) /\ (Weighs(w, S) <=> Weighs(v, S))
<1>1. Bricks(w, S) = Bricks(v, S)
  BY DEF Bricks
<1> QED BY <1>1 DEF Total, Weighs

(* The function MapThenFoldSet defines by recursion on the subsets of S.     *)
IsSum(f, w, S) ==
    f = [s \in SUBSET S |->
            IF s = {} THEN 0
            ELSE w[CHOOSE x \in s : TRUE] + f[s \ {CHOOSE x \in s : TRUE}]]

LEMMA SumExists ==
    ASSUME NEW w, NEW S, Weighs(w, S)
    PROVE  IsSum([s \in SUBSET S |-> Total(w, s)], w, S)
<1> DEFINE f == [s \in SUBSET S |-> Total(w, s)]
<1>1. ASSUME NEW s \in SUBSET S
      PROVE  Total(w, s) = IF s = {} THEN 0
                           ELSE w[CHOOSE x \in s : TRUE] + f[s \ {CHOOSE x \in s : TRUE}]
  <2>1. CASE s = {}
    BY <2>1, NoTotal
  <2>2. CASE s # {}
    <3>1. PICK x : x = CHOOSE y \in s : TRUE
      OBVIOUS
    <3>2. x \in s
      BY <2>2, <3>1
    <3>3. Weighs(w, s)
      BY SplitTotal
    <3>4. Total(w, s) = Total(w, {x}) + Total(w, s \ {x})
      BY <3>2, <3>3, SplitTotal
    <3>5. Total(w, {x}) = w[x]
      BY <3>2, OneTotal DEF Weighs
    <3>6. f[s \ {x}] = Total(w, s \ {x})
      OBVIOUS
    <3> HIDE DEF f
    <3> QED BY <2>2, <3>1, <3>4, <3>5, <3>6
  <2> QED BY <2>1, <2>2
<1> HIDE DEF f
<1>2. f = [s \in SUBSET S |->
             IF s = {} THEN 0
             ELSE w[CHOOSE x \in s : TRUE] + f[s \ {CHOOSE x \in s : TRUE}]]
  BY <1>1 DEF f
<1> QED BY <1>2 DEF f, IsSum

LEMMA SumUnique ==
    ASSUME NEW w, NEW S, Weighs(w, S), NEW f, IsSum(f, w, S)
    PROVE  f[S] = Total(w, S)
<1>1. \A s \in SUBSET S :
         f[s] = IF s = {} THEN 0
                ELSE w[CHOOSE x \in s : TRUE] + f[s \ {CHOOSE x \in s : TRUE}]
  BY DEF IsSum
<1> DEFINE Wrong == {s \in SUBSET S : f[s] # Total(w, s)}
           Sizes == {Cardinality(s) : s \in Wrong}
<1>2. \A s \in SUBSET S : IsFiniteSet(s) /\ Cardinality(s) \in Nat /\ Weighs(w, s)
  BY FS_Subset, FS_CardinalityType, SplitTotal DEF Weighs
<1>3. SUFFICES ASSUME Wrong # {} PROVE FALSE
  OBVIOUS
<1>4. Sizes \in SUBSET Nat /\ Sizes # {}
  BY <1>2, <1>3
<1>5. PICK c \in Sizes : \A d \in Sizes : c <= d
  <2> HIDE DEF Sizes
  <2> QED BY <1>4, LeastNatural
<1>6. PICK s \in Wrong : c = Cardinality(s)
  OBVIOUS
<1>7. s # {}
  BY <1>1, <1>6, NoTotal
<1>8. PICK x : x = CHOOSE y \in s : TRUE
  OBVIOUS
<1>9. x \in s /\ s \in SUBSET S
  BY <1>7, <1>8
<1>10. Cardinality(s \ {x}) = Cardinality(s) - 1
  BY <1>2, <1>9, FS_RemoveElement
<1>11. s \ {x} \notin Wrong
  <2>1. ASSUME s \ {x} \in Wrong PROVE FALSE
    <3>1. Cardinality(s) <= Cardinality(s \ {x})
      BY <1>5, <1>6, <2>1
    <3> QED BY <3>1, <1>2, <1>9, <1>10
  <2> QED BY <2>1
<1>12. f[s \ {x}] = Total(w, s \ {x})
  BY <1>9, <1>11
<1>13. f[s] = w[x] + f[s \ {x}]
  BY <1>1, <1>7, <1>8, <1>9
<1>14. Total(w, s) = Total(w, {x}) + Total(w, s \ {x})
  BY <1>2, <1>9, SplitTotal
<1>15. Total(w, {x}) = w[x]
  BY <1>9, OneTotal DEF Weighs
<1> QED BY <1>6, <1>12, <1>13, <1>14, <1>15

-----------------------------------------------------------------------------
(* The three sums of the model: the records, the outputs with memory of      *)
(* their own and the objects of the user.                                    *)
RecordSum(P) == MapThenSumSet(LAMBDA k : P[k].layout.bytes, 1..Len(P))

OwnSum(P, S) == MapThenSumSet(LAMBDA u : P[u[2]][u[1]].layout.bytes, S)

UserSum(S) == MapThenSumSet(LAMBDA m : UserLayout[m].bytes, S)

Live(M) == {m \in UserMemories : M[m] = "live"}

LEMMA ThreeSums ==
    /\ LiveBytes = RecordSum(pool) + OwnSum(program, own) + UserSum(Live(mem))
    /\ LiveBytes' = RecordSum(pool') + OwnSum(program', own') + UserSum(Live(mem'))
<1>1. LiveBytes = RecordSum(pool) + OwnSum(program, own) + UserSum(Live(mem))
  BY DEF LiveBytes, RecordSum, OwnSum, UserSum, Live, OwnBytes, OutputLayout,
     MapThenSumSet, MapThenFoldSet
<1>2. LiveBytes' = RecordSum(pool') + OwnSum(program', own') + UserSum(Live(mem'))
  BY DEF LiveBytes, RecordSum, OwnSum, UserSum, Live, OwnBytes, OutputLayout,
     MapThenSumSet, MapThenFoldSet
<1> QED BY <1>1, <1>2

LEMMA OwnBytesSum == \A S : OwnBytes(S) = OwnSum(program, S)
BY DEF OwnBytes, OwnSum, OutputLayout, MapThenSumSet, MapThenFoldSet

LEMMA OwnSumTotal ==
    ASSUME NEW P, NEW S, NEW w, Weighs(w, S),
           \A u \in S : w[u] = P[u[2]][u[1]].layout.bytes
    PROVE  OwnSum(P, S) = Total(w, S)
<1> DEFINE v(x) == P[x[2]][x[1]].layout.bytes
           Solves(f) == f = [s \in SUBSET S |->
                  IF s = {} THEN 0
                  ELSE v(CHOOSE x \in s : TRUE) + f[s \ {CHOOSE x \in s : TRUE}]]
           g == CHOOSE f : Solves(f)
<1>1. OwnSum(P, S) = g[S]
  BY DEF OwnSum, MapThenSumSet, MapThenFoldSet
<1>2. ASSUME NEW s \in SUBSET S, s # {}
      PROVE  v(CHOOSE x \in s : TRUE) = w[CHOOSE x \in s : TRUE]
  <2>1. (CHOOSE x \in s : TRUE) \in S
    BY <1>2
  <2> QED BY <2>1
<1>3. ASSUME NEW f PROVE Solves(f) <=> IsSum(f, w, S)
  <2>1. \A s \in SUBSET S :
           (IF s = {} THEN 0
            ELSE v(CHOOSE x \in s : TRUE) + f[s \ {CHOOSE x \in s : TRUE}])
         = (IF s = {} THEN 0
            ELSE w[CHOOSE x \in s : TRUE] + f[s \ {CHOOSE x \in s : TRUE}])
    <3> HIDE DEF v
    <3> QED BY <1>2
  <2> HIDE DEF v
  <2> QED BY <2>1 DEF IsSum
<1>4. IsSum(g, w, S)
  <2> HIDE DEF Solves
  <2> QED BY <1>3, SumExists
<1> HIDE DEF g
<1> QED BY <1>1, <1>4, SumUnique

LEMMA RecordSumTotal ==
    ASSUME NEW P, NEW w, Weighs(w, 1..Len(P)),
           \A k \in 1..Len(P) : w[k] = P[k].layout.bytes
    PROVE  RecordSum(P) = Total(w, 1..Len(P))
<1> DEFINE S == 1..Len(P)
           v(x) == P[x].layout.bytes
           Solves(f) == f = [s \in SUBSET S |->
                  IF s = {} THEN 0
                  ELSE v(CHOOSE x \in s : TRUE) + f[s \ {CHOOSE x \in s : TRUE}]]
           g == CHOOSE f : Solves(f)
<1>1. RecordSum(P) = g[S]
  BY DEF RecordSum, MapThenSumSet, MapThenFoldSet
<1>2. ASSUME NEW s \in SUBSET S, s # {}
      PROVE  v(CHOOSE x \in s : TRUE) = w[CHOOSE x \in s : TRUE]
  <2>1. (CHOOSE x \in s : TRUE) \in S
    BY <1>2
  <2> QED BY <2>1
<1>3. ASSUME NEW f PROVE Solves(f) <=> IsSum(f, w, S)
  <2>1. \A s \in SUBSET S :
           (IF s = {} THEN 0
            ELSE v(CHOOSE x \in s : TRUE) + f[s \ {CHOOSE x \in s : TRUE}])
         = (IF s = {} THEN 0
            ELSE w[CHOOSE x \in s : TRUE] + f[s \ {CHOOSE x \in s : TRUE}])
    <3> HIDE DEF v
    <3> QED BY <1>2
  <2> HIDE DEF v
  <2> QED BY <2>1 DEF IsSum
<1>4. IsSum(g, w, S)
  <2> HIDE DEF Solves
  <2> QED BY <1>3, SumExists
<1> HIDE DEF g
<1> QED BY <1>1, <1>4, SumUnique

LEMMA UserSumTotal ==
    ASSUME NEW S, NEW w, Weighs(w, S), \A m \in S : w[m] = UserLayout[m].bytes
    PROVE  UserSum(S) = Total(w, S)
<1> DEFINE v(x) == UserLayout[x].bytes
           Solves(f) == f = [s \in SUBSET S |->
                  IF s = {} THEN 0
                  ELSE v(CHOOSE x \in s : TRUE) + f[s \ {CHOOSE x \in s : TRUE}]]
           g == CHOOSE f : Solves(f)
<1>1. UserSum(S) = g[S]
  BY DEF UserSum, MapThenSumSet, MapThenFoldSet
<1>2. ASSUME NEW s \in SUBSET S, s # {}
      PROVE  v(CHOOSE x \in s : TRUE) = w[CHOOSE x \in s : TRUE]
  <2>1. (CHOOSE x \in s : TRUE) \in S
    BY <1>2
  <2> QED BY <2>1
<1>3. ASSUME NEW f PROVE Solves(f) <=> IsSum(f, w, S)
  <2>1. \A s \in SUBSET S :
           (IF s = {} THEN 0
            ELSE v(CHOOSE x \in s : TRUE) + f[s \ {CHOOSE x \in s : TRUE}])
         = (IF s = {} THEN 0
            ELSE w[CHOOSE x \in s : TRUE] + f[s \ {CHOOSE x \in s : TRUE}])
    <3> HIDE DEF v
    <3> QED BY <1>2
  <2> HIDE DEF v
  <2> QED BY <2>1 DEF IsSum
<1>4. IsSum(g, w, S)
  <2> HIDE DEF Solves
  <2> QED BY <1>3, SumExists
<1> HIDE DEF g
<1> QED BY <1>1, <1>4, SumUnique

-----------------------------------------------------------------------------
(* How the sums change. *)
LEMMA OwnSumFacts ==
    ASSUME NEW P \in [Networks -> Programs],
           NEW S \in SUBSET (Nodes \X Networks), IsFiniteSet(S)
    PROVE  /\ OwnSum(P, S) \in Nat
           /\ \A T \in SUBSET S : /\ OwnSum(P, T) \in Nat
                                  /\ OwnSum(P, S \ T) = OwnSum(P, S) - OwnSum(P, T)
           /\ \A u \in (Nodes \X Networks) \ S :
                 OwnSum(P, S \cup {u}) = OwnSum(P, S) + P[u[2]][u[1]].layout.bytes
           /\ \A Q \in [Networks -> Programs] :
                 (\A u \in S : Q[u[2]] = P[u[2]]) => OwnSum(Q, S) = OwnSum(P, S)
<1>0. PICK w : w = [u \in Nodes \X Networks |-> P[u[2]][u[1]].layout.bytes]
  OBVIOUS
<1>1. \A Q \in [Networks -> Programs] : \A u \in Nodes \X Networks :
         Q[u[2]][u[1]].layout.bytes \in Nat
  <2> SUFFICES ASSUME NEW Q \in [Networks -> Programs], NEW u \in Nodes \X Networks
               PROVE  Q[u[2]][u[1]].layout.bytes \in Nat
    OBVIOUS
  <2>1. u[1] \in Nodes /\ u[2] \in Networks
    OBVIOUS
  <2>2. Q[u[2]] \in [Nodes -> NodeRecord]
    BY <2>1, ProgramsAssumption
  <2>3. Q[u[2]][u[1]] \in NodeRecord
    BY <2>1, <2>2
  <2>4. Q[u[2]][u[1]].layout \in LayoutRecord
    BY <2>3, LayoutsAssumption DEF NodeRecord
  <2> QED BY <2>4 DEF LayoutRecord
<1>2. \A u \in Nodes \X Networks : w[u] \in Nat /\ w[u] = P[u[2]][u[1]].layout.bytes
  BY <1>0, <1>1
<1>3. \A T \in SUBSET (Nodes \X Networks) :
         IsFiniteSet(T) => Weighs(w, T) /\ OwnSum(P, T) = Total(w, T)
  <2> SUFFICES ASSUME NEW T \in SUBSET (Nodes \X Networks), IsFiniteSet(T)
               PROVE  Weighs(w, T) /\ OwnSum(P, T) = Total(w, T)
    OBVIOUS
  <2>1. Weighs(w, T)
    BY <1>2 DEF Weighs
  <2> QED BY <1>2, <2>1, OwnSumTotal
<1>4. OwnSum(P, S) \in Nat
  BY <1>3, FiniteBricks
<1>5. ASSUME NEW T \in SUBSET S
      PROVE  /\ OwnSum(P, T) \in Nat
             /\ OwnSum(P, S \ T) = OwnSum(P, S) - OwnSum(P, T)
  <2>1. IsFiniteSet(T) /\ IsFiniteSet(S \ T)
    BY FS_Subset
  <2>2. /\ OwnSum(P, T) = Total(w, T) /\ OwnSum(P, S) = Total(w, S)
        /\ OwnSum(P, S \ T) = Total(w, S \ T) /\ Weighs(w, S)
    BY <1>3, <2>1
  <2>3. /\ Total(w, S) = Total(w, T) + Total(w, S \ T)
        /\ Total(w, T) \in Nat /\ Total(w, S \ T) \in Nat
    <3>1. T \subseteq S /\ Weighs(w, S)
      BY <2>2
    <3>2. \A A, B : Weighs(w, A) /\ B \subseteq A =>
             /\ Total(w, A) = Total(w, B) + Total(w, A \ B)
             /\ Total(w, B) \in Nat /\ Total(w, A \ B) \in Nat
      BY SplitTotal
    <3>3. Weighs(w, S) /\ T \subseteq S =>
             /\ Total(w, S) = Total(w, T) + Total(w, S \ T)
             /\ Total(w, T) \in Nat /\ Total(w, S \ T) \in Nat
      BY <3>2
    <3> QED BY <3>1, <3>3
  <2> QED BY <2>2, <2>3
<1>6. ASSUME NEW u \in (Nodes \X Networks) \ S
      PROVE  OwnSum(P, S \cup {u}) = OwnSum(P, S) + P[u[2]][u[1]].layout.bytes
  <2>1. IsFiniteSet({u}) /\ IsFiniteSet(S \cup {u})
    BY FS_Singleton, FS_Union
  <2>2. /\ Weighs(w, S) /\ Weighs(w, {u}) /\ OwnSum(P, S) = Total(w, S)
        /\ OwnSum(P, S \cup {u}) = Total(w, S \cup {u})
    BY <1>3, <2>1
  <2>3. Total(w, S \cup {u}) = Total(w, S) + Total(w, {u})
    BY <2>2, AddTotals
  <2>4. Total(w, {u}) = w[u]
    BY <1>2, OneTotal
  <2> QED BY <1>2, <2>2, <2>3, <2>4
<1>7. ASSUME NEW Q \in [Networks -> Programs], \A u \in S : Q[u[2]] = P[u[2]]
      PROVE  OwnSum(Q, S) = OwnSum(P, S)
  <2>1. \A u \in S : w[u] = Q[u[2]][u[1]].layout.bytes
    BY <1>2, <1>7
  <2>2. Weighs(w, S) /\ OwnSum(P, S) = Total(w, S)
    BY <1>3
  <2> QED BY <2>1, <2>2, OwnSumTotal
<1> QED BY <1>4, <1>5, <1>6, <1>7

LEMMA RecordSumFacts ==
    ASSUME NEW P \in Seq(RecordType)
    PROVE  /\ RecordSum(P) \in Nat
           /\ \A r \in RecordType :
                 RecordSum(Append(P, r)) = RecordSum(P) + r.layout.bytes
           /\ \A Q \in Seq(RecordType) :
                 Len(Q) = Len(P) /\ (\A k \in 1..Len(P) : Q[k].layout = P[k].layout)
                 => RecordSum(Q) = RecordSum(P)
<1>1. \A Q \in Seq(RecordType) : \A k \in 1..Len(Q) : Q[k].layout.bytes \in Nat
  <2> SUFFICES ASSUME NEW Q \in Seq(RecordType), NEW k \in 1..Len(Q)
               PROVE  Q[k].layout.bytes \in Nat
    OBVIOUS
  <2>1. Q[k] \in RecordType
    OBVIOUS
  <2>2. Q[k].layout \in LayoutRecord
    BY <2>1, LayoutsAssumption DEF RecordType
  <2> QED BY <2>2 DEF LayoutRecord
<1>2. ASSUME NEW Q \in Seq(RecordType), NEW w,
             \A k \in 1..Len(Q) : w[k] = Q[k].layout.bytes
      PROVE  Weighs(w, 1..Len(Q)) /\ RecordSum(Q) = Total(w, 1..Len(Q))
  <2>1. Weighs(w, 1..Len(Q))
    <3>1. Len(Q) \in Nat
      OBVIOUS
    <3>2. IsFiniteSet(1..Len(Q))
      BY <3>1, FS_Interval
    <3> QED BY <1>1, <1>2, <3>2 DEF Weighs
  <2> QED BY <1>2, <2>1, RecordSumTotal
<1>3. PICK w : w = [k \in 1..Len(P) |-> P[k].layout.bytes]
  OBVIOUS
<1>4. Weighs(w, 1..Len(P)) /\ RecordSum(P) = Total(w, 1..Len(P))
  BY <1>2, <1>3
<1>5. RecordSum(P) \in Nat
  BY <1>4, FiniteBricks
<1>6. ASSUME NEW r \in RecordType
      PROVE  RecordSum(Append(P, r)) = RecordSum(P) + r.layout.bytes
  <2> DEFINE n == Len(P) + 1
  <2>1. PICK Q : Q = Append(P, r)
    OBVIOUS
  <2>2. /\ Q \in Seq(RecordType) /\ Len(Q) = n /\ Q[n] = r
        /\ \A k \in 1..Len(P) : Q[k] = P[k]
    BY <2>1
  <2>3. PICK v : v = [k \in 1..n |-> Q[k].layout.bytes]
    OBVIOUS
  <2>4. Weighs(v, 1..n) /\ RecordSum(Q) = Total(v, 1..n)
    BY <1>2, <2>2, <2>3
  <2>5. /\ 1..Len(P) \subseteq 1..n /\ (1..n) \ (1..Len(P)) = {n} /\ n \in 1..n
    OBVIOUS
  <2>6. Total(v, 1..n) = Total(v, 1..Len(P)) + Total(v, {n})
    <3> HIDE DEF n
    <3>1. Total(v, 1..n) = Total(v, 1..Len(P)) + Total(v, (1..n) \ (1..Len(P)))
      BY <2>4, <2>5, SplitTotal
    <3> QED BY <2>5, <3>1
  <2>7. Total(v, {n}) = r.layout.bytes
    <3>1. v[n] = r.layout.bytes
      BY <2>2, <2>3, <2>5
    <3>2. v[n] \in Nat
      BY <2>4, <2>5 DEF Weighs
    <3> HIDE DEF n
    <3> QED BY <3>1, <3>2, OneTotal
  <2>8. \A k \in 1..Len(P) : v[k] = w[k]
    BY <1>3, <2>2, <2>3, <2>5
  <2>9. Total(v, 1..Len(P)) = Total(w, 1..Len(P))
    BY <2>8, SameTotal
  <2> QED BY <1>4, <2>1, <2>4, <2>6, <2>7, <2>9
<1>7. ASSUME NEW Q \in Seq(RecordType), Len(Q) = Len(P),
             \A k \in 1..Len(P) : Q[k].layout = P[k].layout
      PROVE  RecordSum(Q) = RecordSum(P)
  <2>1. \A k \in 1..Len(Q) : w[k] = Q[k].layout.bytes
    BY <1>3, <1>7
  <2> QED BY <1>2, <1>4, <1>7, <2>1
<1> QED BY <1>5, <1>6, <1>7

LEMMA UserSumFacts ==
    ASSUME NEW S \in SUBSET UserMemories, IsFiniteSet(S)
    PROVE  /\ UserSum(S) \in Nat
           /\ \A m \in UserMemories \ S :
                 UserSum(S \cup {m}) = UserSum(S) + UserLayout[m].bytes
           /\ \A m \in S : UserSum(S \ {m}) = UserSum(S) - UserLayout[m].bytes
<1>1. PICK w : w = [m \in UserMemories |-> UserLayout[m].bytes]
  OBVIOUS
<1>2. \A m \in UserMemories : w[m] \in Nat /\ w[m] = UserLayout[m].bytes
  <2> SUFFICES ASSUME NEW m \in UserMemories PROVE w[m] \in Nat /\ w[m] = UserLayout[m].bytes
    OBVIOUS
  <2>1. UserLayout[m] \in LayoutRecord
    BY LimitsAssumption, LayoutsAssumption
  <2> QED BY <1>1, <2>1 DEF LayoutRecord
<1>3. \A T \in SUBSET UserMemories :
         IsFiniteSet(T) => Weighs(w, T) /\ UserSum(T) = Total(w, T)
  <2> SUFFICES ASSUME NEW T \in SUBSET UserMemories, IsFiniteSet(T)
               PROVE  Weighs(w, T) /\ UserSum(T) = Total(w, T)
    OBVIOUS
  <2>1. Weighs(w, T)
    BY <1>2 DEF Weighs
  <2> QED BY <1>2, <2>1, UserSumTotal
<1>4. UserSum(S) \in Nat
  BY <1>3, FiniteBricks
<1>5. ASSUME NEW m \in UserMemories \ S
      PROVE  UserSum(S \cup {m}) = UserSum(S) + UserLayout[m].bytes
  <2>1. IsFiniteSet({m}) /\ IsFiniteSet(S \cup {m})
    BY FS_Singleton, FS_Union
  <2>2. /\ Weighs(w, S) /\ Weighs(w, {m}) /\ UserSum(S) = Total(w, S)
        /\ UserSum(S \cup {m}) = Total(w, S \cup {m})
    BY <1>3, <2>1
  <2>3. Total(w, S \cup {m}) = Total(w, S) + Total(w, {m})
    BY <2>2, AddTotals
  <2>4. Total(w, {m}) = w[m]
    BY <1>2, OneTotal
  <2> QED BY <1>2, <2>2, <2>3, <2>4
<1>6. ASSUME NEW m \in S
      PROVE  UserSum(S \ {m}) = UserSum(S) - UserLayout[m].bytes
  <2>1. IsFiniteSet(S \ {m})
    BY FS_Subset
  <2>2. /\ Weighs(w, S) /\ UserSum(S) = Total(w, S) /\ UserSum(S \ {m}) = Total(w, S \ {m})
    BY <1>3, <2>1
  <2>3. /\ Total(w, S) = Total(w, {m}) + Total(w, S \ {m})
        /\ Total(w, S) \in Nat /\ Total(w, S \ {m}) \in Nat
    BY <2>2, SplitTotal
  <2>4. Total(w, {m}) = w[m]
    BY <1>2, OneTotal
  <2> QED BY <1>2, <2>2, <2>3, <2>4
<1> QED BY <1>4, <1>5, <1>6

-----------------------------------------------------------------------------
(* The strengthening.  The counter may be too large, never too small; what   *)
(* is live fits the device; and a network that has outputs was started, so   *)
(* its program, which their sizes come from, stays.                          *)
OwnStarted == \A n \in Networks, p \in Nodes : <<p, n>> \in own => state[n] # "none"

Counters ==
    /\ used \in Int /\ peak \in Nat
    /\ LiveBytes <= used /\ LiveBytes <= MaxGlobal
    /\ UsedExactUntilRefusal

FinitelyMany == IsFiniteSet(own) /\ IsFiniteSet(Live(mem))

BytesInv == PoolTypeOK /\ OwnStarted /\ FinitelyMany /\ Counters

(* The bytes of the device, as a number. *)
LEMMA LiveBytesNat ==
    ASSUME PoolTypeOK, FinitelyMany
    PROVE  /\ RecordSum(pool) \in Nat /\ OwnSum(program, own) \in Nat
           /\ UserSum(Live(mem)) \in Nat /\ LiveBytes \in Nat
<1>1. RecordSum(pool) \in Nat
  BY RecordSumFacts DEF PoolTypeOK
<1>2. OwnSum(program, own) \in Nat
  <2>1. own \in SUBSET (Nodes \X Networks) /\ program \in [Networks -> Programs]
    BY DEF PoolTypeOK
  <2> QED BY <2>1, OwnSumFacts DEF FinitelyMany
<1>3. UserSum(Live(mem)) \in Nat
  <2>1. Live(mem) \in SUBSET UserMemories
    BY DEF Live
  <2> QED BY <2>1, UserSumFacts DEF FinitelyMany
<1> QED BY <1>1, <1>2, <1>3, ThreeSums

(* The ways the counters move with the bytes: memory is allocated, ... *)
LEMMA AllocatedStep ==
    ASSUME BytesInv, NEW l \in LayoutRecord, Allocates(l), AddMemoryUsed(l),
           LiveBytes' = LiveBytes + l.bytes
    PROVE  Counters'
<1>1. l.bytes \in Nat /\ LiveBytes \in Nat /\ MaxGlobal \in Nat
  BY LiveBytesNat, LimitsAssumption DEF BytesInv, LayoutRecord
<1>2. /\ used \in Int /\ peak \in Nat
      /\ LiveBytes <= used /\ LiveBytes <= MaxGlobal
      /\ peak <= MaxGlobal => used = LiveBytes
  BY DEF BytesInv, Counters, UsedExactUntilRefusal
<1>3. used + l.bytes <= PeakAfter(l) /\ peak <= PeakAfter(l) /\ PeakAfter(l) \in Nat
  BY <1>1, <1>2 DEF PeakAfter
<1>4. PeakAfter(l) <= MaxGlobal
  BY DEF Allocates
<1>5. used' = used + l.bytes /\ peak' = PeakAfter(l)
  BY DEF AddMemoryUsed
<1>6. /\ used' \in Int /\ peak' \in Nat
      /\ LiveBytes' <= used' /\ LiveBytes' <= MaxGlobal
      /\ peak' <= MaxGlobal => used' = LiveBytes'
  <2> HIDE DEF LiveBytes
  <2> QED BY <1>1, <1>2, <1>3, <1>4, <1>5
<1> QED BY <1>6 DEF Counters, UsedExactUntilRefusal

(* ... an allocation throws and some memory is given back, ... *)
LEMMA ThrownStep ==
    ASSUME BytesInv, NEW l \in LayoutRecord, NEW freed \in Nat, AllocThrows(l, freed),
           LiveBytes' = LiveBytes - freed
    PROVE  Counters'
<1>1. l.bytes \in Nat /\ LiveBytes \in Nat /\ MaxGlobal \in Nat
  BY LiveBytesNat, LimitsAssumption DEF BytesInv, LayoutRecord
<1>2. /\ used \in Int /\ peak \in Nat
      /\ LiveBytes <= used /\ LiveBytes <= MaxGlobal
      /\ peak <= MaxGlobal => used = LiveBytes
  BY DEF BytesInv, Counters, UsedExactUntilRefusal
<1>3. used + l.bytes <= PeakAfter(l) /\ peak <= PeakAfter(l) /\ PeakAfter(l) \in Nat
  BY <1>1, <1>2 DEF PeakAfter
<1>4. \/ used' = used - freed /\ peak' = peak
      \/ /\ PeakAfter(l) > MaxGlobal
         /\ used' = used + l.bytes - freed /\ peak' = PeakAfter(l)
      \/ used' = used - freed /\ peak' = PeakAfter(l)
  BY DEF AllocThrows, GlobalExceeded
<1>5. /\ used' \in Int /\ peak' \in Nat
      /\ LiveBytes' <= used' /\ LiveBytes' <= MaxGlobal
      /\ peak' <= MaxGlobal => used' = LiveBytes'
  <2> HIDE DEF LiveBytes
  <2> QED BY <1>1, <1>2, <1>3, <1>4
<1> QED BY <1>5 DEF Counters, UsedExactUntilRefusal

(* ... or memory is given back. *)
LEMMA FreedStep ==
    ASSUME BytesInv, NEW freed \in Nat, used' = used - freed, peak' = peak,
           LiveBytes' = LiveBytes - freed
    PROVE  Counters'
<1>1. LiveBytes \in Nat /\ MaxGlobal \in Nat
  BY LiveBytesNat, LimitsAssumption DEF BytesInv
<1>2. /\ used \in Int /\ peak \in Nat
      /\ LiveBytes <= used /\ LiveBytes <= MaxGlobal
      /\ peak <= MaxGlobal => used = LiveBytes
  BY DEF BytesInv, Counters, UsedExactUntilRefusal
<1>3. /\ used' \in Int /\ peak' \in Nat
      /\ LiveBytes' <= used' /\ LiveBytes' <= MaxGlobal
      /\ peak' <= MaxGlobal => used' = LiveBytes'
  <2> HIDE DEF LiveBytes
  <2> QED BY <1>1, <1>2
<1> QED BY <1>3 DEF Counters, UsedExactUntilRefusal

-----------------------------------------------------------------------------
(* The actions.  The three sums of the step and which of them changes. *)
LEMMA SameRecords ==
    ASSUME PoolTypeOK, NEW k \in 1..Len(pool), NEW u \in Nodes \X Networks,
           pool' = AddUser(k, u)
    PROVE  RecordSum(pool') = RecordSum(pool)
<1> DEFINE r == Record(pool[k].container, pool[k].layout, pool[k].users \cup {u},
                       pool[k].network)
<1>1. pool \in Seq(RecordType) /\ pool[k] \in RecordType
  BY DEF PoolTypeOK
<1>2. pool' = [pool EXCEPT ![k] = r]
  BY DEF AddUser
<1>3. r \in RecordType /\ r.layout = pool[k].layout
  BY <1>1 DEF Record, RecordType
<1> HIDE DEF r
<1>4. /\ pool' \in Seq(RecordType) /\ Len(pool') = Len(pool)
      /\ \A j \in 1..Len(pool) : pool'[j].layout = pool[j].layout
  BY <1>1, <1>2, <1>3
<1> QED BY <1>1, <1>4, RecordSumFacts

LEMMA UnwindStep ==
    ASSUME BytesInv, NEW n \in Networks
    PROVE  /\ OwnBytes(OwnOnly(n)) \in Nat
           /\ OwnSum(program, own \ OwnOnly(n))
                = OwnSum(program, own) - OwnBytes(OwnOnly(n))
           /\ IsFiniteSet(own \ OwnOnly(n))
<1>1. OwnOnly(n) \in SUBSET own
  BY DEF OwnOnly
<1>2. /\ program \in [Networks -> Programs] /\ own \in SUBSET (Nodes \X Networks)
      /\ IsFiniteSet(own)
  BY DEF BytesInv, PoolTypeOK, FinitelyMany
<1>3. OwnBytes(OwnOnly(n)) = OwnSum(program, OwnOnly(n))
  BY OwnBytesSum
<1>4. \A T \in SUBSET own :
         /\ OwnSum(program, T) \in Nat
         /\ OwnSum(program, own \ T) = OwnSum(program, own) - OwnSum(program, T)
  BY <1>2, OwnSumFacts
<1>5. IsFiniteSet(own \ OwnOnly(n))
  BY <1>2, FS_Difference
<1> QED BY <1>1, <1>3, <1>4, <1>5

LEMMA NodeLayout ==
    ASSUME PoolTypeOK, NEW n \in Networks, NEW p \in Nodes
    PROVE  program[n][p].layout \in LayoutRecord /\ program[n][p].layout \in Layouts
BY ContainerFacts DEF NodeRecord

LEMMA BytesStep ==
    ASSUME BInv, BytesInv, [Next]_vars
    PROVE  Counters' /\ FinitelyMany'
<1>1. /\ RecordSum(pool) \in Nat /\ OwnSum(program, own) \in Nat
      /\ UserSum(Live(mem)) \in Nat /\ LiveBytes \in Nat
  BY LiveBytesNat DEF BytesInv
<1>2. /\ LiveBytes = RecordSum(pool) + OwnSum(program, own) + UserSum(Live(mem))
      /\ LiveBytes' = RecordSum(pool') + OwnSum(program', own') + UserSum(Live(mem'))
  BY ThreeSums
<1> HIDE DEF LiveBytes
<1>3. /\ PoolTypeOK /\ IsFiniteSet(own) /\ IsFiniteSet(Live(mem))
      /\ own \in SUBSET (Nodes \X Networks) /\ program \in [Networks -> Programs]
  BY DEF BytesInv, PoolTypeOK, FinitelyMany
<1>4. ASSUME LiveBytes' = LiveBytes, used' = used, peak' = peak
      PROVE  Counters'
  <2>1. used' = used - 0 /\ LiveBytes' = LiveBytes - 0
    BY <1>1, <1>4 DEF BytesInv, Counters
  <2> QED BY <1>4, <2>1, FreedStep
<1>5. ASSUME NEW n \in Networks, StartBuild(n)
      PROVE  Counters' /\ FinitelyMany'
  <2>1. /\ state[n] = "none" /\ UNCHANGED <<pool, own, mem, used, peak>>
    BY <1>5 DEF StartBuild
  <2>2. program' \in [Networks -> Programs] /\ \A m \in Networks \ {n} : program'[m] = program[m]
    BY <1>3, <1>5 DEF StartBuild
  <2>3. \A u \in own : program'[u[2]] = program[u[2]]
    <3> SUFFICES ASSUME NEW u \in own PROVE program'[u[2]] = program[u[2]]
      OBVIOUS
    <3>1. u[1] \in Nodes /\ u[2] \in Networks /\ <<u[1], u[2]>> \in own
      BY <1>3
    <3> QED BY <2>1, <2>2, <3>1 DEF BytesInv, OwnStarted
  <2>4. OwnSum(program', own) = OwnSum(program, own)
    BY <1>3, <2>2, <2>3, OwnSumFacts
  <2>5. LiveBytes' = LiveBytes
    BY <1>2, <2>1, <2>4
  <2> QED BY <1>3, <1>4, <2>1, <2>5 DEF FinitelyMany
<1>6. ASSUME NEW n \in Networks, DestroyNetwork(n)
      PROVE  Counters' /\ FinitelyMany'
  <2>1. /\ own' = own \ OwnOnly(n) /\ used' = used - OwnBytes(OwnOnly(n))
        /\ UNCHANGED <<pool, program, mem, peak>>
    BY <1>6 DEF DestroyNetwork
  <2>2. PICK freed : freed = OwnBytes(OwnOnly(n))
    OBVIOUS
  <2>3. freed \in Nat /\ LiveBytes' = LiveBytes - freed
    <3>1. /\ freed \in Nat
          /\ OwnSum(program, own \ OwnOnly(n)) = OwnSum(program, own) - freed
      BY <2>2, UnwindStep
    <3> QED BY <1>1, <1>2, <2>1, <2>2, <3>1
  <2>4. Counters'
    BY <2>1, <2>2, <2>3, FreedStep
  <2> QED BY <1>3, <2>1, <2>4, UnwindStep DEF FinitelyMany
<1>7. ASSUME NEW n \in Networks, NEW p \in Nodes, ReuseRecord(n, p)
      PROVE  Counters' /\ FinitelyMany'
  <2>1. PICK k \in 1..Len(pool) : pool' = AddUser(k, <<p, n>>)
    BY <1>7 DEF ReuseRecord
  <2>2. UNCHANGED <<program, own, mem, used, peak>>
    BY <1>7 DEF ReuseRecord
  <2>3. RecordSum(pool') = RecordSum(pool)
    BY <1>3, <2>1, SameRecords
  <2>4. LiveBytes' = LiveBytes
    BY <1>2, <2>2, <2>3
  <2> QED BY <1>3, <1>4, <2>2, <2>4 DEF FinitelyMany
<1>8. ASSUME NEW n \in Networks, NEW p \in Nodes, ReinterpretThrows(n, p)
      PROVE  Counters' /\ FinitelyMany'
  <2>1. PICK k \in 1..Len(pool) : pool' = AddUser(k, <<p, n>>)
    BY <1>8 DEF ReinterpretThrows
  <2>2. /\ own' = own \ OwnOnly(n) /\ used' = used - OwnBytes(OwnOnly(n))
        /\ peak' = peak /\ program' = program /\ mem' = mem
    BY <1>8 DEF ReinterpretThrows, Unwinds
  <2>3. RecordSum(pool') = RecordSum(pool)
    BY <1>3, <2>1, SameRecords
  <2>4. PICK freed : freed = OwnBytes(OwnOnly(n))
    OBVIOUS
  <2>5. freed \in Nat /\ LiveBytes' = LiveBytes - freed
    <3>1. /\ freed \in Nat
          /\ OwnSum(program, own \ OwnOnly(n)) = OwnSum(program, own) - freed
      BY <2>4, UnwindStep
    <3> QED BY SMTT(60), <1>1, <1>2, <2>2, <2>3, <2>4, <3>1
  <2>6. Counters'
    BY <2>2, <2>4, <2>5, FreedStep
  <2> QED BY <1>3, <2>2, <2>6, UnwindStep DEF FinitelyMany
<1>9. ASSUME NEW n \in Networks, NEW p \in Nodes, NewRecord(n, p)
      PROVE  Counters' /\ FinitelyMany'
  <2>1. PICK l, r : /\ l = program[n][p].layout
                    /\ r = Record(Container(n, p), l, {<<p, n>>}, n)
    OBVIOUS
  <2>2. /\ Container(n, p) # "none" /\ Allocates(l) /\ AddMemoryUsed(l)
        /\ pool' = Append(pool, r) /\ UNCHANGED <<program, own, mem>>
    BY <1>9, <2>1 DEF NewRecord
  <2>3. l \in LayoutRecord /\ l \in Layouts /\ l.bytes \in Nat
    BY <1>3, <2>1, NodeLayout DEF LayoutRecord
  <2>4. r \in RecordType /\ r.layout = l
    BY <1>3, <2>1, <2>2, <2>3, ContainerFacts DEF Record, RecordType
  <2>5. RecordSum(pool') = RecordSum(pool) + l.bytes
    BY <1>3, <2>2, <2>4, RecordSumFacts DEF PoolTypeOK
  <2>6. LiveBytes' = LiveBytes + l.bytes
    BY <1>1, <1>2, <2>2, <2>3, <2>5
  <2>7. Counters'
    BY <2>2, <2>3, <2>6, AllocatedStep
  <2> QED BY <1>3, <2>2, <2>7 DEF FinitelyMany
<1>10. ASSUME NEW n \in Networks, NEW p \in Nodes, NewOwnMemory(n, p)
       PROVE  Counters' /\ FinitelyMany'
  <2>1. PICK l : l = program[n][p].layout
    OBVIOUS
  <2>2. /\ Allocates(l) /\ AddMemoryUsed(l) /\ own' = own \cup {<<p, n>>}
        /\ UNCHANGED <<pool, program, mem>>
    BY <1>10, <2>1 DEF NewOwnMemory
  <2>3. l \in LayoutRecord /\ l.bytes \in Nat
    BY <1>3, <2>1, NodeLayout DEF LayoutRecord
  <2>4. <<p, n>> \in (Nodes \X Networks) \ own
    BY <1>10 DEF NewOwnMemory, NextToPlace, BInv, OwnPlaced
  <2>5. OwnSum(program, own') = OwnSum(program, own) + l.bytes
    BY <1>3, <2>1, <2>2, <2>4, OwnSumFacts
  <2>6. LiveBytes' = LiveBytes + l.bytes
    BY <1>1, <1>2, <2>2, <2>3, <2>5
  <2>7. Counters'
    BY <2>2, <2>3, <2>6, AllocatedStep
  <2>8. IsFiniteSet(own \cup {<<p, n>>})
    BY <1>3, FS_AddElement
  <2> QED BY <1>3, <2>2, <2>7, <2>8 DEF FinitelyMany
<1>11. ASSUME NEW n \in Networks, NEW p \in Nodes, BuildThrows(n, p)
       PROVE  Counters' /\ FinitelyMany'
  <2>1. PICK l, freed : l = program[n][p].layout /\ freed = OwnBytes(OwnOnly(n))
    OBVIOUS
  <2>2. /\ AllocThrows(l, freed) /\ own' = own \ OwnOnly(n)
        /\ UNCHANGED <<pool, program, mem>>
    BY <1>11, <2>1 DEF BuildThrows, Unwinds
  <2>3. l \in LayoutRecord
    BY <1>3, <2>1, NodeLayout
  <2>4. freed \in Nat /\ LiveBytes' = LiveBytes - freed
    <3>1. /\ freed \in Nat
          /\ OwnSum(program, own \ OwnOnly(n)) = OwnSum(program, own) - freed
      BY <2>1, UnwindStep
    <3> QED BY <1>1, <1>2, <2>1, <2>2, <3>1
  <2>5. Counters'
    BY <2>2, <2>3, <2>4, ThrownStep
  <2> QED BY <1>3, <2>2, <2>5, UnwindStep DEF FinitelyMany
<1>12. ASSUME NEW n \in Networks, NEW p \in Nodes, KeepOutput(n, p)
       PROVE  Counters' /\ FinitelyMany'
  <2>1. UNCHANGED <<pool, program, own, mem, used, peak>>
    BY <1>12 DEF KeepOutput
  <2> QED BY <1>2, <1>3, <1>4, <2>1 DEF FinitelyMany
<1>13. ASSUME NEW n \in Networks, NEW p \in Nodes, DropOutput(n, p)
       PROVE  Counters' /\ FinitelyMany'
  <2>1. UNCHANGED <<pool, program, mem, peak>>
    BY <1>13 DEF DropOutput
  <2>2. CASE state[n] = "gone"
    <3>1. PICK freed : freed = OwnBytes({<<p, n>>})
      OBVIOUS
    <3>2. own' = own \ {<<p, n>>} /\ used' = used - freed /\ {<<p, n>>} \in SUBSET own
      BY <1>3, <1>13, <2>2, <3>1 DEF DropOutput, PoolTypeOK
    <3>3. freed = OwnSum(program, {<<p, n>>})
      BY <3>1, OwnBytesSum
    <3>4. freed \in Nat /\ OwnSum(program, own') = OwnSum(program, own) - freed
      BY <1>3, <3>2, <3>3, OwnSumFacts
    <3>5. LiveBytes' = LiveBytes - freed
      BY <1>1, <1>2, <2>1, <3>4
    <3>6. Counters'
      BY <2>1, <3>2, <3>4, <3>5, FreedStep
    <3>7. IsFiniteSet(own \ {<<p, n>>})
      BY <1>3, FS_RemoveElement
    <3> QED BY <1>3, <2>1, <3>2, <3>6, <3>7 DEF FinitelyMany
  <2>3. CASE state[n] # "gone"
    <3>1. own' = own /\ used' = used
      BY <1>13, <2>3 DEF DropOutput
    <3> QED BY <1>2, <1>3, <1>4, <2>1, <3>1 DEF FinitelyMany
  <2> QED BY <2>2, <2>3
<1>14. ASSUME NEW m \in UserMemories, AllocateUserMemory(m)
       PROVE  Counters' /\ FinitelyMany'
  <2>1. /\ UNCHANGED <<pool, program, own>> /\ mem[m] = "none"
        /\ Live(mem) \in SUBSET UserMemories /\ m \in UserMemories \ Live(mem)
    BY <1>14 DEF AllocateUserMemory, networkVars, Live
  <2>2. PICK l : l = UserLayout[m]
    OBVIOUS
  <2>3. l \in LayoutRecord /\ l.bytes \in Nat
    BY <2>2, LimitsAssumption, LayoutsAssumption DEF LayoutRecord
  <2>4. CASE /\ Allocates(l) /\ AddMemoryUsed(l) /\ mem' = [mem EXCEPT ![m] = "live"]
    <3>1. Live(mem') = Live(mem) \cup {m}
      BY <1>3, <2>4 DEF Live, PoolTypeOK
    <3>2. UserSum(Live(mem')) = UserSum(Live(mem)) + l.bytes
      BY <1>3, <2>1, <2>2, <3>1, UserSumFacts
    <3>3. LiveBytes' = LiveBytes + l.bytes
      BY <1>1, <1>2, <2>1, <2>3, <3>2
    <3>4. Counters'
      BY <2>3, <2>4, <3>3, AllocatedStep
    <3>5. IsFiniteSet(Live(mem) \cup {m})
      BY <1>3, FS_AddElement
    <3> QED BY <1>3, <2>1, <3>1, <3>4, <3>5 DEF FinitelyMany, Live
  <2>5. CASE AllocThrows(l, 0) /\ mem' = [mem EXCEPT ![m] = "gone"]
    <3>1. Live(mem') = Live(mem)
      BY <1>3, <2>1, <2>5 DEF Live, PoolTypeOK
    <3>2. LiveBytes' = LiveBytes - 0
      BY <1>1, <1>2, <2>1, <3>1
    <3>3. Counters'
      BY <2>3, <2>5, <3>2, ThrownStep
    <3> QED BY <1>3, <2>1, <3>1, <3>3 DEF FinitelyMany, Live
  <2> QED BY <1>14, <2>2, <2>4, <2>5 DEF AllocateUserMemory
<1>15. ASSUME NEW m \in UserMemories, ReleaseUserMemory(m)
       PROVE  Counters' /\ FinitelyMany'
  <2>1. /\ UNCHANGED <<pool, program, own, peak>>
        /\ Live(mem) \in SUBSET UserMemories /\ m \in Live(mem)
    BY <1>15 DEF ReleaseUserMemory, networkVars, Live
  <2>2. PICK freed : freed = UserLayout[m].bytes
    OBVIOUS
  <2>3. freed \in Nat
    BY <2>2, LimitsAssumption, LayoutsAssumption DEF LayoutRecord
  <2>4. Live(mem') = Live(mem) \ {m}
    BY <1>3, <1>15 DEF ReleaseUserMemory, Live, PoolTypeOK
  <2>5. UserSum(Live(mem')) = UserSum(Live(mem)) - freed
    BY <1>3, <2>1, <2>2, <2>4, UserSumFacts
  <2>6. LiveBytes' = LiveBytes - freed
    BY <1>1, <1>2, <2>1, <2>3, <2>5
  <2>7. used' = used - freed
    BY <1>15, <2>2 DEF ReleaseUserMemory
  <2>8. Counters'
    BY <2>1, <2>3, <2>6, <2>7, FreedStep
  <2>9. IsFiniteSet(Live(mem) \ {m})
    BY <1>3, FS_RemoveElement
  <2> QED BY <1>3, <2>1, <2>4, <2>8, <2>9 DEF FinitelyMany, Live
<1>16. CASE UNCHANGED vars
  <2>1. UNCHANGED <<pool, program, own, mem, used, peak>>
    BY <1>16 DEF vars
  <2> QED BY <1>2, <1>3, <1>4, <2>1 DEF FinitelyMany
<1> QED
  BY <1>5, <1>6, <1>7, <1>8, <1>9, <1>10, <1>11, <1>12, <1>13, <1>14, <1>15, <1>16
  DEF Next

(* Outputs appear only in networks that were started. *)
LEMMA StartedStep ==
    ASSUME PoolTypeOK, OwnStarted, [Next]_vars
    PROVE  OwnStarted'
<1> USE DEF OwnStarted, PoolTypeOK
<1>1. ASSUME NEW n \in Networks, StartBuild(n) \/ DestroyNetwork(n)
      PROVE  OwnStarted'
  BY <1>1 DEF StartBuild, DestroyNetwork
<1>2. ASSUME NEW n \in Networks, NEW p \in Nodes, NewOwnMemory(n, p)
      PROVE  OwnStarted'
  <2>1. /\ state[n] = "building" /\ own' = own \cup {<<p, n>>}
        /\ \A m \in Networks : state[m] # "none" => state'[m] # "none"
    BY <1>2 DEF NewOwnMemory, NextToPlace, Placed
  <2> QED BY <2>1
<1>3. ASSUME NEW n \in Networks, NEW p \in Nodes,
             \/ ReuseRecord(n, p) \/ ReinterpretThrows(n, p) \/ NewRecord(n, p)
             \/ BuildThrows(n, p) \/ KeepOutput(n, p) \/ DropOutput(n, p)
      PROVE  OwnStarted'
  <2>1. own' \subseteq own
    BY <1>3 DEF ReuseRecord, ReinterpretThrows, NewRecord, BuildThrows, KeepOutput,
       DropOutput, Unwinds
  <2>2. \A m \in Networks : state[m] # "none" => state'[m] # "none"
    BY <1>3 DEF ReuseRecord, ReinterpretThrows, NewRecord, BuildThrows, KeepOutput,
       DropOutput, Unwinds, Placed
  <2> QED BY <2>1, <2>2
<1>4. ASSUME NEW m \in UserMemories, AllocateUserMemory(m) \/ ReleaseUserMemory(m)
      PROVE  OwnStarted'
  BY <1>4 DEF AllocateUserMemory, ReleaseUserMemory, networkVars
<1>5. CASE UNCHANGED vars
  BY <1>5 DEF vars
<1> QED BY <1>1, <1>2, <1>3, <1>4, <1>5 DEF Next

LEMMA InitBytes == Init => BInv /\ BytesInv
<1> SUFFICES ASSUME Init PROVE BInv /\ BytesInv
  OBVIOUS
<1>1. BInv
  BY InitIInv DEF Init, BInv, OwnPlaced, OnePlace
<1>2. PoolTypeOK
  BY InitIInv DEF IInv
<1>3. own = {} /\ Live(mem) = {} /\ Len(pool) = 0 /\ used = 0 /\ peak = 0
  BY DEF Init, Live
<1>4. OwnStarted /\ FinitelyMany
  BY <1>3, FS_EmptySet DEF OwnStarted, FinitelyMany
<1>5. LiveBytes = 0
  <2>1. \A w : Weighs(w, {}) /\ Total(w, {}) = 0
    BY NoTotal
  <2>2. 1..Len(pool) = {}
    BY <1>3
  <2>3. RecordSum(pool) = 0
    BY <2>1, <2>2, RecordSumTotal
  <2>4. OwnSum(program, {}) = 0 /\ UserSum({}) = 0
    BY <2>1, OwnSumTotal, UserSumTotal
  <2> QED BY <1>3, <2>3, <2>4, ThreeSums
<1>6. Counters
  BY <1>3, <1>5, LimitsAssumption DEF Counters, UsedExactUntilRefusal
<1> QED BY <1>1, <1>2, <1>4, <1>6 DEF BytesInv

(* The accounting of bytes, as it is kept by every allocation, refusal and    *)
(* release, in whatever order networks and users make them.                  *)
THEOREM BytesInvariance == Spec => [](BInv /\ BytesInv)
<1>1. BInv /\ BytesInv /\ [Next]_vars => (BInv /\ BytesInv)'
  <2> SUFFICES ASSUME BInv, BytesInv, [Next]_vars PROVE BInv' /\ BytesInv'
    OBVIOUS
  <2>1. BInv'
    BY OtherTypes, PoolStep, PlaceStep DEF PoolInv, IInv, BInv
  <2>2. PoolTypeOK'
    BY <2>1 DEF BInv, IInv
  <2>3. OwnStarted'
    BY StartedStep DEF BytesInv
  <2> QED BY <2>1, <2>2, <2>3, BytesStep DEF BytesInv
<1> QED BY InitBytes, <1>1, PTL DEF Spec

(* The counters of the engine never go below zero, so the unsigned numbers   *)
(* of the code never wrap (memory_pool::subtract_memory_used).               *)
THEOREM CountersType == Spec => []TypeOK
<1>1. BytesInv => TypeOK
  BY LiveBytesNat DEF BytesInv, Counters, TypeOK
<1> QED BY BytesInvariance, <1>1, PTL

(* What the device holds never exceeds its memory, whatever was refused, and *)
(* although used and peak are wrong after a refusal.                         *)
THEOREM WithinDevice == Spec => []LiveWithinDevice
<1>1. BytesInv => LiveWithinDevice
  BY DEF BytesInv, Counters, LiveWithinDevice
<1> QED BY BytesInvariance, <1>1, PTL

(* Until an allocation runs into the device's memory, the counter the user   *)
(* reads is what the device holds, to the byte.                              *)
THEOREM UsedExact == Spec => []UsedExactUntilRefusal
<1>1. BytesInv => UsedExactUntilRefusal
  BY DEF BytesInv, Counters
<1> QED BY BytesInvariance, <1>1, PTL

=============================================================================
