----------------------------- MODULE EventsProofs -----------------------------
(* Invariants of Events for any threads, handlers and numbers of events and  *)
(* executions.                                                               *)
EXTENDS Events, SequenceTheorems, WellFoundedInduction, TLAPS

-----------------------------------------------------------------------------
ObjectRecord ==
    [pool : {"base", "user", "group"}, attached : BOOLEAN, set : BOOLEAN, command : Nat,
     members : SUBSET Nat, callback : BOOLEAN, handlers : SUBSET Handlers]
UseRecord ==
    [object : Nat, command : Nat, members : SUBSET Nat, epoch : Nat, clean : BOOLEAN]

AreSequences ==
    /\ objects \in Seq(ObjectRecord) /\ commands \in Seq({"queued", "complete"})
    /\ uses \in Seq(UseRecord)
    /\ adding \in [Threads -> {<< >>} \cup (Nat \X Handlers)]

TInv == TypeOK /\ AreSequences

(* The object of a use of the current execution is attached and was not      *)
(* handed out again, or the use is a user event that was not set.            *)
Attached ==
    \A u \in Uses : uses[u].epoch = resets =>
        LET o == uses[u].object IN
        \/ objects[o].attached /\ Latest(u)
        \/ objects[o].pool = "user" /\ ~Done(uses[u].command)

(* An object stands for the latest of its uses. *)
ForUses ==
    /\ \A o \in Objects : IF objects[o].pool = "group"
                          THEN \A p \in objects[o].members : objects[p].pool = "base"
                          ELSE objects[o].members = {}
    /\ \A u \in Uses :
        LET o == uses[u].object IN
        IF objects[o].pool = "group"
        THEN /\ uses[u].command = 0
             /\ \A m \in uses[u].members : /\ objects[uses[m].object].pool = "base"
                                           /\ uses[u].clean => uses[m].clean
             /\ Latest(u) => objects[o].members = {uses[m].object : m \in uses[u].members}
        ELSE /\ uses[u].members = {}
             /\ Latest(u) => objects[o].command = uses[u].command

(* No command is behind two uses, and a user event's is that of its latest.  *)
CommandsDiffer ==
    /\ \A u, v \in Uses : u = v \/ uses[u].command = 0 \/ uses[u].command # uses[v].command
    /\ \A o \in Objects : objects[o].pool = "user" =>
          \/ objects[o].command = 0
          \/ \E u \in Uses : /\ uses[u].object = o /\ uses[u].command = objects[o].command
                             /\ Latest(u)

(* _set is on for what is complete, if it was off when it was handed out.    *)
SetFlags ==
    \A u \in Uses : Promised(u) /\ objects[uses[u].object].set => IsComplete(u)

EInv == TInv /\ Attached /\ ForUses /\ CommandsDiffer /\ SetFlags

(* A handler is with one thread or one object until it is called.            *)
Adding ==
    \A t \in Threads : adding[t] # << >> =>
        LET u == adding[t][1]  x == adding[t][2] IN
        /\ u \in Uses /\ handled[x] = u /\ called[x] = 0
        /\ \A o \in Objects : x \notin objects[o].handlers
        /\ \A s \in Threads : s # t /\ adding[s] # << >> => adding[s][2] # x

Added ==
    \A o \in Objects : \A x \in objects[o].handlers :
        handled[x] \in Uses /\ uses[handled[x]].object = o /\ called[x] = 0

(* The driver calls back for what an object stands for, unless it was handed *)
(* out with the callback still to come.                                      *)
Awaited ==
    /\ \A co \in callbacks :
          /\ objects[co[2]].pool # "group"
          /\ \A u \in Uses : Promised(u) /\ uses[u].object = co[2] => uses[u].command = co[1]
    /\ \A o \in firing : \A u \in Uses : Promised(u) /\ uses[u].object = o => IsComplete(u)

NotHandled == \A x \in Handlers : handled[x] = 0 => called[x] = 0

HandlersInv == Adding /\ Added /\ NotHandled /\ CalledOnceComplete

EventsInv == EInv /\ HandlersInv /\ Awaited /\ ToldWhenComplete

(* The first free object exists. *)
LEMMA LeastExists ==
    ASSUME NEW S \in SUBSET Nat, S # {}
    PROVE  \E x \in S : \A y \in S : x <= y
<1>1. \E x \in S : \A y \in S : ~ (<<y, x>> \in OpToRel(<, Nat))
  BY NatLessThanWellFounded, WFMin, Zenon
<1>2. \A x, y \in Nat : y < x => <<y, x>> \in OpToRel(<, Nat)
  BY Zenon DEF OpToRel
<1>3. \A x, y \in Nat : y < x \/ x <= y
  OBVIOUS
<1> HIDE DEF OpToRel
<1> QED BY <1>1, <1>2, <1>3, Zenon

LEMMA TakeFacts ==
    ASSUME TInv, NEW pool
    PROVE  /\ Take(pool) \in Nat
           /\ Take(pool) \in Objects \/ Take(pool) = Len(objects) + 1
           /\ Take(pool) \in Objects => /\ objects[Take(pool)].pool = pool
                                        /\ ~objects[Take(pool)].attached
           /\ Take(pool) \notin Objects => Free(pool) = {}
<1>1. Len(objects) \in Nat
  BY DEF TInv, AreSequences
<1>2. Free(pool) \subseteq Objects /\ Objects \subseteq Nat
  BY <1>1 DEF Free, Objects
<1>3. CASE Free(pool) = {}
  BY <1>1, <1>3 DEF Take, Objects
<1>4. CASE Free(pool) # {}
  <2>1. \E o \in Free(pool) : \A p \in Free(pool) : o <= p
    BY <1>2, <1>4, LeastExists
  <2>2. Take(pool) \in Free(pool)
    BY <1>4, <2>1 DEF Take
  <2> QED BY <1>2, <2>2 DEF Free
<1> QED BY <1>3, <1>4

LEMMA StoreFacts ==
    ASSUME TInv, NEW o, o \in Objects \/ o = Len(objects) + 1,
           NEW r \in ObjectRecord, Store(o, r)
    PROVE  /\ objects' \in Seq(ObjectRecord)
           /\ Objects' = Objects \cup {o} /\ objects'[o] = r
           /\ \A p \in Objects : p # o => objects'[p] = objects[p]
<1>1. objects \in Seq(ObjectRecord) /\ Len(objects) \in Nat
  BY DEF TInv, AreSequences
<1>2. CASE o \in Objects
  BY <1>1, <1>2 DEF Store, Objects
<1>3. CASE o \notin Objects
  <2>1. objects' = Append(objects, r) /\ o = Len(objects) + 1
    BY <1>3 DEF Store
  <2>2. /\ objects' \in Seq(ObjectRecord) /\ Len(objects') = Len(objects) + 1
        /\ objects'[o] = r /\ \A p \in Objects : objects'[p] = objects[p]
    BY <1>1, <2>1 DEF Objects
  <2> QED BY <1>1, <2>1, <2>2 DEF Objects
<1> QED BY <1>2, <1>3

LEMMA RaiseFacts ==
    ASSUME TInv, NEW S, objects' = Raise(S)
    PROVE  /\ objects' \in Seq(ObjectRecord) /\ Len(objects') = Len(objects)
           /\ \A o \in Objects :
                 /\ objects'[o].pool = objects[o].pool
                 /\ objects'[o].attached = objects[o].attached
                 /\ objects'[o].set = (objects[o].set \/ o \in S)
                 /\ objects'[o].command = objects[o].command
                 /\ objects'[o].members = objects[o].members
                 /\ objects'[o].callback = objects[o].callback
                 /\ objects'[o].handlers = objects[o].handlers
<1>1. objects \in Seq(ObjectRecord) /\ Len(objects) \in Nat
  BY DEF TInv, AreSequences
<1>2. \A o \in Objects : objects[o] \in ObjectRecord
  BY <1>1 DEF Objects
<1>3. \A o \in Objects : [objects[o] EXCEPT !.set = @ \/ o \in S] \in ObjectRecord
  BY <1>2 DEF ObjectRecord
<1>4. /\ objects' = [o \in 1..Len(objects) |-> [objects[o] EXCEPT !.set = @ \/ o \in S]]
  BY DEF Raise, Objects
<1>5. objects' \in Seq(ObjectRecord) /\ Len(objects') = Len(objects)
  BY <1>1, <1>3, <1>4 DEF Objects
<1>6. ASSUME NEW o \in Objects
      PROVE  /\ objects'[o].pool = objects[o].pool
             /\ objects'[o].attached = objects[o].attached
             /\ objects'[o].set = (objects[o].set \/ o \in S)
             /\ objects'[o].command = objects[o].command
             /\ objects'[o].members = objects[o].members
             /\ objects'[o].callback = objects[o].callback
             /\ objects'[o].handlers = objects[o].handlers
  <2>1. objects'[o] = [objects[o] EXCEPT !.set = @ \/ o \in S]
    BY <1>4 DEF Objects
  <2> QED BY <1>2, <2>1 DEF ObjectRecord
<1> QED BY <1>5, <1>6

-----------------------------------------------------------------------------
(* What the three actions that hand out an event have in common: object o    *)
(* becomes r, and the use stands for command c or for the uses ms.           *)
CommandFor(r, c) ==
    IF r.pool = "user"
    THEN /\ c = Len(commands) + 1
         /\ commands' \in {Append(commands, "queued"), Append(commands, "complete")}
         /\ \/ r.attached /\ commands'[c] = "complete"
            \/ r.set = Taken("user").set /\ commands'[c] = "queued"
    ELSE /\ r.attached /\ r.set = Taken(r.pool).set
         /\ \/ c = 0 /\ commands' = commands
            \/ c = Len(commands) + 1 /\ commands' = Append(commands, "queued")

StandsFor(r, c, ms) ==
    IF r.pool = "group"
    THEN /\ c = 0 /\ r.members = {uses[m].object : m \in ms}
         /\ \A m \in ms : /\ m \in Uses /\ uses[m].epoch = resets
                          /\ objects[uses[m].object].pool = "base"
    ELSE r.command = c /\ ms = {} /\ r.members = Taken(r.pool).members

NewUse(o, c, ms) ==
    [object |-> o, command |-> c, members |-> ms, epoch |-> resets,
     clean |-> Clean(o) /\ \A m \in ms : uses[m].clean]

HandsOut(o, r, c, ms) ==
    /\ r \in ObjectRecord /\ o = Take(r.pool) /\ Store(o, r)
    /\ r.handlers = Taken(r.pool).handlers
    /\ r.command \in {Taken(r.pool).command, c}
    /\ uses' = Append(uses, NewUse(o, c, ms))
    /\ CommandFor(r, c) /\ StandsFor(r, c, ms)
    /\ UNCHANGED <<resets, told, handlerVars>>

LEMMA TakenType ==
    ASSUME TInv, NEW pool \in {"base", "user", "group"}
    PROVE  Taken(pool) \in ObjectRecord /\ Taken(pool).pool = pool
<1>1. NewObject(pool) \in ObjectRecord /\ NewObject(pool).pool = pool
  BY DEF NewObject, ObjectRecord
<1>2. \A o \in Objects : objects[o] \in ObjectRecord
  BY DEF TInv, AreSequences, Objects
<1> QED BY <1>1, <1>2, TakeFacts DEF Taken

LEMMA NewUseFields ==
    ASSUME NEW o, NEW c, NEW ms
    PROVE  /\ NewUse(o, c, ms).object = o /\ NewUse(o, c, ms).command = c
           /\ NewUse(o, c, ms).members = ms /\ NewUse(o, c, ms).epoch = resets
           /\ NewUse(o, c, ms).clean \in BOOLEAN
           /\ NewUse(o, c, ms).clean => Clean(o) /\ \A m \in ms : uses[m].clean
<1>1. PICK b \in BOOLEAN : b = (Clean(o) /\ \A m \in ms : uses[m].clean)
  OBVIOUS
<1>2. NewUse(o, c, ms)
        = [object |-> o, command |-> c, members |-> ms, epoch |-> resets, clean |-> b]
  BY <1>1 DEF NewUse
<1>3. /\ NewUse(o, c, ms).object = o /\ NewUse(o, c, ms).command = c
      /\ NewUse(o, c, ms).members = ms /\ NewUse(o, c, ms).epoch = resets
      /\ NewUse(o, c, ms).clean = b
  BY <1>2
<1>4. b => Clean(o) /\ \A m \in ms : uses[m].clean
  BY <1>1, Zenon
<1>5. NewUse(o, c, ms).clean => Clean(o) /\ \A m \in ms : uses[m].clean
  BY <1>3, <1>4, Zenon
<1> QED BY <1>3, <1>5

LEMMA KernelHandsOut ==
    ASSUME TInv, NEW own \in BOOLEAN, EnqueueKernel(own)
    PROVE  \E o, r, c, ms : HandsOut(o, r, c, ms)
<1> DEFINE c == IF own THEN Len(commands) + 1 ELSE 0
           r == [Taken("base") EXCEPT !.command = c, !.attached = TRUE]
<1>1. Taken("base") \in ObjectRecord /\ Taken("base").pool = "base"
  BY TakenType
<1>2. c \in Nat
  BY DEF TInv, AreSequences
<1>3. /\ r \in ObjectRecord /\ r.pool = "base" /\ r.attached /\ r.set = Taken("base").set
      /\ r.command = c /\ r.members = Taken("base").members
      /\ r.handlers = Taken("base").handlers
  BY <1>1, <1>2 DEF ObjectRecord
<1>4. HandsOut(Take("base"), r, c, {})
  <2>1. /\ Store(Take("base"), r) /\ HandOut(Take("base"), c, {})
        /\ commands' = IF own THEN Append(commands, "queued") ELSE commands
        /\ UNCHANGED <<resets, told, handlerVars>>
    BY DEF EnqueueKernel
  <2>2. CommandFor(r, c)
    BY <1>3, <2>1 DEF CommandFor
  <2> HIDE DEF r, c
  <2> QED BY <1>3, <2>1, <2>2 DEF HandsOut, StandsFor, HandOut, NewUse
<1> QED BY <1>4

LEMMA UserHandsOut ==
    ASSUME TInv, NEW set \in BOOLEAN, CreateUserEvent(set)
    PROVE  \E o, r, c, ms : HandsOut(o, r, c, ms)
<1> DEFINE c == Len(commands) + 1
           r == AttachEvent(Taken("user"), set, c)
<1>1. Taken("user") \in ObjectRecord /\ Taken("user").pool = "user"
  BY TakenType
<1>2. c \in Nat
  BY DEF TInv, AreSequences
<1>3. /\ r \in ObjectRecord /\ r.pool = "user"
      /\ r.attached = (Taken("user").attached \/ set) /\ r.set = (Taken("user").set \/ set)
      /\ r.command = c /\ r.members = Taken("user").members
      /\ r.handlers = Taken("user").handlers
  BY <1>1, <1>2 DEF ObjectRecord, AttachEvent
<1>4. /\ Store(Take("user"), r) /\ HandOut(Take("user"), c, {})
      /\ commands' = Append(commands, IF set THEN "complete" ELSE "queued")
      /\ UNCHANGED <<resets, told, handlerVars>>
  BY DEF CreateUserEvent
<1> HIDE DEF r
<1>5. CommandFor(r, c)
  <2>1. commands'[c] = IF set THEN "complete" ELSE "queued"
    BY <1>4 DEF TInv, AreSequences
  <2>2. \/ r.attached /\ commands'[c] = "complete"
        \/ r.set = Taken("user").set /\ commands'[c] = "queued"
    <3>1. CASE set
      BY <1>3, <2>1, <3>1
    <3>2. CASE ~set
      BY <1>1, <1>3, <2>1, <3>2 DEF ObjectRecord
    <3> QED BY <3>1, <3>2
  <2> QED BY <1>3, <1>4, <2>2 DEF CommandFor
<1> HIDE DEF c
<1>6. HandsOut(Take("user"), r, c, {})
  BY <1>3, <1>4, <1>5 DEF HandsOut, StandsFor, HandOut, NewUse
<1> QED BY <1>6

LEMMA GroupHandsOut ==
    ASSUME TInv, NEW u \in Uses, NEW v \in Uses, GroupEvents(u, v)
    PROVE  \E o, r, c, ms : HandsOut(o, r, c, ms)
<1> DEFINE r == [Taken("group") EXCEPT !.members = {uses[u].object, uses[v].object},
                                       !.attached = TRUE]
<1>1. Taken("group") \in ObjectRecord /\ Taken("group").pool = "group"
  BY TakenType
<1>2. {uses[u].object, uses[v].object} \subseteq Nat
  BY DEF TInv, TypeOK, Objects
<1>3. /\ r \in ObjectRecord /\ r.pool = "group" /\ r.attached /\ r.set = Taken("group").set
      /\ r.command = Taken("group").command
      /\ r.members = {uses[u].object, uses[v].object}
      /\ r.handlers = Taken("group").handlers
  BY <1>1, <1>2 DEF ObjectRecord
<1>4. /\ Store(Take("group"), r) /\ HandOut(Take("group"), 0, {u, v}) /\ commands' = commands
      /\ UNCHANGED <<resets, told, handlerVars>>
      /\ \A w \in {u, v} : uses[w].epoch = resets /\ objects[uses[w].object].pool = "base"
  BY DEF GroupEvents
<1> HIDE DEF r
<1>5. r.members = {uses[m].object : m \in {u, v}}
  BY <1>3
<1>6. HandsOut(Take("group"), r, 0, {u, v})
  BY <1>3, <1>4, <1>5 DEF HandsOut, CommandFor, StandsFor, HandOut, NewUse
<1> QED BY <1>6

LEMMA HandsOutFacts ==
    ASSUME TInv, NEW o, NEW r, NEW c, NEW ms, HandsOut(o, r, c, ms)
    PROVE  /\ objects' \in Seq(ObjectRecord)
           /\ Objects' = Objects \cup {o} /\ objects'[o] = r
           /\ \A p \in Objects : p # o => objects'[p] = objects[p]
           /\ o \in Objects => objects[o].pool = r.pool /\ ~objects[o].attached
           /\ uses' \in Seq(UseRecord) /\ Uses' = Uses \cup {Len(uses) + 1}
           /\ Len(uses) + 1 \notin Uses /\ Len(uses') = Len(uses) + 1
           /\ uses'[Len(uses) + 1] = NewUse(o, c, ms)
           /\ \A u \in Uses : uses'[u] = uses[u]
           /\ commands' \in Seq({"queued", "complete"}) /\ Len(commands) <= Len(commands')
           /\ \A d \in 1..Len(commands) : commands'[d] = commands[d]
           /\ c \in 0..Len(commands') /\ (c = 0 \/ c = Len(commands) + 1)
           /\ r.command \in 0..Len(commands') /\ r.members \subseteq Objects
           /\ r.handlers \subseteq Handlers /\ ms \subseteq Uses
<1>1. /\ objects \in Seq(ObjectRecord) /\ uses \in Seq(UseRecord)
      /\ commands \in Seq({"queued", "complete"})
      /\ Len(commands) \in Nat /\ Len(uses) \in Nat /\ Len(objects) \in Nat
      /\ resets \in Nat
  BY ConstantsAssumption DEF TInv, AreSequences, TypeOK
<1>2. /\ r \in ObjectRecord /\ o = Take(r.pool) /\ Store(o, r)
      /\ r.command \in {Taken(r.pool).command, c} /\ CommandFor(r, c) /\ StandsFor(r, c, ms)
      /\ uses' = Append(uses, NewUse(o, c, ms))
  BY DEF HandsOut
<1>3. r.pool \in {"base", "user", "group"}
  BY <1>2 DEF ObjectRecord
<1>4. /\ o \in Nat /\ (o \in Objects \/ o = Len(objects) + 1)
      /\ o \in Objects => objects[o].pool = r.pool /\ ~objects[o].attached
  BY <1>2, TakeFacts
<1>5. /\ commands' \in Seq({"queued", "complete"}) /\ Len(commands) <= Len(commands')
      /\ \A d \in 1..Len(commands) : commands'[d] = commands[d]
      /\ c \in 0..Len(commands') /\ (c = 0 \/ c = Len(commands) + 1)
  <2>1. \/ c = 0 /\ commands' = commands
        \/ /\ c = Len(commands) + 1
           /\ commands' \in {Append(commands, "queued"), Append(commands, "complete")}
    BY <1>2 DEF CommandFor
  <2>2. CASE c = 0 /\ commands' = commands
    BY <1>1, <2>2
  <2>3. ASSUME NEW e \in {"queued", "complete"}, commands' = Append(commands, e),
               c = Len(commands) + 1
        PROVE  /\ commands' \in Seq({"queued", "complete"}) /\ Len(commands) <= Len(commands')
               /\ \A d \in 1..Len(commands) : commands'[d] = commands[d]
               /\ c \in 0..Len(commands') /\ (c = 0 \/ c = Len(commands) + 1)
    <3>1. /\ commands' \in Seq({"queued", "complete"}) /\ Len(commands') = Len(commands) + 1
          /\ \A d \in 1..Len(commands) : commands'[d] = commands[d]
      BY <1>1, <2>3
    <3> QED BY <1>1, <2>3, <3>1
  <2> QED BY <2>1, <2>2, <2>3
<1>6. /\ Taken(r.pool).command \in 0..Len(commands) /\ Taken(r.pool).members \subseteq Objects
      /\ r.handlers \subseteq Handlers
  <2>1. \A p \in Objects :
           objects[p].command \in 0..Len(commands) /\ objects[p].members \subseteq Objects
    BY DEF TInv, TypeOK
  <2>2. NewObject(r.pool).command = 0 /\ NewObject(r.pool).members = {}
    BY DEF NewObject
  <2>3. r.handlers \subseteq Handlers
    BY <1>2 DEF ObjectRecord
  <2> QED BY <1>1, <2>1, <2>2, <2>3 DEF Taken
<1>7. r.command \in 0..Len(commands')
  BY <1>1, <1>2, <1>5, <1>6
<1>8. ms \subseteq Uses /\ r.members \subseteq Objects
  <2>1. \A u \in Uses : uses[u].object \in Objects
    BY DEF TInv, TypeOK
  <2> QED BY <1>2, <1>6, <2>1 DEF StandsFor
<1>9. NewUse(o, c, ms) \in UseRecord
  <2>1. ms \subseteq Nat
    BY <1>1, <1>8 DEF Uses
  <2>2. (Clean(o) /\ \A m \in ms : uses[m].clean) \in BOOLEAN
    OBVIOUS
  <2> QED BY <1>1, <1>4, <1>5, <2>1, <2>2 DEF UseRecord, NewUse
<1>10. /\ uses' \in Seq(UseRecord) /\ Uses' = Uses \cup {Len(uses) + 1}
       /\ Len(uses) + 1 \notin Uses /\ Len(uses') = Len(uses) + 1
       /\ uses'[Len(uses) + 1] = NewUse(o, c, ms)
       /\ \A u \in Uses : uses'[u] = uses[u]
  <2>1. PICK use : use = NewUse(o, c, ms)
    OBVIOUS
  <2>2. /\ uses' \in Seq(UseRecord) /\ Len(uses') = Len(uses) + 1
        /\ uses'[Len(uses) + 1] = use /\ \A u \in 1..Len(uses) : uses'[u] = uses[u]
    BY <1>1, <1>2, <1>9, <2>1
  <2>3. Uses' = 1..Len(uses')
    BY DEF Uses
  <2> QED BY <1>1, <2>1, <2>2, <2>3 DEF Uses
<1>11. /\ objects' \in Seq(ObjectRecord)
       /\ Objects' = Objects \cup {o} /\ objects'[o] = r
       /\ \A p \in Objects : p # o => objects'[p] = objects[p]
  BY <1>2, <1>4, StoreFacts
<1> QED BY <1>4, <1>5, <1>6, <1>7, <1>8, <1>10, <1>11

LEMMA HandsOutTypes ==
    ASSUME TInv, NEW o, NEW r, NEW c, NEW ms, HandsOut(o, r, c, ms)
    PROVE  TInv'
<1>1. /\ Objects \subseteq Objects' /\ o \in Objects' /\ objects' \in Seq(ObjectRecord)
      /\ Uses' = Uses \cup {Len(uses) + 1} /\ uses' \in Seq(UseRecord)
      /\ Len(uses') = Len(uses) + 1
      /\ uses'[Len(uses) + 1] = NewUse(o, c, ms)
      /\ commands' \in Seq({"queued", "complete"}) /\ Len(commands) <= Len(commands')
      /\ c \in 0..Len(commands') /\ ms \subseteq Uses
  BY HandsOutFacts
<1>2. /\ resets' = resets /\ told' = told /\ adding' = adding /\ callbacks' = callbacks
      /\ firing' = firing /\ handled' = handled /\ first' = first /\ called' = called
  BY DEF HandsOut, handlerVars
<1>3. Len(commands) \in Nat /\ Len(commands') \in Nat /\ Len(uses) \in Nat /\ resets \in 0..resets
  BY <1>1, ConstantsAssumption DEF TInv, AreSequences, TypeOK
<1>4. ASSUME NEW p \in Objects'
      PROVE  /\ objects'[p].pool \in {"base", "user", "group"}
             /\ objects'[p].attached \in BOOLEAN /\ objects'[p].set \in BOOLEAN
             /\ objects'[p].callback \in BOOLEAN
             /\ objects'[p].command \in 0..Len(commands')
             /\ objects'[p].members \subseteq Objects' /\ objects'[p].handlers \subseteq Handlers
  <2>1. objects'[p] \in ObjectRecord
    BY <1>1 DEF Objects
  <2>2. objects'[p].command \in 0..Len(commands') /\ objects'[p].members \subseteq Objects'
    <3>1. CASE p = o
      BY <1>1, <3>1, HandsOutFacts
    <3>2. CASE p # o
      <4>1. Objects' = Objects \cup {o} /\ \A q \in Objects : q # o => objects'[q] = objects[q]
        BY HandsOutFacts
      <4>2. p \in Objects /\ objects'[p] = objects[p]
        BY <3>2, <4>1
      <4> QED BY <1>1, <1>3, <4>2 DEF TInv, TypeOK
    <3> QED BY <3>1, <3>2
  <2> QED BY <2>1, <2>2 DEF ObjectRecord
<1>5. ASSUME NEW u \in Uses'
      PROVE  /\ uses'[u].object \in Objects' /\ uses'[u].command \in 0..Len(commands')
             /\ uses'[u].members \subseteq Uses' /\ uses'[u].epoch \in 0..resets'
             /\ uses'[u].clean \in BOOLEAN
  <2>1. CASE u = Len(uses) + 1
    <3>1. /\ uses'[u].object = o /\ uses'[u].command = c /\ uses'[u].members = ms
          /\ uses'[u].epoch = resets /\ uses'[u].clean \in BOOLEAN
      BY <1>1, <2>1, NewUseFields
    <3> QED BY <1>1, <1>2, <1>3, <3>1
  <2>2. CASE u \in Uses
    <3>1. uses'[u] = uses[u]
      BY <2>2, HandsOutFacts
    <3> QED BY <1>1, <1>2, <1>3, <2>2, <3>1 DEF TInv, TypeOK
  <2> QED BY <1>1, <2>1, <2>2
<1>6. /\ handled' \in [Handlers -> 0..Len(uses')]
      /\ callbacks' \subseteq (1..Len(commands')) \X Objects' /\ firing' \subseteq Objects'
  <2>1. Len(uses) <= Len(uses')
    BY <1>1, <1>3
  <2>2. 0..Len(uses) \subseteq 0..Len(uses') /\ 1..Len(commands) \subseteq 1..Len(commands')
    BY <1>1, <1>3, <2>1
  <2> QED BY <1>1, <1>2, <2>2 DEF TInv, TypeOK
<1>7. \A d \in 1..Len(commands') : commands'[d] \in {"queued", "complete"}
  BY <1>1
<1>8. TypeOK'
  BY <1>1, <1>2, <1>4, <1>5, <1>6, <1>7 DEF TInv, TypeOK
<1> QED BY <1>1, <1>2, <1>8 DEF TInv, AreSequences

(* The other actions leave the uses alone, and of an object what it is for.  *)
Keeps ==
    /\ objects' \in Seq(ObjectRecord) /\ Len(objects') = Len(objects)
    /\ \A o \in Objects : /\ objects'[o].pool = objects[o].pool
                          /\ objects'[o].command = objects[o].command
                          /\ objects'[o].members = objects[o].members
    /\ commands' \in Seq({"queued", "complete"}) /\ Len(commands') = Len(commands)
    /\ \A c \in 1..Len(commands) : commands[c] = "complete" => commands'[c] = "complete"
    /\ uses' = uses

LEMMA KeepsTypes ==
    ASSUME TInv, Keeps, resets' \in 0..MaxResets, resets <= resets', told' \subseteq Uses,
           adding' \in [Threads -> {<< >>} \cup (Uses \X Handlers)],
           callbacks' \subseteq (1..Len(commands)) \X Objects, firing' \subseteq Objects,
           handled' \in [Handlers -> 0..Len(uses)], first' \subseteq Handlers,
           called' \in [Handlers -> Nat]
    PROVE  TInv'
<1>1. Objects' = Objects /\ Uses' = Uses /\ Len(commands') = Len(commands) /\ uses' = uses
  BY DEF Keeps, Objects, Uses
<1>2. ASSUME NEW p \in Objects
      PROVE  /\ objects'[p].pool \in {"base", "user", "group"}
             /\ objects'[p].attached \in BOOLEAN /\ objects'[p].set \in BOOLEAN
             /\ objects'[p].callback \in BOOLEAN
             /\ objects'[p].command \in 0..Len(commands)
             /\ objects'[p].members \subseteq Objects /\ objects'[p].handlers \subseteq Handlers
  <2>1. objects'[p] \in ObjectRecord
    BY DEF Keeps, Objects
  <2>2. objects'[p].command \in 0..Len(commands) /\ objects'[p].members \subseteq Objects
    BY DEF Keeps, TInv, TypeOK
  <2> QED BY <2>1, <2>2 DEF ObjectRecord
<1>3. \A c \in 1..Len(commands) : commands'[c] \in {"queued", "complete"}
  BY DEF Keeps
<1>4. \A u \in Uses : uses[u].epoch \in 0..resets'
  BY ConstantsAssumption DEF TInv, TypeOK
<1>5. Uses \subseteq Nat
  BY DEF TInv, AreSequences, Uses
<1>6. TypeOK'
  BY <1>1, <1>2, <1>3, <1>4 DEF TInv, TypeOK
<1>7. AreSequences'
  BY <1>1, <1>5 DEF Keeps, TInv, AreSequences
<1> QED BY <1>6, <1>7 DEF TInv

LEMMA RaiseKeeps ==
    ASSUME TInv, NEW S, objects' = Raise(S), commands' = commands, uses' = uses
    PROVE  Keeps
BY RaiseFacts DEF Keeps, TInv, AreSequences

LEMMA StoreKeeps ==
    ASSUME TInv, NEW o \in Objects, NEW r \in ObjectRecord, objects' = [objects EXCEPT ![o] = r],
           r.pool = objects[o].pool, r.command = objects[o].command,
           r.members = objects[o].members, uses' = uses,
           /\ commands' \in Seq({"queued", "complete"}) /\ Len(commands') = Len(commands)
           /\ \A c \in 1..Len(commands) : commands[c] = "complete" => commands'[c] = "complete"
    PROVE  Keeps /\ objects'[o] = r /\ \A p \in Objects : p # o => objects'[p] = objects[p]
<1>1. objects \in Seq(ObjectRecord)
  BY DEF TInv, AreSequences
<1>2. /\ objects' \in Seq(ObjectRecord) /\ Len(objects') = Len(objects) /\ objects'[o] = r
      /\ \A p \in Objects : p # o => objects'[p] = objects[p]
  BY <1>1 DEF Objects
<1> QED BY <1>1, <1>2 DEF Keeps

LEMMA CompletesFacts ==
    ASSUME TInv, NEW c \in 1..Len(commands), commands' = [commands EXCEPT ![c] = "complete"]
    PROVE  /\ commands' \in Seq({"queued", "complete"}) /\ Len(commands') = Len(commands)
           /\ commands'[c] = "complete"
           /\ \A d \in 1..Len(commands) : d # c => commands'[d] = commands[d]
BY DEF TInv, AreSequences

LEMMA OldTypes ==
    TInv => /\ adding \in [Threads -> {<< >>} \cup (Uses \X Handlers)]
            /\ resets \in 0..MaxResets /\ resets <= resets /\ told \subseteq Uses
            /\ callbacks \subseteq (1..Len(commands)) \X Objects /\ firing \subseteq Objects
            /\ handled \in [Handlers -> 0..Len(uses)] /\ first \subseteq Handlers
            /\ called \in [Handlers -> Nat]
            /\ \A u \in Uses : uses[u].object \in Objects
            /\ \A o \in Objects : objects[o] \in ObjectRecord
BY ConstantsAssumption DEF TInv, TypeOK, AreSequences, Objects

(* What each of them does, in terms of the objects' fields. *)
LEMMA ResetTypes ==
    ASSUME TInv, ResetEvents
    PROVE  /\ Keeps /\ TInv'
           /\ \A o \in Objects : /\ ~objects'[o].attached /\ objects'[o].set = objects[o].set
                                 /\ objects'[o].handlers = objects[o].handlers
<1>1. /\ resets < MaxResets /\ resets' = resets + 1
      /\ objects' = [o \in Objects |-> [objects[o] EXCEPT !.attached = FALSE]]
      /\ UNCHANGED <<commands, uses, told, handlerVars>>
  BY DEF ResetEvents
<1>2. objects \in Seq(ObjectRecord) /\ Len(objects) \in Nat
  BY DEF TInv, AreSequences
<1>3. \A o \in Objects : objects[o] \in ObjectRecord
  BY <1>2 DEF Objects
<1>4. \A o \in Objects : [objects[o] EXCEPT !.attached = FALSE] \in ObjectRecord
  BY <1>3 DEF ObjectRecord
<1>5. objects' \in Seq(ObjectRecord) /\ Len(objects') = Len(objects)
  BY <1>1, <1>2, <1>4 DEF Objects
<1>6. ASSUME NEW o \in Objects
      PROVE  /\ objects'[o].pool = objects[o].pool /\ objects'[o].command = objects[o].command
             /\ objects'[o].members = objects[o].members
             /\ ~objects'[o].attached /\ objects'[o].set = objects[o].set
             /\ objects'[o].handlers = objects[o].handlers
  <2>1. objects'[o] = [objects[o] EXCEPT !.attached = FALSE]
    BY <1>1
  <2> QED BY <1>3, <2>1 DEF ObjectRecord
<1>7. Keeps
  BY <1>1, <1>5, <1>6 DEF Keeps, TInv, AreSequences
<1>8. resets' \in 0..MaxResets /\ resets <= resets'
  BY <1>1, ConstantsAssumption DEF TInv, TypeOK
<1>9. TInv'
  <2>1. /\ told' = told /\ adding' = adding /\ callbacks' = callbacks /\ firing' = firing
        /\ handled' = handled /\ first' = first /\ called' = called
    BY <1>1 DEF handlerVars
  <2> QED BY <1>7, <1>8, <2>1, KeepsTypes, OldTypes
<1> QED BY <1>6, <1>7, <1>9

LEMMA LearnTypes ==
    ASSUME TInv, NEW u \in Uses, Learn(u)
    PROVE  Keeps /\ TInv'
<1>1. /\ told' = told \cup {u} /\ objects' = Raise(Flagged(uses[u].object))
      /\ UNCHANGED <<commands, uses, resets, handlerVars>>
  BY DEF Learn
<1>2. Keeps
  BY <1>1, RaiseKeeps
<1>3. /\ resets' = resets /\ adding' = adding /\ callbacks' = callbacks /\ firing' = firing
      /\ handled' = handled /\ first' = first /\ called' = called
  BY <1>1 DEF handlerVars
<1> QED BY <1>1, <1>2, <1>3, KeepsTypes, OldTypes

LEMMA CalledAtOnceTypes ==
    ASSUME TInv, NEW t \in Threads, NEW u \in Uses, NEW x \in Handlers,
           HandlerCalledAtOnce(t, u, x)
    PROVE  Keeps /\ TInv'
<1>1. /\ handled' = [handled EXCEPT ![x] = u] /\ called' = [called EXCEPT ![x] = @ + 1]
      /\ objects' = Raise(Flagged(uses[u].object))
      /\ UNCHANGED <<commands, uses, resets, told, adding, callbacks, firing, first>>
  BY DEF HandlerCalledAtOnce
<1>2. Keeps
  BY <1>1, RaiseKeeps
<1>3. handled' \in [Handlers -> 0..Len(uses)] /\ called' \in [Handlers -> Nat]
  BY <1>1 DEF TInv, TypeOK, Uses, AreSequences
<1> QED BY <1>1, <1>2, <1>3, KeepsTypes, OldTypes

LEMMA ToBeAddedTypes ==
    ASSUME TInv, NEW t \in Threads, NEW u \in Uses, NEW x \in Handlers,
           HandlerToBeAdded(t, u, x)
    PROVE  Keeps /\ TInv'
<1>1. /\ handled' = [handled EXCEPT ![x] = u] /\ adding' = [adding EXCEPT ![t] = <<u, x>>]
      /\ objects' = objects /\ commands' = commands /\ uses' = uses /\ resets' = resets
      /\ UNCHANGED <<told, callbacks, firing, first, called>>
  BY DEF HandlerToBeAdded, poolVars
<1>2. Keeps
  BY <1>1 DEF Keeps, TInv, AreSequences
<1>3. handled' \in [Handlers -> 0..Len(uses)]
  BY <1>1 DEF TInv, TypeOK, Uses, AreSequences
<1>4. adding' \in [Threads -> {<< >>} \cup (Uses \X Handlers)]
  BY <1>1, OldTypes
<1> QED BY <1>1, <1>2, <1>3, <1>4, KeepsTypes, OldTypes

LEMMA SetUserTypes ==
    ASSUME TInv, NEW u \in Uses, SetUserEvent(u)
    PROVE  /\ Keeps /\ TInv'
           /\ LET o == uses[u].object IN
              /\ objects[o].pool = "user" /\ ~objects[o].set
              /\ objects[o].command \in 1..Len(commands)
              /\ commands'[objects[o].command] = "complete"
              /\ \A d \in 1..Len(commands) :
                    d # objects[o].command => commands'[d] = commands[d]
              /\ objects'[o].set /\ objects'[o].attached /\ objects'[o].handlers = {}
              /\ \A p \in Objects : p # o => objects'[p] = objects[p]
<1> DEFINE o == uses[u].object
           c == objects[o].command
           r == [objects[o] EXCEPT !.set = TRUE, !.attached = TRUE, !.handlers = {}]
<1>1. /\ objects[o].pool = "user" /\ ~objects[o].set /\ ~Done(c)
      /\ commands' = [commands EXCEPT ![c] = "complete"]
      /\ Calls(objects[o].handlers)
      /\ UNCHANGED <<uses, resets, told, adding, callbacks, firing, handled, first>>
  BY DEF SetUserEvent, CallHandlers
<1>2. objects' = [objects EXCEPT ![o] = r]
  BY DEF SetUserEvent, CallHandlers
<1>3. o \in Objects /\ objects[o] \in ObjectRecord
  BY OldTypes
<1>4. c \in 1..Len(commands)
  <2>1. c \in 0..Len(commands)
    BY <1>3 DEF TInv, TypeOK
  <2> QED BY <1>1, <2>1 DEF Done, TInv, AreSequences
<1>5. /\ r \in ObjectRecord /\ r.set /\ r.attached /\ r.handlers = {}
      /\ r.pool = objects[o].pool /\ r.command = c /\ r.members = objects[o].members
  BY <1>3 DEF ObjectRecord
<1> HIDE DEF r
<1>6. /\ commands' \in Seq({"queued", "complete"}) /\ Len(commands') = Len(commands)
      /\ commands'[c] = "complete"
      /\ \A d \in 1..Len(commands) : d # c => commands'[d] = commands[d]
  BY <1>1, <1>4, CompletesFacts
<1>7. \A d \in 1..Len(commands) : commands[d] = "complete" => commands'[d] = "complete"
  BY <1>6
<1>8. Keeps /\ objects'[o] = r /\ \A p \in Objects : p # o => objects'[p] = objects[p]
  BY <1>1, <1>2, <1>3, <1>5, <1>6, <1>7, StoreKeeps
<1>9. called' \in [Handlers -> Nat]
  BY <1>1, OldTypes DEF Calls
<1>10. TInv'
  BY <1>1, <1>8, <1>9, KeepsTypes, OldTypes
<1> QED BY <1>1, <1>4, <1>5, <1>6, <1>8, <1>10

LEMMA CompleteTypes ==
    ASSUME TInv, NEW c \in 1..Len(commands), Complete(c)
    PROVE  /\ Keeps /\ TInv' /\ objects' = objects
           /\ \A d \in 1..Len(commands) : d # c => commands'[d] = commands[d]
<1>1. /\ commands' = [commands EXCEPT ![c] = "complete"]
      /\ objects' = objects /\ uses' = uses /\ resets' = resets /\ told' = told
      /\ adding' = adding /\ callbacks' = callbacks /\ firing' = firing
      /\ handled' = handled /\ first' = first /\ called' = called
  BY DEF Complete, handlerVars
<1>2. /\ commands' \in Seq({"queued", "complete"}) /\ Len(commands') = Len(commands)
      /\ commands'[c] = "complete"
      /\ \A d \in 1..Len(commands) : d # c => commands'[d] = commands[d]
  BY <1>1, CompletesFacts
<1>3. Keeps
  BY <1>1, <1>2 DEF Keeps, TInv, AreSequences
<1>4. TInv'
  BY <1>1, <1>3, KeepsTypes, OldTypes
<1> QED BY <1>1, <1>2, <1>3, <1>4

LEMMA CallbackTypes ==
    ASSUME TInv, NEW co \in callbacks, Callback(co[1], co[2])
    PROVE  Keeps /\ TInv'
<1>1. /\ callbacks' = callbacks \ {<<co[1], co[2]>>} /\ firing' = firing \cup {co[2]}
      /\ objects' = Raise({co[2]})
      /\ UNCHANGED <<commands, uses, resets, told, adding, handled, first, called>>
  BY DEF Callback
<1>2. Keeps
  BY <1>1, RaiseKeeps
<1>3. co[2] \in Objects
  BY OldTypes
<1> QED BY <1>1, <1>2, <1>3, KeepsTypes, OldTypes

LEMMA CallsHandlersTypes ==
    ASSUME TInv, NEW o \in firing, CallbackCallsHandlers(o)
    PROVE  /\ Keeps /\ TInv' /\ o \in Objects
           /\ objects'[o].handlers = {} /\ objects'[o].set = objects[o].set
           /\ objects'[o].attached = objects[o].attached
           /\ \A p \in Objects : p # o => objects'[p] = objects[p]
<1> DEFINE r == [objects[o] EXCEPT !.handlers = {}]
<1>1. /\ firing' = firing \ {o} /\ Calls(objects[o].handlers)
      /\ UNCHANGED <<commands, uses, resets, told, adding, callbacks, handled, first>>
  BY DEF CallbackCallsHandlers, CallHandlers
<1>2. objects' = [objects EXCEPT ![o] = r]
  BY DEF CallbackCallsHandlers, CallHandlers
<1>3. o \in Objects /\ objects[o] \in ObjectRecord
  BY OldTypes
<1>4. /\ r \in ObjectRecord /\ r.handlers = {} /\ r.set = objects[o].set
      /\ r.attached = objects[o].attached /\ r.pool = objects[o].pool
      /\ r.command = objects[o].command /\ r.members = objects[o].members
  BY <1>3 DEF ObjectRecord
<1> HIDE DEF r
<1>5. commands' \in Seq({"queued", "complete"})
  BY <1>1 DEF TInv, AreSequences
<1>6. Keeps /\ objects'[o] = r /\ \A p \in Objects : p # o => objects'[p] = objects[p]
  BY <1>1, <1>2, <1>3, <1>4, <1>5, StoreKeeps
<1>7. called' \in [Handlers -> Nat]
  BY <1>1, OldTypes DEF Calls
<1>8. TInv'
  BY <1>1, <1>6, <1>7, KeepsTypes, OldTypes
<1> QED BY <1>3, <1>4, <1>6, <1>8

(* A handler is inserted into object o, which becomes r. *)
Inserts(t, u, x, o, r) ==
    /\ adding[t] = <<u, x>> /\ u \in Uses /\ x \in Handlers /\ o = uses[u].object
    /\ o \in Objects /\ r \in ObjectRecord
    /\ r.pool = objects[o].pool /\ r.command = objects[o].command
    /\ r.members = objects[o].members /\ r.attached = objects[o].attached
    /\ r.handlers = objects[o].handlers \cup {x} /\ (r.set => objects[o].set)
    /\ objects' = [objects EXCEPT ![o] = r]
    /\ \/ callbacks' = callbacks
       \/ /\ callbacks' = callbacks \cup {<<objects[o].command, o>>}
          /\ objects[o].pool # "group" /\ objects[o].command # 0
    /\ first' \in {first, first \cup {x}}

LEMMA AddHandlerInserts ==
    ASSUME TInv, NEW t \in Threads, AddHandler(t)
    PROVE  \E u, x, o, r : Inserts(t, u, x, o, r)
<1>1. PICK late \in BOOLEAN : Insert(t, late)
  BY DEF AddHandler
<1> DEFINE u == adding[t][1]
           x == adding[t][2]
           o == uses[u].object
           asks == SetOclCallback(o) /\ objects[o].command # 0
           r == [objects[o] EXCEPT !.handlers = @ \cup {x}, !.set = @ /\ ~late,
                                   !.callback = @ \/ asks]
<1>2. adding[t] = <<u, x>> /\ u \in Uses /\ x \in Handlers
  <2>1. adding[t] \in Uses \X Handlers
    BY OldTypes DEF AddHandler
  <2> QED BY <2>1
<1>3. o \in Objects /\ objects[o] \in ObjectRecord
  BY <1>2, OldTypes
<1>4. /\ r.pool = objects[o].pool /\ r.command = objects[o].command
      /\ r.members = objects[o].members /\ r.attached = objects[o].attached
      /\ r.handlers = objects[o].handlers \cup {x} /\ (r.set => objects[o].set)
      /\ r \in ObjectRecord
  BY <1>2, <1>3 DEF ObjectRecord
<1>5. objects' = [objects EXCEPT ![o] = r]
  <2>1. objects \in Seq(ObjectRecord)
    BY DEF TInv, AreSequences
  <2>2. objects' = [objects EXCEPT ![o].handlers = @ \cup {x}, ![o].set = @ /\ ~late,
                                   ![o].callback = @ \/ asks]
    BY <1>1 DEF Insert
  <2> QED BY <1>3, <2>1, <2>2 DEF Objects
<1>6. /\ callbacks' = IF asks THEN callbacks \cup {<<objects[o].command, o>>} ELSE callbacks
      /\ first' = IF asks THEN first \cup {x} ELSE first
  BY <1>1 DEF Insert
<1>7. \/ callbacks' = callbacks
      \/ /\ callbacks' = callbacks \cup {<<objects[o].command, o>>}
         /\ objects[o].pool # "group" /\ objects[o].command # 0
  BY <1>6 DEF SetOclCallback
<1>8. first' \in {first, first \cup {x}}
  BY <1>6
<1> HIDE DEF u, x, o, r, asks
<1>9. Inserts(t, u, x, o, r)
  BY <1>2, <1>3, <1>4, <1>5, <1>7, <1>8 DEF Inserts, o
<1> QED BY <1>9

LEMMA AddHandlerTypes ==
    ASSUME TInv, NEW t \in Threads, AddHandler(t)
    PROVE  Keeps /\ TInv'
<1>1. /\ adding' = [adding EXCEPT ![t] = << >>]
      /\ UNCHANGED <<commands, uses, resets, told, firing, handled, called>>
  BY DEF AddHandler
<1>2. PICK u, x, o, r : Inserts(t, u, x, o, r)
  BY AddHandlerInserts
<1>3. /\ o \in Objects /\ r \in ObjectRecord /\ objects' = [objects EXCEPT ![o] = r]
      /\ r.pool = objects[o].pool /\ r.command = objects[o].command
      /\ r.members = objects[o].members /\ x \in Handlers
  BY <1>2 DEF Inserts
<1>4. commands' \in Seq({"queued", "complete"}) /\ Len(commands') = Len(commands)
  BY <1>1 DEF TInv, AreSequences
<1>5. Keeps
  BY <1>1, <1>3, <1>4, StoreKeeps
<1>6. objects[o].command \in 0..Len(commands)
  BY <1>3 DEF TInv, TypeOK
<1>7. callbacks' \subseteq (1..Len(commands)) \X Objects /\ first' \subseteq Handlers
  <2>1. objects[o].command # 0 => objects[o].command \in 1..Len(commands)
    BY <1>6 DEF TInv, AreSequences
  <2>2. callbacks \subseteq (1..Len(commands)) \X Objects /\ first \subseteq Handlers
    BY OldTypes
  <2> QED BY SMTT(60), <1>2, <1>3, <2>1, <2>2 DEF Inserts
<1>8. adding' \in [Threads -> {<< >>} \cup (Uses \X Handlers)]
  BY <1>1, OldTypes
<1> QED BY <1>1, <1>5, <1>7, <1>8, KeepsTypes, OldTypes

LEMMA InitTypes == Init => TInv
<1> SUFFICES ASSUME Init PROVE TInv
  OBVIOUS
<1>1. /\ objects = << >> /\ commands = << >> /\ uses = << >> /\ resets = 0 /\ told = {}
      /\ adding = [t \in Threads |-> << >>] /\ callbacks = {} /\ firing = {}
      /\ handled = [x \in Handlers |-> 0] /\ first = {} /\ called = [x \in Handlers |-> 0]
  BY DEF Init
<1>2. Objects = {} /\ Uses = {} /\ 1..Len(commands) = {}
  BY <1>1 DEF Objects, Uses
<1>3. AreSequences
  BY <1>1 DEF AreSequences
<1>4. 0 \in 0..MaxResets /\ 0 \in 0..Len(uses)
  BY <1>1, ConstantsAssumption
<1> QED BY <1>1, <1>2, <1>3, <1>4 DEF TInv, TypeOK

LEMMA TypesStep == TInv /\ [Next]_vars => TInv'
<1> SUFFICES ASSUME TInv, [Next]_vars PROVE TInv'
  OBVIOUS
<1>1. CASE Engine
  <2>1. ASSUME NEW b \in BOOLEAN, EnqueueKernel(b) PROVE TInv'
    BY <2>1, KernelHandsOut, HandsOutTypes
  <2>2. ASSUME NEW b \in BOOLEAN, CreateUserEvent(b) PROVE TInv'
    BY <2>2, UserHandsOut, HandsOutTypes
  <2>3. ASSUME NEW u \in Uses, NEW v \in Uses, GroupEvents(u, v) PROVE TInv'
    BY <2>3, GroupHandsOut, HandsOutTypes
  <2> QED BY <1>1, <2>1, <2>2, <2>3, ResetTypes DEF Engine
<1>2. CASE User
  BY <1>2, LearnTypes, SetUserTypes, CalledAtOnceTypes, ToBeAddedTypes DEF User
<1>3. CASE Driver
  BY <1>3, CompleteTypes, CallbackTypes, CallsHandlersTypes DEF Driver
<1>4. CASE \E t \in Threads : AddHandler(t)
  BY <1>4, AddHandlerTypes
<1>5. CASE UNCHANGED vars
  <2>1. Keeps /\ resets' = resets /\ told' = told /\ adding' = adding /\ callbacks' = callbacks
        /\ firing' = firing /\ handled' = handled /\ first' = first /\ called' = called
    BY <1>5 DEF vars, Keeps, TInv, AreSequences
  <2> QED BY <2>1, KeepsTypes, OldTypes
<1> QED BY <1>1, <1>2, <1>3, <1>4, <1>5 DEF Next

-----------------------------------------------------------------------------
(* What is done after the step. *)
DoneThen(c) == c # 0 => commands'[c] = "complete"

LEMMA CompleteStays ==
    ASSUME TInv, NEW u \in Uses, IsComplete(u), \A v \in Uses : uses'[v] = uses[v],
           \A c \in 1..Len(commands) : commands[c] = "complete" => commands'[c] = "complete"
    PROVE  IsComplete(u)'
<1>1. /\ uses[u].members \subseteq Uses
      /\ \A v \in Uses : uses[v].command \in 0..Len(commands)
  BY DEF TInv, TypeOK
<1>2. Len(commands) \in Nat
  BY DEF TInv, AreSequences
<1>3. \A v \in Uses : Done(uses[v].command) => DoneThen(uses[v].command)
  BY <1>1, <1>2 DEF Done, DoneThen
<1>4. DoneThen(uses'[u].command) /\ \A m \in uses'[u].members : DoneThen(uses'[m].command)
  BY <1>1, <1>3 DEF IsComplete
<1> QED BY <1>4 DEF IsComplete, Done, DoneThen


(* What an action never does: change a use, forget that a command is         *)
(* complete, or make an event one that can be relied on again.               *)
Extends ==
    /\ Uses \subseteq Uses' /\ Objects \subseteq Objects'
    /\ \A u \in Uses : /\ uses'[u] = uses[u]
                       /\ IsComplete(u) => IsComplete(u)'
                       /\ Promised(u)' => Promised(u)
    /\ \A o \in Objects : objects'[o].pool = objects[o].pool

LEMMA HandsOutUses ==
    ASSUME TInv, NEW o, NEW r, NEW c, NEW ms, HandsOut(o, r, c, ms),
           NEW n, n = Len(uses) + 1
    PROVE  /\ Uses' = Uses \cup {n} /\ n \notin Uses
           /\ uses'[n].object = o /\ uses'[n].command = c /\ uses'[n].members = ms
           /\ uses'[n].epoch = resets
           /\ uses'[n].clean => Clean(o) /\ \A m \in ms : uses[m].clean
           /\ \A u \in Uses : uses'[u] = uses[u] /\ u < n
           /\ \A u \in Uses : Latest(u)' <=> Latest(u) /\ uses[u].object # o
           /\ Latest(n)'
<1>1. /\ Uses' = Uses \cup {n} /\ n \notin Uses
      /\ uses'[n] = NewUse(o, c, ms)
      /\ \A u \in Uses : uses'[u] = uses[u]
  BY HandsOutFacts
<1>2. /\ uses'[n].object = o /\ uses'[n].command = c /\ uses'[n].members = ms
      /\ uses'[n].epoch = resets
      /\ uses'[n].clean => Clean(o) /\ \A m \in ms : uses[m].clean
  BY <1>1, NewUseFields
<1>3. n \in Nat /\ \A u \in Uses : u \in Nat /\ u < n
  BY DEF TInv, AreSequences, Uses
<1>4. Latest(n)'
  <2>1. \A v \in Uses' : v <= n
    BY <1>1, <1>3
  <2> QED BY <2>1 DEF Latest
<1>5. ASSUME NEW u \in Uses PROVE Latest(u)' <=> Latest(u) /\ uses[u].object # o
  <2>1. uses'[u].object = uses[u].object /\ \A v \in Uses : uses'[v].object = uses[v].object
    BY <1>1
  <2>2. Latest(u)' <=> \A v \in Uses' : uses'[v].object = uses'[u].object => v <= u
    BY DEF Latest
  <2>3. Latest(u) <=> \A v \in Uses : uses[v].object = uses[u].object => v <= u
    BY DEF Latest
  <2>4. ~(n <= u)
    BY <1>3
  <2> QED BY <1>1, <1>2, <2>1, <2>2, <2>3, <2>4
<1> QED BY <1>1, <1>2, <1>3, <1>4, <1>5

LEMMA HandsOutExtends ==
    ASSUME TInv, NEW o, NEW r, NEW c, NEW ms, HandsOut(o, r, c, ms)
    PROVE  /\ Extends
           /\ \A u \in Uses : Promised(u)' => uses[u].object # o
           /\ \A p \in Objects' : \A x \in objects'[p].handlers :
                 p \in Objects /\ x \in objects[p].handlers
<1>1. /\ Objects' = Objects \cup {o} /\ objects'[o] = r
      /\ \A p \in Objects : p # o => objects'[p] = objects[p]
      /\ o \in Objects => objects[o].pool = r.pool
  BY HandsOutFacts, ZenonT(60)
<1>2. /\ Uses \subseteq Uses' /\ \A u \in Uses : uses'[u] = uses[u]
      /\ \A u \in Uses : Latest(u)' <=> Latest(u) /\ uses[u].object # o
  BY HandsOutUses
<1>3. \A d \in 1..Len(commands) : commands'[d] = commands[d]
  BY HandsOutFacts
<1>4. \A u \in Uses : IsComplete(u) => IsComplete(u)'
  BY <1>2, <1>3, CompleteStays
<1>5. ASSUME NEW u \in Uses, Promised(u)' PROVE Promised(u) /\ uses[u].object # o
  <2>1. uses[u].members \subseteq Uses
    BY DEF TInv, TypeOK
  <2>2. uses'[u].clean /\ Latest(u)' /\ \A m \in uses'[u].members : Latest(m)'
    BY <1>5 DEF Promised, Own
  <2>3. uses[u].clean /\ Latest(u) /\ uses[u].object # o /\ \A m \in uses[u].members : Latest(m)
    BY <1>2, <2>1, <2>2
  <2> QED BY <2>3 DEF Promised, Own
<1>6. r.handlers = Taken(r.pool).handlers /\ o = Take(r.pool)
  BY DEF HandsOut
<1>7. \A x \in r.handlers : o \in Objects /\ x \in objects[o].handlers
  BY <1>6 DEF Taken, NewObject
<1> QED BY <1>1, <1>2, <1>4, <1>5, <1>7 DEF Extends

LEMMA KeepsFacts ==
    ASSUME TInv, Keeps
    PROVE  /\ Objects' = Objects /\ Uses' = Uses /\ uses' = uses
           /\ \A u \in Uses : IsComplete(u) => IsComplete(u)'
           /\ \A u \in Uses : Latest(u)' <=> Latest(u)
           /\ \A u \in Uses : Promised(u)' <=> Promised(u)
           /\ Extends
<1>1. Objects' = Objects /\ Uses' = Uses /\ uses' = uses
  BY DEF Keeps, Objects, Uses
<1>2. \A c \in 1..Len(commands) : commands[c] = "complete" => commands'[c] = "complete"
  BY DEF Keeps
<1>3. \A u \in Uses : IsComplete(u) => IsComplete(u)'
  BY <1>1, <1>2, CompleteStays
<1>4. \A u : Latest(u)' <=> Latest(u)
  BY <1>1 DEF Latest
<1>5. \A u \in Uses : Promised(u)' <=> Promised(u)
  BY <1>1, <1>4 DEF Promised, Own
<1>6. \A o \in Objects : objects'[o].pool = objects[o].pool
  BY DEF Keeps
<1> QED BY <1>1, <1>3, <1>4, <1>5, <1>6 DEF Extends

-----------------------------------------------------------------------------
(* Handing out. *)
LEMMA HandsOutInv ==
    ASSUME EInv, NEW o, NEW r, NEW c, NEW ms, HandsOut(o, r, c, ms)
    PROVE  EInv'
<1>0. PICK n : n = Len(uses) + 1
  OBVIOUS
<1>1. TInv /\ TInv' /\ resets' = resets
  BY HandsOutTypes DEF EInv, HandsOut
<1>2. /\ Objects' = Objects \cup {o} /\ objects'[o] = r
      /\ \A p \in Objects : p # o => objects'[p] = objects[p]
      /\ o \in Objects => objects[o].pool = r.pool /\ ~objects[o].attached
  BY <1>1, HandsOutFacts, ZenonT(120)
<1>3. /\ Uses' = Uses \cup {n} /\ n \notin Uses
      /\ uses'[n].object = o /\ uses'[n].command = c /\ uses'[n].members = ms
      /\ uses'[n].epoch = resets
      /\ uses'[n].clean => Clean(o) /\ \A m \in ms : uses[m].clean
      /\ \A u \in Uses : uses'[u] = uses[u]
      /\ \A u \in Uses : Latest(u)' <=> Latest(u) /\ uses[u].object # o
      /\ Latest(n)'
  BY <1>0, <1>1, HandsOutUses
<1>4. /\ \A d \in 1..Len(commands) : commands'[d] = commands[d]
      /\ c = 0 \/ c = Len(commands) + 1
  BY <1>1, HandsOutFacts
<1>5. Len(commands) \in Nat /\ \A u \in Uses : uses[u].command \in 0..Len(commands)
  BY <1>1 DEF TInv, AreSequences, TypeOK
<1>6. /\ \A u \in Uses : uses[u].object \in Objects /\ uses[u].members \subseteq Uses
      /\ \A p \in Objects : objects[p].members \subseteq Objects
  BY <1>1 DEF TInv, TypeOK
<1>7. \A d \in 0..Len(commands) : DoneThen(d) <=> Done(d)
  BY <1>4, <1>5 DEF Done, DoneThen
<1>8. CommandFor(r, c) /\ StandsFor(r, c, ms) /\ r \in ObjectRecord
  BY DEF HandsOut
<1>9. \A p \in Objects : objects'[p].pool = objects[p].pool
  BY <1>2
<1>10. Attached'
  <2>1. ASSUME NEW u \in Uses, uses[u].epoch = resets
        PROVE  LET p == uses'[u].object IN
               \/ objects'[p].attached /\ Latest(u)'
               \/ objects'[p].pool = "user" /\ ~DoneThen(uses'[u].command)
    <3>1. CASE objects[uses[u].object].attached /\ Latest(u)
      <4>1. uses[u].object # o
        BY <1>2, <1>6, <3>1
      <4> QED BY <1>2, <1>3, <1>6, <3>1, <4>1
    <3>2. CASE objects[uses[u].object].pool = "user" /\ ~Done(uses[u].command)
      BY <1>3, <1>5, <1>6, <1>7, <1>9, <3>2
    <3> QED BY <2>1, <3>1, <3>2 DEF EInv, Attached
  <2>2. \/ r.attached
        \/ r.pool = "user" /\ ~DoneThen(c)
    BY <1>4, <1>5, <1>8 DEF CommandFor, DoneThen
  <2>3. \A u \in Uses' : uses'[u].epoch = resets =>
           LET p == uses'[u].object IN
           \/ objects'[p].attached /\ Latest(u)'
           \/ objects'[p].pool = "user" /\ ~DoneThen(uses'[u].command)
    BY <1>2, <1>3, <2>1, <2>2
  <2> QED BY <1>1, <2>3 DEF Attached, Done, DoneThen
<1>11. ForUses'
  <2>1. IF r.pool = "group" THEN \A p \in r.members : p \in Objects /\ objects[p].pool = "base"
        ELSE r.members = {}
    <3>1. CASE r.pool = "group"
      <4>1. r.members = {uses[m].object : m \in ms}
            /\ \A m \in ms : m \in Uses /\ objects[uses[m].object].pool = "base"
        BY <1>8, <3>1 DEF StandsFor
      <4> QED BY <1>6, <3>1, <4>1
    <3>2. CASE r.pool # "group"
      <4>1. r.pool \in {"base", "user", "group"}
        BY <1>8 DEF ObjectRecord
      <4>2. Taken(r.pool).pool = r.pool
        BY <1>1, <4>1, TakenType
      <4>3. Taken(r.pool).members = {}
        BY <3>2, <4>2 DEF Taken, NewObject, EInv, ForUses
      <4> QED BY <1>8, <3>2, <4>3 DEF StandsFor
    <3> QED BY <3>1, <3>2
  <2>2. ASSUME NEW p \in Objects'
        PROVE  IF objects'[p].pool = "group"
               THEN \A q \in objects'[p].members : objects'[q].pool = "base"
               ELSE objects'[p].members = {}
    <3>1. CASE p = o
      BY <1>2, <1>9, <2>1, <3>1
    <3>2. CASE p # o
      <4>1. p \in Objects /\ objects'[p] = objects[p]
        BY <1>2, <3>2
      <4>2. IF objects[p].pool = "group"
            THEN \A q \in objects[p].members : objects[q].pool = "base"
            ELSE objects[p].members = {}
        BY <4>1 DEF EInv, ForUses
      <4>3. \A q \in objects[p].members : objects'[q].pool = objects[q].pool
        BY <1>6, <1>9, <4>1
      <4> QED BY <4>1, <4>2, <4>3
    <3> QED BY <3>1, <3>2
  <2>3. ASSUME NEW u \in Uses
        PROVE  LET p == uses'[u].object IN
               IF objects'[p].pool = "group"
               THEN /\ uses'[u].command = 0
                    /\ \A m \in uses'[u].members : /\ objects'[uses'[m].object].pool = "base"
                                                   /\ uses'[u].clean => uses'[m].clean
                    /\ Latest(u)' => objects'[p].members
                                       = {uses'[m].object : m \in uses'[u].members}
               ELSE /\ uses'[u].members = {}
                    /\ Latest(u)' => objects'[p].command = uses'[u].command
    <3>1. /\ uses'[u] = uses[u] /\ uses[u].object \in Objects
          /\ objects'[uses[u].object].pool = objects[uses[u].object].pool
          /\ Latest(u)' => /\ Latest(u)
                           /\ objects'[uses[u].object] = objects[uses[u].object]
      BY <1>2, <1>3, <1>6, <1>9
    <3>2. CASE objects[uses[u].object].pool = "group"
      <4>1. /\ uses[u].command = 0
            /\ \A m \in uses[u].members : /\ objects[uses[m].object].pool = "base"
                                          /\ uses[u].clean => uses[m].clean
            /\ Latest(u) => objects[uses[u].object].members
                              = {uses[m].object : m \in uses[u].members}
        BY <3>2 DEF EInv, ForUses
      <4>2. \A m \in uses[u].members :
               /\ uses'[m] = uses[m] /\ objects'[uses[m].object].pool = objects[uses[m].object].pool
        BY <1>3, <1>6, <1>9
      <4>3. {uses'[m].object : m \in uses[u].members} = {uses[m].object : m \in uses[u].members}
        BY <4>2
      <4> QED BY <3>1, <3>2, <4>1, <4>2, <4>3
    <3>3. CASE objects[uses[u].object].pool # "group"
      <4>1. uses[u].members = {} /\ (Latest(u) => objects[uses[u].object].command = uses[u].command)
        BY <3>3 DEF EInv, ForUses
      <4> QED BY <3>1, <3>3, <4>1
    <3> QED BY <3>2, <3>3
  <2>4. IF r.pool = "group"
        THEN /\ c = 0 /\ r.members = {uses'[m].object : m \in ms}
             /\ \A m \in ms : /\ objects'[uses'[m].object].pool = "base"
                              /\ uses'[n].clean => uses'[m].clean
        ELSE r.command = c /\ ms = {}
    <3>1. CASE r.pool = "group"
      <4>1. /\ c = 0 /\ r.members = {uses[m].object : m \in ms}
            /\ \A m \in ms : m \in Uses /\ objects[uses[m].object].pool = "base"
        BY <1>8, <3>1 DEF StandsFor
      <4>2. \A m \in ms : uses'[m] = uses[m]
        BY <1>3, <4>1
      <4>3. {uses'[m].object : m \in ms} = {uses[m].object : m \in ms}
        BY <4>2
      <4>4. \A m \in ms : objects'[uses'[m].object].pool = "base"
        BY <1>6, <1>9, <4>1, <4>2
      <4>5. \A m \in ms : uses'[n].clean => uses'[m].clean
        BY <1>3, <4>2
      <4> QED BY <3>1, <4>1, <4>3, <4>4, <4>5
    <3>2. CASE r.pool # "group"
      BY <1>8, <3>2 DEF StandsFor
    <3> QED BY <3>1, <3>2
  <2>5. ASSUME NEW u \in Uses'
        PROVE  LET p == uses'[u].object IN
               IF objects'[p].pool = "group"
               THEN /\ uses'[u].command = 0
                    /\ \A m \in uses'[u].members : /\ objects'[uses'[m].object].pool = "base"
                                                   /\ uses'[u].clean => uses'[m].clean
                    /\ Latest(u)' => objects'[p].members
                                       = {uses'[m].object : m \in uses'[u].members}
               ELSE /\ uses'[u].members = {}
                    /\ Latest(u)' => objects'[p].command = uses'[u].command
    <3>1. CASE u \in Uses
      BY <2>3, <3>1
    <3>2. CASE u = n
      BY <1>2, <1>3, <2>4, <3>2
    <3> QED BY <1>3, <3>1, <3>2
  <2> QED BY <2>2, <2>5 DEF ForUses
<1>12. CommandsDiffer'
  <2>1. \A u, v \in Uses' :
           u = v \/ uses'[u].command = 0 \/ uses'[u].command # uses'[v].command
    BY <1>3, <1>4, <1>5 DEF EInv, CommandsDiffer
  <2>2. ASSUME NEW p \in Objects', objects'[p].pool = "user", objects'[p].command # 0
        PROVE  \E u \in Uses' : /\ uses'[u].object = p /\ uses'[u].command = objects'[p].command
                                /\ Latest(u)'
    <3>1. CASE p # o
      <4>1. p \in Objects /\ objects'[p] = objects[p]
        BY <1>2, <3>1
      <4>2. PICK u \in Uses : /\ uses[u].object = p /\ uses[u].command = objects[p].command
                              /\ Latest(u)
        BY <2>2, <4>1 DEF EInv, CommandsDiffer
      <4> QED BY <1>3, <3>1, <4>1, <4>2
    <3>2. CASE p = o
      <4>1. r.command = c
        BY <1>2, <1>8, <2>2, <3>2 DEF StandsFor
      <4> QED BY <1>2, <1>3, <3>2, <4>1
    <3> QED BY <3>1, <3>2
  <2> QED BY <2>1, <2>2 DEF CommandsDiffer
<1>13. SetFlags'
  <2>1. Extends /\ \A u \in Uses : Promised(u)' => uses[u].object # o
    BY <1>1, HandsOutExtends
  <2>2. ASSUME NEW u \in Uses, Promised(u)', objects'[uses'[u].object].set
        PROVE  IsComplete(u)'
    <3>1. objects[uses[u].object].set
      BY <1>2, <1>3, <1>6, <2>1, <2>2
    <3>2. Promised(u)
      BY <2>1, <2>2 DEF Extends
    <3> QED BY <2>1, <3>1, <3>2 DEF EInv, SetFlags, Extends
  <2>3. ASSUME Promised(n)', r.set PROVE IsComplete(n)'
    <3>1. Clean(o)
      BY <1>3, <2>3 DEF Promised
    <3>2. ~Taken(r.pool).set
      BY <3>1 DEF HandsOut, Taken, Clean, NewObject
    <3>3. r.pool = "user" /\ commands'[c] = "complete"
      BY <1>8, <2>3, <3>2 DEF CommandFor
    <3>4. ms = {}
      BY <1>8, <3>3 DEF StandsFor
    <3> QED BY <1>3, <3>3, <3>4 DEF IsComplete, Done
  <2>4. \A u \in Uses' : Promised(u)' /\ objects'[uses'[u].object].set => IsComplete(u)'
    BY <1>2, <1>3, <2>2, <2>3
  <2> QED BY <2>4 DEF SetFlags
<1> QED BY <1>1, <1>10, <1>11, <1>12, <1>13 DEF EInv

-----------------------------------------------------------------------------
(* The other actions.  ForUses depends on the pools, the commands and the    *)
(* members of the objects, CommandsDiffer on the pools and the commands.     *)
LEMMA KeepsInv ==
    ASSUME EInv, Keeps
    PROVE  ForUses' /\ CommandsDiffer'
<1>1. /\ Objects' = Objects /\ Uses' = Uses /\ uses' = uses
      /\ \A u \in Uses : Latest(u)' <=> Latest(u)
  BY KeepsFacts DEF EInv
<1>2. \A o \in Objects : /\ objects'[o].pool = objects[o].pool
                         /\ objects'[o].command = objects[o].command
                         /\ objects'[o].members = objects[o].members
  BY DEF Keeps
<1>3. /\ \A u \in Uses : uses[u].object \in Objects /\ uses[u].members \subseteq Uses
      /\ \A o \in Objects : objects[o].members \subseteq Objects
  BY DEF EInv, TInv, TypeOK
<1>4. ForUses'
  <2>1. ASSUME NEW o \in Objects
        PROVE  IF objects'[o].pool = "group"
               THEN \A p \in objects'[o].members : objects'[p].pool = "base"
               ELSE objects'[o].members = {}
    <3>1. IF objects[o].pool = "group"
          THEN \A p \in objects[o].members : p \in Objects /\ objects[p].pool = "base"
          ELSE objects[o].members = {}
      BY <1>3 DEF EInv, ForUses
    <3> QED BY <1>2, <3>1
  <2>2. ASSUME NEW u \in Uses
        PROVE  LET o == uses[u].object IN
               IF objects'[o].pool = "group"
               THEN /\ uses[u].command = 0
                    /\ \A m \in uses[u].members : /\ objects'[uses[m].object].pool = "base"
                                                  /\ uses[u].clean => uses[m].clean
                    /\ Latest(u)' => objects'[o].members = {uses[m].object : m \in uses[u].members}
               ELSE /\ uses[u].members = {}
                    /\ Latest(u)' => objects'[o].command = uses[u].command
    <3>1. LET o == uses[u].object IN
          IF objects[o].pool = "group"
          THEN /\ uses[u].command = 0
               /\ \A m \in uses[u].members : /\ objects[uses[m].object].pool = "base"
                                             /\ uses[u].clean => uses[m].clean
               /\ Latest(u) => objects[o].members = {uses[m].object : m \in uses[u].members}
          ELSE /\ uses[u].members = {}
               /\ Latest(u) => objects[o].command = uses[u].command
      BY DEF EInv, ForUses
    <3>2. \A m \in uses[u].members :
             objects'[uses[m].object].pool = objects[uses[m].object].pool
      BY <1>2, <1>3
    <3>3. uses[u].object \in Objects /\ (Latest(u)' <=> Latest(u))
      BY <1>1, <1>3
    <3>4. CASE objects[uses[u].object].pool = "group"
      BY <1>2, <3>1, <3>2, <3>3, <3>4
    <3>5. CASE objects[uses[u].object].pool # "group"
      BY <1>2, <3>1, <3>3, <3>5
    <3> QED BY <3>4, <3>5
  <2> QED BY <1>1, <2>1, <2>2 DEF ForUses
<1>5. CommandsDiffer'
  BY <1>1, <1>2 DEF EInv, CommandsDiffer
<1> QED BY <1>4, <1>5

LEMMA ResetInv ==
    ASSUME EInv, ResetEvents
    PROVE  EInv'
<1>1. /\ TInv /\ TInv' /\ Keeps
      /\ \A o \in Objects : ~objects'[o].attached /\ objects'[o].set = objects[o].set
  BY ResetTypes DEF EInv
<1>2. resets < MaxResets /\ resets' = resets + 1
  BY DEF ResetEvents
<1>3. /\ Objects' = Objects /\ Uses' = Uses /\ uses' = uses
      /\ \A u \in Uses : IsComplete(u) => IsComplete(u)'
      /\ \A u \in Uses : Promised(u)' <=> Promised(u)
  BY <1>1, KeepsFacts
<1>4. /\ \A u \in Uses : uses[u].epoch \in 0..resets /\ uses[u].object \in Objects
      /\ resets \in Nat
  BY <1>1, ConstantsAssumption DEF TInv, TypeOK
<1>5. \A u \in Uses : uses[u].epoch # resets'
  BY <1>2, <1>4
<1>6. Attached'
  BY <1>3, <1>5 DEF Attached
<1>7. SetFlags'
  BY <1>1, <1>3, <1>4 DEF EInv, SetFlags
<1> QED BY <1>1, <1>6, <1>7, KeepsInv DEF EInv

(* Flags are turned off, or of objects whose promised uses are complete. *)
LEMMA FlagsInv ==
    ASSUME EInv, TInv', Keeps, resets' = resets, commands' = commands,
           \A o \in Objects : objects'[o].attached = objects[o].attached,
           \A u \in Uses : Promised(u) /\ objects'[uses[u].object].set => IsComplete(u)
    PROVE  EInv'
<1>1. /\ Objects' = Objects /\ Uses' = Uses /\ uses' = uses
      /\ \A u \in Uses : IsComplete(u) => IsComplete(u)'
      /\ \A u \in Uses : Latest(u)' <=> Latest(u)
      /\ \A u \in Uses : Promised(u)' <=> Promised(u)
  BY KeepsFacts DEF EInv
<1>2. \A u \in Uses : /\ uses[u].object \in Objects
                      /\ objects'[uses[u].object].pool = objects[uses[u].object].pool
                      /\ objects'[uses[u].object].attached = objects[uses[u].object].attached
  BY OldTypes DEF EInv, Keeps
<1>3. Attached'
  <2>1. \A u \in Uses : uses[u].epoch = resets =>
           LET o == uses[u].object IN
           \/ objects'[o].attached /\ Latest(u)'
           \/ objects'[o].pool = "user" /\ ~Done(uses[u].command)
    BY <1>1, <1>2 DEF EInv, Attached
  <2> QED BY <1>1, <2>1 DEF Attached, Done
<1>4. SetFlags'
  BY <1>1 DEF SetFlags
<1> QED BY <1>3, <1>4, KeepsInv DEF EInv

LEMMA RaiseInv ==
    ASSUME EInv, TInv', NEW S, objects' = Raise(S), commands' = commands, uses' = uses,
           resets' = resets,
           \A u \in Uses : Promised(u) /\ uses[u].object \in S => IsComplete(u)
    PROVE  EInv'
<1>1. TInv /\ Keeps
  BY RaiseKeeps DEF EInv
<1>2. \A o \in Objects : /\ objects'[o].attached = objects[o].attached
                         /\ objects'[o].set = (objects[o].set \/ o \in S)
  BY <1>1, RaiseFacts
<1>3. \A u \in Uses : uses[u].object \in Objects
  BY <1>1, OldTypes
<1>4. \A u \in Uses : Promised(u) /\ objects'[uses[u].object].set => IsComplete(u)
  BY <1>2, <1>3 DEF EInv, SetFlags
<1> QED BY <1>1, <1>2, <1>4, FlagsInv

(* What says it is set is complete, and so is all whose flag that raises. *)
LEMMA BaseAnswer ==
    ASSUME EInv, NEW u \in Uses, Promised(u), objects[uses[u].object].pool # "group",
           BaseIsSet(uses[u].object)
    PROVE  IsComplete(u)
<1>1. uses[u].members = {} /\ objects[uses[u].object].command = uses[u].command
  BY DEF EInv, ForUses, Promised, Own
<1> QED BY <1>1 DEF BaseIsSet, EInv, SetFlags, IsComplete

LEMMA Answer ==
    ASSUME EInv, NEW o \in Objects, IsSet(o), NEW u \in Uses, Promised(u),
           uses[u].object \in Flagged(o)
    PROVE  IsComplete(u)
<1>1. /\ uses[u].members \subseteq Uses /\ uses[u].object \in Objects
      /\ \A m \in uses[u].members : uses[m].object \in Objects
  BY DEF EInv, TInv, TypeOK
<1>2. CASE uses[u].object = o /\ objects[o].set
  BY <1>2 DEF EInv, SetFlags
<1>3. CASE uses[u].object = o /\ ~objects[o].set /\ objects[o].pool # "group"
  <2>1. BaseIsSet(o)
    BY <1>3 DEF IsSet, BaseIsSet
  <2> QED BY <1>3, <2>1, BaseAnswer
<1>4. CASE uses[u].object = o /\ ~objects[o].set /\ objects[o].pool = "group"
  <2>1. /\ uses[u].command = 0 /\ objects[o].members = {uses[m].object : m \in uses[u].members}
        /\ \A m \in uses[u].members : /\ objects[uses[m].object].pool = "base"
                                      /\ uses[m].clean /\ Latest(m)
    BY <1>4 DEF EInv, ForUses, Promised, Own
  <2>2. ASSUME NEW m \in uses[u].members PROVE Done(uses[m].command)
    <3>1. BaseIsSet(uses[m].object)
      BY <1>4, <2>1 DEF IsSet
    <3>2. m \in Uses /\ uses[m].members = {}
      BY <1>1, <2>1 DEF EInv, ForUses
    <3>3. Promised(m)
      BY <2>1, <3>2 DEF Promised, Own
    <3>4. IsComplete(m)
      BY <2>1, <3>1, <3>2, <3>3, BaseAnswer
    <3> QED BY <3>4 DEF IsComplete
  <2> QED BY <2>1, <2>2 DEF IsComplete, Done
<1>5. CASE uses[u].object # o
  <2>1. ~objects[o].set /\ uses[u].object \in objects[o].members
    BY <1>5 DEF Flagged
  <2>2. objects[o].pool = "group" /\ objects[uses[u].object].pool = "base"
    BY <2>1 DEF EInv, ForUses
  <2>3. BaseIsSet(uses[u].object)
    BY <2>1, <2>2 DEF IsSet
  <2> QED BY <2>2, <2>3, BaseAnswer
<1> QED BY <1>2, <1>3, <1>4, <1>5

LEMMA CompleteInv ==
    ASSUME EInv, NEW c \in 1..Len(commands), Complete(c)
    PROVE  EInv'
<1>1. /\ TInv /\ TInv' /\ Keeps /\ objects' = objects /\ resets' = resets
      /\ \A d \in 1..Len(commands) : d # c => commands'[d] = commands[d]
  BY CompleteTypes DEF EInv, Complete
<1>2. PICK w \in Uses : uses[w].command = c /\ objects[uses[w].object].pool = "base"
  BY DEF Complete
<1>3. /\ Objects' = Objects /\ Uses' = Uses /\ uses' = uses
      /\ \A u \in Uses : IsComplete(u) => IsComplete(u)'
      /\ \A u \in Uses : Latest(u)' <=> Latest(u)
      /\ \A u \in Uses : Promised(u)' <=> Promised(u)
  BY <1>1, KeepsFacts
<1>4. c # 0 /\ \A u \in Uses : uses[u].command \in 0..Len(commands)
  BY <1>1 DEF TInv, TypeOK
<1>5. ASSUME NEW u \in Uses, objects[uses[u].object].pool = "user", ~Done(uses[u].command)
      PROVE  ~DoneThen(uses[u].command)
  <2>1. uses[u].command # c
    BY <1>2, <1>4, <1>5 DEF EInv, CommandsDiffer
  <2>2. uses[u].command \in 1..Len(commands)
    BY <1>1, <1>4, <1>5 DEF Done, TInv, AreSequences
  <2> QED BY <1>1, <1>5, <2>1, <2>2 DEF Done, DoneThen
<1>6. Attached'
  <2>1. \A u \in Uses : uses[u].epoch = resets =>
           LET o == uses[u].object IN
           \/ objects[o].attached /\ Latest(u)'
           \/ objects[o].pool = "user" /\ ~DoneThen(uses[u].command)
    BY <1>3, <1>5 DEF EInv, Attached
  <2> QED BY <1>1, <1>3, <2>1 DEF Attached, Done, DoneThen
<1>7. SetFlags'
  BY <1>1, <1>3 DEF EInv, SetFlags
<1> QED BY <1>1, <1>6, <1>7, KeepsInv DEF EInv

LEMMA SetUserInv ==
    ASSUME EInv, NEW u \in Uses, SetUserEvent(u)
    PROVE  EInv'
<1> DEFINE o == uses[u].object
           c == objects[o].command
<1>1. /\ TInv /\ TInv' /\ Keeps /\ resets' = resets
      /\ objects[o].pool = "user" /\ c \in 1..Len(commands) /\ commands'[c] = "complete"
      /\ \A d \in 1..Len(commands) : d # c => commands'[d] = commands[d]
      /\ objects'[o].set /\ objects'[o].attached
      /\ \A p \in Objects : p # o => objects'[p] = objects[p]
  BY SetUserTypes DEF EInv, SetUserEvent
<1>2. /\ \A v \in Uses : uses[v].object \in Objects
      /\ \A v \in Uses : uses[v].command \in 0..Len(commands)
      /\ \A p \in Objects : objects'[p].pool = objects[p].pool
  BY <1>1 DEF Keeps, TInv, TypeOK
<1>3. /\ Objects' = Objects /\ Uses' = Uses /\ uses' = uses
      /\ \A v \in Uses : IsComplete(v) => IsComplete(v)'
      /\ \A v \in Uses : Latest(v)' <=> Latest(v)
      /\ \A v \in Uses : Promised(v)' <=> Promised(v)
  BY <1>1, KeepsFacts
<1>4. PICK w \in Uses : uses[w].object = o /\ uses[w].command = c /\ Latest(w)
  BY <1>1, <1>2 DEF EInv, CommandsDiffer
<1>5. ASSUME NEW v \in Uses, uses[v].epoch = resets
      PROVE  LET p == uses[v].object IN
             \/ objects'[p].attached /\ Latest(v)
             \/ objects'[p].pool = "user" /\ ~DoneThen(uses[v].command)
  <2>1. CASE objects[uses[v].object].attached /\ Latest(v)
    BY <1>1, <1>2, <2>1
  <2>2. CASE v = w
    BY <1>1, <1>4, <2>2
  <2>3. CASE v # w /\ objects[uses[v].object].pool = "user" /\ ~Done(uses[v].command)
    <3>1. uses[v].command # c
      BY <1>1, <1>4, <2>3 DEF EInv, CommandsDiffer
    <3>2. uses[v].command \in 1..Len(commands)
      BY <1>1, <1>2, <2>3 DEF Done, TInv, AreSequences
    <3> QED BY <1>1, <1>2, <2>3, <3>1, <3>2 DEF Done, DoneThen
  <2> QED BY <1>5, <2>1, <2>2, <2>3 DEF EInv, Attached
<1>6. Attached'
  BY <1>1, <1>3, <1>5 DEF Attached, Done, DoneThen
<1>7. SetFlags'
  <2>1. ASSUME NEW v \in Uses, Promised(v), uses[v].object = o PROVE IsComplete(v)'
    <3>1. uses[v].command = c /\ uses[v].members = {}
      BY <1>1, <2>1 DEF EInv, ForUses, Promised, Own
    <3> QED BY <1>1, <1>3, <3>1 DEF IsComplete, Done
  <2>2. ASSUME NEW v \in Uses, Promised(v), uses[v].object # o, objects'[uses[v].object].set
        PROVE  IsComplete(v)'
    <3>1. objects[uses[v].object].set
      BY <1>1, <1>2, <2>2
    <3> QED BY <1>3, <2>2, <3>1 DEF EInv, SetFlags
  <2>3. \A v \in Uses' : Promised(v)' /\ objects'[uses'[v].object].set => IsComplete(v)'
    BY <1>3, <2>1, <2>2
  <2> QED BY <2>3 DEF SetFlags
<1> QED BY <1>1, <1>6, <1>7, KeepsInv DEF EInv

-----------------------------------------------------------------------------
(* Handlers, what was told and what the driver still has to do. *)
LEMMA CalledUsed ==
    ASSUME TInv, HandlersInv, NEW x \in Handlers, called[x] > 0
    PROVE  handled[x] \in Uses
BY OldTypes DEF HandlersInv, NotHandled, Uses, TInv, AreSequences

LEMMA CalledStays ==
    ASSUME TInv, Extends, HandlersInv, NEW x \in Handlers, called[x] > 0
    PROVE  /\ handled[x] \in Uses /\ called[x] = 1
           /\ \A u : u = handled[x] /\ Promised(u)' => IsComplete(u)'
BY CalledUsed DEF HandlersInv, CalledOnceComplete, Extends

LEMMA CalledOnceAfter ==
    ASSUME TInv, Extends, HandlersInv,
           \A x \in Handlers : called'[x] > 0 =>
              \/ called'[x] = called[x] /\ handled'[x] = handled[x]
              \/ /\ called'[x] = 1 /\ handled'[x] \in Uses
                 /\ \A u : u = handled'[x] /\ Promised(u)' => IsComplete(u)'
    PROVE  CalledOnceComplete'
<1>1. ASSUME NEW x \in Handlers, called'[x] > 0
      PROVE  called'[x] = 1 /\ \A u : u = handled'[x] /\ Promised(u)' => IsComplete(u)'
  BY <1>1, CalledStays
<1>2. ASSUME NEW x \in Handlers, called'[x] > 0
      PROVE  called'[x] = 1 /\ (Promised(handled[x])' => IsComplete(handled[x])')
  <2>1. PICK u : u = handled'[x]
    OBVIOUS
  <2>2. called'[x] = 1 /\ (Promised(u)' => IsComplete(u)')
    BY <1>1, <1>2, <2>1
  <2> QED BY <2>1, <2>2 DEF Promised, Own, Latest, IsComplete, Done
<1> QED BY <1>2 DEF CalledOnceComplete

LEMMA HandlersStay ==
    ASSUME TInv, Extends, HandlersInv, adding' = adding, handled' = handled, called' = called,
           \A o \in Objects' : \A x \in objects'[o].handlers :
              o \in Objects /\ x \in objects[o].handlers
    PROVE  HandlersInv'
<1>1. Uses \subseteq Uses' /\ \A u \in Uses : uses'[u] = uses[u]
  BY DEF Extends
<1>2. Adding'
  BY <1>1 DEF HandlersInv, Adding
<1>3. Added'
  BY <1>1 DEF HandlersInv, Added
<1>4. CalledOnceComplete'
  BY CalledOnceAfter
<1> QED BY <1>2, <1>3, <1>4 DEF HandlersInv, NotHandled

LEMMA AwaitedStays ==
    ASSUME TInv, Extends, Awaited, Uses' = Uses, callbacks' \subseteq callbacks,
           firing' \subseteq firing
    PROVE  Awaited'
<1>1. /\ \A u \in Uses : /\ uses'[u] = uses[u] /\ (IsComplete(u) => IsComplete(u)')
                         /\ Promised(u)' => Promised(u)
      /\ \A o \in Objects : objects'[o].pool = objects[o].pool
  BY DEF Extends
<1>2. \A co \in callbacks : co[2] \in Objects
  BY OldTypes
<1>3. \A co \in callbacks' :
         /\ objects'[co[2]].pool # "group"
         /\ \A u \in Uses' : Promised(u)' /\ uses'[u].object = co[2] => uses'[u].command = co[1]
  BY <1>1, <1>2 DEF Awaited
<1>4. \A o \in firing' : \A u \in Uses' :
         Promised(u)' /\ uses'[u].object = o => IsComplete(u)'
  BY <1>1 DEF Awaited
<1> QED BY <1>3, <1>4 DEF Awaited

LEMMA ToldStays ==
    ASSUME TInv, Extends, ToldWhenComplete, told' = told
    PROVE  ToldWhenComplete'
BY OldTypes DEF Extends, ToldWhenComplete

(* The handlers of an object are called. *)
LEMMA HandlersCalled ==
    ASSUME TInv, Extends, HandlersInv, NEW o \in Objects, Calls(objects[o].handlers),
           Objects' = Objects, objects'[o].handlers = {},
           \A p \in Objects : p # o => objects'[p].handlers = objects[p].handlers,
           \A u \in Uses : Promised(u)' /\ uses[u].object = o => IsComplete(u)',
           adding' = adding, handled' = handled
    PROVE  HandlersInv'
<1>1. Uses \subseteq Uses' /\ \A u \in Uses : uses'[u] = uses[u]
  BY DEF Extends
<1>2. \A x \in Handlers : called[x] \in Nat
                          /\ called'[x] = called[x] + IF x \in objects[o].handlers THEN 1 ELSE 0
  BY OldTypes DEF Calls
<1>3. \A x \in Handlers : x \notin objects[o].handlers => called'[x] = called[x]
  BY <1>2
<1>4. objects[o].handlers \subseteq Handlers
  BY DEF TInv, TypeOK
<1>5. \A x \in objects[o].handlers : /\ called'[x] = 1 /\ handled[x] \in Uses
                                     /\ uses[handled[x]].object = o
  BY <1>2, <1>4 DEF HandlersInv, Added
<1>6. Adding'
  <2> SUFFICES ASSUME NEW t \in Threads, adding[t] # << >>
               PROVE  LET u == adding[t][1]  x == adding[t][2] IN
                      /\ u \in Uses' /\ handled[x] = u /\ called'[x] = 0
                      /\ \A p \in Objects : x \notin objects'[p].handlers
                      /\ \A s \in Threads : s # t /\ adding[s] # << >> => adding[s][2] # x
    BY DEF Adding
  <2>1. PICK x \in Handlers : x = adding[t][2]
    BY OldTypes
  <2>2. /\ adding[t][1] \in Uses /\ handled[x] = adding[t][1] /\ called[x] = 0
        /\ \A p \in Objects : x \notin objects[p].handlers
        /\ \A s \in Threads : s # t /\ adding[s] # << >> => adding[s][2] # x
    BY <2>1 DEF HandlersInv, Adding
  <2>3. called'[x] = 0
    <3>1. x \notin objects[o].handlers /\ called[x] = 0
      BY <2>2
    <3> QED BY <1>3, <3>1
  <2>4. \A p \in Objects : x \notin objects'[p].handlers
    BY <2>2
  <2> QED BY <1>1, <2>1, <2>2, <2>3, <2>4
<1>7. Added'
  <2> SUFFICES ASSUME NEW p \in Objects, NEW x \in objects'[p].handlers
               PROVE  handled[x] \in Uses' /\ uses'[handled[x]].object = p /\ called'[x] = 0
    BY DEF Added
  <2>1. p # o /\ x \in objects[p].handlers
    OBVIOUS
  <2>2. handled[x] \in Uses /\ uses[handled[x]].object = p /\ called[x] = 0
    BY <2>1 DEF HandlersInv, Added
  <2>3. x \notin objects[o].handlers /\ x \in Handlers
    BY <2>1, <2>2 DEF HandlersInv, Added, TInv, TypeOK
  <2> QED BY <1>1, <1>3, <2>2, <2>3
<1>8. NotHandled'
  <2>1. \A x \in Handlers : handled[x] = 0 => x \notin objects[o].handlers
    BY <1>5 DEF Uses
  <2> QED BY <1>3, <2>1 DEF HandlersInv, NotHandled
<1>9. CalledOnceComplete'
  <2>1. ASSUME NEW x \in Handlers, x \in objects[o].handlers
        PROVE  /\ called'[x] = 1 /\ handled'[x] \in Uses
               /\ \A u : u = handled'[x] /\ Promised(u)' => IsComplete(u)'
    BY <1>5, <2>1
  <2> QED BY <1>3, <2>1, CalledOnceAfter
<1> QED BY <1>6, <1>7, <1>8, <1>9 DEF HandlersInv

-----------------------------------------------------------------------------
(* The steps. *)
LEMMA HandsOutStep ==
    ASSUME EventsInv, NEW o, NEW r, NEW c, NEW ms, HandsOut(o, r, c, ms)
    PROVE  EventsInv'
<1>0. PICK n : n = Len(uses) + 1
  OBVIOUS
<1>1. /\ told' = told /\ adding' = adding /\ callbacks' = callbacks /\ firing' = firing
      /\ handled' = handled /\ called' = called
  BY DEF HandsOut, handlerVars
<1>2. EInv' /\ TInv
  BY HandsOutInv DEF EventsInv, EInv
<1>3. /\ Extends
      /\ \A p \in Objects' : \A x \in objects'[p].handlers :
            p \in Objects /\ x \in objects[p].handlers
  BY <1>2, HandsOutExtends
<1>4. HandlersInv'
  BY <1>1, <1>2, <1>3, HandlersStay DEF EventsInv
<1>5. ToldWhenComplete'
  BY <1>1, <1>2, <1>3, ToldStays DEF EventsInv
<1>6. /\ Uses' = Uses \cup {n} /\ n \notin Uses /\ uses'[n].object = o
      /\ uses'[n].clean => Clean(o)
  BY <1>0, <1>2, HandsOutUses
<1>7. (\A co \in callbacks : co[2] \in Objects) /\ firing \subseteq Objects
  BY <1>2, OldTypes
<1>8. Promised(n)' => o \notin firing /\ \A co \in callbacks : co[2] # o
  BY <1>6, <1>7 DEF Promised, Clean
<1>9. Awaited'
  <2>1. ASSUME NEW co \in callbacks
        PROVE  /\ objects'[co[2]].pool # "group"
               /\ \A u \in Uses' : Promised(u)' /\ uses'[u].object = co[2]
                                      => uses'[u].command = co[1]
    BY <1>3, <1>6, <1>7, <1>8 DEF EventsInv, Awaited, Extends
  <2>2. ASSUME NEW p \in firing
        PROVE  \A u \in Uses' : Promised(u)' /\ uses'[u].object = p => IsComplete(u)'
    BY <1>3, <1>6, <1>8 DEF EventsInv, Awaited, Extends
  <2> QED BY <1>1, <2>1, <2>2 DEF Awaited
<1> QED BY <1>2, <1>4, <1>5, <1>9 DEF EventsInv

LEMMA ResetStep ==
    ASSUME EventsInv, ResetEvents
    PROVE  EventsInv'
<1>1. /\ told' = told /\ adding' = adding /\ callbacks' = callbacks /\ firing' = firing
      /\ handled' = handled /\ called' = called
  BY DEF ResetEvents, handlerVars
<1>2. EInv' /\ TInv
  BY ResetInv DEF EventsInv, EInv
<1>3. /\ Extends /\ Objects' = Objects /\ Uses' = Uses
      /\ \A p \in Objects : objects'[p].handlers = objects[p].handlers
  BY <1>2, ResetTypes, KeepsFacts
<1>4. HandlersInv'
  BY <1>1, <1>2, <1>3, HandlersStay DEF EventsInv
<1>5. Awaited' /\ ToldWhenComplete'
  BY <1>1, <1>2, <1>3, AwaitedStays, ToldStays DEF EventsInv
<1> QED BY <1>2, <1>4, <1>5 DEF EventsInv

LEMMA CompleteStep ==
    ASSUME EventsInv, NEW c \in 1..Len(commands), Complete(c)
    PROVE  EventsInv'
<1>1. /\ told' = told /\ adding' = adding /\ callbacks' = callbacks /\ firing' = firing
      /\ handled' = handled /\ called' = called /\ objects' = objects
  BY DEF Complete, handlerVars
<1>2. EInv' /\ TInv
  BY CompleteInv DEF EventsInv, EInv
<1>3. Extends /\ Objects' = Objects /\ Uses' = Uses
  BY <1>2, CompleteTypes, KeepsFacts
<1>4. HandlersInv'
  BY <1>1, <1>2, <1>3, HandlersStay DEF EventsInv
<1>5. Awaited' /\ ToldWhenComplete'
  BY <1>1, <1>2, <1>3, AwaitedStays, ToldStays DEF EventsInv
<1> QED BY <1>2, <1>4, <1>5 DEF EventsInv

(* is_set says yes. *)
LEMMA Asked ==
    ASSUME EInv, TInv', NEW u \in Uses, IsSet(uses[u].object),
           objects' = Raise(Flagged(uses[u].object)), commands' = commands, uses' = uses,
           resets' = resets
    PROVE  /\ EInv' /\ (Promised(u)' => IsComplete(u)')
           /\ Extends /\ Objects' = Objects /\ Uses' = Uses
           /\ \A o \in Objects : objects'[o].handlers = objects[o].handlers
<1>1. TInv /\ uses[u].object \in Objects /\ uses[u].object \in Flagged(uses[u].object)
  BY OldTypes DEF EInv, Flagged
<1>2. \A v \in Uses : Promised(v) /\ uses[v].object \in Flagged(uses[u].object) => IsComplete(v)
  BY <1>1, Answer
<1>3. PICK S : S = Flagged(uses[u].object)
  OBVIOUS
<1>4. EInv'
  BY <1>2, <1>3, RaiseInv
<1>5. Extends /\ Objects' = Objects /\ Uses' = Uses
  BY <1>1, RaiseKeeps, KeepsFacts
<1>6. \A o \in Objects : objects'[o].handlers = objects[o].handlers
  BY <1>1, RaiseFacts
<1> QED BY <1>1, <1>2, <1>4, <1>5, <1>6 DEF Extends

LEMMA LearnStep ==
    ASSUME EventsInv, NEW u \in Uses, Learn(u)
    PROVE  EventsInv'
<1>1. /\ IsSet(uses[u].object) /\ told' = told \cup {u}
      /\ objects' = Raise(Flagged(uses[u].object))
      /\ commands' = commands /\ uses' = uses /\ resets' = resets
      /\ adding' = adding /\ callbacks' = callbacks /\ firing' = firing
      /\ handled' = handled /\ called' = called
  BY DEF Learn, handlerVars
<1>2. TInv /\ TInv'
  BY LearnTypes DEF EventsInv, EInv
<1>3. /\ EInv' /\ (Promised(u)' => IsComplete(u)')
      /\ Extends /\ Objects' = Objects /\ Uses' = Uses
      /\ \A o \in Objects : objects'[o].handlers = objects[o].handlers
  BY <1>1, <1>2, Asked DEF EventsInv
<1>4. HandlersInv'
  BY <1>1, <1>2, <1>3, HandlersStay DEF EventsInv
<1>5. Awaited'
  BY <1>1, <1>2, <1>3, AwaitedStays DEF EventsInv
<1>6. ToldWhenComplete'
  BY <1>1, <1>2, <1>3, OldTypes DEF EventsInv, ToldWhenComplete, Extends
<1> QED BY <1>3, <1>4, <1>5, <1>6 DEF EventsInv

(* A handler nobody has added is nowhere. *)
LEMMA NewHandler ==
    ASSUME EventsInv, NEW x \in Handlers, handled[x] = 0
    PROVE  /\ called[x] = 0 /\ 0 \notin Uses
           /\ \A o \in Objects : x \notin objects[o].handlers
           /\ \A t \in Threads : adding[t] # << >> => adding[t][2] # x
<1>1. called[x] = 0
  BY DEF EventsInv, HandlersInv, NotHandled
<1>2. 0 \notin Uses
  BY DEF Uses
<1>3. \A o \in Objects : x \notin objects[o].handlers
  BY <1>2 DEF EventsInv, HandlersInv, Added
<1>4. \A t \in Threads : adding[t] # << >> => handled[adding[t][2]] \in Uses
  BY DEF EventsInv, HandlersInv, Adding
<1> QED BY <1>1, <1>2, <1>3, <1>4

LEMMA CalledAtOnceStep ==
    ASSUME EventsInv, NEW t \in Threads, NEW u \in Uses, NEW x \in Handlers,
           HandlerCalledAtOnce(t, u, x)
    PROVE  EventsInv'
<1>1. /\ IsSet(uses[u].object) /\ handled[x] = 0
      /\ handled' = [handled EXCEPT ![x] = u] /\ called' = [called EXCEPT ![x] = @ + 1]
      /\ objects' = Raise(Flagged(uses[u].object))
      /\ commands' = commands /\ uses' = uses /\ resets' = resets /\ told' = told
      /\ adding' = adding /\ callbacks' = callbacks /\ firing' = firing
  BY DEF HandlerCalledAtOnce, IsNext
<1>2. TInv /\ TInv'
  BY CalledAtOnceTypes DEF EventsInv, EInv
<1>3. /\ EInv' /\ (Promised(u)' => IsComplete(u)')
      /\ Extends /\ Objects' = Objects /\ Uses' = Uses
      /\ \A o \in Objects : objects'[o].handlers = objects[o].handlers
  BY <1>1, <1>2, Asked DEF EventsInv
<1>4. /\ called[x] = 0 /\ 0 \notin Uses
      /\ \A o \in Objects : x \notin objects[o].handlers
      /\ \A s \in Threads : adding[s] # << >> => adding[s][2] # x
  BY <1>1, NewHandler
<1>5. /\ handled'[x] = u /\ called'[x] = 1
      /\ \A y \in Handlers : y # x => handled'[y] = handled[y] /\ called'[y] = called[y]
  BY <1>1, <1>2, <1>4, OldTypes
<1>6. Adding'
  <2> SUFFICES ASSUME NEW s \in Threads, adding[s] # << >>
               PROVE  LET v == adding[s][1]  y == adding[s][2] IN
                      /\ v \in Uses /\ handled'[y] = v /\ called'[y] = 0
                      /\ \A o \in Objects : y \notin objects'[o].handlers
                      /\ \A r \in Threads : r # s /\ adding[r] # << >> => adding[r][2] # y
    BY <1>1, <1>3 DEF Adding
  <2>1. PICK y \in Handlers : y = adding[s][2] /\ y # x
    BY <1>2, <1>4, OldTypes
  <2>2. /\ adding[s][1] \in Uses /\ handled[y] = adding[s][1] /\ called[y] = 0
        /\ \A o \in Objects : y \notin objects[o].handlers
        /\ \A r \in Threads : r # s /\ adding[r] # << >> => adding[r][2] # y
    BY <2>1 DEF EventsInv, HandlersInv, Adding
  <2>3. \A o \in Objects : y \notin objects'[o].handlers
    BY <1>3, <2>2
  <2>4. handled'[y] = handled[y] /\ called'[y] = called[y]
    BY <1>5, <2>1
  <2> QED BY <2>1, <2>2, <2>3, <2>4
<1>7. Added'
  <2> SUFFICES ASSUME NEW o \in Objects, NEW y \in objects[o].handlers
               PROVE  handled'[y] \in Uses /\ uses[handled'[y]].object = o /\ called'[y] = 0
    BY <1>1, <1>3 DEF Added
  <2>1. handled[y] \in Uses /\ uses[handled[y]].object = o /\ called[y] = 0
    BY DEF EventsInv, HandlersInv, Added
  <2>2. y # x /\ y \in Handlers
    BY <1>2, <1>4 DEF TInv, TypeOK
  <2>3. handled'[y] = handled[y] /\ called'[y] = called[y]
    BY <1>5, <2>2
  <2> QED BY <2>1, <2>3
<1>8. NotHandled'
  BY <1>4, <1>5 DEF EventsInv, HandlersInv, NotHandled
<1>9. CalledOnceComplete'
  BY <1>2, <1>3, <1>5, CalledOnceAfter DEF EventsInv
<1>10. Awaited' /\ ToldWhenComplete'
  BY <1>1, <1>2, <1>3, AwaitedStays, ToldStays DEF EventsInv
<1> QED BY <1>3, <1>6, <1>7, <1>8, <1>9, <1>10 DEF EventsInv, HandlersInv

LEMMA SameInv ==
    ASSUME EInv, TInv', Keeps, objects' = objects, commands' = commands, resets' = resets
    PROVE  EInv'
BY FlagsInv DEF EInv, SetFlags

LEMMA ToBeAddedStep ==
    ASSUME EventsInv, NEW t \in Threads, NEW u \in Uses, NEW x \in Handlers,
           HandlerToBeAdded(t, u, x)
    PROVE  EventsInv'
<1>1. /\ handled[x] = 0
      /\ handled' = [handled EXCEPT ![x] = u] /\ adding' = [adding EXCEPT ![t] = <<u, x>>]
      /\ objects' = objects /\ commands' = commands /\ uses' = uses /\ resets' = resets
      /\ told' = told /\ callbacks' = callbacks /\ firing' = firing /\ called' = called
  BY DEF HandlerToBeAdded, IsNext, poolVars
<1>2. TInv /\ TInv' /\ Keeps
  BY ToBeAddedTypes DEF EventsInv, EInv
<1>3. EInv' /\ Extends /\ Objects' = Objects /\ Uses' = Uses
  BY <1>1, <1>2, SameInv, KeepsFacts DEF EventsInv
<1>4. /\ called[x] = 0 /\ 0 \notin Uses
      /\ \A o \in Objects : x \notin objects[o].handlers
      /\ \A s \in Threads : adding[s] # << >> => adding[s][2] # x
  BY <1>1, NewHandler
<1>5. /\ handled'[x] = u /\ \A y \in Handlers : y # x => handled'[y] = handled[y]
      /\ adding'[t] = <<u, x>> /\ \A s \in Threads : s # t => adding'[s] = adding[s]
  BY <1>1, <1>2, OldTypes
<1>6. Adding'
  <2>1. ASSUME NEW s \in Threads, s # t, adding[s] # << >>
        PROVE  LET v == adding[s][1]  y == adding[s][2] IN
               /\ v \in Uses /\ handled'[y] = v /\ called[y] = 0
               /\ \A o \in Objects : y \notin objects[o].handlers
               /\ y # x
               /\ \A r \in Threads : r # s /\ r # t /\ adding[r] # << >> => adding[r][2] # y
    <3>1. PICK y \in Handlers : y = adding[s][2] /\ y # x
      BY <1>2, <1>4, <2>1, OldTypes
    <3> QED BY <1>5, <2>1, <3>1 DEF EventsInv, HandlersInv, Adding
  <2>2. ASSUME NEW s \in Threads, adding'[s] # << >>
        PROVE  LET v == adding'[s][1]  y == adding'[s][2] IN
               /\ v \in Uses /\ handled'[y] = v /\ called[y] = 0
               /\ \A o \in Objects : y \notin objects[o].handlers
               /\ \A r \in Threads : r # s /\ adding'[r] # << >> => adding'[r][2] # y
    <3>1. CASE s = t
      BY <1>4, <1>5, <3>1
    <3>2. CASE s # t
      <4>1. adding'[s] = adding[s] /\ adding[s] # << >>
        BY <1>5, <2>2, <3>2
      <4>2. adding'[t][2] = x
        BY <1>5
      <4> QED BY <1>5, <2>1, <3>2, <4>1, <4>2
    <3> QED BY <3>1, <3>2
  <2> QED BY <1>1, <1>3, <2>2 DEF Adding
<1>7. Added'
  <2> SUFFICES ASSUME NEW o \in Objects, NEW y \in objects[o].handlers
               PROVE  handled'[y] \in Uses /\ uses[handled'[y]].object = o /\ called[y] = 0
    BY <1>1, <1>3 DEF Added
  <2>1. handled[y] \in Uses /\ uses[handled[y]].object = o /\ called[y] = 0
    BY DEF EventsInv, HandlersInv, Added
  <2>2. y # x /\ y \in Handlers
    BY <1>2, <1>4 DEF TInv, TypeOK
  <2> QED BY <1>5, <2>1, <2>2
<1>8. NotHandled'
  BY <1>1, <1>4, <1>5 DEF EventsInv, HandlersInv, NotHandled
<1>9. CalledOnceComplete'
  <2>1. \A y \in Handlers : called'[y] > 0 => called'[y] = called[y] /\ handled'[y] = handled[y]
    BY <1>1, <1>4, <1>5
  <2> QED BY <1>2, <1>3, <2>1, CalledOnceAfter DEF EventsInv
<1>10. Awaited' /\ ToldWhenComplete'
  BY <1>1, <1>2, <1>3, AwaitedStays, ToldStays DEF EventsInv
<1> QED BY <1>3, <1>6, <1>7, <1>8, <1>9, <1>10 DEF EventsInv, HandlersInv

LEMMA AddHandlerStep ==
    ASSUME EventsInv, NEW t \in Threads, AddHandler(t)
    PROVE  EventsInv'
<1>1. /\ adding' = [adding EXCEPT ![t] = << >>]
      /\ commands' = commands /\ uses' = uses /\ resets' = resets /\ told' = told
      /\ firing' = firing /\ handled' = handled /\ called' = called /\ adding[t] # << >>
  BY DEF AddHandler
<1>2. TInv /\ TInv' /\ Keeps
  BY AddHandlerTypes DEF EventsInv, EInv
<1>3. PICK u, x, o, r : Inserts(t, u, x, o, r)
  BY <1>2, AddHandlerInserts
<1>4. /\ adding[t] = <<u, x>> /\ u \in Uses /\ x \in Handlers /\ o = uses[u].object
      /\ o \in Objects /\ r.attached = objects[o].attached /\ (r.set => objects[o].set)
      /\ r.handlers = objects[o].handlers \cup {x}
      /\ objects' = [objects EXCEPT ![o] = r]
      /\ r.pool = objects[o].pool
      /\ \/ callbacks' = callbacks
         \/ /\ callbacks' = callbacks \cup {<<objects[o].command, o>>}
            /\ objects[o].pool # "group"
  BY <1>3 DEF Inserts
<1>5. objects'[o] = r /\ \A p \in Objects : p # o => objects'[p] = objects[p]
  BY <1>2, <1>4 DEF TInv, AreSequences, Objects
<1>6. EInv'
  <2>1. \A p \in Objects : /\ objects'[p].attached = objects[p].attached
                           /\ objects'[p].set => objects[p].set
    BY <1>4, <1>5
  <2>2. \A v \in Uses : Promised(v) /\ objects'[uses[v].object].set => IsComplete(v)
    BY <1>2, <2>1, OldTypes DEF EventsInv, EInv, SetFlags
  <2> QED BY <1>1, <1>2, <2>1, <2>2, FlagsInv DEF EventsInv
<1>7. /\ Extends /\ Objects' = Objects /\ Uses' = Uses
      /\ \A v \in Uses : Promised(v)' <=> Promised(v)
  BY <1>2, KeepsFacts
<1>8. /\ handled[x] = u /\ called[x] = 0
      /\ \A s \in Threads : s # t /\ adding[s] # << >> => adding[s][2] # x
  BY <1>1, <1>4 DEF EventsInv, HandlersInv, Adding
<1>9. \A p \in Objects : \A y \in objects'[p].handlers :
         y \in objects[p].handlers \/ (p = o /\ y = x)
  BY <1>4, <1>5
<1>10. /\ adding'[t] = << >> /\ \A s \in Threads : s # t => adding'[s] = adding[s]
  BY <1>1, <1>2, OldTypes
<1>11. Adding'
  <2>1. ASSUME NEW s \in Threads, adding'[s] # << >>
        PROVE  LET v == adding'[s][1]  y == adding'[s][2] IN
               /\ v \in Uses /\ handled[y] = v /\ called[y] = 0
               /\ \A p \in Objects : y \notin objects'[p].handlers
               /\ \A q \in Threads : q # s /\ adding'[q] # << >> => adding'[q][2] # y
    <3>1. s # t /\ adding'[s] = adding[s] /\ adding[s] # << >>
      BY <1>10, <2>1
    <3>2. PICK y : y = adding[s][2]
      OBVIOUS
    <3>3. /\ adding[s][1] \in Uses /\ handled[y] = adding[s][1] /\ called[y] = 0
          /\ \A p \in Objects : y \notin objects[p].handlers
          /\ \A q \in Threads : q # s /\ adding[q] # << >> => adding[q][2] # y
      BY <3>1, <3>2 DEF EventsInv, HandlersInv, Adding
    <3>4. y # x
      BY <1>8, <3>1, <3>2
    <3>5. \A p \in Objects : y \notin objects'[p].handlers
      BY <1>9, <3>3, <3>4
    <3>6. \A q \in Threads : q # s /\ adding'[q] # << >> => adding'[q][2] # y
      BY <1>10, <3>3
    <3> QED BY <3>1, <3>2, <3>3, <3>5, <3>6
  <2> QED BY <1>1, <1>7, <2>1 DEF Adding
<1>12. Added'
  <2>1. ASSUME NEW p \in Objects, NEW y \in objects'[p].handlers
        PROVE  handled[y] \in Uses /\ uses[handled[y]].object = p /\ called[y] = 0
    <3>1. CASE y \in objects[p].handlers
      BY <3>1 DEF EventsInv, HandlersInv, Added
    <3>2. CASE p = o /\ y = x
      BY <1>4, <1>8, <3>2
    <3> QED BY <1>9, <3>1, <3>2
  <2> QED BY <1>1, <1>7, <2>1 DEF Added
<1>13. NotHandled' /\ CalledOnceComplete'
  BY <1>1, <1>2, <1>7, CalledOnceAfter DEF EventsInv, HandlersInv, NotHandled
<1>14. Awaited'
  <2>1. ASSUME NEW co \in callbacks'
        PROVE  /\ objects'[co[2]].pool # "group"
               /\ \A v \in Uses : Promised(v) /\ uses[v].object = co[2] => uses[v].command = co[1]
    <3>1. CASE co \in callbacks
      <4>1. co[2] \in Objects
        BY <1>2, <3>1, OldTypes
      <4> QED BY <1>7, <3>1, <4>1 DEF EventsInv, Awaited, Extends
    <3>2. CASE co = <<objects[o].command, o>> /\ objects[o].pool # "group"
      <4>1. \A v \in Uses : Promised(v) /\ uses[v].object = o
                              => objects[o].command = uses[v].command
        BY <3>2 DEF EventsInv, EInv, ForUses, Promised, Own
      <4>2. objects'[o].pool # "group"
        BY <1>4, <1>5, <3>2
      <4> QED BY <3>2, <4>1, <4>2
    <3> QED BY <1>4, <2>1, <3>1, <3>2
  <2>2. \A p \in firing' : \A v \in Uses :
           Promised(v) /\ uses[v].object = p => IsComplete(v)'
    BY <1>1, <1>7 DEF EventsInv, Awaited, Extends
  <2> QED BY <1>1, <1>7, <2>1, <2>2 DEF Awaited
<1>15. ToldWhenComplete'
  BY <1>1, <1>2, <1>7, ToldStays DEF EventsInv
<1> QED BY <1>6, <1>11, <1>12, <1>13, <1>14, <1>15 DEF EventsInv, HandlersInv

LEMMA SetUserStep ==
    ASSUME EventsInv, NEW u \in Uses, SetUserEvent(u)
    PROVE  EventsInv'
<1> DEFINE o == uses[u].object
<1>1. /\ Calls(objects[o].handlers) /\ uses' = uses /\ resets' = resets /\ told' = told
      /\ adding' = adding /\ callbacks' = callbacks /\ firing' = firing /\ handled' = handled
  BY DEF SetUserEvent, CallHandlers
<1>2. /\ TInv /\ Keeps /\ EInv' /\ o \in Objects
      /\ objects'[o].handlers = {} /\ objects'[o].set
      /\ \A p \in Objects : p # o => objects'[p] = objects[p]
  BY SetUserTypes, SetUserInv, OldTypes DEF EventsInv, EInv
<1>3. Extends /\ Objects' = Objects /\ Uses' = Uses
  BY <1>2, KeepsFacts
<1>4. \A v \in Uses : Promised(v)' /\ uses[v].object = o => IsComplete(v)'
  BY <1>1, <1>2, <1>3 DEF EInv, SetFlags
<1>5. HandlersInv'
  BY <1>1, <1>2, <1>3, <1>4, HandlersCalled DEF EventsInv
<1>6. Awaited' /\ ToldWhenComplete'
  BY <1>1, <1>2, <1>3, AwaitedStays, ToldStays DEF EventsInv
<1> QED BY <1>2, <1>5, <1>6 DEF EventsInv

LEMMA CallbackStep ==
    ASSUME EventsInv, NEW co \in callbacks, Callback(co[1], co[2])
    PROVE  EventsInv'
<1>1. /\ callbacks' = callbacks \ {<<co[1], co[2]>>} /\ firing' = firing \cup {co[2]}
      /\ objects' = Raise({co[2]}) /\ Done(co[1])
      /\ commands' = commands /\ uses' = uses /\ resets' = resets /\ told' = told
      /\ adding' = adding /\ handled' = handled /\ called' = called
  BY DEF Callback
<1>2. TInv /\ TInv' /\ Keeps
  BY CallbackTypes DEF EventsInv, EInv
<1>3. ASSUME NEW u \in Uses, Promised(u), uses[u].object = co[2] PROVE IsComplete(u)
  <2>1. uses[u].command = co[1] /\ objects[co[2]].pool # "group"
    BY <1>3 DEF EventsInv, Awaited
  <2>2. uses[u].members = {}
    BY <1>3, <2>1 DEF EventsInv, EInv, ForUses
  <2> QED BY <1>1, <2>1, <2>2 DEF IsComplete
<1>4. EInv'
  <2>1. PICK S : S = {co[2]}
    OBVIOUS
  <2>2. \A u \in Uses : Promised(u) /\ uses[u].object \in S => IsComplete(u)
    BY <1>3, <2>1
  <2> QED BY <1>1, <1>2, <2>1, <2>2, RaiseInv DEF EventsInv
<1>5. Extends /\ Objects' = Objects /\ Uses' = Uses
  BY <1>2, KeepsFacts
<1>6. \A o \in Objects : objects'[o].handlers = objects[o].handlers
  BY <1>1, <1>2, RaiseFacts
<1>7. HandlersInv'
  BY <1>1, <1>2, <1>5, <1>6, HandlersStay DEF EventsInv
<1>8. Awaited'
  <2>1. ASSUME NEW cp \in callbacks'
        PROVE  /\ objects'[cp[2]].pool # "group"
               /\ \A v \in Uses : Promised(v)' /\ uses'[v].object = cp[2]
                                      => uses'[v].command = cp[1]
    <3>1. cp \in callbacks
      BY <1>1, <2>1
    <3>2. cp[2] \in Objects
      BY <1>2, <3>1, OldTypes
    <3> QED BY <1>5, <3>1, <3>2 DEF EventsInv, Awaited, Extends
  <2>2. \A p \in firing' : \A v \in Uses : Promised(v)' /\ uses'[v].object = p => IsComplete(v)'
    BY <1>1, <1>3, <1>5 DEF EventsInv, Awaited, Extends
  <2> QED BY <1>5, <2>1, <2>2 DEF Awaited
<1>9. ToldWhenComplete'
  BY <1>1, <1>2, <1>5, ToldStays DEF EventsInv
<1> QED BY <1>4, <1>7, <1>8, <1>9 DEF EventsInv

LEMMA CallsHandlersStep ==
    ASSUME EventsInv, NEW o \in firing, CallbackCallsHandlers(o)
    PROVE  EventsInv'
<1>1. /\ firing' = firing \ {o} /\ Calls(objects[o].handlers)
      /\ commands' = commands /\ uses' = uses /\ resets' = resets /\ told' = told
      /\ adding' = adding /\ callbacks' = callbacks /\ handled' = handled
  BY DEF CallbackCallsHandlers, CallHandlers
<1>2. /\ TInv /\ TInv' /\ Keeps /\ o \in Objects
      /\ objects'[o].handlers = {} /\ objects'[o].set = objects[o].set
      /\ objects'[o].attached = objects[o].attached
      /\ \A p \in Objects : p # o => objects'[p] = objects[p]
  BY CallsHandlersTypes DEF EventsInv, EInv
<1>3. EInv'
  <2>1. \A p \in Objects : /\ objects'[p].attached = objects[p].attached
                           /\ objects'[p].set = objects[p].set
    BY <1>2
  <2>2. \A v \in Uses : Promised(v) /\ objects'[uses[v].object].set => IsComplete(v)
    BY <1>2, <2>1, OldTypes DEF EventsInv, EInv, SetFlags
  <2> QED BY <1>1, <1>2, <2>1, <2>2, FlagsInv DEF EventsInv
<1>4. Extends /\ Objects' = Objects /\ Uses' = Uses
  BY <1>2, KeepsFacts
<1>5. \A u \in Uses : Promised(u)' /\ uses[u].object = o => IsComplete(u)'
  BY <1>4 DEF EventsInv, Awaited, Extends
<1>6. HandlersInv'
  BY <1>1, <1>2, <1>4, <1>5, HandlersCalled DEF EventsInv
<1>7. Awaited' /\ ToldWhenComplete'
  BY <1>1, <1>2, <1>4, AwaitedStays, ToldStays DEF EventsInv
<1> QED BY <1>3, <1>6, <1>7 DEF EventsInv

LEMMA EventsInit == Init => EventsInv
<1> SUFFICES ASSUME Init PROVE EventsInv
  OBVIOUS
<1>1. TInv
  BY InitTypes
<1>2. /\ objects = << >> /\ uses = << >> /\ told = {} /\ adding = [t \in Threads |-> << >>]
      /\ callbacks = {} /\ firing = {} /\ called = [x \in Handlers |-> 0]
  BY DEF Init
<1>3. Objects = {} /\ Uses = {}
  BY <1>2 DEF Objects, Uses
<1>4. EInv
  BY <1>1, <1>3 DEF EInv, Attached, ForUses, CommandsDiffer, SetFlags
<1>5. HandlersInv /\ Awaited /\ ToldWhenComplete
  BY <1>2, <1>3 DEF HandlersInv, Adding, Added, NotHandled, CalledOnceComplete, Awaited,
                    ToldWhenComplete
<1> QED BY <1>4, <1>5 DEF EventsInv

LEMMA EventsStep == EventsInv /\ [Next]_vars => EventsInv'
<1> SUFFICES ASSUME EventsInv, [Next]_vars PROVE EventsInv'
  OBVIOUS
<1>1. TInv
  BY DEF EventsInv, EInv
<1>2. CASE Engine
  <2>1. ASSUME NEW b \in BOOLEAN, EnqueueKernel(b) PROVE EventsInv'
    BY <1>1, <2>1, KernelHandsOut, HandsOutStep
  <2>2. ASSUME NEW b \in BOOLEAN, CreateUserEvent(b) PROVE EventsInv'
    BY <1>1, <2>2, UserHandsOut, HandsOutStep
  <2>3. ASSUME NEW u \in Uses, NEW v \in Uses, GroupEvents(u, v) PROVE EventsInv'
    BY <1>1, <2>3, GroupHandsOut, HandsOutStep
  <2> QED BY <1>2, <2>1, <2>2, <2>3, ResetStep DEF Engine
<1>3. CASE User
  BY <1>3, LearnStep, SetUserStep, CalledAtOnceStep, ToBeAddedStep DEF User
<1>4. CASE Driver
  BY <1>4, CompleteStep, CallbackStep, CallsHandlersStep DEF Driver
<1>5. CASE \E t \in Threads : AddHandler(t)
  BY <1>5, AddHandlerStep
<1>6. CASE UNCHANGED vars
  <2>1. /\ Keeps /\ objects' = objects /\ resets' = resets /\ commands' = commands
        /\ told' = told /\ adding' = adding /\ callbacks' = callbacks /\ firing' = firing
        /\ handled' = handled /\ called' = called
    BY <1>1, <1>6 DEF vars, Keeps, TInv, AreSequences
  <2>2. TInv'
    BY <1>1, <1>6, TypesStep
  <2>3. Extends /\ Objects' = Objects /\ Uses' = Uses
    BY <1>1, <2>1, KeepsFacts
  <2>4. EInv'
    BY <2>1, <2>2, SameInv DEF EventsInv
  <2>5. HandlersInv'
    BY <1>1, <2>1, <2>3, HandlersStay DEF EventsInv
  <2>6. Awaited' /\ ToldWhenComplete'
    BY <1>1, <2>1, <2>3, AwaitedStays, ToldStays DEF EventsInv
  <2> QED BY <2>4, <2>5, <2>6 DEF EventsInv
<1> QED BY <1>2, <1>3, <1>4, <1>5, <1>6 DEF Next

-----------------------------------------------------------------------------
(* Whatever the user does, the objects, the commands and the uses refer to   *)
(* what exists, through every handing-out and reset.                         *)
THEOREM Types == Spec => []TypeOK
<1>1. TInv => TypeOK
  BY DEF TInv
<1> QED BY <1>1, InitTypes, TypesStep, PTL DEF Spec

(* In no execution is an object handed out twice, but for a user event that  *)
(* was created unset and not set before the object is handed out again.      *)
THEOREM NotHandedOutTwice == Spec => []OneUse
<1>1. EventsInv => OneUse
  <2> SUFFICES ASSUME EventsInv, NEW u \in Uses, NEW v \in Uses, uses[u].epoch = resets,
                      u < v, uses[u].object = uses[v].object
               PROVE  objects[uses[u].object].pool = "user" /\ ~Done(uses[u].command)
    BY DEF OneUse
  <2>1. u \in Nat /\ v \in Nat
    BY DEF EventsInv, EInv, TInv, AreSequences, Uses
  <2>2. ~Latest(u)
    BY <2>1 DEF Latest
  <2> QED BY <2>2 DEF EventsInv, EInv, Attached
<1> QED BY <1>1, EventsInit, EventsStep, PTL DEF Spec

(* In whatever execution somebody is told that an event is complete, it is,  *)
(* if no object it relies on was handed out again since, or had _set on or a *)
(* callback to come when it was handed out.                                  *)
THEOREM ToldTheTruth == Spec => []ToldWhenComplete
<1>1. EventsInv => ToldWhenComplete
  BY DEF EventsInv
<1> QED BY <1>1, EventsInit, EventsStep, PTL DEF Spec

(* Handlers are called at most once each, and only for an event that is      *)
(* complete if its objects can be relied on, by whichever of the user's set, *)
(* the driver's callback and add_event_handler itself comes first.           *)
THEOREM CalledOnce == Spec => []CalledOnceComplete
<1>1. EventsInv => CalledOnceComplete
  BY DEF EventsInv, HandlersInv
<1> QED BY <1>1, EventsInit, EventsStep, PTL DEF Spec
=============================================================================
