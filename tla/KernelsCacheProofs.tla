-------------------------- MODULE KernelsCacheProofs --------------------------
(* Invariants of KernelsCache for any threads, sources, names and trials:    *)
(* first of the build, then of what a thread finds in the cache.             *)
EXTENDS KernelsCache, FiniteSetTheorems, TLAPS

-----------------------------------------------------------------------------
(* The strengthening.  What a thread in build_all has still to compile is    *)
(* waiting, and what waits is still to be compiled or is compiled, unless it *)
(* cannot be: nothing changes _kernels_code while the mutex is held.         *)
Locked == mutex # "nobody"
Stuck == \E s \in DOMAIN codes : s \in Broken
WaitingFor(s) == [source |-> s, id |-> codes[s].id, oneTime |-> codes[s].oneTime]

BuildCovers ==
    Locked =>
        /\ \A p \in programs : p \subseteq Waiting
        /\ \A s \in DOMAIN codes :
              \/ \E p \in programs : WaitingFor(s) \in p
              \/ s \notin Broken /\ (codes[s].oneTime \/ codes[s].id \in DOMAIN kernels)

(* A source that waits to be tried out belongs to a trial that is going on;  *)
(* otherwise a build threw, and its source is among those that wait.         *)
Trials ==
    /\ ~pending => DOMAIN codes = {}
    /\ (\E s \in DOMAIN codes : codes[s].oneTime) => Stuck \/ ~TriesNothing
    /\ \A t \in Threads :
          pc[t] = "reading" => Stuck \/ \A s \in DOMAIN codes : ~codes[s].oneTime
    /\ \A j \in jobs :
          ~j.oneTime /\ j.source \in DOMAIN codes /\ codes[j.source].oneTime
             => Stuck \/ j.id \in DOMAIN kernels

Finite == IsFiniteSet(DOMAIN codes) /\ IsFiniteSet(DOMAIN kernels)

IInv == TypeOK /\ Finite /\ BuildCovers /\ Trials /\ NothingLost

-----------------------------------------------------------------------------
LEMMA FiniteImage ==
    ASSUME NEW f, IsFiniteSet(DOMAIN f)
    PROVE  IsFiniteSet({f[x] : x \in DOMAIN f})
<1> DEFINE T == {f[x] : x \in DOMAIN f}
           g == [x \in DOMAIN f |-> f[x]]
<1>1. g \in Surjection(DOMAIN f, T)
  BY DEF Surjection
<1> QED BY <1>1, FS_Surjection

(* Kernels put into a map. *)
LEMMA InsertedFacts ==
    ASSUME NEW map, NEW more
    PROVE  /\ DOMAIN Inserted(map, more) = DOMAIN map \cup DOMAIN more
           /\ MapType(map) /\ MapType(more) => MapType(Inserted(map, more))
BY DEF Inserted, MapType

LEMMA WaitingFacts ==
    ASSUME TypeOK, NEW p, p \subseteq Waiting
    PROVE  /\ \A k \in p : /\ k.source \in DOMAIN codes /\ k = WaitingFor(k.source)
                           /\ k.id = codes[k.source].id /\ k.oneTime = codes[k.source].oneTime
                           /\ k.id \in Ids /\ k.oneTime \in BOOLEAN
           /\ DOMAIN ById(p) = {k.id : k \in p} /\ MapType(ById(p))
           /\ Finite => IsFiniteSet({k.id : k \in p})
<1>1. \A k \in p : /\ k.source \in DOMAIN codes /\ k = WaitingFor(k.source)
                   /\ k.id = codes[k.source].id /\ k.oneTime = codes[k.source].oneTime
  BY DEF Waiting, WaitingFor
<1>2. \A k \in p : k.id \in Ids /\ k.oneTime \in BOOLEAN /\ k.source \in Sources
  BY <1>1 DEF TypeOK, Code
<1>3. DOMAIN ById(p) = {k.id : k \in p}
  BY DEF ById
<1>4. MapType(ById(p))
  <2> SUFFICES ASSUME NEW i \in DOMAIN ById(p) PROVE i \in Ids /\ ById(p)[i] \in Sources
    BY DEF MapType
  <2>1. \E k \in p : k.id = i
    BY <1>3
  <2>2. (CHOOSE k \in p : k.id = i) \in p
    BY <2>1
  <2> QED BY <1>2, <1>3, <2>1, <2>2 DEF ById
<1>5. ASSUME Finite PROVE IsFiniteSet({k.id : k \in p})
  <2> DEFINE f == [s \in DOMAIN codes |-> codes[s].id]
  <2>1. IsFiniteSet(DOMAIN f)
    BY <1>5 DEF Finite
  <2>2. IsFiniteSet({f[x] : x \in DOMAIN f})
    BY <2>1, FiniteImage
  <2>3. {k.id : k \in p} \subseteq {f[x] : x \in DOMAIN f}
    BY <1>1
  <2> QED BY <2>2, <2>3, FS_Subset
<1> QED BY <1>1, <1>2, <1>3, <1>4, <1>5

(* What was asked for stays what it was, however the call ends. *)
LEMMA ReturnFacts ==
    ASSUME TypeOK, NEW t \in Threads, NEW state, Return(t, state),
           state \in {"found", "missing", "wrong", "undefined", "failed", "none"}
    PROVE  /\ jobs' \subseteq Job
           /\ \A j \in jobs' : \E i \in jobs : /\ i.thread = j.thread /\ i.source = j.source
                                               /\ i.oneTime = j.oneTime /\ i.id = j.id
           /\ call' \in [Threads -> SUBSET jobs']
           /\ \A u \in Threads : \A j \in call'[u] : j.thread = u
           /\ \A j \in jobs : j.thread # t => j \in jobs'
<1>1. call[t] \subseteq jobs /\ \A j \in call[t] : j.thread = t
  BY DEF TypeOK
<1>2. \A j \in jobs : Answered(j, state) \in Job
  BY DEF TypeOK, Job, Answered
<1>3. jobs' = (jobs \ call[t]) \cup {Answered(j, state) : j \in call[t]}
  BY DEF Return
<1>4. \A j \in jobs' : \E i \in jobs : /\ i.thread = j.thread /\ i.source = j.source
                                        /\ i.oneTime = j.oneTime /\ i.id = j.id
  BY <1>1, <1>3 DEF Answered
<1>5. call' = [call EXCEPT ![t] = {}] /\ call \in [Threads -> SUBSET jobs]
  BY DEF Return, TypeOK
<1>6. \A u \in Threads : call'[u] = IF u = t THEN {} ELSE call[u]
  BY <1>5
<1>7. \A u \in Threads : \A j \in call'[u] : j.thread = u
  BY <1>6 DEF TypeOK
<1>8. \A u \in Threads : call'[u] \subseteq jobs'
  <2> SUFFICES ASSUME NEW u \in Threads, NEW j \in call'[u] PROVE j \in jobs'
    OBVIOUS
  <2>1. u # t /\ j \in call[u] /\ j \in jobs /\ j.thread = u
    BY <1>5, <1>6 DEF TypeOK
  <2> QED BY <1>1, <1>3, <2>1
<1>9. jobs' \subseteq Job
  BY <1>1, <1>2, <1>3 DEF TypeOK
<1>10. \A j \in jobs : j.thread # t => j \in jobs'
  BY <1>1, <1>3
<1>11. call' \in [Threads -> SUBSET jobs']
  BY <1>5, <1>8
<1> QED BY <1>4, <1>7, <1>9, <1>10, <1>11

-----------------------------------------------------------------------------
LEMMA InitIInv == Init => IInv
<1> SUFFICES ASSUME Init PROVE IInv
  OBVIOUS
<1>1. DOMAIN codes = {} /\ DOMAIN kernels = {} /\ DOMAIN oneTime = {} /\ DOMAIN compiled = {}
  BY DEF Init
<1>2. TypeOK
  <2>1. /\ mutex = "nobody" /\ jobs = {} /\ pending = FALSE /\ failures = 0 /\ calls = 0
        /\ pc = [t \in Threads |-> "idle"] /\ call = [t \in Threads |-> {}]
    BY DEF Init
  <2>2. \A t \in Threads : pc[t] = "idle" /\ call[t] = {} /\ mutex # t
    BY <2>1, ConstantsAssumption
  <2>3. /\ pc \in [Threads -> {"idle", "waiting", "building", "reading"}]
        /\ call \in [Threads -> SUBSET jobs]
    BY <2>1
  <2>4. 0 \in 0..MaxCalls /\ 0 \in Nat
    BY ConstantsAssumption
  <2>5. MapType(kernels) /\ MapType(oneTime)
    BY <1>1 DEF MapType
  <2> QED BY <1>1, <2>1, <2>2, <2>3, <2>4, <2>5 DEF TypeOK
<1>3. Finite
  BY <1>1, FS_EmptySet DEF Finite
<1>4. BuildCovers /\ Trials /\ NothingLost
  BY <1>1 DEF Init, BuildCovers, Locked, Trials, NothingLost
<1> QED BY <1>2, <1>3, <1>4 DEF IInv

LEMMA SetKernelSourceStep ==
    ASSUME IInv, NEW t \in Threads, NEW s \in Sources, NEW once \in BOOLEAN,
           SetKernelSource(t, s, once)
    PROVE  IInv'
<1> DEFINE job == [thread |-> t, source |-> s, oneTime |-> once, id |-> IdOf(s),
                   state |-> "set"]
<1> USE DEF IInv
<1>1. /\ jobs' = jobs \cup {job} /\ job \in jobs' /\ pending' = TRUE
      /\ UNCHANGED <<kernels, oneTime, mutex, pc, call, programs, compiled, failures, calls>>
      /\ ~Locked /\ pc[t] = "idle"
  BY DEF SetKernelSource, Locked
<1>2. codes' = [r \in DOMAIN codes \cup {s} |->
                   IF r \in DOMAIN codes THEN codes[r] ELSE [id |-> IdOf(s), oneTime |-> once]]
  BY DEF SetKernelSource
<1>3. IdOf(s) \in Ids
  <2>1. NewId(s) \in Ids
    BY FS_CardinalityType DEF Finite, NewId, Ids
  <2> QED BY <2>1 DEF IdOf, TypeOK, Code
<1>4. /\ DOMAIN codes' = DOMAIN codes \cup {s}
      /\ \A r \in DOMAIN codes : codes'[r] = codes[r]
      /\ codes'[s].id = IdOf(s) /\ (s \notin DOMAIN codes => codes'[s].oneTime = once)
  BY <1>2 DEF IdOf
<1>5. TypeOK'
  <2>1. job \in Job
    BY <1>3 DEF Job
  <2>2. \A r \in DOMAIN codes' : codes'[r] \in Code
    BY <1>2, <1>3 DEF TypeOK, Code
  <2>3. jobs' \subseteq Job /\ call' \in [Threads -> SUBSET jobs']
    BY <1>1, <2>1 DEF TypeOK
  <2> QED BY <1>1, <1>4, <2>2, <2>3 DEF TypeOK, MapType
<1>6. Finite'
  BY <1>1, <1>4, FS_AddElement DEF Finite
<1>7. BuildCovers'
  BY <1>1 DEF BuildCovers, Locked
<1>8. Trials'
  <2>1. (\E r \in DOMAIN codes' : codes'[r].oneTime) => Stuck' \/ ~TriesNothing'
    BY <1>1, <1>4 DEF Trials, Stuck, TriesNothing
  <2>2. \A u \in Threads :
           pc'[u] = "reading" => Stuck' \/ \A r \in DOMAIN codes' : ~codes'[r].oneTime
    <3>1. Stuck => Stuck'
      BY <1>4 DEF Stuck
    <3>2. once => \A u \in Threads : pc[u] = "idle"
      BY DEF SetKernelSource
    <3> QED BY <1>1, <1>4, <3>1, <3>2 DEF Trials
  <2>3. \A j \in jobs' :
          ~j.oneTime /\ j.source \in DOMAIN codes' /\ codes'[j.source].oneTime
             => Stuck' \/ j.id \in DOMAIN kernels'
    <3> SUFFICES ASSUME NEW j \in jobs', ~j.oneTime, j.source \in DOMAIN codes',
                        codes'[j.source].oneTime
                 PROVE  Stuck' \/ j.id \in DOMAIN kernels'
      OBVIOUS
    <3>1. j.source \in DOMAIN codes
      BY <1>1, <1>4 DEF SetKernelSource
    <3>2. CASE j \in jobs
      BY <1>1, <1>4, <3>1, <3>2 DEF Trials, Stuck
    <3>3. CASE j = job
      <4>1. TriesNothing
        BY <3>3 DEF SetKernelSource
      <4> QED BY <1>4, <3>1, <4>1 DEF Trials, Stuck
    <3> QED BY <1>1, <3>2, <3>3
  <2> QED BY <1>1, <2>1, <2>2, <2>3 DEF Trials
<1>9. NothingLost'
  <2> SUFFICES ASSUME NEW j \in jobs', ~j.oneTime, j.id \notin DOMAIN kernels
               PROVE  j.source \in DOMAIN codes' /\ codes'[j.source].id = j.id
    BY <1>1 DEF NothingLost
  <2>1. CASE j \in jobs
    BY <1>4, <2>1 DEF NothingLost
  <2>2. CASE j = job
    BY <1>4, <2>2
  <2> QED BY <1>1, <2>1, <2>2
<1> QED BY <1>5, <1>6, <1>7, <1>8, <1>9

LEMMA CallStep ==
    ASSUME IInv, NEW t \in Threads, NEW J, Call(t, J)
    PROVE  IInv'
<1> USE DEF IInv
<1>1. /\ UNCHANGED <<codes, kernels, oneTime, pending, mutex, programs, jobs, compiled, failures>>
      /\ calls' = calls + 1 /\ calls < MaxCalls
      /\ pc[t] = "idle" /\ J \subseteq jobs /\ \A j \in J : j.thread = t
      /\ call' = [call EXCEPT ![t] = J]
      /\ pc' = [pc EXCEPT ![t] = IF pending THEN "waiting" ELSE "reading"]
  BY DEF Call, cacheVars
<1>2. TypeOK'
  <2>1. /\ pc' \in [Threads -> {"idle", "waiting", "building", "reading"}]
        /\ call' \in [Threads -> SUBSET jobs']
        /\ \A u \in Threads : pc'[u] = "building" <=> pc[u] = "building"
        /\ \A u \in Threads : call'[u] = IF u = t THEN J ELSE call[u]
    BY <1>1 DEF TypeOK
  <2>2. calls' \in 0..MaxCalls
    BY <1>1, ConstantsAssumption DEF TypeOK
  <2> QED BY <1>1, <2>1, <2>2 DEF TypeOK, MapType
<1>3. \A u \in Threads : pc'[u] = "reading" => pc[u] = "reading" \/ ~pending
  BY <1>1 DEF TypeOK
<1>4. Trials'
  BY <1>1, <1>3 DEF Trials, Stuck, TriesNothing
<1>5. Finite' /\ BuildCovers' /\ NothingLost'
  BY <1>1 DEF Finite, BuildCovers, Locked, Waiting, WaitingFor, NothingLost
<1> QED BY <1>2, <1>4, <1>5

(* Whatever waits goes into a program. *)
LEMMA ProgramsCover ==
    ASSUME TypeOK, NEW s \in DOMAIN codes
    PROVE  \E p \in ProgramSource : WaitingFor(s) \in p
<1> DEFINE k == WaitingFor(s)
           P(o) == {w \in Waiting : w.source \in Batch /\ w.oneTime = o}
<1>1. k \in Waiting /\ k.source = s /\ k.oneTime \in BOOLEAN
  BY DEF Waiting, WaitingFor, TypeOK, Code
<1>2. CASE s \notin Batch
  BY <1>1, <1>2 DEF ProgramSource
<1>3. CASE s \in Batch
  <2>1. k \in P(k.oneTime) /\ P(k.oneTime) \in {P(o) : o \in BOOLEAN} \ {{}}
    BY <1>1, <1>3
  <2> QED BY <2>1 DEF ProgramSource
<1> QED BY <1>2, <1>3

LEMMA StartBuildStep ==
    ASSUME IInv, NEW t \in Threads, StartBuild(t)
    PROVE  IInv'
<1> USE DEF IInv
<1>1. /\ UNCHANGED <<codes, kernels, pending, call, jobs, compiled, failures, calls>>
      /\ DOMAIN oneTime' = {} /\ programs' = ProgramSource /\ mutex' = t
      /\ mutex = "nobody" /\ pc[t] = "waiting" /\ pc' = [pc EXCEPT ![t] = "building"]
  BY DEF StartBuild, StartWithCodes
<1>2. TypeOK'
  <2>1. \A u \in Threads : pc'[u] = "building" <=> mutex' = u
    BY <1>1, ConstantsAssumption DEF TypeOK
  <2>2. pc' \in [Threads -> {"idle", "waiting", "building", "reading"}]
    BY <1>1 DEF TypeOK
  <2> QED BY <1>1, <2>1, <2>2 DEF TypeOK, MapType
<1>3. BuildCovers'
  <2>1. Waiting' = Waiting /\ \A s \in DOMAIN codes : WaitingFor(s)' = WaitingFor(s)
    BY <1>1 DEF Waiting, WaitingFor
  <2>2. \A p \in ProgramSource : p \subseteq Waiting
    BY DEF ProgramSource
  <2>3. \A s \in DOMAIN codes : \E p \in ProgramSource : WaitingFor(s) \in p
    BY ProgramsCover
  <2> QED BY <1>1, <2>1, <2>2, <2>3 DEF BuildCovers
<1>4. Trials'
  <2>1. \A u \in Threads : pc'[u] = "reading" => pc[u] = "reading"
    BY <1>1 DEF TypeOK
  <2> QED BY <1>1, <2>1 DEF Trials, Stuck, TriesNothing
<1>5. Finite' /\ NothingLost'
  BY <1>1 DEF Finite, NothingLost
<1> QED BY <1>2, <1>3, <1>4, <1>5

LEMMA BuildProgramStep ==
    ASSUME IInv, NEW t \in Threads, BuildProgram(t)
    PROVE  IInv'
<1> USE DEF IInv
<1>1. /\ pc[t] = "building" /\ mutex = t /\ Locked
      /\ UNCHANGED <<codes, pending, mutex, pc, call, jobs, failures, calls>>
  BY ConstantsAssumption DEF BuildProgram, TypeOK, Locked
<1>2. PICK p \in programs :
          /\ Compiles(p) /\ PutKernels(p) /\ programs' = programs \ {p}
          /\ compiled' = Inserted(compiled,
                            [i \in {k.id : k \in {q \in p : ~q.oneTime}} |->
                                1 + IF i \in DOMAIN compiled THEN compiled[i] ELSE 0])
  BY DEF BuildProgram
<1> DEFINE once == {k \in p : k.oneTime}
           kept == p \ once
           made == [i \in {k.id : k \in {q \in p : ~q.oneTime}} |->
                       1 + IF i \in DOMAIN compiled THEN compiled[i] ELSE 0]
<1>3. p \subseteq Waiting /\ kept \subseteq Waiting /\ once \subseteq Waiting
  BY <1>1, <1>2 DEF BuildCovers
<1>4. kernels' = Inserted(kernels, ById(kept)) /\ oneTime' = Inserted(oneTime, ById(once))
  BY <1>2 DEF PutKernels
<1>5. DOMAIN kernels' = DOMAIN kernels \cup {k.id : k \in kept}
  <2>1. DOMAIN ById(kept) = {k.id : k \in kept}
    BY DEF ById
  <2>2. DOMAIN Inserted(kernels, ById(kept)) = DOMAIN kernels \cup DOMAIN ById(kept)
    BY InsertedFacts
  <2> QED BY <1>4, <2>1, <2>2
<1>6. TypeOK'
  <2>1. MapType(kernels')
    BY <1>3, <1>4, WaitingFacts, InsertedFacts DEF TypeOK
  <2>2. MapType(oneTime')
    BY <1>3, <1>4, WaitingFacts, InsertedFacts DEF TypeOK
  <2>3. \A i \in DOMAIN made : i \in Ids /\ made[i] \in Nat
    <3>1. \A k \in p : k.id \in Ids
      BY <1>3, WaitingFacts
    <3> QED BY <3>1 DEF TypeOK
  <2>4. compiled' = Inserted(compiled, made)
    BY <1>2
  <2>5. DOMAIN compiled' \subseteq Ids /\ \A i \in DOMAIN compiled' : compiled'[i] \in Nat
    <3> HIDE DEF made
    <3> QED BY <2>3, <2>4 DEF TypeOK, Inserted
  <2> QED BY <1>1, <2>1, <2>2, <2>5 DEF TypeOK, MapType
<1>7. Finite'
  <2>1. IsFiniteSet({k.id : k \in kept}) /\ IsFiniteSet(DOMAIN kernels)
    <3> HIDE DEF kept
    <3> QED BY <1>3, WaitingFacts DEF Finite
  <2>2. IsFiniteSet(DOMAIN kernels')
    BY <1>5, <2>1, FS_Union, ZenonT(60)
  <2> QED BY <1>1, <2>2 DEF Finite
<1>8. BuildCovers'
  <2>1. Waiting' = Waiting /\ \A s \in DOMAIN codes : WaitingFor(s)' = WaitingFor(s)
    BY <1>1 DEF Waiting, WaitingFor
  <2>2. ASSUME NEW s \in DOMAIN codes, WaitingFor(s) \in p
        PROVE  s \notin Broken /\ (codes[s].oneTime \/ codes[s].id \in DOMAIN kernels')
    <3>1. /\ WaitingFor(s).source = s /\ WaitingFor(s).id = codes[s].id
          /\ WaitingFor(s).oneTime = codes[s].oneTime
      BY DEF WaitingFor
    <3>2. s \notin Broken
      BY <1>2, <2>2, <3>1 DEF Compiles
    <3>3. ~codes[s].oneTime => WaitingFor(s) \in kept
      BY <2>2, <3>1
    <3> QED BY <1>5, <3>1, <3>2, <3>3
  <2>3. ASSUME NEW s \in DOMAIN codes
        PROVE  \/ \E q \in programs' : WaitingFor(s) \in q
               \/ s \notin Broken /\ (codes[s].oneTime \/ codes[s].id \in DOMAIN kernels')
    BY <1>1, <1>2, <1>5, <2>2 DEF BuildCovers
  <2> QED BY <1>1, <1>2, <2>1, <2>3 DEF BuildCovers
<1>9. Trials' /\ NothingLost'
  BY <1>1, <1>5 DEF Trials, Stuck, TriesNothing, NothingLost
<1> QED BY <1>6, <1>7, <1>8, <1>9

(* A build that throws leaves the source it failed for among those that wait. *)
LEMMA ThrowsStuck ==
    ASSUME IInv, NEW t \in Threads, BuildThrows(t)
    PROVE  Stuck
<1>1. Locked
  BY ConstantsAssumption DEF BuildThrows, IInv, TypeOK, Locked
<1>2. PICK p \in programs : ~Compiles(p)
  BY DEF BuildThrows
<1>3. p \subseteq Waiting
  BY <1>1 DEF IInv, BuildCovers
<1> QED BY <1>2, <1>3, WaitingFacts DEF Compiles, Stuck, IInv

LEMMA BuildThrowsStep ==
    ASSUME IInv, NEW t \in Threads, BuildThrows(t)
    PROVE  IInv'
<1> USE DEF IInv
<1>1. /\ pc[t] = "building" /\ mutex = t /\ Locked /\ mutex' = "nobody" /\ programs' = {}
      /\ failures' = failures + 1 /\ Return(t, "failed")
      /\ UNCHANGED <<codes, kernels, oneTime, pending, compiled, calls>>
  BY ConstantsAssumption DEF BuildThrows, TypeOK, Locked, cacheVars
<1>2. Stuck
  BY ThrowsStuck
<1>3. pc' = [pc EXCEPT ![t] = "idle"]
  BY <1>1 DEF Return
<1>4. TypeOK'
  <2>1. /\ pc' \in [Threads -> {"idle", "waiting", "building", "reading"}]
        /\ \A u \in Threads : pc'[u] # "building" /\ mutex' # u
    BY <1>1, <1>3, ConstantsAssumption DEF TypeOK
  <2>2. /\ jobs' \subseteq Job /\ call' \in [Threads -> SUBSET jobs']
        /\ \A u \in Threads : \A j \in call'[u] : j.thread = u
    BY <1>1, ReturnFacts
  <2> QED BY <1>1, <2>1, <2>2 DEF TypeOK, MapType
<1>5. Trials'
  BY <1>1, <1>2 DEF Trials, Stuck
<1>6. NothingLost'
  <2>1. \A j \in jobs' : \E i \in jobs : /\ i.thread = j.thread /\ i.source = j.source
                                          /\ i.oneTime = j.oneTime /\ i.id = j.id
    BY <1>1, ReturnFacts
  <2> QED BY <1>1, <2>1 DEF NothingLost
<1>7. Finite' /\ BuildCovers'
  BY <1>1 DEF Finite, BuildCovers, Locked
<1> QED BY <1>4, <1>5, <1>6, <1>7

LEMMA FinishBuildStep ==
    ASSUME IInv, NEW t \in Threads, FinishBuild(t)
    PROVE  IInv'
<1> USE DEF IInv
<1>1. /\ pc[t] = "building" /\ mutex = t /\ Locked /\ programs = {}
      /\ codes' = << >> /\ mutex' = "nobody" /\ pending' = FALSE
      /\ pc' = [pc EXCEPT ![t] = "reading"]
      /\ UNCHANGED <<kernels, oneTime, call, programs, jobs, compiled, failures, calls>>
  BY ConstantsAssumption DEF FinishBuild, Finish, TypeOK, Locked
<1>2. DOMAIN codes' = {}
  BY <1>1
<1>3. \A s \in DOMAIN codes :
          s \notin Broken /\ (codes[s].oneTime \/ codes[s].id \in DOMAIN kernels)
  BY <1>1 DEF BuildCovers
<1>4. TypeOK'
  <2>1. /\ pc' \in [Threads -> {"idle", "waiting", "building", "reading"}]
        /\ \A u \in Threads : pc'[u] # "building" /\ mutex' # u
    BY <1>1, ConstantsAssumption DEF TypeOK
  <2> QED BY <1>1, <1>2, <2>1 DEF TypeOK, MapType
<1>5. NothingLost'
  <2>1. ~Stuck
    BY <1>3 DEF Stuck
  <2>2. \A j \in jobs : ~j.oneTime => j.id \in DOMAIN kernels
    BY <1>3, <2>1 DEF NothingLost, Trials
  <2> QED BY <1>1, <2>2 DEF NothingLost
<1>6. Finite'
  BY <1>1, <1>2, FS_EmptySet DEF Finite
<1>7. BuildCovers' /\ Trials'
  BY <1>1, <1>2 DEF BuildCovers, Locked, Trials
<1> QED BY <1>4, <1>5, <1>6, <1>7

LEMMA ReadStep ==
    ASSUME IInv, NEW t \in Threads, Read(t)
    PROVE  IInv'
<1> USE DEF IInv
<1>1. /\ pc[t] = "reading"
      /\ UNCHANGED <<codes, kernels, oneTime, pending, mutex, programs, compiled, failures, calls>>
  BY DEF Read, cacheVars
<1>2. PICK state \in {"found", "missing", "wrong", "undefined", "failed", "none"} :
          Return(t, state)
  BY DEF Read, Found
<1>3. pc' = [pc EXCEPT ![t] = "idle"]
  BY <1>2 DEF Return
<1>4. \A j \in jobs' : \E i \in jobs : /\ i.thread = j.thread /\ i.source = j.source
                                        /\ i.oneTime = j.oneTime /\ i.id = j.id
  BY <1>2, ReturnFacts
<1>5. TypeOK'
  <2>1. /\ pc' \in [Threads -> {"idle", "waiting", "building", "reading"}]
        /\ \A u \in Threads : pc'[u] = "building" <=> pc[u] = "building"
    BY <1>1, <1>3 DEF TypeOK
  <2>2. /\ jobs' \subseteq Job /\ call' \in [Threads -> SUBSET jobs']
        /\ \A u \in Threads : \A j \in call'[u] : j.thread = u
    BY <1>2, ReturnFacts
  <2> QED BY <1>1, <2>1, <2>2 DEF TypeOK, MapType
<1>6. Trials'
  <2>1. Stuck \/ \A s \in DOMAIN codes : ~codes[s].oneTime
    BY <1>1 DEF Trials
  <2>2. \A u \in Threads : pc'[u] = "reading" => pc[u] = "reading"
    BY <1>1, <1>3 DEF TypeOK
  <2> QED BY <1>1, <1>4, <2>1, <2>2 DEF Trials, Stuck
<1>7. NothingLost'
  BY <1>1, <1>4 DEF NothingLost
<1>8. Finite' /\ BuildCovers'
  BY <1>1 DEF Finite, BuildCovers, Locked, Waiting, WaitingFor
<1> QED BY <1>5, <1>6, <1>7, <1>8

LEMMA StutterStep == IInv /\ UNCHANGED vars => IInv'
BY DEF vars, IInv, TypeOK, MapType, Finite, BuildCovers, Locked, Trials, Stuck,
       TriesNothing, NothingLost, Waiting, WaitingFor

LEMMA NextIInv == IInv /\ [Next]_vars => IInv'
<1> SUFFICES ASSUME IInv, [Next]_vars PROVE IInv'
  OBVIOUS
<1>1. CASE Next
  <2>1. PICK t \in Threads :
            \/ \E s \in Sources, o \in BOOLEAN : SetKernelSource(t, s, o)
            \/ \E J \in {{}} \cup {{j} : j \in jobs} : Call(t, J)
            \/ Proceed(t)
    BY <1>1 DEF Next
  <2>2. CASE \E s \in Sources, o \in BOOLEAN : SetKernelSource(t, s, o)
    BY <2>2, SetKernelSourceStep
  <2>3. CASE \E J \in {{}} \cup {{j} : j \in jobs} : Call(t, J)
    BY <2>3, CallStep
  <2>4. CASE Proceed(t)
    BY <2>4, StartBuildStep, BuildProgramStep, BuildThrowsStep, FinishBuildStep, ReadStep
       DEF Proceed
  <2> QED BY <2>1, <2>2, <2>3, <2>4
<1>2. CASE UNCHANGED vars
  BY <1>2, StutterStep
<1> QED BY <1>1, <1>2

LEMMA Invariance == Spec => []IInv
BY InitIInv, NextIInv, PTL DEF Spec

-----------------------------------------------------------------------------
(* The maps of the cache keep their types and the mutex belongs to the one   *)
(* thread that is inside build_all, for any number of threads.               *)
THEOREM Types == Spec => []TypeOK
<1>1. IInv => TypeOK
  BY DEF IInv
<1> QED BY Invariance, <1>1, PTL

(* Whichever programs compile, in whatever order, and whichever build throws *)
(* in the middle, a kernel handed over by set_kernel_source to be kept is in *)
(* _kernels or still in _kernels_code, under the id its kernel object has.   *)
THEOREM KeptOrWaiting == Spec => []NothingLost
<1>1. IInv => NothingLost
  BY DEF IInv
<1> QED BY Invariance, <1>1, PTL

-----------------------------------------------------------------------------
(* Ids.  The number in a new id is greater than all before; a build that     *)
(* forgets the one-time kernels makes the count smaller, but never as small  *)
(* as the number of an id that is kept.                                      *)
KeptCodes == {s \in DOMAIN codes : ~codes[s].oneTime}
KeptIds == DOMAIN kernels \cup {codes[s].id : s \in KeptCodes}
AllIds == DOMAIN kernels \cup {codes[s].id : s \in DOMAIN codes}
Total == Cardinality(DOMAIN kernels) + Cardinality(DOMAIN codes)

Named ==
    /\ \A s \in DOMAIN codes :
          codes[s].id[1] = EntryPoint[s] /\ (codes[s].oneTime => s \in Tuned)
    /\ \A i \in DOMAIN kernels : i[1] = EntryPoint[kernels[i]]
    /\ \A j \in jobs : j.id[1] = EntryPoint[j.source] /\ (j.oneTime => j.source \in Tuned)

Fresh ==
    /\ \A i \in AllIds : i[2] < Total
    /\ ~Stuck => \A i \in KeptIds : i[2] < Cardinality(KeptIds)
    /\ ~Stuck /\ ~Locked =>
          Cardinality(DOMAIN kernels) + Cardinality(KeptCodes) <= Cardinality(KeptIds)

UInv == IInv /\ Named /\ Fresh /\ IdsUnique

(* Compilations.  What is still to be compiled was compiled once less.       *)
Compilations ==
    /\ DOMAIN compiled \subseteq DOMAIN kernels
    /\ \A p, q \in programs : p = q \/ p \cap q = {}
    /\ \A s \in KeptCodes :
          codes[s].id \in DOMAIN compiled /\ (Locked => \E p \in programs : WaitingFor(s) \in p)
             => compiled[codes[s].id] <= failures

CInv == UInv /\ Compilations /\ CompiledOnce

(* Lookups.  During a trial one thread is active; what it will try is        *)
(* waiting, or was just built and nothing is waiting.                        *)
IsTrial(j) == j.oneTime /\ j.state = "set"

TrialAlone ==
    ~TriesNothing =>
        \A t \in Threads : /\ pc[t] # "idle" => NobodyTries(t)
                           /\ pc[t] = "waiting" => DOMAIN codes # {}
                           /\ pc[t] = "reading" => DOMAIN codes = {}

TrialWaits ==
    \A j \in jobs : IsTrial(j) =>
        \/ /\ j.source \in DOMAIN codes
           /\ codes[j.source].id = j.id /\ codes[j.source].oneTime
        \/ DOMAIN codes = {} /\ j.id \in DOMAIN oneTime /\ oneTime[j.id] = j.source

TrialsBuilt ==
    Locked => \A s \in DOMAIN codes : codes[s].oneTime =>
        \/ \E p \in programs : WaitingFor(s) \in p
        \/ codes[s].id \in DOMAIN oneTime /\ oneTime[codes[s].id] = s

Lookups ==
    /\ pending <=> DOMAIN codes # {}
    /\ \A s \in KeptCodes : \E j \in jobs : j.source = s /\ ~j.oneTime
    /\ \A t \in Threads : \A j \in call[t] :
          /\ j.oneTime => j.state = "set"
          /\ pc[t] = "reading" /\ ~j.oneTime => j.id \in DOMAIN kernels

LInv == UInv /\ TrialAlone /\ TrialWaits /\ TrialsBuilt /\ Lookups /\ FindsWhatWasSet

-----------------------------------------------------------------------------
LEMMA FiniteFacts ==
    ASSUME TypeOK, Finite
    PROVE  /\ IsFiniteSet(KeptCodes) /\ IsFiniteSet(KeptIds)
           /\ Cardinality(KeptCodes) \in Nat /\ Cardinality(KeptIds) \in Nat
           /\ Cardinality(DOMAIN kernels) \in Nat /\ Cardinality(DOMAIN codes) \in Nat
           /\ \A i \in AllIds : i \in Ids /\ i[2] \in Nat
<1> DEFINE f == [s \in KeptCodes |-> codes[s].id]
<1>1. IsFiniteSet(KeptCodes)
  BY FS_Subset DEF KeptCodes, Finite
<1>2. IsFiniteSet({f[s] : s \in KeptCodes})
  <2>1. IsFiniteSet(DOMAIN f)
    BY <1>1
  <2>2. IsFiniteSet({f[s] : s \in DOMAIN f})
    BY <2>1, FiniteImage
  <2> QED BY <2>2
<1>3. {f[s] : s \in KeptCodes} = {codes[s].id : s \in KeptCodes}
  OBVIOUS
<1>4. IsFiniteSet(KeptIds)
  BY <1>2, <1>3, FS_Union DEF KeptIds, Finite
<1>5. \A i \in AllIds : i \in Ids
  BY DEF AllIds, TypeOK, MapType, Code
<1>6. \A i \in Ids : i[2] \in Nat
  BY DEF Ids
<1> QED BY <1>1, <1>4, <1>5, <1>6, FS_CardinalityType DEF Finite

(* What it means that thread t hands over source s, with the job it makes.   *)
HandsOver(t, s, job) ==
    /\ job.thread = t /\ job.source = s /\ job.id = IdOf(s) /\ job.state = "set"
    /\ job.oneTime \in BOOLEAN
    /\ IF job.oneTime
       THEN /\ s \in Tuned /\ NobodyTries(t)
            /\ \A u \in Threads : pc[u] = "idle"
            /\ \A j \in jobs : j.source = s => j.oneTime
            /\ \A j \in jobs : IsTrial(j) => j.source \in DOMAIN codes
       ELSE TriesNothing
    /\ ~Locked /\ pc[t] = "idle"
    /\ jobs' = jobs \cup {job} /\ pending' = TRUE
    /\ DOMAIN codes' = DOMAIN codes \cup {s}
    /\ \A r \in DOMAIN codes : codes'[r] = codes[r]
    /\ codes'[s].id = IdOf(s)
    /\ s \notin DOMAIN codes => codes'[s].oneTime = job.oneTime
    /\ kernels' = kernels /\ oneTime' = oneTime /\ mutex' = mutex /\ pc' = pc
    /\ call' = call /\ programs' = programs /\ compiled' = compiled /\ failures' = failures

LEMMA SetFacts ==
    ASSUME NEW t \in Threads, NEW s \in Sources, NEW once \in BOOLEAN,
           SetKernelSource(t, s, once)
    PROVE  \E job : HandsOver(t, s, job)
<1> DEFINE job == [thread |-> t, source |-> s, oneTime |-> once, id |-> IdOf(s),
                   state |-> "set"]
<1>1. codes' = [r \in DOMAIN codes \cup {s} |->
                   IF r \in DOMAIN codes THEN codes[r] ELSE [id |-> IdOf(s), oneTime |-> once]]
  BY DEF SetKernelSource
<1>2. /\ DOMAIN codes' = DOMAIN codes \cup {s} /\ codes'[s].id = IdOf(s)
      /\ \A r \in DOMAIN codes : codes'[r] = codes[r]
      /\ s \notin DOMAIN codes => codes'[s].oneTime = job.oneTime
  BY <1>1 DEF IdOf
<1>3. HandsOver(t, s, job)
  BY <1>2 DEF SetKernelSource, HandsOver, Locked, IsTrial
<1> QED BY <1>3

(* What a program's kernels are put into is what it was, but for their ids.  *)
LEMMA BuiltFacts ==
    ASSUME UInv, NEW t \in Threads, BuildProgram(t)
    PROVE  \E p \in programs :
              /\ p \subseteq Waiting /\ Compiles(p) /\ programs' = programs \ {p}
              /\ compiled' = Inserted(compiled,
                                [i \in {k.id : k \in {q \in p : ~q.oneTime}} |->
                                    1 + IF i \in DOMAIN compiled THEN compiled[i] ELSE 0])
              /\ DOMAIN kernels' = DOMAIN kernels \cup {k.id : k \in {q \in p : ~q.oneTime}}
              /\ \A i \in DOMAIN kernels' :
                    \/ i \in DOMAIN kernels /\ kernels'[i] = kernels[i]
                    \/ \E s \in KeptCodes : codes[s].id = i /\ kernels'[i] = s
              /\ DOMAIN oneTime' = DOMAIN oneTime \cup {k.id : k \in {q \in p : q.oneTime}}
              /\ \A i \in DOMAIN oneTime' :
                    \/ /\ i \in DOMAIN oneTime /\ oneTime'[i] = oneTime[i]
                       /\ i \notin {k.id : k \in {q \in p : q.oneTime}}
                    \/ \E s \in DOMAIN codes : codes[s].id = i /\ oneTime'[i] = s
<1>1. PICK p \in programs :
          /\ Compiles(p) /\ PutKernels(p) /\ programs' = programs \ {p}
          /\ compiled' = Inserted(compiled,
                            [i \in {k.id : k \in {q \in p : ~q.oneTime}} |->
                                1 + IF i \in DOMAIN compiled THEN compiled[i] ELSE 0])
  BY DEF BuildProgram
<1> DEFINE once == {k \in p : k.oneTime}
           kept == {k \in p : ~k.oneTime}
<1>2. p \subseteq Waiting
  <2>1. Locked
    BY ConstantsAssumption DEF BuildProgram, UInv, IInv, TypeOK, Locked
  <2> QED BY <2>1 DEF UInv, IInv, BuildCovers
<1>3. p \ once = kept
  OBVIOUS
<1>4. kernels' = Inserted(kernels, ById(kept)) /\ oneTime' = Inserted(oneTime, ById(once))
  BY <1>1, <1>3 DEF PutKernels
<1>5. ASSUME NEW S \in SUBSET p
      PROVE  /\ DOMAIN ById(S) = {k.id : k \in S}
             /\ \A i \in DOMAIN ById(S) :
                   \E s \in DOMAIN codes :
                      codes[s].id = i /\ ById(S)[i] = s /\ WaitingFor(s) \in S
  <2>1. DOMAIN ById(S) = {k.id : k \in S}
    BY DEF ById
  <2>2. ASSUME NEW i \in DOMAIN ById(S)
        PROVE  \E s \in DOMAIN codes :
                  codes[s].id = i /\ ById(S)[i] = s /\ WaitingFor(s) \in S
    <3> DEFINE k == CHOOSE k \in S : k.id = i
    <3>1. k \in S /\ k.id = i
      BY <2>1
    <3>2. ById(S)[i] = k.source
      BY <2>1 DEF ById
    <3>3. k.source \in DOMAIN codes /\ k = WaitingFor(k.source) /\ k.id = codes[k.source].id
      BY <1>2, <3>1, WaitingFacts DEF UInv, IInv
    <3> QED BY <3>1, <3>2, <3>3
  <2> QED BY <2>1, <2>2
<1>6. \A s \in DOMAIN codes : WaitingFor(s) \in kept => s \in KeptCodes
  BY DEF WaitingFor, KeptCodes
<1>7. /\ DOMAIN kernels' = DOMAIN kernels \cup {k.id : k \in kept}
      /\ \A i \in DOMAIN kernels' :
            \/ i \in DOMAIN kernels /\ kernels'[i] = kernels[i]
            \/ \E s \in KeptCodes : codes[s].id = i /\ kernels'[i] = s
  <2>1. kept \in SUBSET p
    OBVIOUS
  <2> HIDE DEF kept
  <2>2. DOMAIN ById(kept) = {k.id : k \in kept}
    BY <1>5, <2>1
  <2>3. \A i \in DOMAIN ById(kept) : \E s \in KeptCodes : codes[s].id = i /\ ById(kept)[i] = s
    BY <1>5, <1>6, <2>1, ZenonT(60)
  <2> QED BY <1>4, <2>2, <2>3 DEF Inserted
<1>8. /\ DOMAIN oneTime' = DOMAIN oneTime \cup {k.id : k \in once}
      /\ \A i \in DOMAIN oneTime' :
            \/ /\ i \in DOMAIN oneTime /\ oneTime'[i] = oneTime[i]
               /\ i \notin {k.id : k \in once}
            \/ \E s \in DOMAIN codes : codes[s].id = i /\ oneTime'[i] = s
  <2>1. once \in SUBSET p
    OBVIOUS
  <2> HIDE DEF once
  <2>2. /\ DOMAIN ById(once) = {k.id : k \in once}
        /\ \A i \in DOMAIN ById(once) : \E s \in DOMAIN codes : codes[s].id = i /\ ById(once)[i] = s
    BY <1>5, <2>1, ZenonT(60)
  <2> QED BY <1>4, <2>2 DEF Inserted
<1> QED BY <1>1, <1>2, <1>7, <1>8

-----------------------------------------------------------------------------
LEMMA UniqueSet ==
    ASSUME UInv, NEW t \in Threads, NEW s \in Sources, NEW job, HandsOver(t, s, job)
    PROVE  Named' /\ Fresh' /\ IdsUnique'
<1> DEFINE once == job.oneTime
<1>1. IInv /\ TypeOK /\ Finite
  BY DEF UInv, IInv
<1>2. /\ jobs' = jobs \cup {job} /\ kernels' = kernels /\ mutex' = mutex /\ ~Locked
      /\ (once => s \in Tuned) /\ (~once => TriesNothing)
      /\ DOMAIN codes' = DOMAIN codes \cup {s}
      /\ \A r \in DOMAIN codes : codes'[r] = codes[r]
      /\ codes'[s].id = IdOf(s)
      /\ s \notin DOMAIN codes => codes'[s].oneTime = once
  BY DEF HandsOver
<1>3. job.source = s /\ job.id = IdOf(s) /\ job.oneTime \in BOOLEAN
  BY DEF HandsOver
<1>4. Stuck => Stuck'
  BY <1>2 DEF Stuck
<1>5. CASE s \in DOMAIN codes
  <2>1. DOMAIN codes' = DOMAIN codes /\ \A r \in DOMAIN codes : codes'[r] = codes[r]
    BY <1>2, <1>5
  <2>2. IdOf(s) = codes[s].id
    BY <1>5 DEF IdOf
  <2>3. KeptCodes' = KeptCodes /\ KeptIds' = KeptIds /\ AllIds' = AllIds /\ Total' = Total
    <3>1. KeptCodes' = KeptCodes
      BY <2>1 DEF KeptCodes
    <3>2. KeptIds' = KeptIds
      BY <1>2, <2>1, <3>1 DEF KeptIds, KeptCodes
    <3>3. AllIds' = AllIds
      BY <1>2, <2>1 DEF AllIds
    <3> QED BY <1>2, <2>1, <3>1, <3>2, <3>3 DEF Total
  <2>4. Fresh'
    BY <1>2, <1>4, <2>1, <2>3 DEF UInv, Fresh, Locked
  <2>5. Named'
    BY <1>2, <1>3, <1>5, <2>1, <2>2 DEF UInv, Named
  <2>6. IdsUnique'
    BY <1>2, <1>3, <1>5, <2>1, <2>2 DEF UInv, IdsUnique
  <2> QED BY <2>4, <2>5, <2>6
<1>6. CASE s \notin DOMAIN codes
  <2> DEFINE new == IdOf(s)
  <2>1. new = <<EntryPoint[s], Total>> /\ new[1] = EntryPoint[s] /\ new[2] = Total
    BY <1>6 DEF IdOf, NewId, Total
  <2>2. Total \in Nat /\ \A i \in AllIds : i[2] \in Nat
    BY <1>1, FiniteFacts DEF Total
  <2>3. new \notin AllIds
    BY <2>1, <2>2 DEF UInv, Fresh
  <2>4. AllIds' = AllIds \cup {new}
    <3>1. {codes'[r].id : r \in DOMAIN codes'} = {codes[r].id : r \in DOMAIN codes} \cup {new}
      BY <1>2
    <3> QED BY <1>2, <3>1 DEF AllIds
  <2>5. Total' = Total + 1
    <3>1. Cardinality(DOMAIN codes') = Cardinality(DOMAIN codes) + 1
      BY <1>1, <1>2, <1>6, FS_AddElement DEF Finite
    <3> QED BY <1>1, <1>2, <3>1, FiniteFacts DEF Total
  <2>6. \A i \in AllIds' : i[2] < Total'
    BY <2>1, <2>2, <2>4, <2>5 DEF UInv, Fresh
  <2>7. ASSUME once PROVE Fresh'
    <3>1. KeptCodes' = KeptCodes
      BY <1>2, <1>6, <2>7 DEF KeptCodes
    <3>2. KeptIds' = KeptIds
      BY <1>2, <3>1 DEF KeptIds, KeptCodes
    <3> QED BY <1>2, <1>4, <2>6, <3>1, <3>2 DEF UInv, Fresh, Locked
  <2>8. ASSUME ~once PROVE Fresh'
    <3> SUFFICES ASSUME ~Stuck'
                 PROVE  /\ \A i \in KeptIds' : i[2] < Cardinality(KeptIds')
                        /\ Cardinality(DOMAIN kernels') + Cardinality(KeptCodes')
                              <= Cardinality(KeptIds')
      BY <2>6 DEF Fresh
    <3>1. KeptCodes = DOMAIN codes
      BY <1>2, <1>4, <2>8 DEF KeptCodes, UInv, IInv, Trials
    <3>2. KeptIds = AllIds
      BY <3>1 DEF KeptIds, AllIds
    <3>3. KeptCodes' = KeptCodes \cup {s} /\ s \notin KeptCodes
      BY <1>2, <1>6, <2>8 DEF KeptCodes
    <3>4. KeptIds' = KeptIds \cup {new}
      <4>1. {codes'[r].id : r \in KeptCodes \cup {s}} = {codes[r].id : r \in KeptCodes} \cup {new}
        BY <1>2, <3>1
      <4> QED BY <1>2, <3>3, <4>1 DEF KeptIds
    <3>5. /\ Cardinality(KeptCodes') = Cardinality(KeptCodes) + 1
          /\ Cardinality(KeptIds') = Cardinality(KeptIds) + 1
      BY <1>1, <2>3, <3>2, <3>3, <3>4, FiniteFacts, FS_AddElement
    <3>6. /\ Cardinality(KeptIds) \in Nat /\ Cardinality(KeptCodes) \in Nat
          /\ Cardinality(DOMAIN kernels) \in Nat
      BY <1>1, FiniteFacts
    <3>7. Total <= Cardinality(KeptIds) /\ \A i \in KeptIds : i[2] < Cardinality(KeptIds)
      BY <1>2, <1>4, <3>1 DEF UInv, Fresh, Total
    <3>8. \A i \in KeptIds' : i[2] < Cardinality(KeptIds')
      BY <2>1, <2>2, <3>2, <3>4, <3>5, <3>6, <3>7
    <3>9. Cardinality(DOMAIN kernels') + Cardinality(KeptCodes') <= Cardinality(KeptIds')
      BY <1>2, <3>1, <3>5, <3>6, <3>7 DEF Total
    <3> QED BY <3>8, <3>9
  <2>9. Named'
    BY <1>2, <1>3, <1>6, <2>1 DEF UInv, Named, TriesNothing
  <2>10. IdsUnique'
    <3>1. \A r \in DOMAIN codes : codes[r].id # new
      BY <2>3 DEF AllIds
    <3>2. new \notin DOMAIN kernels
      BY <2>3 DEF AllIds
    <3> QED BY <1>2, <1>3, <1>6, <3>1, <3>2 DEF UInv, IdsUnique
  <2> QED BY <2>7, <2>8, <2>9, <2>10
<1> QED BY <1>5, <1>6

LEMMA UniqueBuild ==
    ASSUME UInv, NEW t \in Threads, BuildProgram(t)
    PROVE  Named' /\ Fresh' /\ IdsUnique'
<1>1. IInv /\ TypeOK /\ Finite /\ codes' = codes /\ jobs' = jobs /\ mutex' = mutex /\ Locked
  BY ConstantsAssumption DEF UInv, IInv, BuildProgram, TypeOK, Locked
<1>2. PICK p \in programs :
          /\ p \subseteq Waiting
          /\ DOMAIN kernels' = DOMAIN kernels \cup {k.id : k \in {q \in p : ~q.oneTime}}
          /\ \A i \in DOMAIN kernels' :
                \/ i \in DOMAIN kernels /\ kernels'[i] = kernels[i]
                \/ \E s \in KeptCodes : codes[s].id = i /\ kernels'[i] = s
  BY BuiltFacts
<1>3. DOMAIN kernels \subseteq DOMAIN kernels' /\ DOMAIN kernels' \subseteq KeptIds
  BY <1>2 DEF KeptIds
<1>4. KeptCodes' = KeptCodes /\ KeptIds' = KeptIds /\ AllIds' = AllIds
  <2>1. KeptCodes' = KeptCodes
    BY <1>1 DEF KeptCodes
  <2>2. KeptIds' = KeptIds
    BY <1>1, <1>3, <2>1 DEF KeptIds
  <2>3. KeptIds \subseteq AllIds
    BY DEF KeptIds, KeptCodes, AllIds
  <2>4. AllIds' = AllIds
    BY <1>1, <1>3, <2>3 DEF AllIds
  <2> QED BY <2>1, <2>2, <2>4
<1>5. Total <= Total' /\ Total \in Nat /\ Total' \in Nat
  <2>1. IsFiniteSet(DOMAIN kernels')
    BY <1>1, <1>3, FiniteFacts, FS_Subset
  <2>2. /\ Cardinality(DOMAIN kernels) <= Cardinality(DOMAIN kernels')
        /\ Cardinality(DOMAIN kernels') \in Nat
    BY <1>3, <2>1, FS_Subset, FS_CardinalityType
  <2> QED BY <1>1, <2>2, FiniteFacts DEF Total
<1>6. Fresh'
  <2>1. \A i \in AllIds : i[2] < Total'
    BY <1>1, <1>5, FiniteFacts DEF UInv, Fresh
  <2> QED BY <1>1, <1>4, <2>1 DEF UInv, Fresh, Stuck, Locked
<1>7. Named'
  BY <1>1, <1>2 DEF UInv, Named, KeptCodes
<1>8. IdsUnique'
  <2>1. ASSUME NEW s \in DOMAIN codes, codes[s].id \in DOMAIN kernels'
        PROVE  kernels'[codes[s].id] = s
    BY <1>2, <2>1 DEF UInv, IdsUnique, KeptCodes
  <2>2. ASSUME NEW j \in jobs, j.id \in DOMAIN kernels'
        PROVE  kernels'[j.id] = j.source
    <3>1. CASE j.id \in DOMAIN kernels /\ kernels'[j.id] = kernels[j.id]
      BY <3>1 DEF UInv, IdsUnique
    <3>2. CASE \E s \in KeptCodes : codes[s].id = j.id /\ kernels'[j.id] = s
      <4>1. PICK s \in KeptCodes : codes[s].id = j.id /\ kernels'[j.id] = s
        BY <3>2
      <4>2. s \in DOMAIN codes /\ codes[s].id[1] = EntryPoint[s] /\ s \in Sources
        BY <1>1, <4>1 DEF KeptCodes, UInv, Named, TypeOK
      <4>3. CASE j.oneTime
        BY <4>1, <4>2, <4>3, NamesAssumption DEF UInv, Named
      <4>4. CASE ~j.oneTime /\ j.id \in DOMAIN kernels
        BY <4>1, <4>2, <4>4 DEF UInv, IdsUnique
      <4>5. CASE ~j.oneTime /\ j.source \in DOMAIN codes /\ codes[j.source].id = j.id
        BY <4>1, <4>2, <4>5 DEF UInv, IdsUnique
      <4> QED BY <1>1, <4>3, <4>4, <4>5 DEF IInv, NothingLost
    <3> QED BY <1>2, <2>2, <3>1, <3>2
  <2> QED BY <1>1, <2>1, <2>2 DEF UInv, IdsUnique
<1> QED BY <1>6, <1>7, <1>8

LEMMA UniqueFinish ==
    ASSUME UInv, NEW t \in Threads, FinishBuild(t)
    PROVE  Named' /\ Fresh' /\ IdsUnique'
<1>1. /\ IInv /\ TypeOK /\ Finite /\ Locked /\ programs = {}
      /\ kernels' = kernels /\ jobs' = jobs /\ codes' = << >>
  BY ConstantsAssumption DEF UInv, IInv, FinishBuild, Finish, TypeOK, Locked
<1>2. DOMAIN codes' = {}
  BY <1>1
<1>3. \A s \in DOMAIN codes :
          s \notin Broken /\ (codes[s].oneTime \/ codes[s].id \in DOMAIN kernels)
  BY <1>1 DEF IInv, BuildCovers
<1>4. ~Stuck
  BY <1>3 DEF Stuck
<1>5. KeptIds = DOMAIN kernels
  BY <1>3 DEF KeptIds, KeptCodes
<1>6. KeptCodes' = {} /\ KeptIds' = DOMAIN kernels /\ AllIds' = DOMAIN kernels
  BY <1>1, <1>2 DEF KeptCodes, KeptIds, AllIds
<1>7. Cardinality(DOMAIN codes') = 0 /\ Cardinality(KeptCodes') = 0
  BY <1>2, <1>6, FS_EmptySet
<1>8. /\ Cardinality(DOMAIN kernels) \in Nat
      /\ \A i \in DOMAIN kernels : i[2] < Cardinality(DOMAIN kernels)
  BY <1>1, <1>4, <1>5, FiniteFacts DEF UInv, Fresh
<1>9. Total' = Cardinality(DOMAIN kernels)
  BY <1>1, <1>7, <1>8 DEF Total
<1>10. Fresh'
  BY <1>1, <1>6, <1>7, <1>8, <1>9 DEF Fresh
<1>11. Named' /\ IdsUnique'
  BY <1>1, <1>2 DEF UInv, Named, IdsUnique
<1> QED BY <1>10, <1>11

(* Steps that leave the maps alone, and of every job what was asked for. *)
LEMMA UniqueSame ==
    ASSUME UInv, codes' = codes, kernels' = kernels, Stuck \/ Locked' \/ ~Locked,
           \A j \in jobs' : \E i \in jobs : /\ i.thread = j.thread /\ i.source = j.source
                                            /\ i.oneTime = j.oneTime /\ i.id = j.id
    PROVE  Named' /\ Fresh' /\ IdsUnique'
<1>1. KeptCodes' = KeptCodes /\ KeptIds' = KeptIds /\ AllIds' = AllIds /\ Total' = Total
  BY DEF KeptCodes, KeptIds, AllIds, Total
<1>2. Fresh'
  BY <1>1 DEF UInv, Fresh, Stuck
<1> QED BY <1>2 DEF UInv, Named, IdsUnique

LEMMA UniqueStep == UInv /\ [Next]_vars => UInv'
<1> SUFFICES ASSUME UInv, [Next]_vars PROVE Named' /\ Fresh' /\ IdsUnique'
  BY NextIInv DEF UInv
<1>1. TypeOK
  BY DEF UInv, IInv
<1>2. ASSUME NEW t \in Threads, NEW s \in Sources, NEW o \in BOOLEAN, SetKernelSource(t, s, o)
      PROVE  Named' /\ Fresh' /\ IdsUnique'
  BY <1>2, SetFacts, UniqueSet
<1>3. ASSUME NEW t \in Threads, NEW J, Call(t, J)
      PROVE  Named' /\ Fresh' /\ IdsUnique'
  <2>1. codes' = codes /\ kernels' = kernels /\ mutex' = mutex /\ jobs' = jobs
    BY <1>3 DEF Call, cacheVars
  <2> QED BY <2>1, UniqueSame DEF Locked
<1>4. ASSUME NEW t \in Threads, StartBuild(t)
      PROVE  Named' /\ Fresh' /\ IdsUnique'
  <2>1. codes' = codes /\ kernels' = kernels /\ jobs' = jobs /\ Locked'
    BY <1>4, ConstantsAssumption DEF StartBuild, StartWithCodes, Locked
  <2> QED BY <2>1, UniqueSame
<1>5. ASSUME NEW t \in Threads, BuildThrows(t)
      PROVE  Named' /\ Fresh' /\ IdsUnique'
  <2>1. codes' = codes /\ kernels' = kernels /\ Return(t, "failed")
    BY <1>5 DEF BuildThrows, cacheVars
  <2>2. Stuck
    BY <1>5, ThrowsStuck DEF UInv
  <2> QED BY <1>1, <2>1, <2>2, ReturnFacts, UniqueSame
<1>6. ASSUME NEW t \in Threads, Read(t)
      PROVE  Named' /\ Fresh' /\ IdsUnique'
  <2>1. codes' = codes /\ kernels' = kernels /\ mutex' = mutex
    BY <1>6 DEF Read, cacheVars
  <2>2. PICK state \in {"found", "missing", "wrong", "undefined", "failed", "none"} :
            Return(t, state)
    BY <1>6 DEF Read, Found
  <2> QED BY <1>1, <2>1, <2>2, ReturnFacts, UniqueSame DEF Locked
<1>7. CASE UNCHANGED vars
  <2>1. codes' = codes /\ kernels' = kernels /\ mutex' = mutex /\ jobs' = jobs
    BY <1>7 DEF vars
  <2> QED BY <2>1, UniqueSame DEF Locked
<1> QED
  BY <1>2, <1>3, <1>4, <1>5, <1>6, <1>7, UniqueBuild, UniqueFinish DEF Next, Proceed

LEMMA UniqueInit == Init => UInv
<1> SUFFICES ASSUME Init PROVE UInv
  OBVIOUS
<1>1. DOMAIN codes = {} /\ DOMAIN kernels = {} /\ jobs = {}
  BY DEF Init
<1>2. KeptCodes = {} /\ KeptIds = {} /\ AllIds = {}
  BY <1>1 DEF KeptCodes, KeptIds, AllIds
<1>3. Fresh
  BY <1>1, <1>2, FS_EmptySet DEF Fresh
<1> QED BY <1>1, <1>3, InitIInv DEF UInv, Named, IdsUnique

LEMMA UniqueAlways == Spec => []UInv
BY UniqueInit, UniqueStep, PTL DEF Spec

(* The ids set_kernel_source makes from a count are the ids of one kernel    *)
(* each, among those that wait, those that are compiled and those a kernel   *)
(* object still asks for, though the one-time kernels are forgotten and the  *)
(* count gets smaller.                                                       *)
THEOREM UniqueIds == Spec => []IdsUnique
<1>1. UInv => IdsUnique
  BY DEF UInv
<1> QED BY UniqueAlways, <1>1, PTL

(* build_all never replaces a kernel that is compiled, nor takes it away.    *)
THEOREM KernelsStay == Spec => KernelsKept
<1>1. ASSUME UInv, [Next]_vars
      PROVE  \A i \in DOMAIN kernels : i \in DOMAIN kernels' /\ kernels'[i] = kernels[i]
  <2>1. ASSUME NEW t \in Threads, BuildProgram(t)
        PROVE  \A i \in DOMAIN kernels : i \in DOMAIN kernels' /\ kernels'[i] = kernels[i]
    <3>1. /\ DOMAIN kernels \subseteq DOMAIN kernels'
          /\ \A i \in DOMAIN kernels' :
                \/ i \in DOMAIN kernels /\ kernels'[i] = kernels[i]
                \/ \E s \in KeptCodes : codes[s].id = i /\ kernels'[i] = s
      BY <1>1, <2>1, BuiltFacts
    <3> QED BY <1>1, <3>1 DEF UInv, IdsUnique, KeptCodes
  <2>2. CASE kernels' = kernels
    BY <2>2
  <2> QED
    BY <1>1, <2>1, <2>2
    DEF Next, Proceed, SetKernelSource, Call, StartBuild, StartWithCodes, BuildThrows,
        FinishBuild, Finish, Read, cacheVars, vars
<1> QED BY UniqueAlways, <1>1, PTL DEF Spec, KernelsKept

-----------------------------------------------------------------------------
(* Compilations. *)
LEMMA NewIdFresh ==
    ASSUME UInv, NEW s, s \notin DOMAIN codes
    PROVE  IdOf(s) \notin AllIds
<1>1. IdOf(s)[2] = Total
  BY DEF IdOf, NewId, Total
<1>2. Total \in Nat /\ \A i \in AllIds : i[2] \in Nat
  BY FiniteFacts DEF Total, UInv, IInv
<1> QED BY <1>1, <1>2 DEF UInv, Fresh

LEMMA ProgramsDisjoint ==
    ASSUME NEW p \in ProgramSource, NEW q \in ProgramSource, p # q
    PROVE  p \cap q = {}
<1> DEFINE With(k) == IF k.source \notin Batch THEN {k}
                      ELSE {w \in Waiting : w.source \in Batch /\ w.oneTime = k.oneTime}
<1>1. \A r \in ProgramSource : \A k \in r : r = With(k)
  BY DEF ProgramSource
<1> HIDE DEF With
<1> QED BY <1>1

LEMMA CompilationsBuild ==
    ASSUME CInv, NEW t \in Threads, BuildProgram(t)
    PROVE  Compilations' /\ CompiledOnce'
<1>1. UInv /\ TypeOK /\ Locked /\ codes' = codes /\ mutex' = mutex /\ failures' = failures
  BY ConstantsAssumption DEF CInv, UInv, IInv, BuildProgram, TypeOK, Locked
<1>2. PICK p \in programs :
          /\ p \subseteq Waiting /\ programs' = programs \ {p}
          /\ compiled' = Inserted(compiled,
                            [i \in {k.id : k \in {q \in p : ~q.oneTime}} |->
                                1 + IF i \in DOMAIN compiled THEN compiled[i] ELSE 0])
          /\ DOMAIN kernels' = DOMAIN kernels \cup {k.id : k \in {q \in p : ~q.oneTime}}
  BY <1>1, BuiltFacts
<1> DEFINE ids == {k.id : k \in {q \in p : ~q.oneTime}}
<1>3. \A i \in ids : \E s \in KeptCodes : i = codes[s].id /\ WaitingFor(s) \in p
  <2>1. ASSUME NEW k \in p, ~k.oneTime
        PROVE  \E s \in KeptCodes : k.id = codes[s].id /\ WaitingFor(s) \in p
    <3>1. p \subseteq Waiting
      BY <1>2
    <3>2. /\ k.source \in DOMAIN codes /\ k = WaitingFor(k.source)
          /\ k.id = codes[k.source].id /\ k.oneTime = codes[k.source].oneTime
      BY <1>1, <3>1, WaitingFacts
    <3> QED BY <2>1, <3>2 DEF KeptCodes
  <2> QED BY <2>1
<1>4. /\ DOMAIN compiled' = DOMAIN compiled \cup ids
      /\ \A i \in ids : compiled'[i] = 1 + IF i \in DOMAIN compiled THEN compiled[i] ELSE 0
      /\ \A i \in DOMAIN compiled \ ids : compiled'[i] = compiled[i]
  <2> HIDE DEF ids
  <2> QED BY <1>2 DEF Inserted, ids
<1> HIDE DEF ids
<1>5. failures \in Nat /\ \A i \in DOMAIN compiled : compiled[i] \in Nat
  BY <1>1 DEF TypeOK
<1>6. \A i \in ids : i \in DOMAIN compiled => compiled[i] <= failures
  BY <1>1, <1>2, <1>3 DEF CInv, Compilations
<1>7. CompiledOnce'
  BY <1>1, <1>4, <1>5, <1>6 DEF CInv, CompiledOnce
<1>8. KeptCodes' = KeptCodes /\ \A s \in DOMAIN codes : WaitingFor(s)' = WaitingFor(s)
  BY <1>1 DEF KeptCodes, WaitingFor
<1>9. ASSUME NEW s \in KeptCodes, codes[s].id \in DOMAIN compiled',
             \E q \in programs' : WaitingFor(s) \in q
      PROVE  compiled'[codes[s].id] <= failures
  <2>1. WaitingFor(s) \notin p
    BY <1>2, <1>9 DEF CInv, Compilations
  <2>2. codes[s].id \notin ids
    <3> SUFFICES ASSUME codes[s].id \in ids PROVE FALSE
      OBVIOUS
    <3>1. PICK r \in KeptCodes : codes[s].id = codes[r].id /\ WaitingFor(r) \in p
      BY <1>3
    <3> QED BY <1>1, <2>1, <3>1 DEF UInv, IdsUnique, KeptCodes
  <2>3. \E q \in programs : WaitingFor(s) \in q
    BY <1>2, <1>9
  <2> QED BY <1>4, <1>9, <2>2, <2>3 DEF CInv, Compilations
<1>10. Compilations'
  <2>1. DOMAIN compiled' \subseteq DOMAIN kernels'
    BY <1>2, <1>4 DEF CInv, Compilations, ids
  <2>2. \A q, r \in programs' : q = r \/ q \cap r = {}
    BY <1>2 DEF CInv, Compilations
  <2>3. \A s \in KeptCodes' : s \in DOMAIN codes
    BY <1>8 DEF KeptCodes
  <2> QED BY <1>1, <1>8, <1>9, <2>1, <2>2, <2>3 DEF Compilations, Locked
<1> QED BY <1>7, <1>10

LEMMA CompilationsStep == CInv /\ [Next]_vars => CInv'
<1> SUFFICES ASSUME CInv, [Next]_vars PROVE Compilations' /\ CompiledOnce'
  BY UniqueStep DEF CInv
<1>1. UInv /\ TypeOK
  BY DEF CInv, UInv, IInv
<1>2. ASSUME NEW t \in Threads, NEW s \in Sources, NEW job, HandsOver(t, s, job)
      PROVE  Compilations' /\ CompiledOnce'
  <2>1. /\ ~Locked /\ mutex' = mutex /\ kernels' = kernels /\ programs' = programs
        /\ compiled' = compiled /\ failures' = failures
        /\ DOMAIN codes' = DOMAIN codes \cup {s} /\ codes'[s].id = IdOf(s)
        /\ \A r \in DOMAIN codes : codes'[r] = codes[r]
    BY <1>2 DEF HandsOver
  <2>2. ASSUME NEW r \in KeptCodes', codes'[r].id \in DOMAIN compiled
        PROVE  compiled[codes'[r].id] <= failures
    <3>1. CASE r \in DOMAIN codes
      <4>1. r \in KeptCodes /\ codes'[r].id = codes[r].id
        BY <2>1, <2>2, <3>1 DEF KeptCodes
      <4> QED BY <2>1, <2>2, <4>1 DEF CInv, Compilations
    <3>2. CASE r \notin DOMAIN codes
      <4>1. r = s /\ IdOf(s) \notin DOMAIN kernels
        BY <1>1, <2>1, <2>2, <3>2, NewIdFresh DEF KeptCodes, AllIds
      <4> QED BY <2>1, <2>2, <4>1 DEF CInv, Compilations
    <3> QED BY <3>1, <3>2
  <2> QED BY <2>1, <2>2 DEF CInv, Compilations, CompiledOnce
<1>3. ASSUME NEW t \in Threads, StartBuild(t)
      PROVE  Compilations' /\ CompiledOnce'
  <2>1. /\ codes' = codes /\ kernels' = kernels /\ programs' = ProgramSource /\ ~Locked
        /\ compiled' = compiled /\ failures' = failures
    BY <1>3 DEF StartBuild, StartWithCodes, Locked
  <2>2. KeptCodes' = KeptCodes
    BY <2>1 DEF KeptCodes
  <2> QED BY <2>1, <2>2, ProgramsDisjoint DEF CInv, Compilations, CompiledOnce
<1>4. ASSUME NEW t \in Threads, BuildThrows(t)
      PROVE  Compilations' /\ CompiledOnce'
  <2>1. /\ codes' = codes /\ kernels' = kernels /\ programs' = {} /\ mutex' = "nobody"
        /\ compiled' = compiled /\ failures' = failures + 1
    BY <1>4 DEF BuildThrows, cacheVars
  <2>2. failures \in Nat /\ \A i \in DOMAIN compiled : compiled[i] \in Nat
    BY <1>1 DEF TypeOK
  <2>3. \A i \in DOMAIN compiled : compiled[i] <= failures + 1
    BY <2>2 DEF CInv, CompiledOnce
  <2>4. CompiledOnce'
    BY <2>1, <2>2, <2>3 DEF CompiledOnce
  <2>5. Compilations'
    BY <2>1, <2>3 DEF CInv, Compilations
  <2> QED BY <2>4, <2>5
<1>5. ASSUME NEW t \in Threads, FinishBuild(t)
      PROVE  Compilations' /\ CompiledOnce'
  <2>1. /\ codes' = << >> /\ kernels' = kernels /\ programs' = {}
        /\ compiled' = compiled /\ failures' = failures
    BY <1>5 DEF FinishBuild, Finish
  <2>2. KeptCodes' = {}
    BY <2>1 DEF KeptCodes
  <2> QED BY <2>1, <2>2 DEF CInv, Compilations, CompiledOnce
<1>6. ASSUME codes' = codes, kernels' = kernels, programs' = programs, mutex' = mutex,
             compiled' = compiled, failures' = failures
      PROVE  Compilations' /\ CompiledOnce'
  <2>1. KeptCodes' = KeptCodes /\ \A s : WaitingFor(s)' = WaitingFor(s)
    BY <1>6 DEF KeptCodes, WaitingFor
  <2> QED BY <1>6, <2>1 DEF CInv, Compilations, CompiledOnce, Locked
<1>7. ASSUME NEW t \in Threads, NEW J, Call(t, J)
      PROVE  Compilations' /\ CompiledOnce'
  BY <1>6, <1>7 DEF Call, cacheVars
<1>8. ASSUME NEW t \in Threads, Read(t)
      PROVE  Compilations' /\ CompiledOnce'
  BY <1>6, <1>8 DEF Read, cacheVars
<1>9. CASE UNCHANGED vars
  BY <1>6, <1>9 DEF vars
<1>10. ASSUME NEW t \in Threads, NEW s \in Sources, NEW o \in BOOLEAN, SetKernelSource(t, s, o)
       PROVE  Compilations' /\ CompiledOnce'
  BY <1>2, <1>10, SetFacts
<1> QED
  BY <1>3, <1>4, <1>5, <1>7, <1>8, <1>9, <1>10, CompilationsBuild DEF Next, Proceed

(* Two threads that both find the flag set build one after the other, and    *)
(* the second compiles nothing the first compiled, as _kernels_code is empty *)
(* by then: a kernel is compiled again only after a build that threw.        *)
THEOREM OneCompilation == Spec => []CompiledOnce
<1>1. Init => CInv
  <2> SUFFICES ASSUME Init PROVE Compilations /\ CompiledOnce
    BY UniqueInit DEF CInv
  <2>1. DOMAIN codes = {} /\ DOMAIN compiled = {} /\ programs = {}
    BY DEF Init
  <2> QED BY <2>1 DEF Compilations, CompiledOnce, KeptCodes
<1>2. CInv => CompiledOnce
  BY DEF CInv
<1> QED BY <1>1, <1>2, CompilationsStep, PTL DEF Spec

-----------------------------------------------------------------------------
(* Lookups. *)
LEMMA LookupsSet ==
    ASSUME LInv, NEW t \in Threads, NEW s \in Sources, NEW job, HandsOver(t, s, job)
    PROVE  TrialAlone' /\ TrialWaits' /\ TrialsBuilt' /\ Lookups' /\ FindsWhatWasSet'
<1>1. TypeOK
  BY DEF LInv, UInv, IInv
<1>2. /\ job.source = s /\ job.id = IdOf(s) /\ job.state = "set" /\ job.oneTime \in BOOLEAN
      /\ ~Locked /\ jobs' = jobs \cup {job} /\ pending' = TRUE
      /\ DOMAIN codes' = DOMAIN codes \cup {s}
      /\ \A r \in DOMAIN codes : codes'[r] = codes[r]
      /\ codes'[s].id = IdOf(s)
      /\ s \notin DOMAIN codes => codes'[s].oneTime = job.oneTime
      /\ kernels' = kernels /\ oneTime' = oneTime /\ mutex' = mutex /\ pc' = pc /\ call' = call
  BY DEF HandsOver
<1>3. TrialsBuilt' /\ FindsWhatWasSet'
  BY <1>2 DEF LInv, TrialsBuilt, Locked, FindsWhatWasSet
<1>4. Lookups'
  <2>1. \A r \in KeptCodes' : \E j \in jobs' : j.source = r /\ ~j.oneTime
    BY <1>2 DEF LInv, Lookups, KeptCodes
  <2> QED BY <1>2, <2>1 DEF LInv, Lookups
<1>5. ASSUME ~job.oneTime PROVE TrialAlone' /\ TrialWaits'
  <2>1. TriesNothing'
    BY <1>2, <1>5 DEF HandsOver, TriesNothing
  <2> QED BY <2>1 DEF TriesNothing, TrialAlone, TrialWaits, IsTrial
<1>6. ASSUME job.oneTime PROVE TrialAlone' /\ TrialWaits'
  <2>1. /\ \A u \in Threads : pc[u] = "idle"
        /\ \A j \in jobs : j.source = s => j.oneTime
        /\ \A j \in jobs : IsTrial(j) => j.source \in DOMAIN codes
    BY <1>6 DEF HandsOver
  <2>2. s \in DOMAIN codes => codes[s].oneTime
    BY <2>1 DEF LInv, Lookups, KeptCodes
  <2>3. codes'[s].oneTime
    BY <1>2, <1>6, <2>2
  <2>4. \A j \in jobs : IsTrial(j) =>
           /\ j.source \in DOMAIN codes
           /\ codes[j.source].id = j.id /\ codes[j.source].oneTime
    BY <2>1 DEF LInv, TrialWaits
  <2>5. TrialWaits'
    BY <1>2, <2>3, <2>4 DEF TrialWaits, IsTrial
  <2> QED BY <1>2, <2>1, <2>5 DEF TrialAlone
<1> QED BY <1>2, <1>3, <1>4, <1>5, <1>6

LEMMA LookupsCall ==
    ASSUME LInv, NEW t \in Threads, NEW J, Call(t, J)
    PROVE  TrialAlone' /\ TrialWaits' /\ TrialsBuilt' /\ Lookups' /\ FindsWhatWasSet'
<1>1. /\ UNCHANGED <<codes, kernels, oneTime, pending, mutex, programs, jobs>>
      /\ J \subseteq jobs /\ \A j \in J : j.thread = t /\ (j.oneTime => j.state = "set")
      /\ TriesNothing \/ NobodyTries(t)
  BY DEF Call, cacheVars
<1>2. /\ \A u \in Threads : call'[u] = IF u = t THEN J ELSE call[u]
      /\ pc'[t] = IF pending THEN "waiting" ELSE "reading"
      /\ \A u \in Threads : u # t => pc'[u] = pc[u]
  BY DEF Call, LInv, UInv, IInv, TypeOK
<1>3. TrialAlone'
  <2>1. TriesNothing' <=> TriesNothing
    BY <1>1 DEF TriesNothing
  <2>2. \A u \in Threads : NobodyTries(u)' <=> NobodyTries(u)
    BY <1>1 DEF NobodyTries
  <2>3. pending <=> DOMAIN codes # {}
    BY DEF LInv, Lookups
  <2> QED BY <1>1, <1>2, <2>1, <2>2, <2>3 DEF LInv, TrialAlone
<1>4. TrialWaits' /\ TrialsBuilt' /\ FindsWhatWasSet'
  BY <1>1 DEF LInv, TrialWaits, IsTrial, TrialsBuilt, Locked, WaitingFor, FindsWhatWasSet
<1>5. Lookups'
  <2>1. ~pending => \A j \in J : ~j.oneTime => j.id \in DOMAIN kernels
    BY <1>1 DEF LInv, Lookups, UInv, IInv, NothingLost
  <2>2. KeptCodes' = KeptCodes
    BY <1>1 DEF KeptCodes
  <2> QED BY <1>1, <1>2, <2>1, <2>2 DEF LInv, Lookups
<1> QED BY <1>3, <1>4, <1>5

LEMMA LookupsStart ==
    ASSUME LInv, NEW t \in Threads, StartBuild(t)
    PROVE  TrialAlone' /\ TrialWaits' /\ TrialsBuilt' /\ Lookups' /\ FindsWhatWasSet'
<1>1. /\ codes' = codes /\ kernels' = kernels /\ pending' = pending /\ jobs' = jobs
      /\ call' = call /\ programs' = ProgramSource /\ pc[t] = "waiting"
  BY DEF StartBuild, StartWithCodes
<1>2. \A u \in Threads : pc'[u] = IF u = t THEN "building" ELSE pc[u]
  BY DEF StartBuild, LInv, UInv, IInv, TypeOK
<1>3. TrialAlone'
  BY <1>1, <1>2 DEF LInv, TrialAlone, TriesNothing, NobodyTries
<1>4. TrialWaits'
  BY <1>1 DEF LInv, TrialWaits, IsTrial, TrialAlone, TriesNothing
<1>5. TrialsBuilt'
  <2>1. \A s \in DOMAIN codes : \E p \in ProgramSource : WaitingFor(s) \in p
    BY ProgramsCover DEF LInv, UInv, IInv
  <2> QED BY <1>1, <2>1 DEF TrialsBuilt, WaitingFor
<1>6. Lookups' /\ FindsWhatWasSet'
  BY <1>1, <1>2 DEF LInv, Lookups, KeptCodes, FindsWhatWasSet
<1> QED BY <1>3, <1>4, <1>5, <1>6

LEMMA LookupsBuild ==
    ASSUME LInv, NEW t \in Threads, BuildProgram(t)
    PROVE  TrialAlone' /\ TrialWaits' /\ TrialsBuilt' /\ Lookups' /\ FindsWhatWasSet'
<1>1. /\ UInv /\ TypeOK /\ codes' = codes /\ pending' = pending /\ mutex' = mutex
      /\ pc' = pc /\ call' = call /\ jobs' = jobs /\ Locked
  BY ConstantsAssumption DEF LInv, UInv, IInv, BuildProgram, TypeOK, Locked
<1>2. PICK p \in programs :
          /\ p \subseteq Waiting /\ programs' = programs \ {p}
          /\ DOMAIN kernels \subseteq DOMAIN kernels'
          /\ DOMAIN oneTime' = DOMAIN oneTime \cup {k.id : k \in {q \in p : q.oneTime}}
          /\ \A i \in DOMAIN oneTime' :
                \/ /\ i \in DOMAIN oneTime /\ oneTime'[i] = oneTime[i]
                   /\ i \notin {k.id : k \in {q \in p : q.oneTime}}
                \/ \E s \in DOMAIN codes : codes[s].id = i /\ oneTime'[i] = s
  BY <1>1, BuiltFacts
<1>3. TrialAlone' /\ FindsWhatWasSet'
  BY <1>1 DEF LInv, TrialAlone, TriesNothing, NobodyTries, FindsWhatWasSet
<1>4. TrialWaits'
  BY <1>1, <1>2 DEF LInv, TrialWaits, IsTrial
<1>5. Lookups'
  BY <1>1, <1>2 DEF LInv, Lookups, KeptCodes
<1>6. TrialsBuilt'
  <2> SUFFICES ASSUME NEW s \in DOMAIN codes, codes[s].oneTime,
                      ~ \E q \in programs' : WaitingFor(s) \in q
               PROVE  codes[s].id \in DOMAIN oneTime' /\ oneTime'[codes[s].id] = s
    BY <1>1 DEF TrialsBuilt, WaitingFor
  <2>1. CASE WaitingFor(s) \in p
    <3>1. codes[s].id \in {k.id : k \in {q \in p : q.oneTime}}
      BY <2>1 DEF WaitingFor
    <3>2. \E r \in DOMAIN codes : codes[r].id = codes[s].id /\ oneTime'[codes[s].id] = r
      BY <1>2, <3>1
    <3> QED BY <1>1, <1>2, <3>1, <3>2 DEF UInv, IdsUnique
  <2>2. CASE codes[s].id \in DOMAIN oneTime /\ oneTime[codes[s].id] = s
    BY <1>1, <1>2, <2>2 DEF UInv, IdsUnique
  <2> QED BY <1>1, <1>2, <2>1, <2>2 DEF LInv, TrialsBuilt
<1> QED BY <1>3, <1>4, <1>5, <1>6

LEMMA LookupsFinish ==
    ASSUME LInv, NEW t \in Threads, FinishBuild(t)
    PROVE  TrialAlone' /\ TrialWaits' /\ TrialsBuilt' /\ Lookups' /\ FindsWhatWasSet'
<1>1. /\ pc[t] = "building" /\ programs = {} /\ codes' = << >> /\ pending' = FALSE
      /\ kernels' = kernels /\ oneTime' = oneTime /\ call' = call /\ jobs' = jobs
  BY DEF FinishBuild, Finish
<1>2. Locked /\ \A u \in Threads : pc'[u] = IF u = t THEN "reading" ELSE pc[u]
  BY ConstantsAssumption DEF FinishBuild, LInv, UInv, IInv, TypeOK, Locked
<1>3. DOMAIN codes' = {}
  BY <1>1
<1>4. TrialAlone'
  <2>1. ~TriesNothing => \A u \in Threads : u # t => pc[u] = "idle"
    BY <1>1 DEF LInv, TrialAlone, TriesNothing, NobodyTries
  <2> QED BY <1>1, <1>2, <1>3, <2>1 DEF LInv, TrialAlone, TriesNothing, NobodyTries
<1>5. TrialWaits'
  BY <1>1, <1>2, <1>3 DEF LInv, TrialWaits, IsTrial, TrialsBuilt
<1>6. Lookups'
  <2>1. NothingLost'
    BY FinishBuildStep DEF LInv, UInv, IInv
  <2>2. \A u \in Threads : \A j \in call[u] : j \in jobs
    BY DEF LInv, UInv, IInv, TypeOK
  <2>3. \A j \in jobs : ~j.oneTime => j.id \in DOMAIN kernels
    BY <1>1, <1>3, <2>1 DEF NothingLost
  <2> QED BY <1>1, <1>3, <2>2, <2>3 DEF LInv, Lookups, KeptCodes
<1>7. TrialsBuilt' /\ FindsWhatWasSet'
  BY <1>1, <1>3 DEF LInv, TrialsBuilt, FindsWhatWasSet
<1> QED BY <1>4, <1>5, <1>6, <1>7

(* A call that ends, unless with a kernel that is missing or another one. *)
LEMMA LookupsReturn ==
    ASSUME LInv, NEW t \in Threads, NEW state \in {"found", "undefined", "failed", "none"},
           Return(t, state), UNCHANGED cacheVars
    PROVE  TrialAlone' /\ TrialWaits' /\ Lookups' /\ FindsWhatWasSet'
<1>1. TypeOK
  BY DEF LInv, UInv, IInv
<1>2. /\ codes' = codes /\ kernels' = kernels /\ oneTime' = oneTime /\ pending' = pending
      /\ jobs' = (jobs \ call[t]) \cup {Answered(j, state) : j \in call[t]}
  BY DEF cacheVars, Return
<1>3. /\ \A u \in Threads : pc'[u] = IF u = t THEN "idle" ELSE pc[u]
      /\ \A u \in Threads : call'[u] = IF u = t THEN {} ELSE call[u]
  BY <1>1 DEF Return, TypeOK
<1>4. \A j \in jobs' : j \in jobs \/ j.state = state
  BY <1>2 DEF Answered
<1>5. \A j \in jobs' : IsTrial(j) => j \in jobs
  BY <1>4 DEF IsTrial
<1>6. TrialAlone'
  <2>1. TriesNothing => TriesNothing'
    BY <1>5 DEF TriesNothing, IsTrial
  <2>2. \A u \in Threads : NobodyTries(u) => NobodyTries(u)'
    BY <1>5 DEF NobodyTries, IsTrial
  <2> QED BY <1>2, <1>3, <2>1, <2>2 DEF LInv, TrialAlone
<1>7. TrialWaits'
  BY <1>2, <1>5 DEF LInv, TrialWaits, IsTrial
<1>8. Lookups'
  <2>1. ASSUME NEW s \in KeptCodes PROVE \E j \in jobs' : j.source = s /\ ~j.oneTime
    <3>1. PICK j \in jobs : j.source = s /\ ~j.oneTime
      BY DEF LInv, Lookups
    <3>2. CASE j \in call[t]
      <4>1. Answered(j, state) \in jobs'
        BY <1>2, <3>2
      <4> QED BY <3>1, <4>1 DEF Answered
    <3> QED BY <1>2, <3>1, <3>2
  <2>2. KeptCodes' = KeptCodes
    BY <1>2 DEF KeptCodes
  <2> QED BY <1>2, <1>3, <2>1, <2>2 DEF LInv, Lookups
<1>9. FindsWhatWasSet'
  BY <1>4 DEF LInv, FindsWhatWasSet
<1> QED BY <1>6, <1>7, <1>8, <1>9

LEMMA LookupsRead ==
    ASSUME LInv, NEW t \in Threads, Read(t)
    PROVE  TrialAlone' /\ TrialWaits' /\ TrialsBuilt' /\ Lookups' /\ FindsWhatWasSet'
<1>1. UNCHANGED cacheVars /\ mutex' = mutex /\ programs' = programs /\ pc[t] = "reading"
  BY DEF Read
<1>2. ASSUME NEW j \in call[t]
      PROVE  Found(j, IF j.oneTime THEN oneTime ELSE kernels) = "found"
  <2>1. j \in jobs
    BY DEF LInv, UInv, IInv, TypeOK
  <2>2. ASSUME ~j.oneTime PROVE j.id \in DOMAIN kernels /\ kernels[j.id] = j.source
    BY <1>1, <2>1, <2>2 DEF LInv, Lookups, UInv, IdsUnique
  <2>3. ASSUME j.oneTime PROVE j.id \in DOMAIN oneTime /\ oneTime[j.id] = j.source
    <3>1. IsTrial(j)
      BY <2>3 DEF LInv, Lookups, IsTrial
    <3>2. DOMAIN codes = {}
      BY <1>1, <2>1, <3>1 DEF LInv, TrialAlone, TriesNothing, IsTrial
    <3> QED BY <2>1, <3>1, <3>2 DEF LInv, TrialWaits
  <2> QED BY <2>2, <2>3 DEF Found
<1>3. \E state \in {"found", "undefined", "none"} : Return(t, state)
  BY <1>2 DEF Read
<1>4. TrialsBuilt'
  BY <1>1 DEF cacheVars, LInv, TrialsBuilt, Locked, WaitingFor
<1> QED BY <1>1, <1>3, <1>4, LookupsReturn

LEMMA LookupsStep == LInv /\ [Next]_vars => LInv'
<1> SUFFICES ASSUME LInv, [Next]_vars
             PROVE  TrialAlone' /\ TrialWaits' /\ TrialsBuilt' /\ Lookups' /\ FindsWhatWasSet'
  BY UniqueStep DEF LInv
<1>1. ASSUME NEW t \in Threads, NEW s \in Sources, NEW o \in BOOLEAN, SetKernelSource(t, s, o)
      PROVE  TrialAlone' /\ TrialWaits' /\ TrialsBuilt' /\ Lookups' /\ FindsWhatWasSet'
  BY <1>1, SetFacts, LookupsSet
<1>2. ASSUME NEW t \in Threads, BuildThrows(t)
      PROVE  TrialAlone' /\ TrialWaits' /\ TrialsBuilt' /\ Lookups' /\ FindsWhatWasSet'
  <2>1. Return(t, "failed") /\ UNCHANGED cacheVars /\ ~Locked'
    BY <1>2 DEF BuildThrows, Locked
  <2>2. TrialsBuilt'
    BY <2>1 DEF TrialsBuilt
  <2> QED BY <2>1, <2>2, LookupsReturn
<1>3. CASE UNCHANGED vars
  BY <1>3
  DEF vars, LInv, TrialAlone, TriesNothing, NobodyTries, TrialWaits, IsTrial, TrialsBuilt,
      Locked, WaitingFor, Lookups, KeptCodes, FindsWhatWasSet
<1> QED
  BY <1>1, <1>2, <1>3, LookupsCall, LookupsStart, LookupsBuild, LookupsFinish, LookupsRead
  DEF Next, Proceed

(* A kernel is found where get_kernel looks for it, and it is the one that   *)
(* was handed over, whether it is kept or only tried out, unless get_kernel  *)
(* reads while another thread is inside build_all.                           *)
THEOREM Finds == Spec => []FindsWhatWasSet
<1>1. Init => LInv
  <2> SUFFICES ASSUME Init
               PROVE  TrialAlone /\ TrialWaits /\ TrialsBuilt /\ Lookups /\ FindsWhatWasSet
    BY UniqueInit DEF LInv
  <2>1. /\ DOMAIN codes = {} /\ jobs = {} /\ pending = FALSE
        /\ \A t \in Threads : call[t] = {} /\ pc[t] = "idle"
    BY DEF Init
  <2> QED BY <2>1 DEF TrialAlone, TrialWaits, TrialsBuilt, Lookups, KeptCodes, FindsWhatWasSet
<1>2. LInv => FindsWhatWasSet
  BY DEF LInv
<1> QED BY <1>1, <1>2, LookupsStep, PTL DEF Spec

=============================================================================
