----------------------------- MODULE KernelsCache -----------------------------
(***************************************************************************)
(* The kernels cache of one engine (kernels_cache.cpp): threads hand over  *)
(* kernel sources and are given ids; whoever needs a kernel first has all  *)
(* the sources that wait compiled, under a mutex, but reads the flag and   *)
(* the finished kernels without it.  Kernels that are only tried out       *)
(* (kernel_runner.cpp) are kept apart and forgotten at the next build.     *)
(*                                                                         *)
(* A thread's need for a kernel, an object of class kernel, is a job; it   *)
(* remembers what came of the last call of get_kernel for it.              *)
(*                                                                         *)
(* IdFromKernels, ClearCodesFirst, FinishKeepingCodes, FinishLocked,       *)
(* IntoKernels and PutFreshKernels are wrong on purpose: each is what a    *)
(* plausible slip would make of the definition after it.                   *)
(***************************************************************************)
EXTENDS Naturals, FiniteSets

CONSTANTS
    Threads,
    Sources,     \* kernel_strings, told apart by their hash
    EntryPoint,  \* [Sources -> the name of the kernel in the source]
    Batch,       \* sources that may be compiled together with others
    Broken,      \* sources that do not compile
    Tuned,       \* sources that are tried out first
    MaxJobs,     \* bound on the jobs
    MaxCalls     \* bound on the calls that build

ASSUME ConstantsAssumption ==
    /\ Batch \subseteq Sources /\ Broken \subseteq Sources /\ Tuned \subseteq Sources
    /\ Sources \subseteq DOMAIN EntryPoint
    /\ MaxJobs \in Nat /\ MaxCalls \in Nat
    /\ "nobody" \notin Threads

(* common_kernel_base::GetEntryPoint numbers the kernels it generates, those *)
(* that are tried out among them; no other kernel has their names.           *)
ASSUME NamesAssumption ==
    \A s \in Tuned, r \in Sources : EntryPoint[r] = EntryPoint[s] => r = s

VARIABLES
    codes,     \* _kernels_code: [id, oneTime] by source
    kernels,   \* _kernels: the source a kernel was made from, by id
    oneTime,   \* _one_time_kernels, likewise
    pending,   \* _pending_compilation
    mutex,     \* who holds _mutex
    pc,        \* where each thread is
    call,      \* the job each thread is calling for, {} for compile_program
    programs,  \* the programs the thread in build_all has still to compile
    jobs,      \* what the threads asked for
    compiled,  \* how often the kernel of an id was compiled to be kept
    failures,  \* number of builds that threw
    calls      \* number of calls so far

vars == <<codes, kernels, oneTime, pending, mutex, pc, call, programs, jobs, compiled,
          failures, calls>>
cacheVars == <<codes, kernels, oneTime, pending>>

-----------------------------------------------------------------------------
(* A kernel waiting to be compiled. *)
Waiting == {[source |-> s, id |-> codes[s].id, oneTime |-> codes[s].oneTime] :
               s \in DOMAIN codes}

(* get_program_source: sources that are compiled together form a program,    *)
(* kernels to be tried out apart from the others; a source that cannot be    *)
(* batched is a program of its own.                                          *)
ProgramSource ==
    {{k} : k \in {w \in Waiting : w.source \notin Batch}}
    \cup ({{w \in Waiting : w.source \in Batch /\ w.oneTime = o} : o \in BOOLEAN} \ {{}})

(* set_kernel_source: "we need unique id in order to avoid conflict across    *)
(* topologies".                                                              *)
IdFromKernels(s) == <<EntryPoint[s], Cardinality(DOMAIN kernels)>>

NewId(s) == <<EntryPoint[s], Cardinality(DOMAIN kernels) + Cardinality(DOMAIN codes)>>

IdOf(s) == IF s \in DOMAIN codes THEN codes[s].id ELSE NewId(s)

(* Nobody is between handing over kernels to try out and trying them.        *)
NobodyTries(t) == \A j \in jobs : j.oneTime /\ j.state = "set" => j.thread = t
TriesNothing == \A j \in jobs : j.oneTime => j.state # "set"

-----------------------------------------------------------------------------
Init ==
    /\ codes = << >> /\ kernels = << >> /\ oneTime = << >> /\ pending = FALSE
    /\ mutex = "nobody" /\ programs = {}
    /\ pc = [t \in Threads |-> "idle"] /\ call = [t \in Threads |-> {}]
    /\ jobs = {} /\ compiled = << >> /\ failures = 0 /\ calls = 0

(* kernel::kernel and set_kernel_source.  kernel_runner hands over a batch   *)
(* of sources generated for the trial before it runs any of them, and tries  *)
(* them all before anything else is asked of the engine.                     *)
SetKernelSource(t, s, once) ==
    /\ Cardinality(jobs) < MaxJobs
    /\ pc[t] = "idle" /\ mutex = "nobody"
    /\ IF once THEN /\ s \in Tuned /\ \A j \in jobs : j.source = s => j.oneTime
                    /\ NobodyTries(t) /\ \A u \in Threads : pc[u] = "idle"
                    /\ \A j \in jobs : j.oneTime /\ j.state = "set" => j.source \in DOMAIN codes
       ELSE TriesNothing
    /\ LET id == IdOf(s) IN
       /\ codes' = [r \in DOMAIN codes \cup {s} |->
                       IF r \in DOMAIN codes THEN codes[r] ELSE [id |-> id, oneTime |-> once]]
       /\ jobs' = jobs \cup {[thread |-> t, source |-> s, oneTime |-> once, id |-> id,
                              state |-> "set"]}
    /\ pending' = TRUE
    /\ UNCHANGED <<kernels, oneTime, mutex, pc, call, programs, compiled, failures, calls>>

(* get_kernel for a job, or engine_impl::compile_program for no job: the     *)
(* flag is read outside the mutex.  Of the runs of a trial the first stands  *)
(* for all: the others find the flag off, or the same exception.             *)
Call(t, J) ==
    /\ calls < MaxCalls
    /\ pc[t] = "idle"
    /\ J \subseteq jobs
    /\ \A j \in J : j.thread = t /\ (j.oneTime => j.state = "set")
    /\ TriesNothing \/ (NobodyTries(t) /\ \E j \in J : j.oneTime)
    /\ calls' = calls + 1
    /\ call' = [call EXCEPT ![t] = J]
    /\ pc' = [pc EXCEPT ![t] = IF pending THEN "waiting" ELSE "reading"]
    /\ UNCHANGED <<cacheVars, mutex, programs, jobs, compiled, failures>>

(* build_all, under the mutex: the sources are sorted into programs and the  *)
(* kernels of earlier trials forgotten; the flag is not read again.          *)
ClearCodesFirst == codes' = << >> /\ oneTime' = << >>

StartWithCodes == UNCHANGED codes /\ oneTime' = << >>

StartBuild(t) ==
    /\ pc[t] = "waiting" /\ mutex = "nobody"
    /\ mutex' = t
    /\ programs' = ProgramSource
    /\ StartWithCodes
    /\ pc' = [pc EXCEPT ![t] = "building"]
    /\ UNCHANGED <<kernels, pending, call, jobs, compiled, failures, calls>>

Compiles(p) == \A k \in p : k.source \notin Broken

ById(p) == [i \in {k.id : k \in p} |-> (CHOOSE k \in p : k.id = i).source]

Inserted(map, more) ==
    [i \in DOMAIN map \cup DOMAIN more |-> IF i \in DOMAIN more THEN more[i] ELSE map[i]]

(* build_program: the kernels of one program are put where they belong ...   *)
IntoKernels(p) == kernels' = Inserted(kernels, ById(p)) /\ UNCHANGED oneTime

PutFreshKernels(p) ==
    LET once == {k \in p : k.oneTime} IN
    /\ kernels' = ById(p \ once)
    /\ oneTime' = Inserted(oneTime, ById(once))

PutKernels(p) ==
    LET once == {k \in p : k.oneTime} IN
    /\ kernels' = Inserted(kernels, ById(p \ once))
    /\ oneTime' = Inserted(oneTime, ById(once))

BuildProgram(t) ==
    /\ pc[t] = "building"
    /\ \E p \in programs :
          /\ Compiles(p)
          /\ PutKernels(p)
          /\ programs' = programs \ {p}
          /\ compiled' = Inserted(compiled,
                            [i \in {k.id : k \in {q \in p : ~q.oneTime}} |->
                                1 + IF i \in DOMAIN compiled THEN compiled[i] ELSE 0])
    /\ UNCHANGED <<codes, pending, mutex, pc, call, jobs, failures, calls>>

(* ... or it does not compile, and the exception leaves the rest as it is.   *)
Answered(j, state) ==
    [thread |-> j.thread, source |-> j.source, oneTime |-> j.oneTime, id |-> j.id,
     state |-> state]

Return(t, state) ==
    /\ pc' = [pc EXCEPT ![t] = "idle"] /\ call' = [call EXCEPT ![t] = {}]
    /\ jobs' = (jobs \ call[t]) \cup {Answered(j, state) : j \in call[t]}

BuildThrows(t) ==
    /\ pc[t] = "building"
    /\ \E p \in programs : ~Compiles(p)
    /\ mutex' = "nobody" /\ programs' = {}
    /\ failures' = failures + 1
    /\ Return(t, "failed")
    /\ UNCHANGED <<cacheVars, compiled, calls>>

FinishKeepingCodes(t) == UNCHANGED codes /\ mutex' = "nobody"
FinishLocked(t) == codes' = << >> /\ mutex' = t

Finish(t) == codes' = << >> /\ mutex' = "nobody"

FinishBuild(t) ==
    /\ pc[t] = "building" /\ programs = {}
    /\ Finish(t)
    /\ pending' = FALSE
    /\ pc' = [pc EXCEPT ![t] = "reading"]
    /\ UNCHANGED <<kernels, oneTime, call, programs, jobs, compiled, failures, calls>>

(* get_kernel: at() on the map, outside the mutex.  While another thread     *)
(* inserts into the maps, what this one finds is undefined.                  *)
Found(j, map) ==
    IF j.id \notin DOMAIN map THEN "missing"
    ELSE IF map[j.id] = j.source THEN "found" ELSE "wrong"

Read(t) ==
    /\ pc[t] = "reading"
    /\ \/ call[t] = {} /\ Return(t, "none")
       \/ \E j \in call[t] :
             Return(t, IF mutex # "nobody" THEN "undefined"
                       ELSE Found(j, IF j.oneTime THEN oneTime ELSE kernels))
    /\ UNCHANGED <<cacheVars, mutex, programs, compiled, failures, calls>>

Proceed(t) ==
    \/ StartBuild(t) \/ BuildProgram(t) \/ BuildThrows(t) \/ FinishBuild(t) \/ Read(t)

Next ==
    \E t \in Threads :
        \/ \E s \in Sources, o \in BOOLEAN : SetKernelSource(t, s, o)
        \/ \E J \in {{}} \cup {{j} : j \in jobs} : Call(t, J)
        \/ Proceed(t)

(* A thread inside a call goes on, and a mutex that is free again and again  *)
(* is given to it.                                                           *)
Spec == Init /\ [][Next]_vars
FairSpec == Spec /\ \A t \in Threads : SF_vars(Proceed(t))

-----------------------------------------------------------------------------
Ids == {EntryPoint[s] : s \in Sources} \X Nat
MapType(map) == DOMAIN map \subseteq Ids /\ \A i \in DOMAIN map : map[i] \in Sources
Code == [id : Ids, oneTime : BOOLEAN]
Job == [thread : Threads, source : Sources, oneTime : BOOLEAN, id : Ids,
        state : {"set", "found", "missing", "wrong", "undefined", "failed", "none"}]

(* Types; who builds holds the mutex, and each thread calls for its own jobs. *)
TypeOK ==
    /\ DOMAIN codes \subseteq Sources /\ \A s \in DOMAIN codes : codes[s] \in Code
    /\ MapType(kernels) /\ MapType(oneTime)
    /\ pending \in BOOLEAN
    /\ mutex \in Threads \cup {"nobody"}
    /\ jobs \subseteq Job
    /\ pc \in [Threads -> {"idle", "waiting", "building", "reading"}]
    /\ call \in [Threads -> SUBSET jobs]
    /\ \A t \in Threads : /\ pc[t] = "building" <=> mutex = t
                          /\ \A j \in call[t] : j.thread = t
    /\ DOMAIN compiled \subseteq Ids /\ \A i \in DOMAIN compiled : compiled[i] \in Nat
    /\ failures \in Nat /\ calls \in 0..MaxCalls

(* No id stands for two kernels, among those that wait and those that are    *)
(* compiled: the count in it makes up for custom kernels of the same name.   *)
IdsUnique ==
    /\ \A s \in DOMAIN codes :
          /\ \A r \in DOMAIN codes : codes[r].id = codes[s].id => r = s
          /\ codes[s].id \in DOMAIN kernels => kernels[codes[s].id] = s
    /\ \A j \in jobs : j.id \in DOMAIN kernels => kernels[j.id] = j.source

(* get_kernel finds the kernel that was handed over, although the flag is    *)
(* read before the mutex and the maps after it, unless it reads while        *)
(* another thread builds.                                                    *)
FindsWhatWasSet == \A j \in jobs : j.state \notin {"missing", "wrong"}

(* Whatever throws in the middle of a build, a kernel that was asked for is  *)
(* compiled or still waiting, under its id.                                  *)
NothingLost ==
    \A j \in jobs :
        j.oneTime \/ \/ j.id \in DOMAIN kernels
                     \/ j.source \in DOMAIN codes /\ codes[j.source].id = j.id

(* A thread that waited for another's build does not compile again what that *)
(* one compiled; only a build that threw is repeated.                        *)
CompiledOnce == \A i \in DOMAIN compiled : compiled[i] <= 1 + failures

(* No step takes a compiled kernel away or puts another in its place.        *)
KernelsKept ==
    [][\A i \in DOMAIN kernels : i \in DOMAIN kernels' /\ kernels'[i] = kernels[i]]_vars

(* Every call ends.                                                          *)
CallsReturn == \A t \in Threads : pc[t] # "idle" ~> pc[t] = "idle"

(* kernel_runner.cpp:150 catches what run throws, "Could not run this        *)
(* kernel": a kernel that does not compile is no reason for another to fail. *)
OnlyBrokenFail == \A j \in jobs : j.state = "failed" => j.source \in Broken
=============================================================================
