------------------------------ MODULE MemoryPool ------------------------------
(***************************************************************************)
(* The engine's memory pool (memory_pool.cpp), driven by what drives it in *)
(* the library: networks that allocate the output of every primitive       *)
(* instance while they are built (network.cpp, primitive_inst.cpp) and the *)
(* user's own memory::allocate.                                            *)
(*                                                                         *)
(* A record of the pool is a device buffer that several primitives may     *)
(* use.  The three containers of the code (two multimaps keyed by size and *)
(* a map of lists keyed by layout) are one sequence here, in order of      *)
(* allocation: "container" says which one a record is in and Before gives  *)
(* the order in which the code walks it.  Records are never removed:       *)
(* memory_pool::clear_pool has no caller.                                  *)
(*                                                                         *)
(* AllocatesByOldPeak, AllocThrowsKeepingAll, HasConflictElsewhere,        *)
(* FitsPaddedByFeature, AddUserOnly and OwnOrHeld are wrong on purpose: each*)
(* is what a plausible slip would make of the definition after it, and     *)
(* shows that a property notices.                                          *)
(***************************************************************************)
EXTENDS Integers, Sequences, FiniteSets, FiniteSetsExt

CONSTANTS
    Networks,     \* network_impl objects, each with its own network id
    Internal,     \* those built with is_internal (all have network id 0)
    Nodes,        \* ids of the primitives whose instance allocates its output
    Layouts,      \* output layouts, reduced to what the pool looks at
    Programs,     \* the compiled programs a network may be built from
    UserMemories, \* memory objects a user may ask of the engine
    UserLayout,   \* their layouts
    MaxAlloc,     \* engine_info: max_alloc_mem_size
    MaxGlobal     \* engine_info: max_global_mem_size

(* layout: kind is image / padded / plain, key is what padded_pool_comparer *)
(* compares (format, data type, spatial[0], spatial[1], padding), feature   *)
(* and batch are what get_from_padded_pool compares besides, and depth is   *)
(* spatial[2], which the bfzyx format has and the pool never looks at.      *)
LayoutRecord == [kind : {"plain", "padded", "image"}, key : Nat,
                 feature : Nat, batch : Nat, depth : Nat, bytes : Nat]

(* A program node as the allocation sees it: its output layout, its memory  *)
(* dependencies, the flags primitive_inst::allocate_output reads and the    *)
(* nodes whose instances its own constructor asks for (build_deps of an     *)
(* optimized-out concatenation or crop).                                    *)
NodeRecord == [layout : Layouts, deps : SUBSET Nodes, optimized : BOOLEAN,
               generic : BOOLEAN, shareable : BOOLEAN, output : BOOLEAN,
               builds : SUBSET Nodes]

(* Only nodes that end up in a pooled, reusable buffer are looked up there. *)
Pooled(d) == ~d.optimized /\ ~d.generic /\ d.shareable /\ ~d.output

(* program_impl::prepare_memory_dependencies adds a dependency between two  *)
(* pooled nodes in both directions.  layout::bytes_count: with all else     *)
(* equal, the bytes of a padded layout grow with each of its sizes.         *)
ASSUME NetworksAssumption == Internal \subseteq Networks /\ IsFiniteSet(Networks)
ASSUME LayoutsAssumption ==
    /\ Layouts \subseteq LayoutRecord
    /\ \A l, r \in Layouts :
           /\ l.kind = "padded" /\ r.kind = "padded" /\ l.key = r.key
           /\ l.feature <= r.feature /\ l.batch <= r.batch /\ l.depth <= r.depth
           => l.bytes <= r.bytes
ASSUME ProgramsAssumption ==
    /\ Programs \subseteq [Nodes -> NodeRecord] /\ Programs # {}
    /\ \A g \in Programs : \A p, q \in Nodes :
           Pooled(g[p]) /\ Pooled(g[q]) /\ q \in g[p].deps => p \in g[q].deps
ASSUME LimitsAssumption ==
    /\ MaxAlloc \in Nat /\ MaxGlobal \in Nat
    /\ UserLayout \in [UserMemories -> Layouts]

VARIABLES
    pool,     \* the records of the three pools, in order of allocation
    state,    \* life of each network
    program,  \* the program a network was built from
    placed,   \* nodes whose instance already has its output
    own,      \* <<node, network>> whose output is memory of its own
    held,     \* those of "own" the user keeps a reference to
    mem,      \* life of each memory object of the user
    used,     \* _temp_memory_used
    peak      \* _max_peak_memory_used

vars == <<pool, state, program, placed, own, held, mem, used, peak>>
networkVars == <<state, program, placed, own, held>>

-----------------------------------------------------------------------------
(* How much a set of unpooled outputs takes. *)
OutputLayout(u) == program[u[2]][u[1]].layout
OwnBytes(S) == MapThenSumSet(LAMBDA u : OutputLayout(u).bytes, S)

(* memory_pool::alloc_memory: the size test, the accounting that precedes   *)
(* the test of the peak against the device's memory, the driver.            *)
PeakAfter(l) == IF used + l.bytes > peak THEN used + l.bytes ELSE peak

AddMemoryUsed(l) == /\ used' = used + l.bytes
                    /\ peak' = PeakAfter(l)

SizeExceeded(l) == l.bytes > MaxAlloc
GlobalExceeded(l) == ~SizeExceeded(l) /\ PeakAfter(l) > MaxGlobal
AllocatesByOldPeak(l) == ~SizeExceeded(l) /\ peak <= MaxGlobal
Allocates(l) == ~SizeExceeded(l) /\ PeakAfter(l) <= MaxGlobal

(* alloc_memory throws; "freed" bytes are given back while the stack        *)
(* unwinds.  Only a refused size leaves used alone: past the global limit   *)
(* it stays counted, and when the driver fails the destructor of the        *)
(* memory_impl base takes the bytes back but the peak has moved.            *)
AllocThrowsKeepingAll(l, freed) ==
    \/ SizeExceeded(l) /\ used' = used - freed /\ peak' = peak
    \/ ~SizeExceeded(l) /\ used' = used + l.bytes - freed /\ peak' = PeakAfter(l)

AllocThrows(l, freed) ==
    \/ SizeExceeded(l) /\ used' = used - freed /\ peak' = peak
    \/ GlobalExceeded(l) /\ used' = used + l.bytes - freed /\ peak' = PeakAfter(l)
    \/ Allocates(l) /\ used' = used - freed /\ peak' = PeakAfter(l)

-----------------------------------------------------------------------------
(* memory_pool::has_conflict. *)
HasConflictElsewhere(users, restrictions, n) ==
    \E u \in users : u[2] # n /\ u[1] \in restrictions

HasConflict(users, restrictions, n) ==
    \E u \in users : u[2] = n /\ u[1] \in restrictions

(* A padded record has the same key and at least the same feature and batch. *)
FitsPaddedByFeature(l, r) == l.key = r.key /\ l.feature <= r.feature

FitsPadded(l, r) ==
    l.key = r.key /\ l.feature <= r.feature /\ l.batch <= r.batch

(* The lookups of get_from_non_padded_pool, get_from_padded_pool and        *)
(* get_from_across_networks_pool: may node p of network n take record r?    *)
Accepts(c, r, n, p) ==
    LET l == program[n][p].layout IN
    /\ r.container = c
    /\ c \in {"non_padded", "across"} => l.bytes <= r.layout.bytes
    /\ c = "padded" => FitsPadded(l, r.layout)
    /\ c = "across" => r.network # n
    /\ ~HasConflict(r.users, IF c = "across" THEN {} ELSE program[n][p].deps, n)

(* The multimaps are walked by size, then in order of insertion; the list   *)
(* of a padded layout in order of insertion.                                *)
Before(c, j, k) ==
    \/ c # "padded" /\ pool[j].layout.bytes < pool[k].layout.bytes
    \/ (c = "padded" \/ pool[j].layout.bytes = pool[k].layout.bytes) /\ j < k

Candidates(c, n, p) == {k \in 1..Len(pool) : Accepts(c, pool[k], n, p)}

FirstFit(c, n, p, k) ==
    /\ k \in Candidates(c, n, p)
    /\ \A j \in Candidates(c, n, p) \ {k} : Before(c, k, j)

(* A memory_record, and the user inserted into one that is shared. *)
Record(c, l, us, n) == [container |-> c, layout |-> l, users |-> us, network |-> n]

AddUserOnly(k, u) ==
    [pool EXCEPT ![k] = Record(@.container, @.layout, {u}, @.network)]

AddUser(k, u) ==
    [pool EXCEPT ![k] = Record(@.container, @.layout, @.users \cup {u}, @.network)]

(* engine_impl::reinterpret_buffer refuses to turn an image into a buffer   *)
(* and a buffer into an image.                                              *)
Reinterprets(l, r) == l.kind = "image" <=> r.kind = "image"

(* primitive_inst::allocate_output and memory_pool::get_memory: which pool  *)
(* an output comes from, "none" when it is not pooled.                      *)
Container(n, p) ==
    LET d == program[n][p] IN
    IF n \notin Internal /\ (d.optimized \/ d.generic) THEN "across"
    ELSE IF n \in Internal \/ ~d.shareable \/ d.output THEN "none"
    ELSE IF d.layout.kind = "plain" THEN "non_padded"
    ELSE IF d.layout.kind = "padded" THEN "padded" ELSE "none"

-----------------------------------------------------------------------------
Init ==
    /\ pool = <<>>
    /\ state = [n \in Networks |-> "none"]
    /\ program = [n \in Networks |-> CHOOSE g \in Programs : TRUE]
    /\ placed = [n \in Networks |-> {}]
    /\ own = {} /\ held = {}
    /\ mem = [m \in UserMemories |-> "none"]
    /\ used = 0 /\ peak = 0

(* network_impl::allocate_primitives: larger outputs first, std::sort       *)
(* leaves the order of equal ones open; but what an instance builds follows *)
(* at once, whatever its size.                                              *)
Requested(n) == UNION {program[n][q].builds : q \in placed[n]} \ placed[n]

NextToPlace(n, p) ==
    /\ state[n] = "building"
    /\ p \in Nodes \ placed[n]
    /\ \/ p \in Requested(n)
       \/ /\ Requested(n) = {}
          /\ \A q \in Nodes \ placed[n] :
                 program[n][q].layout.bytes <= program[n][p].layout.bytes

(* The output is placed, and the network is complete after its last node.   *)
Placed(n, p) ==
    /\ placed' = [placed EXCEPT ![n] = @ \cup {p}]
    /\ state' = [state EXCEPT ![n] =
                    IF placed[n] \cup {p} = Nodes THEN "built" ELSE @]

(* The outputs whose memory goes with network n. *)
OwnOrHeld(n) == {u \in own : u[2] = n}

OwnOnly(n) == {u \in own : u[2] = n /\ u \notin held}

(* An allocation threw: the constructor of the network unwinds, its users   *)
(* stay in the records of the pool.                                         *)
Unwinds(n) ==
    /\ state' = [state EXCEPT ![n] = "gone"]
    /\ own' = own \ OwnOnly(n)
    /\ UNCHANGED <<program, placed, held, mem>>

StartBuild(n) ==
    /\ state[n] = "none"
    /\ state' = [state EXCEPT ![n] = "building"]
    /\ \E g \in Programs : program' = [program EXCEPT ![n] = g]
    /\ UNCHANGED <<pool, placed, own, held, mem, used, peak>>

(* A record of the pool is shared. *)
ReuseRecord(n, p) ==
    /\ NextToPlace(n, p)
    /\ \E k \in 1..Len(pool) :
          /\ FirstFit(Container(n, p), n, p, k)
          /\ Reinterprets(program[n][p].layout, pool[k].layout)
          /\ pool' = AddUser(k, <<p, n>>)
    /\ Placed(n, p)
    /\ UNCHANGED <<program, own, held, mem, used, peak>>

(* The record found cannot be reinterpreted: it throws after the insertion. *)
ReinterpretThrows(n, p) ==
    /\ NextToPlace(n, p)
    /\ \E k \in 1..Len(pool) :
          /\ FirstFit(Container(n, p), n, p, k)
          /\ ~Reinterprets(program[n][p].layout, pool[k].layout)
          /\ pool' = AddUser(k, <<p, n>>)
    /\ used' = used - OwnBytes(OwnOnly(n))
    /\ peak' = peak
    /\ Unwinds(n)

(* No record fits: new memory, recorded in the pool it is looked up in. *)
NewRecord(n, p) ==
    LET c == Container(n, p)  l == program[n][p].layout IN
    /\ NextToPlace(n, p)
    /\ c # "none"
    /\ Candidates(c, n, p) = {}
    /\ Allocates(l) /\ AddMemoryUsed(l)
    /\ pool' = Append(pool, Record(c, l, {<<p, n>>}, n))
    /\ Placed(n, p)
    /\ UNCHANGED <<program, own, held, mem>>

(* memory_pool::get_memory(layout): memory outside the pools. *)
NewOwnMemory(n, p) ==
    LET l == program[n][p].layout IN
    /\ NextToPlace(n, p)
    /\ Container(n, p) = "none"
    /\ Allocates(l) /\ AddMemoryUsed(l)
    /\ own' = own \cup {<<p, n>>}
    /\ Placed(n, p)
    /\ UNCHANGED <<pool, program, held, mem>>

BuildThrows(n, p) ==
    /\ NextToPlace(n, p)
    /\ Candidates(Container(n, p), n, p) = {}
    /\ AllocThrows(program[n][p].layout, OwnBytes(OwnOnly(n)))
    /\ Unwinds(n)
    /\ UNCHANGED pool

(* network::get_output: the user keeps the memory of an output. *)
KeepOutput(n, p) ==
    /\ state[n] = "built" /\ <<p, n>> \in own
    /\ held' = held \cup {<<p, n>>}
    /\ UNCHANGED <<pool, state, program, placed, own, mem, used, peak>>

(* ... and lets it go: the last reference runs ~memory_impl. *)
DropOutput(n, p) ==
    /\ <<p, n>> \in held
    /\ held' = held \ {<<p, n>>}
    /\ IF state[n] = "gone"
       THEN own' = own \ {<<p, n>>} /\ used' = used - OwnBytes({<<p, n>>})
       ELSE UNCHANGED <<own, used>>
    /\ UNCHANGED <<pool, state, program, placed, mem, peak>>

DestroyNetwork(n) ==
    /\ state[n] = "built"
    /\ state' = [state EXCEPT ![n] = "gone"]
    /\ own' = own \ OwnOnly(n)
    /\ used' = used - OwnBytes(OwnOnly(n))
    /\ UNCHANGED <<pool, program, placed, held, mem, peak>>

(* memory::allocate; a failed call may be repeated with another object.     *)
AllocateUserMemory(m) ==
    /\ mem[m] = "none"
    /\ \/ /\ Allocates(UserLayout[m]) /\ AddMemoryUsed(UserLayout[m])
          /\ mem' = [mem EXCEPT ![m] = "live"]
       \/ /\ AllocThrows(UserLayout[m], 0)
          /\ mem' = [mem EXCEPT ![m] = "gone"]
    /\ UNCHANGED <<pool, networkVars>>

ReleaseUserMemory(m) ==
    /\ mem[m] = "live"
    /\ mem' = [mem EXCEPT ![m] = "gone"]
    /\ used' = used - UserLayout[m].bytes
    /\ UNCHANGED <<pool, networkVars, peak>>

Next ==
    \/ \E n \in Networks :
          \/ StartBuild(n) \/ DestroyNetwork(n)
          \/ \E p \in Nodes :
                \/ ReuseRecord(n, p) \/ ReinterpretThrows(n, p)
                \/ NewRecord(n, p) \/ NewOwnMemory(n, p) \/ BuildThrows(n, p)
                \/ KeepOutput(n, p) \/ DropOutput(n, p)
    \/ \E m \in UserMemories : AllocateUserMemory(m) \/ ReleaseUserMemory(m)

Spec == Init /\ [][Next]_vars

-----------------------------------------------------------------------------
RecordType == [container : {"non_padded", "padded", "across"},
               layout : Layouts,
               users : SUBSET (Nodes \X Networks),
               network : Networks]

PoolTypeOK ==
    /\ pool \in Seq(RecordType)
    /\ state \in [Networks -> {"none", "building", "built", "gone"}]
    /\ program \in [Networks -> Programs]
    /\ placed \in [Networks -> SUBSET Nodes]
    /\ own \subseteq Nodes \X Networks
    /\ held \subseteq own
    /\ mem \in [UserMemories -> {"none", "live", "gone"}]

(* The pool, the life of networks and memory objects, and the two counters  *)
(* of bytes, which are unsigned in the code: they never go below zero.      *)
TypeOK == PoolTypeOK /\ used \in Nat /\ peak \in Nat

(* What the device holds: the records of the pool, outputs with memory of   *)
(* their own, the user's objects.                                           *)
LiveBytes ==
    MapThenSumSet(LAMBDA k : pool[k].layout.bytes, 1..Len(pool))
    + OwnBytes(own)
    + MapThenSumSet(LAMBDA m : UserLayout[m].bytes,
                    {m \in UserMemories : mem[m] = "live"})

(* The purpose of the pool: two primitives of one network whose results may *)
(* be needed, or worked on, at the same time never get the same buffer.     *)
(* has_conflict only looks at the restrictions of the one that comes last.  *)
NoConflictingSharing ==
    \A k \in 1..Len(pool) : pool[k].container \in {"non_padded", "padded"} =>
        \A u, v \in pool[k].users :
            u[2] = v[2] /\ u # v => u[1] \notin program[u[2]][v[1]].deps

(* A padded user that is deeper (spatial[2]) than the buffer it was given.  *)
Deeper(u, r) == r.container = "padded" /\ OutputLayout(u).depth > r.layout.depth

(* A shared buffer is large enough for each of its users, whichever of the  *)
(* three lookups handed it out and although none compares the bytes of      *)
(* padded layouts - unless the user is padded and deeper than the buffer.   *)
FitsRecord ==
    \A k \in 1..Len(pool) : \A u \in pool[k].users :
        OutputLayout(u).bytes <= pool[k].layout.bytes \/ Deeper(u, pool[k])

(* memory_pool.h:97: a buffer is handed out again if one "with requested    *)
(* size exist".  So every user would fit, the deeper ones too.              *)
FitsEveryUser ==
    \A k \in 1..Len(pool) : \A u \in pool[k].users :
        OutputLayout(u).bytes <= pool[k].layout.bytes

(* Every primitive of a network that was built has exactly one buffer: one  *)
(* record of the pool or memory of its own, also when other networks failed *)
(* half way.                                                                *)
OneBufferEach ==
    \A n \in Networks, p \in Nodes : state[n] \in {"building", "built"} =>
        LET records == {k \in 1..Len(pool) : <<p, n>> \in pool[k].users} IN
        IF p \notin placed[n] THEN records = {} /\ <<p, n>> \notin own
        ELSE IF <<p, n>> \in own THEN records = {} ELSE Cardinality(records) = 1

(* The device is never over-committed, even though used and peak are wrong  *)
(* after a refusal.                                                         *)
LiveWithinDevice == LiveBytes <= MaxGlobal

(* Until an allocation ran into the global limit, the counter of used       *)
(* memory is exact, through failed and unwound networks and whatever order  *)
(* the references to an output are dropped in.                              *)
UsedExactUntilRefusal == peak <= MaxGlobal => used = LiveBytes

(* memory_pool.cpp:154 says of the records of get_from_across_networks_pool *)
(* "This is not reusable within one network".                               *)
AcrossExclusive ==
    \A k \in 1..Len(pool) : pool[k].container = "across" =>
        \A u, v \in pool[k].users : u[2] = v[2] => u = v
=============================================================================
