--------------------------- MODULE NetworkExecution ---------------------------
(***************************************************************************)
(* One network on one engine with an out-of-order queue (the default       *)
(* configuration on the drivers that have the memory pool): its buffers    *)
(* come from the pool of MemoryPool under the restrictions computed by     *)
(* MemoryDependencies, the host hands over kernels and barriers            *)
(* (network.cpp, primitive_inst.cpp, primitive_gpu_base.h, ocl_toolkit.cpp)*)
(* and the device runs what lies between two barriers in any order.        *)
(*                                                                         *)
(* A graph has, besides the fields of MemoryDependencies,                  *)
(*   reads    for each primitive, the dependencies each of its kernels     *)
(*            reads, kernel by kernel (one set for a CPU primitive)        *)
(*   bytes    the size of each primitive's output.                         *)
(*                                                                         *)
(* The event of a primitive is known by the primitive's name: the kernels  *)
(* of an execution take the pool's event objects in the same order every   *)
(* time, so that a primitive gets the same object again.                   *)
(*                                                                         *)
(* HasDeviceEventIfOutput, EventIsFlag, SyncEventsWithoutBarrier,          *)
(* AdvanceKeepingKernel, WaitsForNothing, WaitOverByFlag and               *)
(* WaitReturnsAtOnce are wrong on purpose: each is what a plausible slip   *)
(* would make of the definition after it.                                  *)
(***************************************************************************)
EXTENDS MemoryDependencies

CONSTANTS
    Nodes,          \* the primitives that are executed (all but constants)
    Graphs,         \* the compiled programs to choose from
    MaxExecutions,  \* bound on the calls of network::execute
    InputEachTime   \* whether the user sets the input before every execution

(* What the compiler hands to the network: an order with dependencies first, *)
(* something to execute, and for each primitive what execute needs of it.    *)
ASSUME GraphsAssumption ==
    /\ Graphs # {} /\ Nodes # {}
    /\ \A g \in Graphs :
          /\ Topological(g.order, g.deps)
          /\ \A n \in NodesOf(g) : g.kind[n] \in {"input", "data", "gpu", "cpu", "view"}
          /\ {n \in NodesOf(g) : g.kind[n] # "data"} = Nodes
          /\ g.outputs \subseteq Nodes
          /\ \A n \in Nodes :
                /\ g.bytes[n] \in Nat
                /\ g.kind[n] = "view" => \E d \in Nodes : g.deps[n] = {d}
                /\ g.kind[n] \in {"gpu", "cpu"} =>
                      g.reads[n] \in Seq(SUBSET g.deps[n]) /\ g.reads[n] # << >>
ASSUME ExecutionsAssumption == MaxExecutions \in Nat /\ InputEachTime \in BOOLEAN

VARIABLES
    pool, state, program, placed, own, held, mem, used, peak, \* MemoryPool
    graph,       \* the program of the network
    phase,       \* what the thread of the user is doing
    next,        \* position in the order of the primitive executed next
    kernel,      \* the kernel of that primitive to be enqueued next
    execution,   \* number of calls of execute so far
    inputSet,    \* set_input_data was called since the last execution
    tasks,       \* kernels that were enqueued and have not finished
    running,     \* those the device, or the host, works on
    barriers,    \* barriers put into the queue
    queueCounter, lastBarrier, \* _queue_counter, _last_barrier
    stamp,       \* queue stamp of each primitive's event
    signaled,    \* primitives whose event object has _set
    awaited,     \* outputs set_input_data is waiting for
    returned,    \* outputs the user has waited for since the last execution
    holds        \* the execution whose result a primitive's buffer holds

poolVars == <<pool, state, program, placed, own, held, mem, used, peak>>
queueVars == <<barriers, queueCounter, lastBarrier, stamp>>
hostVars == <<phase, next, kernel, execution, inputSet, awaited, returned>>
vars == <<poolVars, graph, hostVars, tasks, running, queueVars, signaled, holds>>

-----------------------------------------------------------------------------
(* The program as the pool sees it.  An optimized-out primitive asks for the *)
(* instance whose buffer it shows (crop_inst::reuse_input).                  *)
Plain(b) == [kind |-> "plain", key |-> 0, feature |-> 1, batch |-> 1, depth |-> 1,
             bytes |-> b]

ProgramOf(g) ==
    LET restrictions == MemoryDependencies(g) IN
    [n \in Nodes |->
        [layout |-> Plain(g.bytes[n]), deps |-> restrictions[n] \cap Nodes,
         optimized |-> Optimized(g, n), generic |-> FALSE,
         shareable |-> g.kind[n] # "input", output |-> n \in g.outputs,
         builds |-> IF Optimized(g, n) THEN g.deps[n] \cap Nodes ELSE {}]]

Compiled == {ProgramOf(g) : g \in Graphs}
Sizes == {Plain(b) : b \in UNION {{g.bytes[n] : n \in Nodes} : g \in Graphs}}
Net == 1

Pool == INSTANCE MemoryPool WITH
    Networks <- {Net}, Internal <- {}, Layouts <- Sizes,
    Programs <- Compiled,
    UserMemories <- {}, UserLayout <- << >>, MaxAlloc <- 1000, MaxGlobal <- 1000

(* The primitive that really owns what n shows. *)
Source(n) ==
    LET source[m \in NodesOf(graph)] ==
            IF Optimized(graph, m) THEN source[CHOOSE d \in graph.deps[m] : TRUE] ELSE m
    IN source[n]

(* The buffer of a primitive that owns one: a record of the pool, or 0. *)
RecordOf(n) ==
    IF \E k \in 1..Len(pool) : pool[k].container # "across" /\ <<n, Net>> \in pool[k].users
    THEN CHOOSE k \in 1..Len(pool) :
            pool[k].container # "across" /\ <<n, Net>> \in pool[k].users
    ELSE 0

SharesBuffer(p, q) == p = q \/ (RecordOf(p) # 0 /\ RecordOf(p) = RecordOf(q))

-----------------------------------------------------------------------------
Computed(n) == graph.kind[n] \in {"gpu", "cpu"}

(* network_impl::build_exec_order (constants are not executed, so their      *)
(* positions are passed over) and primitive_inst::build_exec_deps.           *)
Executed == {i \in 1..Len(graph.order) : graph.kind[graph.order[i]] # "data"}
ExecDeps(n) == {d \in graph.deps[n] : graph.kind[d] # "data"}
Current == graph.order[next]
LastKernel(n) == Len(graph.reads[n])

(* execute_impl: the event of a kernel is one of the device only when its    *)
(* primitive is an output or a user of it runs on the CPU.                   *)
HasDeviceEventIfOutput(n) == n \in graph.outputs

HasDeviceEvent(n) ==
    n \in graph.outputs \/ \E u \in Users(graph, n) : graph.kind[u] = "cpu"

Finished(n) == \A t \in tasks : t.node # n

(* event_impl::is_set and wait, for the event the primitive returned. *)
EventIsFlag(n) ==
    graph.kind[Source(n)] # "gpu" \/ Source(n) \in signaled \/ ~HasDeviceEvent(Source(n))

EventIsSet(n) ==
    \/ graph.kind[Source(n)] # "gpu"
    \/ Source(n) \in signaled \/ ~HasDeviceEvent(Source(n)) \/ Finished(Source(n))

(* The kernel's objects whose _set a wait or a poll of these events leaves on. *)
Flags(S) == {s \in {Source(n) : n \in S} : graph.kind[s] = "gpu"}

(* gpu_toolkit::sync_events for events with these stamps, then one command  *)
(* of primitive n.                                                          *)
SyncEventsWithoutBarrier(stamps) == UNCHANGED <<barriers, lastBarrier>>

SyncEvents(stamps) ==
    IF \E s \in stamps : s > lastBarrier
    THEN barriers' = barriers + 1 /\ lastBarrier' = queueCounter + 1
    ELSE UNCHANGED <<barriers, lastBarrier>>

EnqueueKernel(n, k, stamps) ==
    /\ SyncEvents(stamps)
    /\ queueCounter' = 1 + Max({queueCounter, lastBarrier'})
    /\ stamp' = [stamp EXCEPT ![n] = queueCounter']
    /\ tasks' = tasks \cup {[node |-> n, kernel |-> k, execution |-> execution,
                             epoch |-> barriers', reads |-> graph.reads[n][k]]}

(* The host is done with the current primitive. *)
Later == {i \in Executed : i > next}

ToNext == IF Later = {} THEN phase' = "idle" /\ next' = Min(Executed)
          ELSE phase' = "executing" /\ next' = Min(Later)

AdvanceKeepingKernel == kernel' = kernel /\ ToNext

Advance == kernel' = 1 /\ ToNext

(* What happens to the buffers when a task begins and ends to write. *)
Overwrites(n) == [m \in Nodes |-> IF SharesBuffer(m, n) THEN 0 ELSE holds[m]]

WriteEnds(t) ==
    holds' = [Overwrites(t.node) EXCEPT ![t.node] =
                 IF \E w \in running \ {t} : SharesBuffer(w.node, t.node)
                 THEN 0 ELSE t.execution]

-----------------------------------------------------------------------------
Init ==
    /\ Pool!Init
    /\ graph \in Graphs
    /\ phase = "building" /\ next = Min(Executed) /\ kernel = 1 /\ execution = 0
    /\ inputSet = FALSE /\ awaited = {} /\ returned = {}
    /\ tasks = {} /\ running = {}
    /\ barriers = 0 /\ queueCounter = 0 /\ lastBarrier = 0
    /\ stamp = [n \in Nodes |-> 0]
    /\ signaled = {}
    /\ holds = [n \in Nodes |-> 0]

(* The network is built: network_impl::network_impl. *)
BuildNetwork ==
    /\ phase = "building"
    /\ \/ Pool!StartBuild(Net) /\ program'[Net] = ProgramOf(graph)
       \/ \E n \in Nodes : \/ Pool!ReuseRecord(Net, n)
                           \/ Pool!NewRecord(Net, n)
                           \/ Pool!NewOwnMemory(Net, n)
    /\ phase' = IF state'[Net] = "built" THEN "idle" ELSE "building"
    /\ UNCHANGED <<graph, next, kernel, execution, inputSet, awaited, returned,
                   tasks, running, queueVars, signaled, holds>>

(* network_impl::set_input_data: reset_execution(true) polls every event ... *)
WaitsForNothing == {}

EventsToWaitFor == {n \in Nodes : ~EventIsSet(n)}

SetInputData ==
    /\ phase = "idle" /\ execution < MaxExecutions /\ ~inputSet
    /\ IF execution = 0 THEN UNCHANGED <<awaited, signaled>>
       ELSE /\ awaited' = EventsToWaitFor
            /\ signaled' = signaled \cup Flags(Nodes \ EventsToWaitFor)
    /\ phase' = "setting"
    /\ UNCHANGED <<poolVars, graph, next, kernel, execution, inputSet, returned,
                   tasks, running, queueVars, holds>>

(* ... and waits for those that were not set, on the device's own events     *)
(* (clWaitForEvents, which leaves _set alone).                               *)
WaitOverByFlag(n) == Source(n) \in signaled

WaitOver(n) == Finished(Source(n))

InputDataSet ==
    /\ phase = "setting"
    /\ \A n \in awaited : WaitOver(n)
    /\ phase' = "idle" /\ inputSet' = TRUE /\ awaited' = {}
    /\ UNCHANGED <<poolVars, graph, next, kernel, execution, returned, tasks, running,
                   queueVars, signaled, holds>>

(* network_impl::execute: reset_execution(false) only forgets the events.    *)
Execute ==
    /\ phase = "idle" /\ execution < MaxExecutions
    /\ inputSet \/ (execution > 0 /\ ~InputEachTime)
    /\ phase' = "executing" /\ execution' = execution + 1
    /\ inputSet' = FALSE /\ returned' = {}
    /\ UNCHANGED <<poolVars, graph, next, kernel, awaited, tasks, running, queueVars,
                   signaled, holds>>

(* An input gives an event of the user, already set; an optimized-out        *)
(* primitive the event of its only dependency.                               *)
ExecuteWithoutKernel ==
    /\ phase = "executing" /\ ~Computed(Current)
    /\ stamp' = [stamp EXCEPT ![Current] =
                    IF Optimized(graph, Current)
                    THEN stamp[CHOOSE d \in ExecDeps(Current) : TRUE] ELSE 0]
    /\ Advance
    /\ UNCHANGED <<poolVars, graph, execution, inputSet, awaited, returned, tasks, running,
                   barriers, queueCounter, lastBarrier, signaled, holds>>

(* execute_impl: the first kernel depends on the primitives before, each     *)
(* further one on the kernel before it.                                      *)
ExecuteKernel ==
    /\ phase = "executing" /\ graph.kind[Current] = "gpu"
    /\ EnqueueKernel(Current, kernel,
          IF kernel = 1 THEN {stamp[d] : d \in ExecDeps(Current)} ELSE {stamp[Current]})
    /\ IF kernel = LastKernel(Current) THEN Advance
       ELSE kernel' = kernel + 1 /\ UNCHANGED <<phase, next>>
    /\ UNCHANGED <<poolVars, graph, execution, inputSet, awaited, returned, running,
                   signaled, holds>>

(* A primitive on the CPU (detection_output, proposal) waits for the events   *)
(* of its dependencies, then works on the mapped buffers.                    *)
CpuTask(n) == [node |-> n, kernel |-> 1, execution |-> execution, epoch |-> barriers,
               reads |-> graph.reads[n][1]]

StartCpuPrimitive ==
    /\ phase = "executing" /\ graph.kind[Current] = "cpu"
    /\ \A d \in ExecDeps(Current) : EventIsSet(d)
    /\ signaled' = signaled \cup Flags(ExecDeps(Current))
    /\ running' = running \cup {CpuTask(Current)}
    /\ holds' = Overwrites(Current)
    /\ phase' = "computing"
    /\ UNCHANGED <<poolVars, graph, next, kernel, execution, inputSet, awaited, returned,
                   tasks, queueVars>>

EndCpuPrimitive ==
    /\ phase = "computing"
    /\ \E t \in running :
          /\ graph.kind[t.node] = "cpu"
          /\ running' = running \ {t}
          /\ WriteEnds(t)
    /\ stamp' = [stamp EXCEPT ![Current] = 0]
    /\ Advance
    /\ UNCHANGED <<poolVars, graph, execution, inputSet, awaited, returned, tasks, barriers,
                   queueCounter, lastBarrier, signaled>>

(* network_output::get_memory and event::wait on an output's event. *)
WaitReturnsAtOnce(n) == TRUE

WaitReturns(n) == EventIsSet(n)

WaitForOutput(n) ==
    /\ phase = "idle" /\ execution > 0
    /\ n \in graph.outputs \ returned
    /\ WaitReturns(n)
    /\ signaled' = signaled \cup Flags({n})
    /\ returned' = returned \cup {n}
    /\ UNCHANGED <<poolVars, graph, phase, next, kernel, execution, inputSet, awaited,
                   tasks, running, queueVars, holds>>

(* The device.  A barrier waits for every earlier command and holds up every *)
(* later one; there is no other order between the commands of the queue.     *)
Ready(t) == t \in tasks \ running /\ \A u \in tasks : u.epoch >= t.epoch

StartKernel(t) ==
    /\ Ready(t)
    /\ running' = running \cup {t}
    /\ holds' = Overwrites(t.node)
    /\ UNCHANGED <<poolVars, graph, hostVars, tasks, queueVars, signaled>>

EndKernel(t) ==
    /\ t \in running \cap tasks
    /\ running' = running \ {t}
    /\ tasks' = tasks \ {t}
    /\ IF t.kernel = LastKernel(t.node) THEN WriteEnds(t) ELSE UNCHANGED holds
    /\ UNCHANGED <<poolVars, graph, hostVars, queueVars, signaled>>

HostStep ==
    \/ BuildNetwork \/ InputDataSet \/ ExecuteWithoutKernel \/ ExecuteKernel
    \/ StartCpuPrimitive \/ EndCpuPrimitive
DeviceStep == \E t \in tasks : StartKernel(t) \/ EndKernel(t)
UserStep == SetInputData \/ Execute \/ \E n \in Nodes : WaitForOutput(n)

Next == HostStep \/ DeviceStep \/ UserStep

(* The thread inside a call and the device go on; whether the user calls     *)
(* anything is up to the user.                                               *)
Spec == Init /\ [][Next]_vars
FairSpec == Spec /\ WF_vars(HostStep) /\ WF_vars(DeviceStep)

-----------------------------------------------------------------------------
TaskType == [node : Nodes, kernel : Nat, execution : 1..MaxExecutions, epoch : Nat,
             reads : SUBSET NodesOf(graph)]

(* Types; the kernel counter points at a kernel of the current primitive,   *)
(* and the queue's numbers are in step: a stamp is never ahead of the       *)
(* counter, a kernel never ahead of the barriers.                           *)
TypeOK ==
    /\ Pool!TypeOK
    /\ phase \in {"building", "idle", "setting", "executing", "computing"}
    /\ next \in Executed
    /\ kernel \in IF graph.kind[Current] = "gpu" THEN 1..LastKernel(Current) ELSE {1}
    /\ execution \in 0..MaxExecutions /\ inputSet \in BOOLEAN
    /\ tasks \subseteq TaskType /\ running \subseteq TaskType
    /\ \A t \in tasks : t.epoch <= barriers
    /\ lastBarrier \in 0..queueCounter /\ barriers \in 0..lastBarrier
    /\ stamp \in [Nodes -> 0..queueCounter]
    /\ signaled \subseteq Nodes /\ awaited \subseteq Nodes
    /\ returned \subseteq graph.outputs
    /\ holds \in [Nodes -> 0..MaxExecutions]

(* Buffers are shared and kernels overlap, yet whatever runs, runs on the   *)
(* complete results its dependencies computed in the same execution: they   *)
(* are there when it starts and nothing overwrites them until it ends.      *)
InputsIntact ==
    \A t \in running : \A d \in {Source(r) : r \in t.reads} :
        Computed(d) => holds[d] = t.execution

(* api/CPP/network.hpp:44 says of network_output::get_memory "Blocked until *)
(* associated event is not complete": when a wait for an output returns,    *)
(* the output of the last execution is complete and stays so.               *)
WaitedIsDone == \A n \in returned : Finished(n) /\ holds[n] = execution

(* When set_input_data returns, the execution before it is over.            *)
InputNotSetTooEarly == phase = "idle" /\ inputSet => tasks = {}

(* Behind the buffers, the queue and the events an execution is the flow of  *)
(* data the graph says: each primitive is computed once, behind all it reads *)
(* (directly, or through primitives that were optimized out), whatever order *)
(* the device takes, and the input set next waits for the last of them.      *)
Work == {n \in Nodes : Computed(n)}
Needs == [n \in Work |-> {Source(d) : d \in graph.deps[n]} \cap Work]
Complete ==
    {n \in Work :
        /\ execution > 0 /\ Finished(n)
        /\ phase \in {"executing", "computing"} => Number(graph, n) < next}

Flow == INSTANCE DataFlow WITH needs <- Needs, ready <- inputSet, computed <- Complete
ComputesDataFlow == Flow!Spec

(* A call of the library ends, whatever the graph: no event that is waited  *)
(* for is left without someone to complete it.                              *)
CallsReturn == phase \in {"executing", "computing", "setting"} ~> phase = "idle"
=============================================================================
