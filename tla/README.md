# clDNN: TLA+ models, checks and proofs

clDNN turns a topology of neural-network primitives into a program of GPU kernels,
places the buffers of a network in device memory and runs it on an OpenCL queue. The
library is mostly synchronous C++, but three of its decisions only work together: the
*compiler* decides which buffers may be shared, the *memory pool* shares them when a
network is built, and the *host* hands kernels to an out-of-order queue, with barriers
where it thinks they are needed. A mistake in any of the three shows as a wrong number
in one run out of many. Those three are modelled together. Three more parts are modelled
each on its own: the compiler's passes, which edit one graph that is kept in four places;
the cache that compiles kernels for several threads; and the event objects, which are
recycled while a user, another thread and the driver still refer to them.

1. [Inventory](#inventory)
2. [Models](#models): which module is which code
3. [Runs](#runs): what is checked, on which instances, and what it shows
4. [Where the code disagrees with what it says](#where-the-code-disagrees-with-what-it-says)
5. [Proofs](#proofs)
6. [Limits](#limits): what is only checked, and what is not modelled
7. [Plan](#plan): what would come next

## Inventory

| component | state | operations | works with | hard because |
|---|---|---|---|---|
| program build (`program.cpp`, `program_node.cpp`) | graph of nodes, users and dependencies, inputs, outputs, names | passes; add_intermediate, replace, extract_and_remove, remove_if_dangling | processing order, optimizer passes | one edit touches six structures that refer to the same node |
| processing order (`nodes_ordering.cpp`) | list of nodes, iterators into it | depth-first order, BFS recalculation, insert, erase | program build, memory dependencies | must stay topological through every pass |
| memory dependencies (`program.cpp` 549-699) | per node, the ids it must not share with | basic, skipped-branch, out-of-order passes | order, pool | anticipates barriers that the host decides on later, by another rule |
| memory pool (`memory_pool.cpp`) | three containers of records, bytes used and peak | get_memory, allocation, the destructor of memory_impl | network build, user's allocations | several networks; failures in the middle; one-way conflict test; padded buffers are chosen without comparing bytes |
| network execution (`network.cpp`, `primitive_inst.cpp`, `primitive_gpu_base.h`) | instances, execution order, events by primitive | build, set_input_data, execute, outputs | pool, queue, events | host, device and user run concurrently |
| queue (`ocl_toolkit.cpp`) | `_queue_counter`, `_last_barrier` | sync_events, enqueue_kernel, enqueue_marker | driver | out of order between barriers |
| events (`event.cpp`, `ocl_base_event.cpp`, `events_pool.h`) | `_set`, `_attached`, stamp, handlers | wait, is_set, reset, recycling | execution, user, driver thread | objects are recycled while someone holds them |
| optimizer passes (`graph_optimizer/`) | - (they edit the program) | fuse, add and remove reorders, propagate constants | program build | each relies on what the ones before left behind |
| condition (`condition_gpu.cpp`) | two nested networks | execute a branch | execution, events | a network runs inside another one on one engine |
| kernels cache (`kernels_cache.cpp`, `kernel_runner.cpp`) | sources waiting, compiled kernels, one-time kernels | set_kernel_source, get_kernel, build_all | program build, kernel launch, tuning | builds that throw half way, two threads, a flag read outside the mutex |
| gpu memory (`memory_gpu.cpp`) | lock count, mapped pointer | lock, unlock, copy | user, CPU primitives | shared by several memory objects |
| engine, reference counts | counts | allocate, reinterpret | everything | lifetime |
| C/C++ API | - | forwards to the above | user | widths, error codes |
| topology, layout optimizer, kernel selector, arithmetic of the primitives | tables, shapes | - | program build | numeric rather than concurrent |

What makes each modelled component correct:

- *memory dependencies*: two results that the queue allows to be alive together are
  restricted from sharing, and the restriction is mutual.
- *processing order*: every order given to the later passes has dependencies first.
- *memory pool*: restricted primitives of a network never share; a buffer is large
  enough for everyone it is given to (a padded one only for those that are not deeper: see
  `padded_depth`); each primitive has one buffer; the device is not
  over-committed; the accounting agrees with what is allocated, failures included.
- *program graph*: dependencies and users mirror each other, the order holds each node
  once and stays topological, and the outputs compute what the topology says, under the
  ids it gives them.
- *events*: between two executions no object stands for two things; who waits is told
  when it is complete and not before; a handler is called once, after completion.
- *kernels cache*: an id stands for one kernel; what was handed over is found, or still
  waiting, whatever throws; nothing is compiled twice; every call ends.
- *network execution*: whatever runs, runs on complete inputs of the same execution;
  what the user waited for is done; the input is not replaced under a running kernel;
  every call returns.

`PROJECT.json` lists the hazards line by line, with the property for each or the reason
there is none.

## Models

### `MemoryPool`: memory_pool.cpp, with the networks that allocate from it

`pool` is the sequence of records of the three containers; a record has its container,
layout, users `<<primitive, network>>` and the network that created it. `state`,
`program` and `placed` describe networks being built (`network_impl::allocate_primitives`,
larger outputs first, but what an instance's constructor asks for at once), `own` the
outputs with unpooled memory, `held` those the user keeps, `mem` the user's objects,
`used` and `peak` the two counters.

| action | code |
|---|---|
| `StartBuild` | `network_impl` constructor |
| `ReuseRecord` | a lookup finds a record: `get_from_non_padded_pool`, `get_from_padded_pool`, `get_from_across_networks_pool` |
| `ReinterpretThrows` | the record found is an image and the layout is not, or the reverse |
| `NewRecord`, `NewOwnMemory` | `alloc_memory`, recorded in a pool or not |
| `BuildThrows` | each of `alloc_memory`'s three exits: size, global limit, driver |
| `KeepOutput`, `DropOutput`, `DestroyNetwork` | references to memory_impl, `~memory_impl` |
| `AllocateUserMemory`, `ReleaseUserMemory` | `memory::allocate` and its release |

A layout is reduced to what the pool compares: its kind, the key of
`padded_pool_comparer` (format, data type, the first two spatial sizes, padding), feature,
batch and bytes, and its depth, the third spatial size of the bfzyx format, which the code
looks at nowhere but where it counts bytes. Multimap order (`Before`) is kept: the
first fit is the smallest, then the oldest.

### `MemoryDependencies`: the compiler's decisions about memory

Pure operators over a program graph: `BfsProcessingOrder`
(`calculate_BFS_processing_order`), `AddMemoryDependency` (with the recursion through
nodes that were optimized out), and the three passes `BasicDependencies`,
`SkippedBranchDependencies` and `OooqDependencies` that `prepare_memory_dependencies`
runs. Recursion is written as recursive functions, so that the module can be proved
about; the stable bucket sort of the BFS order is written by rank, the i-th node being the
one with i - 1 nodes nearer, or as near and earlier. A restriction is a pair `<<node, id>>`.

`MCMemoryDependencies` grows a program one primitive at a time: `Names` in the order they are
added, the first `Leaves` of them inputs or constants (`LeafKind`), and each of the others
either a kernel that reads one to `MaxInputs` of the nodes before it (`AddPrimitive`) or a
crop of one of them that `prepare_buffer_fusing` does in place (`AddOptimizedOut`), so that
its readers read the buffer of what it crops. `QueueBarriers` (of `MemoryDependencies`, since
`NetworkExecutionProofs` needs it as well) are the barriers the host will put into the queue
for it, which are not those the compiler counts with: the host does not wait for inputs.

The passes look at the users of a node, which may be a crop in place and not the readers
behind it; that the buffer is kept for these (`ShownBuffersKept`) is up to the substitution
in `add_memory_dependency`. `LiveTogetherRestricted`, which is about the barriers of the
queue, is stated for programs without such crops: with one, it is false (see
`several_kernels`).

### `NetworkExecution`: one network, its queue, the device and the user

Composes the other two: the pool is `INSTANCE MemoryPool` with one network whose program
comes from `MemoryDependencies`; its actions are taken as they are while `phase` is
"building". Afterwards

| action | code |
|---|---|
| `SetInputData`, `InputDataSet` | `set_input_data`: `reset_execution(true)` polls all events, waits for the rest, sets the data |
| `Execute` | `network_impl::execute` up to its loop |
| `ExecuteWithoutKernel` | inputs (a user event already set) and optimized-out primitives (`wait_for_events`: the event of the dependency) |
| `ExecuteKernel` | one kernel of `typed_primitive_gpu_impl::execute_impl`, with the barrier `sync_events` puts before it |
| `StartCpuPrimitive`, `EndCpuPrimitive` | detection_output and proposal: wait for the inputs, compute on the host |
| `WaitForOutput` | `network_output::get_memory`, `event::wait` |
| `StartKernel`, `EndKernel` | the device (external): a barrier separates epochs, inside an epoch there is no order |

`next` is a position in the processing order of the program, of which `build_exec_order`
leaves out the constants (`Executed`); `ToNext` passes over them. `GraphsAssumption` is what
the compiler gives a network: a topological order, and for every primitive what `execute`
needs of it.

`holds[n]` is the execution whose complete result is in the buffer of `n`, 0 when it is
being overwritten or was; everything that writes a buffer clears `holds` of all
primitives that share it. `signaled` are the event objects whose `_set` flag is on; it
survives recycling because `reset()` leaves it alone.

One step of the host is one command: kernels of the device run between any two. The pool
of event objects is not spelled out: since every execution takes the objects in the same
order, a primitive gets the same object each time.

### `DataFlow`: what an execution means

Without queue, buffers, events and threads: `needs` says which primitives are computed and
what each reads, `ready` that the input is there; `SetInput` comes when the execution before
is over, `Execute` begins the next, `Compute(n)` computes a primitive once, when all it needs
is computed. `NetworkExecution` implements it (`ComputesDataFlow`) by the mapping of `Needs`
(the dependencies of the graph, through what was optimized out), `inputSet` and `Complete`
(what was handed over and has no kernel left): the last kernel of a primitive ends, or the
CPU is through with it, and everything else is a stutter but `InputDataSet` and `Execute`.

### `Events`: event.cpp, event_impl.h, ocl_base_event, ocl_user_event, events_pool.h

`objects` are the event objects of the three pools (kernels, user events, groups) with
`_set`, `_attached`, `_callback_set`, their `cl_event` and their handlers; `commands` are
the `cl_event`s behind them. What no object of the library remembers is a *use*: one
handing-out, with the command it was for. `uses` keeps it, so that a property can compare
what a user is told with what the event was for when he got it.

| action | code |
|---|---|
| `EnqueueKernel`, `CreateUserEvent`, `GroupEvents` | `get_from_base_pool`, `get_from_user_pool`, `get_from_group_pool` with `attach_ocl_event`, `user_event::attach_event`, `base_events::attach_events` |
| `ResetEvents` | `events_pool::reset_events`, at the end of `network_impl::execute` |
| `Learn` | `event_impl::wait` returns, or `is_set` says yes |
| `SetUserEvent` | `user_event::set` |
| `HandlerCalledAtOnce`, `HandlerToBeAdded`, `AddHandler` | `add_event_handler`, split where it leaves and takes the mutex |
| `Complete`, `Callback`, `CallbackCallsHandlers` | the device (external), and the driver's thread in `ocl_event_completion_callback` |

Nobody is restricted: events are asked, waited for, set and given handlers in every
execution, also after `reset_events`, as `set_input_data` and the user do, and user events
are created unset while other objects are free or held, as `condition` and
`max_unpooling` do. What can be promised of the answers has two conditions, which are part
of the properties and not of the user. The event must still be the one of its object
(`Own`): an event held while the pool hands its object out again answers for whatever the
object was given to next. And its object must have been handed out clean (`uses[u].clean`):
`reset` turns off `_attached` and nothing else, so that an object that was ever found
complete has `_set` on for good, and one may have a callback of an earlier command to come.
Both are needed: `is_set` of a kernel event whose object was asked in an earlier execution
says yes while the kernel runs, which is the trace of `stale_event`. Within these terms the
answer is right in the execution of the event and in all later ones. Two consequences of
the same kind show in the model without a property of their own: a user event created unset
on an object with `_set` on can no longer be set (`user_event::set` returns at once, so its
`cl_event` stays open), and a handler inserted into an object whose one callback has
already run is called by nobody.

An unset user event is not `_attached` (only `set_impl` turns that on), so that the pool
hands the same object out again for the next one. `OneUse` says that this is the only case
of an object in two uses at a time; `UserEventsWaitForSet`, which is not checked by a run
because the code violates it, that the first event would not be complete before it is set.
`condition` keeps such an event while it runs a network inside an execution, which also
resets the engine's events in the middle of the outer one.

### `KernelsCache`: kernels_cache.cpp, the trials of kernel_runner.cpp

A *job* is one object of class `kernel`: who asked, for which source, under which id, and
what the last `get_kernel` for it found. `codes`, `kernels`, `oneTime`, `pending` and
`mutex` are the members of the cache.

| action | code |
|---|---|
| `SetKernelSource` | `set_kernel_source` |
| `Call` | `get_kernel` and `compile_program` up to the mutex: the flag is read outside it |
| `StartBuild` | `build_all`: the sources are sorted into programs by `get_program_source`, earlier one-time kernels are forgotten |
| `BuildProgram`, `BuildThrows` | `build_program` of one program and the insertion of its kernels, or its exception |
| `FinishBuild` | the end of `build_all` |
| `Read` | `get_kernel` after the mutex: what it finds is `"undefined"` while another thread inserts |

Kernels that are tried out are handed over when no thread is inside a call, a whole batch
before any of it is run, and tried before anything else is asked of the engine:
`kernel_runner` is used inside the build of one program. That is an assumption about the
use of the engine (`SetKernelSource` and `Call` state it), not about the cache.
`NamesAssumption` says that a kernel that may be tried out has a name of its own:
`GetEntryPoint` numbers the kernels it generates. Custom kernels may share a name.

### `GraphEdits` and `ProgramGraph`: program.cpp, program_node.cpp, graph_optimizer/

`GraphEdits` has the editing operations as operators on a record with the nodes, the map,
the processing order, the inputs and the outputs: `AddConnection`, `ReplaceDependency`,
`ReplaceAllUsages`, `AddIntermediate`, `Replace`, `Rename`, `ExtractAndRemove`,
`RemoveNodes`, `RemoveIfDangling`, with the bugs of each order of steps left in. Lists are
sequences: `Without` is `list::remove`, `FirstAt` a search, `Among` what a filter keeps.
`Meaning` gives each node the term it computes. Layouts are not modelled; where a pass looks
at them it may edit or not.

`ProgramGraph` takes the graph of a topology (`GraphOf`, with the depth-first order and the
marks of constants) through the passes in the order of `program_impl`'s constructor.
`TopologiesAssumption` says that the dependencies of a primitive name primitives of the
topology: `add_node_dependencies` looks each of them up with `at` and throws otherwise. A
pass visits the nodes it is for in processing order, one step per node; a node that an
earlier visit took out of the order is not visited:

| definition | pass |
|---|---|
| `TrimToOutputs` | trim_to_outputs |
| `CanFuse`, `FuseActivation`, `FuseSkipLayers` | prepare_primitive_fusing |
| `ReorderInput`: `AddReorder`, `AddReorderBack`, `PassByReorder` | reorder_inputs, for convolutions |
| `PreOptimizeBias`, `PostOptimizeWeights` | pre_optimize_bias, post_optimize_weights |
| `FuseConvEltwise` | prepare_conv_eltw_fusing |
| `RemoveRedundantReorder` | remove_redundant_reorders |
| `PropagateConstants`, `RemoveConstant`, `ReplaceByData` | propagate_constants, twice |
| `AddRequiredReorders`, `BuildThrows` | add_required_reorders; a reorder of one name asked for twice makes the build fail |
| `CalculateBfs` | the BFS order, which `MemoryDependencies` starts from |

## Runs

| run | instance | properties | states |
|---|---|---|---|
| `memory_pool` | 3 networks (one internal) over 3 primitives, 4 programs, 10 layouts (padded ones of two depths), two objects of the user, limits 3 and 9 | TypeOK, NoConflictingSharing, FitsRecord, OneBufferEach, LiveWithinDevice, UsedExactUntilRefusal | 1,358,372 |
| `memory_dependencies` | every program of up to 5 primitives over an input and a constant (`Leaves`), each a kernel reading up to two nodes (`MaxInputs`) or a crop in place | LiveTogetherRestricted, ShownBuffersKept, RestrictionsMutual, BfsOrderIsCorrect | 213,861 |
| `network_execution` | 96 GPU networks of 5 primitives (chains, diamonds, parallel branches) and 2 with a CPU primitive, one execution | InputsIntact, WaitedIsDone, ComputesDataFlow, CallsReturn | 53,220 |
| `repeated_execution` | a chain, the chain with unequal sizes, a primitive of two kernels, a crop in place; two executions | TypeOK, InputsIntact, InputNotSetTooEarly, ComputesDataFlow, CallsReturn | 4,858 |
| `events` | three events of the three kinds over two executions, asked in either, two threads, two handlers | TypeOK, OneUse, ToldWhenComplete, CalledOnceComplete, FirstHandlerCalled | 1,067,297 |
| `kernels_cache` | two threads, two custom kernels of one name (one does not compile), two generated kernels (each may be tried out first), three jobs, two calls | TypeOK, IdsUnique, FindsWhatWasSet, NothingLost, CompiledOnce, KernelsKept, CallsReturn | 183,209 |
| `program_graph` | topologies of three primitives (convolution, reorder, activation, sum): with one output, all that do not begin with an activation of the input; with two, those that begin with a convolution or a reorder; none with an activation behind a reorder; and six special ones | TypeOK, UsersMirrorDependencies, OrderIsTopological, OutputsKeepMeaning, ConstantsAreConstant, ConstantsPropagated | 672,040 |
| `across_networks`, `padded_depth`, `several_kernels`, `stale_event`, `lost_activation` | small | one property each, violated | |

**Why the bounds are enough.** In the pool a conflict needs two primitives of one network
and a record both accept; the third primitive and the other networks let a record be older,
larger or someone else's. The limits are low enough that each of the three ways to throw
happens, before and after another network was built or freed (no output is larger than
MaxAlloc, but one of the user's objects is). Of the padded layouts some differ in feature,
batch or depth alone, so a deeper output does get a buffer that is too small. In the graphs,
a branch that skips two nodes beside a parallel one fits in five primitives; five primitives
on two shared buffers take every order the device has. Two executions are enough for
everything that depends on the one before, since nothing reaches back further than the last
use of an event object or a buffer. No symmetry is used but between the networks that differ
by name only.

Three events suffice for a group with its two members, or for an object handed out before
and after a reset with a neighbour; two handlers are one that asks for the callback and
one that comes after it. Three jobs over two threads let a source be handed over while
another is being compiled, a build throw after it compiled something, and the same kernel
be asked for twice; with two names alike the counter in the id is what keeps them apart.
Three primitives, between an input and the data, are enough for every pair of neighbouring
edits; the six larger topologies are there for the rules that need more: sums of
deconvolutions, a sum behind one or two convolutions, and constants that are shared,
chained, or an output. Deadlock is not checked where the user may stop calling.

**Fairness.** `FairSpec` assumes that the thread inside a library call goes on
(`WF(HostStep)`) and that the device finishes what it can start (`WF(DeviceStep)`): each
call runs to its end on its own thread, and `execute` ends with a flush of the queue.
Nothing is assumed of the user. `CallsReturn` of `NetworkExecution` is then a statement
about the waits: no primitive waits for an event that nobody will complete, no kernel is
behind a barrier it holds up itself.

`FairSpec` of `Events` assumes that the device and the driver go on (`WF(Driver)`) and that
a call of `add_event_handler` ends (`WF(AddHandler(t))`); again nothing of the user. That
of `KernelsCache` is strong fairness of `Proceed(t)`: a thread inside a call goes on, and
one that waits for a mutex that is released again and again gets it, which weak fairness
would not give; `std::mutex` promises no order, but does not starve a thread for ever on
the systems this library is built for.

**Mutants.** Operators described in the head of each module as wrong on purpose
(`HasConflictElsewhere`, `RegionsWithoutTheirDeps`, `SkippedUpToAnyUser`,
`HasDeviceEventIfOutput`, ...) stand for a plausible slip in the definition that follows
them. Each property of a passing run is violated when the definition is replaced by its
slip.

## Where the code disagrees with what it says

- `across_networks`: a second network may be given one record of the across-networks pool
  for two of its own primitives, because the record remembers its creator only.
- `padded_depth`: neither the key of the padded pool (`padded_pool_comparer`) nor the test
  of `get_from_padded_pool` looks at the third spatial size, and `reinterpret_buffer` does
  not compare bytes. Two padded bfzyx outputs that differ in depth have one key, and the
  deeper one may be given the buffer of the other, against `memory_pool.h:97` ("Check if
  buffer with requested size exist"). `FitsRecord` is what is left: every other user fits.
- `several_kernels`: a primitive of several kernels raises `_last_barrier` in between. The
  next primitive may then have no input newer than that barrier and is enqueued without
  one, although `oooq_memory_dependencies` started a new sync region there: it may
  overwrite a buffer the second kernel still reads. The same assumption fails in two more
  ways, seen by setting `Graphs <- CpuBranch`, or `CropBranch` with
  `Nodes <- SevenNodes`, in that configuration: a CPU primitive waits for its own inputs
  only, and an optimized-out primitive passes on a stamp older than the barrier.
- `stale_event`: in the second execution `_set` of the recycled object is still on, and
  waiting for an output returns at once. A CPU primitive between kernels is caught by the
  same flag: with `Graphs` containing `CpuBetween`, two executions violate `InputsIntact`.
- `lost_activation`: an activation was fused into a reorder; `reorder_inputs` looks at the
  parameters of the reorder's own primitive only, finds that it changes nothing, and
  passes it by for one of its users. That user reads the input without the activation;
  the test at `reorder_gpu_test.cpp:1152` expects the activation to be kept.

Not runs, but shown by the same modules:

- A user event is created to be set by the user (`event.hpp:37`), but `attach_event` leaves
  `_attached` off until then, and the next user event gets the same object: whoever waits
  for the first returns when the second is set, or was created set. `UserEventsWaitForSet`
  of `Events` is violated, without any reset of the pools.
- A kernel that does not compile makes `build_all` throw before it forgets the sources and
  lowers the flag. A candidate of the tuner that does not compile therefore stays:
  `kernel_runner` (line 150) catches the exception and goes on with the next candidate, but
  every `get_kernel` of the engine from then on compiles it again and throws.
  `OnlyBrokenFail` of `KernelsCache` is violated with `Broken = {"conv"}` and three calls.
- After an allocation is refused with CLDNN_GLOBAL_SIZE_EXCEEDED its bytes stay in
  `_temp_memory_used`, which `cldnn.h:599` calls the memory in use: `UsedExactUntilRefusal`
  fails without its premise. The test is on the peak, which never decreases, so one refusal
  is followed by a refusal of everything.
- Whether a kernel gets an event of its own is decided by its direct users. A CPU primitive
  behind an in-place crop waits on a null event, that is, not at all: `InputsIntact` is
  violated with `Nodes <- FourNodes` and `Graphs <- CropBeforeCpu` of
  `MCNetworkExecution`.
- A handler that is not the first of its object may never be called: it can be inserted
  between the driver's call of the handlers and the next reading of `_set`, and
  `_callback_set` keeps it from asking for a callback of its own. So `FirstHandlerCalled`
  promises a call only to the handler whose insertion asks the driver.
- Topologies of `MCProgramGraph` that are not in its run: `ActivatedConvolution` (the fused
  primitive takes the activation from the convolution's description, not from the fused
  one: `OutputsKeepMeaning`), the three of `SummedDeconvolutions` (the first deconvolution
  has other users, is summed with itself, or has an activation of its own:
  `OrderIsTopological` in the first two, `OutputsKeepMeaning` in the third) and
  `SharedWeights` (weights a kernel wants reordered and another as they are: `TypeOK`).
  An activation behind a reorder, the case of `lost_activation`, is left out of the
  generated topologies for the same reason. To keep the run short, they also leave out an
  activation of the input as the first primitive, and with two outputs every first
  primitive but a convolution and a reorder.
- The assertion at `kernels_cache.cpp:212`, that an id handed out is not yet compiled, fails
  in a debug build when a build compiled a program and then threw in the next one, and the
  first program's source is handed over again: it is still in `_kernels_code`, under the
  same id. Nothing goes wrong after that (`IdsUnique`, `CompiledOnce`).

With `InputEachTime = FALSE`, that is, when the user executes again without setting an
input (the API's documentation says every input should be set), the second execution
overwrites what the first still reads, although the comment in `execute` says "Wait for
previous execution completion": `reset_execution(false)` only forgets the events.

## Proofs

`MemoryPoolProofs` proves, for every set of networks, programs, layouts and limits that
satisfies the assumptions of `MemoryPool`:

- `NoConflict`: `Spec => []NoConflictingSharing`,
- `Fits`: `Spec => []FitsRecord`,
- `Types`: `Spec => []PoolTypeOK`, all of `TypeOK` but that the two counters stay natural
  numbers, which is `CountersType` below,
- `Invariance`: `Spec => []IInv`, from which these follow,
- `OneBuffer`: `Spec => []OneBufferEach`.

`NoConflictingSharing` is not inductive. When a node joins a record, the code checks the
node's restrictions against the users; that the users' restrictions do not name the node
needs mutual restrictions, which are only assumed between *pooled* nodes. So `IInv` adds
`UsersPlaced` (a user of a record was looked for in the container the record is in, hence is
pooled, and it was placed unless its network failed), `NothingPlacedYet` (a network that has
not started has placed nothing, so its program may still be chosen) and `PaddedRecords` (a
record of the padded pool has a padded layout, which is what makes `FitsPadded` imply enough
bytes for every user that is not deeper). `ShareStep` and `CreateStep` are the two ways the
pool changes; the other actions keep it. `OneBufferEach` needs two more facts, in `BInv`:
what has memory of its own was placed, unless its network is gone (`OwnPlaced`), and a
placed primitive of a network that is not gone is in exactly one record, or in none if it
has memory of its own (`OnePlace`); a network that failed stays in the records its
primitives were in, so neither can be read off the state of the networks.

The module goes on to what the pool counts, under the same assumptions:

- `CountersType`: `Spec => []TypeOK`,
- `WithinDevice`: `Spec => []LiveWithinDevice`,
- `UsedExact`: `Spec => []UsedExactUntilRefusal`.

They need the two counters together: `LiveBytes <= used`, that is, the counter may be too
large after a refusal but never too small, and `LiveBytes <= MaxGlobal`, which the test on
the peak keeps. Each step changes one of three sums (`ThreeSums`: the records, the outputs
with memory of their own, the user's objects), and for that a network that still has outputs
must keep its program (`OwnStarted`) and the sets that are summed must be finite
(`FinitelyMany`). The sum of a set is `MapThenSumSet`, a recursive function on its subsets.
The laws of sums are proved without induction over it: the sum is the cardinality of a
set of *bricks*, each element contributing as many as it weighs, and that cardinality
satisfies the recursive equation (`SumExists`), whose solution is unique.

The assumption on programs, `ProgramsAssumption`, is what `MemoryDependenciesProofs`
establishes: `Mutual` says that for *every* graph the restrictions the three passes compute
between two primitives that may share are mutual. It rests on `BothWaysMutual`: what a pair
of calls of `add_memory_dependency` inserts between two such nodes it inserts in both
directions, also through nodes that were optimized out. `BasicDependencies` inserts
one-way pairs for outputs that were passed, which is why outputs are excluded.

The same module proves what the compiler's order and count of barriers are worth, for every
graph that comes with a topological order of its nodes (`Topological`):

- `BfsTopological`: the BFS order is again one, and nothing is lost or repeated;
- `TogetherRestricted`: two primitives that may share are restricted from it, both ways,
  if one is used by the other, stands between the other and a user of it, or is handed over
  between the same two barriers as the other or a user of it. The stretch behind the last
  barrier, which `oooq_memory_dependencies` never looks at, is covered because whatever is
  used there has its user behind one more barrier (`LastBarrierFacts`).

`Distances` and `LastBarrier` are recursive functions, and `tlapm` knows nothing of a
recursive function before somebody shows that its equation has a solution.
`DistancesSolve` and `LastBarrierSolves` show that position by position: what can be solved
up to a position can be solved up to the next (`Climbs`, which is induction over the
positions as a statement about a set, itself from the least element of a set of numbers).
That the order has no holes is a matter of counting: the ranks of the nodes are an injection
of a finite set into as many numbers, hence a surjection (`BfsFacts`).

`MCMemoryDependenciesProofs` applies this to every program of kernels and crops in place
over inputs and constants, of any size and shape, that is, for any `Names`, `Leaves`,
`LeafKind` and `MaxInputs`:

- `OrderAlwaysCorrect`: `Spec => []BfsOrderIsCorrect`,
- `RestrictionsAlwaysMutual`: `Spec => []RestrictionsMutual`,
- `AliveTogetherRestricted`: `Spec => []LiveTogetherRestricted`.

The inductive invariant `GrowingProgram` is about the order the names came in, which the
compiled order is computed from. From it a program without crops is a `KernelProgram`:
leaves come before kernels, because they are nearer, and what has no user is an output. The
heart of the third theorem is that the compiler and the host count different barriers, and
both counts delimit the same kernels: they differ in front of the first kernel only
(`SameBarriers`, `SameRegion`). Both are lemmas of `MemoryDependenciesProofs`, with what
follows from them for any program of kernels, `EarlierRestricted`; the proofs about the
execution use it again.

The assumption on layouts, that for one padded key bytes grow with feature, batch and depth,
is how `layout::bytes_count` computes the size of a padded layout: with format, data type,
two spatial sizes and padding the same, these are the sizes that are left. `Fits` says no
more than that gives: where a padded user is deeper than its buffer it promises nothing, and
`padded_depth` shows that there is nothing to promise.

`KernelsCacheProofs` proves, for any threads, sources, names, trials and bounds:

- `Types`: `Spec => []TypeOK`, with it that exactly the thread in `build_all` holds the mutex,
- `KeptOrWaiting`: `Spec => []NothingLost`.

`NothingLost` is not inductive: `build_all` ends by emptying `_kernels_code`, and that the
sources in it were all compiled depends on the whole build. `IInv` adds `BuildCovers` (while
the mutex is held, each waiting source is in a program still to be compiled, or is compiled
and does not fail to) and `Trials` (a source waiting to be tried out belongs to a trial
that is going on, unless a source that does not compile is stuck among those that wait;
this is what keeps a kernel that was asked for under a one-time source from being
forgotten), and `Finite`, which the counts in the ids need. Each action has a lemma of its
own; `ReturnFacts` is what the two ways to return have in common.

On top of that, again for any constants with `NamesAssumption`, what a thread finds:

- `UniqueIds`: `Spec => []IdsUnique`, and `KernelsStay`: `Spec => KernelsKept`,
- `OneCompilation`: `Spec => []CompiledOnce`,
- `Finds`: `Spec => []FindsWhatWasSet`.

A new id has the number of kernels compiled and waiting in it. `Fresh` says that every id
in use has a smaller one. That alone is not inductive: a build puts the kernels that were
tried out elsewhere, so that after it the count is smaller than some numbers that were given.
`Fresh` therefore also counts the ids that are kept (`KeptIds`), whose numbers stay below
how many they are; between builds that threw half way a kernel counts twice, as compiled
and as waiting, which only makes the numbers larger. `Named` ties an id to the name of its
kernel; with `NamesAssumption` a trial whose id is given again cannot find another kernel.
`OneCompilation` needs that no kernel is in two programs and that what still has to be
compiled was compiled at most once for each build that threw (`Compilations`). `Finds`
needs what a trial looks like in the middle: one thread is active (`TrialAlone`), and what
it will try is waiting or was just built, with nothing else waiting (`TrialWaits`,
`TrialsBuilt`).

`EventsProofs` proves, for any threads, handlers and numbers of events and executions:

- `Types`, `NotHandedOutTwice`, `ToldTheTruth`, `CalledOnce`: `Spec => []TypeOK`,
  `Spec => []OneUse`, `Spec => []ToldWhenComplete` and `Spec => []CalledOnceComplete`, for
  every user and in every execution.

Four facts about the objects make them inductive. The object of a use of the current
execution is attached and was not handed out again, or the use is a user event nobody set
(`Attached`). An object stands for the latest of its uses, a group for the events of its
members (`ForUses`), and no command is behind two uses (`CommandsDiffer`), so that setting
one user event completes nothing else. A flag that is on belongs to something complete, for
a use that was handed out clean and not recycled (`SetFlags`); that is where `Promised` is
needed, since `reset_events` leaves the flags on. The three ways to hand out an event are
one case (`HandsOut`), and the steps that leave the uses alone another (`Keeps`). For the
handlers, one that has been added is with one thread (`Adding`) or one object (`Added`)
until it is called, never with two, and a callback that is still to come is for the command
of the promised use of its object, if it has one (`Awaited`), so that the handlers it calls
are not called too early.

`NetworkExecutionProofs` proves, for any set of graphs that satisfies `GraphsAssumption`,
with kernels, CPU primitives and views, and any number of executions:

- `PoolRefined`: `Spec => Pool!Spec`. What a network does to its buffers is a behaviour of
  `MemoryPool` with one network; so its theorems hold here (`PoolInvariants`). The pool asks
  for mutual restrictions of every program it is given; `PoolAssumptions` gets that from
  `Mutual` of `MemoryDependenciesProofs`.
- `NetworkTypeOK`: `Spec => []TypeOK`.

For networks whose computed primitives are one kernel each and whose outputs are computed
(`KernelNetworks`; 96 of the 98 networks of the run `network_execution` are such) and a user
who sets the input before each execution:

- `KernelsReadWhole`: `Spec => []InputsIntact`, for up to two executions,
- `InputAfterExecution`: `Spec => []InputNotSetTooEarly`, for up to two executions,
- `FirstOutputsDone`: `Spec => []WaitedIsDone`, for one execution,
- `KernelsFlow`: `Spec => ComputesDataFlow`, that is, `Spec => Flow!Spec` with the mapping
  above, for up to two executions.

The graph, its size and its sizes of buffers, the placement and the order of the device are
arbitrary. None of the hypotheses can be dropped, and the findings say why: with a primitive
of two kernels, on the CPU or in place the first theorem is false (`several_kernels`), and
once an event object is used a second time its flag is stale (`stale_event`), so that the
second wait shows nothing, and the input of a third execution may be set too early.

`InputsIntact` says what a running kernel reads, and nothing of it is inductive. Between a
kernel's hand-over and its start three parties have to agree, and `KernelInv` says how:

- the *host* with the *compiler*: tasks are in the epochs of the queue in which
  `QueueBarriers` has their primitives (`EpochsInStep`). For that, the stamps newer than
  `lastBarrier` are those of what was handed over behind the last barrier of the graph
  (`StampsInStep`), so that the queue gets a barrier when the graph says so
  (`HandOverFacts`);
- the *device* with the *host*: what runs, runs behind the oldest barrier that is not through
  (`RunningFirst`, `FinishedFirst`), and the tasks are those given and not finished
  (`TasksGiven`);
- the *pool* with both: a result that some primitive not yet finished will read is whole
  (`ResultsKept`). That a kernel which overwrites a buffer spoils no such result is the
  heart (`NoClash`): the result is either needed only by what is finished, or alive together
  with the kernel, and then `Apart` finds a restriction between the two, from
  `EarlierRestricted`, which the pool honoured (`NoConflictingSharing`);
- the *user*: between two executions the queue is empty when the input is set, because every
  primitive has an output behind it (`LastIsOutput`, `OutputsAwaited`) and a flag that is on
  belongs to something done (`FlagsTrue`), which is where one reuse of the event objects is
  all that can be borne.

There is one lemma per action (`BuildStep` to `EndStep`), joined in `NextKernelInv`. The
refinement follows from the same invariant: `FlowStep` maps each action to a step of
`DataFlow` or to none; that a kernel that ends comes behind all it reads is what
`RunningFirst` and `EpochsInStep` say of the queue, and that no execution overlaps the next
is what `Phases` says of the input. TLC checked each conjunct of `KernelInv` over one and two
executions before it was proved.

`ProgramGraphProofs` proves, for every set of topologies that satisfies
`TopologiesAssumption`, of any size and any kinds of primitives:

- `UsersMirrorDependenciesAlways`: `Spec => []UsersMirrorDependencies`. The graph is kept in
  two directions by code that edits them by hand, and this is what every pass relies on;
- `GraphIsWellFormedAlways`: `Spec => []GraphIsWellFormed`, that no index, list or name of
  the program dangles, and the map has every node under its own id;
- `Invariance`: `Spec => []IInv`, from which these follow.

What agrees is a matter of counting: `Linked` says that one node has the other as a
dependency as often as that one has it as a user. `list::remove` takes all occurrences
away, `std::find` with `erase` the first, `push_back` adds one, and the first lemmas say what
each does to a count. `UsersMirrorDependencies` speaks of the living nodes, those in the
map, and is not inductive: a pass finds a removed node again in a list, and some edits are
right only if the lists of removed nodes agree as well. `IInv` therefore says that the
lists of *all* nodes agree (`Whole`) up to the first remove_redundant_reorders, the eighth
pass, and those of the living (`Partly`) from then on: propagate_constants clears the
dependencies of a constant by hand and leaves users behind at nodes it has removed, and the
passes that need the dead ones, the fusings, are over by then. With it come the
shape of the graph, and that no node has the id a pass is going to give to a fused node or
to propagated data (`CleanIds`), for `get_or_create` would return the node that is there.

The passes are then of four kinds. An *edit* keeps the nodes and every pair that agrees
(`Edit`): the connections, `replace_dependency`, `add_intermediate`, `remove_nodes`,
trim_to_outputs, the marks and the orders. A *step* may also add a node nothing knows of
(`Step`): the passes that put reorders in. `replace` gives the place of one node to another
(`ReplaceKeeps`); it appends the users without looking whether they have the node twice,
and the counts show why that is right. And two passes break the agreement on
the way and mend it: the fusing of a convolution and a sum, where one pair differs until the
last call (`Fusing`, `FuseConvEltwiseWhole`), and the data in the place of a constant
(`DataReplaced`), after which only the living agree.

The loops of the code are folds, and a fold is a recursive function on the positions of its
sequence. `FoldFacts` proves once that what holds before the first turn and is kept by each
holds at the end (`FoldInduction`), with the turn and the invariant as constants of the
module: the library's induction theorems take operators as arguments, which no prover here
can instantiate, but an `INSTANCE` of a module can. The 20 loops of the passes
instantiate it. That the natural numbers are inductive is a hypothesis of its theorems, which
`NatInductive` discharges at each use: a proof from the well-founded order, stated once.

## Limits

Only model-checked: every liveness property, which the prover cannot treat under fairness;
`InputsIntact`, `WaitedIsDone` and `ComputesDataFlow` for the networks of the runs with
primitives on the CPU, of several kernels and in place; and five invariants of
`ProgramGraph`. `TypeOK`, `OrderIsTopological` and `OutputsKeepMeaning` are not theorems:
each is false for some topologies the code accepts, those listed above under what is shown
without a run (`SharedWeights`, `SummedDeconvolutions`, `ActivatedConvolution`), and holds
for those of the run. `ConstantsAreConstant` and `ConstantsPropagated` rest on the order and
on what can be reached in a graph (`Marked`), through chains of any length. What `Reached`
computes for graphs of any size, through chains of nodes that were optimized out, stays with
the checker too (`ShownBuffersKept`); the proofs about it hold whatever it is.

### Not modelled

- *In the compiler*: layouts and everything decided by them (where they matter a pass may
  edit or not), `swap_names` and `reverse_connection` with their users, the marks of data
  flow, debug builds; in-place concatenation and crops (they set flags `MemoryDependencies`
  takes as given). These edits of the graph are not in `ProgramGraph`:
  - before the passes, in `graph_initializations`: splits, upsamplings, deconvolutions made
    into convolutions, lstm, the second half of a detection_output; and
    `calculate_prior_boxes`, which replaces a prior box by data;
  - the border of `handle_input_padding`, the reshapes of `add_reshape_to_primitives` and
    `handle_reshape`, the reorder `apply_needed_padding` puts behind an input
    (program.cpp:727-733), those of `post_input_reorder` and, in `reorder_inputs`, of a
    detection_output and a winograd convolution, the two mutable data of
    `prepare_conv_eltw_read_write_opt` (program.cpp:393);
  - `fuse_conv_bn_scale`, `merge_buffers` in `prep_opt_depthwise_sep_post`, and the removal of
    a reorder done in place at the end of `prepare_buffer_fusing`.

  `eltwise_shrinking`, `eltwise_remove_stride` and `prepare_depthwise_sep_opt` change strides
  and marks of nodes only.
- *In execution*: mutable data, split kernels, in-order queues, profiling, events the user
  passes to `execute`, markers. `Events` has groups, but what `wait_for_events` does with a
  group is listed as a hazard only.
- *gpu memory*: a lock count under a mutex and calls of the driver.
- *condition*: a network inside an execution. What it does to the engine's events is
  described under `Events`.
- *topology, OpenCL context, layout optimizer, kernel selector*: a map with one check; the
  choice of a device; tables; generation of OpenCL source. They have no protocol that
  several steps could break, but for the cache of reorders, listed as a hazard.
- *reference counts and the engine's life*: a memory is freed when its last reference goes,
  the counts themselves are `std::atomic`s.
- *Never*: shape inference, the arithmetic of the kernels, dumps and logs, third-party code
  (OpenCL headers, googletest, rapidjson, boost), examples. They make up most of the lines
  of the repository.

## Plan

In place are the pool, the restrictions, the execution that relies on both, the events, the
kernels cache and the compiler's passes. Worth adding, in this order: an engine with two
networks and one set of events, for `condition` and for users who run networks in turn;
markers and events passed to `execute`; the locks of buffers; a proof that the order stays
topological for the topologies without a sum of two deconvolutions.
