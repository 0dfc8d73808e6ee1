-------------------------------- MODULE Events --------------------------------
(***************************************************************************)
(* The event objects of one engine (event.cpp, event_impl.h,               *)
(* ocl_base_event, ocl_user_event, events_pool.h): the pools hand them out *)
(* for kernels, for the user and for groups, take them all back at the end *)
(* of network::execute and hand them out again.  One thread makes the      *)
(* calls, others add handlers, and the driver's thread runs the callbacks. *)
(*                                                                         *)
(* A use is one handing-out of an object: it remembers, as no event object *)
(* does, the command (the cl_event) the object was handed out for.         *)
(*                                                                         *)
(* GroupIsSetByOne, TakeByFlag, CallHandlersKeepingThem, InsertSilently,   *)
(* ResetEventsDroppingThem and AttachEventKeepingCommand are wrong on      *)
(* purpose: each is what a plausible slip would make of the definition     *)
(* after it.                                                               *)
(***************************************************************************)
EXTENDS Naturals, Sequences, FiniteSets

CONSTANTS
    Threads,     \* threads that add handlers
    Handlers,    \* the handlers they add, each at most once
    MaxUses,     \* bound on the events handed out
    MaxResets    \* the calls of reset_events: the executions before the last

ASSUME ConstantsAssumption ==
    MaxUses \in Nat /\ MaxResets \in Nat

VARIABLES
    objects,   \* the event objects of the three pools, in the order of their creation
    commands,  \* the commands of the cl_events: "queued" or "complete"
    uses,      \* what was handed out
    resets,    \* number of calls of reset_events
    told,      \* uses somebody was told are complete
    adding,    \* add_event_handler between is_set and the mutex, per thread
    callbacks, \* <<command, object>>: clSetEventCallback was called
    firing,    \* objects whose callback has set _set and not yet called the handlers
    handled,   \* the use each handler was added for (0: none yet)
    first,     \* handlers whose insertion asked the driver for the callback
    called     \* how often each handler was called

vars == <<objects, commands, uses, resets, told, adding, callbacks, firing, handled,
          first, called>>
poolVars == <<objects, commands, uses, resets>>
handlerVars == <<adding, callbacks, firing, handled, first, called>>

-----------------------------------------------------------------------------
(* Event objects.  Command 0 is a null cl_event: a kernel without an event.  *)
Objects == 1..Len(objects)
NewObject(pool) ==
    [pool |-> pool, attached |-> FALSE, set |-> FALSE, command |-> 0, members |-> {},
     callback |-> FALSE, handlers |-> {}]

Done(c) == c # 0 => commands[c] = "complete"

(* base_event::is_set_impl, wait_impl. *)
BaseIsSet(o) == objects[o].set \/ Done(objects[o].command)

(* event_impl::is_set, wait; a group (base_events) asks its members. *)
GroupIsSetByOne(o) ==
    \/ objects[o].set
    \/ IF objects[o].pool = "group" THEN \E m \in objects[o].members : BaseIsSet(m)
       ELSE Done(objects[o].command)

IsSet(o) ==
    \/ objects[o].set
    \/ IF objects[o].pool = "group" THEN \A m \in objects[o].members : BaseIsSet(m)
       ELSE Done(objects[o].command)

(* The objects whose _set is on after is_set or wait answered yes. *)
Flagged(o) == {o} \cup IF objects[o].set THEN {} ELSE objects[o].members
Raise(S) == [o \in Objects |-> [objects[o] EXCEPT !.set = @ \/ o \in S]]

(* event_pool_impl::get_from_pool: the first object that is not attached, or *)
(* a new one.                                                                *)
FreeByFlag(pool) == {o \in Objects : objects[o].pool = pool /\ ~objects[o].set}
TakeByFlag(pool) ==
    IF FreeByFlag(pool) = {} THEN Len(objects) + 1
    ELSE CHOOSE o \in FreeByFlag(pool) : \A p \in FreeByFlag(pool) : o <= p

Free(pool) == {o \in Objects : objects[o].pool = pool /\ ~objects[o].attached}
Take(pool) ==
    IF Free(pool) = {} THEN Len(objects) + 1
    ELSE CHOOSE o \in Free(pool) : \A p \in Free(pool) : o <= p

Taken(pool) == IF Take(pool) \in Objects THEN objects[Take(pool)] ELSE NewObject(pool)

(* Object o becomes r, an existing one or the one just allocated. *)
Store(o, r) == objects' = IF o \in Objects THEN [objects EXCEPT ![o] = r] ELSE Append(objects, r)

(* What is left on an object of its earlier uses: reset_events turns off     *)
(* _attached only, so that _set may be on, and the driver may yet call back. *)
Clean(o) ==
    o \in Objects => /\ ~objects[o].set /\ o \notin firing
                     /\ \A co \in callbacks : co[2] # o

HandOut(o, owned, members) ==
    uses' = Append(uses, [object |-> o, command |-> owned, members |-> members,
                          epoch |-> resets,
                          clean |-> Clean(o) /\ \A m \in members : uses[m].clean])
Uses == 1..Len(uses)

(* What the event of a use stands for. *)
IsComplete(u) == Done(uses[u].command) /\ \A m \in uses[u].members : Done(uses[m].command)

(* No object a use relies on was handed out again since. *)
Latest(u) == \A v \in Uses : uses[v].object = uses[u].object => v <= u
Own(u) == Latest(u) /\ \A m \in uses[u].members : Latest(m)

-----------------------------------------------------------------------------
Init ==
    /\ objects = << >> /\ commands = << >> /\ uses = << >> /\ resets = 0
    /\ told = {} /\ adding = [t \in Threads |-> << >>]
    /\ callbacks = {} /\ firing = {}
    /\ handled = [x \in Handlers |-> 0] /\ first = {} /\ called = [x \in Handlers |-> 0]

(* gpu_toolkit::enqueue_kernel, with an event of its own or without, and     *)
(* base_event::attach_ocl_event.                                             *)
EnqueueKernel(ownEvent) ==
    LET c == IF ownEvent THEN Len(commands) + 1 ELSE 0 IN
    /\ Len(uses) < MaxUses
    /\ commands' = IF ownEvent THEN Append(commands, "queued") ELSE commands
    /\ Store(Take("base"), [Taken("base") EXCEPT !.command = c, !.attached = TRUE])
    /\ HandOut(Take("base"), c, {})
    /\ UNCHANGED <<resets, told, handlerVars>>

(* gpu_toolkit::create_user_event and user_event::attach_event: _attached is *)
(* turned on by set_impl, that is, only if the event is created set.         *)
AttachEventKeepingCommand(object, set, c) ==
    [object EXCEPT !.set = @ \/ set, !.attached = @ \/ set]

AttachEvent(object, set, c) ==
    [object EXCEPT !.command = c, !.set = @ \/ set, !.attached = @ \/ set]

CreateUserEvent(set) ==
    LET c == Len(commands) + 1 IN
    /\ Len(uses) < MaxUses
    /\ commands' = Append(commands, IF set THEN "complete" ELSE "queued")
    /\ Store(Take("user"), AttachEvent(Taken("user"), set, c))
    /\ HandOut(Take("user"), c, {})
    /\ UNCHANGED <<resets, told, handlerVars>>

(* gpu_toolkit::group_events over the kernels of a split primitive. *)
GroupEvents(u, v) ==
    /\ Len(uses) < MaxUses
    /\ u # v /\ \A w \in {u, v} : /\ uses[w].epoch = resets
                                  /\ objects[uses[w].object].pool = "base"
    /\ Store(Take("group"),
             [Taken("group") EXCEPT !.members = {uses[u].object, uses[v].object},
                                    !.attached = TRUE])
    /\ HandOut(Take("group"), 0, {u, v})
    /\ UNCHANGED <<commands, resets, told, handlerVars>>

(* gpu_toolkit::reset_events: reset of every object turns _attached off, and *)
(* nothing else.                                                             *)
ResetEventsDroppingThem ==
    /\ resets < MaxResets
    /\ resets' = resets + 1
    /\ objects' = << >>
    /\ UNCHANGED <<commands, uses, told, handlerVars>>

ResetEvents ==
    /\ resets < MaxResets
    /\ resets' = resets + 1
    /\ objects' = [o \in Objects |-> [objects[o] EXCEPT !.attached = FALSE]]
    /\ UNCHANGED <<commands, uses, told, handlerVars>>

(* event::wait returns, or is_set says yes. *)
Learn(u) ==
    /\ u \notin told /\ IsSet(uses[u].object)
    /\ told' = told \cup {u}
    /\ objects' = Raise(Flagged(uses[u].object))
    /\ UNCHANGED <<commands, uses, resets, handlerVars>>

-----------------------------------------------------------------------------
(* event_impl::call_handlers of object o, which becomes r, under the mutex.  *)
Calls(S) == called' = [x \in Handlers |-> called[x] + IF x \in S THEN 1 ELSE 0]

CallHandlersKeepingThem(o, r) ==
    Calls(objects[o].handlers) /\ objects' = [objects EXCEPT ![o] = r]

CallHandlers(o, r) ==
    /\ Calls(objects[o].handlers)
    /\ objects' = [objects EXCEPT ![o] = [r EXCEPT !.handlers = {}]]

(* user_event::set; nothing happens if _set is on, and a cl_event that is    *)
(* complete refuses to be set again.                                         *)
SetUserEvent(u) ==
    LET o == uses[u].object IN
    /\ objects[o].pool = "user" /\ ~objects[o].set /\ ~Done(objects[o].command)
    /\ commands' = [commands EXCEPT ![objects[o].command] = "complete"]
    /\ CallHandlers(o, [objects[o] EXCEPT !.set = TRUE, !.attached = TRUE])
    /\ UNCHANGED <<uses, resets, told, adding, callbacks, firing, handled, first>>

(* Which of the handlers not yet added is added next makes no difference. *)
IsNext(x) == handled[x] = 0 /\ x = CHOOSE y \in Handlers : handled[y] = 0

(* event_impl::add_event_handler: is_set is asked outside the mutex. *)
HandlerCalledAtOnce(t, u, x) ==
    /\ adding[t] = << >> /\ IsNext(x)
    /\ IsSet(uses[u].object)
    /\ handled' = [handled EXCEPT ![x] = u]
    /\ called' = [called EXCEPT ![x] = @ + 1]
    /\ objects' = Raise(Flagged(uses[u].object))
    /\ UNCHANGED <<commands, uses, resets, told, adding, callbacks, firing, first>>

HandlerToBeAdded(t, u, x) ==
    /\ adding[t] = << >> /\ IsNext(x)
    /\ ~IsSet(uses[u].object)
    /\ handled' = [handled EXCEPT ![x] = u]
    /\ adding' = [adding EXCEPT ![t] = <<u, x>>]
    /\ UNCHANGED <<poolVars, told, callbacks, firing, first, called>>

(* is_set ends with the assignment of what it read, which may come after the *)
(* callback's own.  Then, under the mutex, the handler is inserted, and      *)
(* base_event asks the driver for a callback if it has not done so before; a *)
(* group does not.                                                           *)
SetOclCallback(o) == objects[o].pool # "group" /\ ~objects[o].callback

InsertSilently(t, late) ==
    LET u == adding[t][1]  x == adding[t][2]  o == uses[u].object IN
    /\ objects' = [objects EXCEPT ![o].handlers = @ \cup {x}, ![o].set = @ /\ ~late]
    /\ first' = IF SetOclCallback(o) THEN first \cup {x} ELSE first
    /\ UNCHANGED callbacks

Insert(t, late) ==
    LET u == adding[t][1]  x == adding[t][2]  o == uses[u].object
        asks == SetOclCallback(o) /\ objects[o].command # 0
    IN /\ objects' = [objects EXCEPT ![o].handlers = @ \cup {x}, ![o].set = @ /\ ~late,
                                     ![o].callback = @ \/ asks]
       /\ callbacks' = IF asks THEN callbacks \cup {<<objects[o].command, o>>} ELSE callbacks
       /\ first' = IF asks THEN first \cup {x} ELSE first

AddHandler(t) ==
    /\ adding[t] # << >>
    /\ \E late \in BOOLEAN : Insert(t, late)
    /\ adding' = [adding EXCEPT ![t] = << >>]
    /\ UNCHANGED <<commands, uses, resets, told, firing, handled, called>>

-----------------------------------------------------------------------------
(* The device finishes a kernel. *)
Complete(c) ==
    /\ commands[c] = "queued"
    /\ \E u \in Uses : uses[u].command = c /\ objects[uses[u].object].pool = "base"
    /\ commands' = [commands EXCEPT ![c] = "complete"]
    /\ UNCHANGED <<objects, uses, resets, told, handlerVars>>

(* base_event::ocl_event_completion_callback, on the driver's thread. *)
Callback(c, o) ==
    /\ <<c, o>> \in callbacks /\ Done(c)
    /\ callbacks' = callbacks \ {<<c, o>>}
    /\ firing' = firing \cup {o}
    /\ objects' = Raise({o})
    /\ UNCHANGED <<commands, uses, resets, told, adding, handled, first, called>>

CallbackCallsHandlers(o) ==
    /\ o \in firing
    /\ firing' = firing \ {o}
    /\ CallHandlers(o, objects[o])
    /\ UNCHANGED <<commands, uses, resets, told, adding, callbacks, handled, first>>

Engine ==
    \/ \E b \in BOOLEAN : EnqueueKernel(b) \/ CreateUserEvent(b)
    \/ \E u, v \in Uses : GroupEvents(u, v)
    \/ ResetEvents
User ==
    \E u \in Uses :
        \/ Learn(u) \/ SetUserEvent(u)
        \/ \E t \in Threads, x \in Handlers : HandlerCalledAtOnce(t, u, x) \/ HandlerToBeAdded(t, u, x)
Driver ==
    \/ \E c \in 1..Len(commands) : Complete(c)
    \/ \E co \in callbacks : Callback(co[1], co[2])
    \/ \E o \in firing : CallbackCallsHandlers(o)

Next == Engine \/ User \/ Driver \/ \E t \in Threads : AddHandler(t)

(* The device finishes its kernels, the driver calls back and a call of      *)
(* add_event_handler ends; whether the user does anything is up to the user. *)
Spec == Init /\ [][Next]_vars
FairSpec == Spec /\ WF_vars(Driver) /\ \A t \in Threads : WF_vars(AddHandler(t))

-----------------------------------------------------------------------------
(* Types; every reference goes to an object, a command or a use that exists. *)
TypeOK ==
    /\ \A o \in Objects :
          /\ objects[o].pool \in {"base", "user", "group"}
          /\ objects[o].attached \in BOOLEAN /\ objects[o].set \in BOOLEAN
          /\ objects[o].callback \in BOOLEAN
          /\ objects[o].command \in 0..Len(commands)
          /\ objects[o].members \subseteq Objects /\ objects[o].handlers \subseteq Handlers
    /\ \A c \in 1..Len(commands) : commands[c] \in {"queued", "complete"}
    /\ \A u \in Uses : /\ uses[u].object \in Objects /\ uses[u].command \in 0..Len(commands)
                       /\ uses[u].members \subseteq Uses /\ uses[u].epoch \in 0..resets
                       /\ uses[u].clean \in BOOLEAN
    /\ resets \in 0..MaxResets /\ told \subseteq Uses
    /\ \A t \in Threads : adding[t] = << >> \/ adding[t] \in Uses \X Handlers
    /\ callbacks \subseteq (1..Len(commands)) \X Objects /\ firing \subseteq Objects
    /\ handled \in [Handlers -> 0..Len(uses)] /\ first \subseteq Handlers
    /\ called \in [Handlers -> Nat]

(* Between two calls of reset_events no object is handed out twice, so that  *)
(* the events network_impl keeps in _events are those of their own           *)
(* primitives, but for a user event that was created unset and never set.    *)
OneUse ==
    \A u, v \in Uses :
        uses[u].epoch = resets /\ u < v /\ uses[u].object = uses[v].object
           => objects[uses[u].object].pool = "user" /\ ~Done(uses[u].command)

(* event::wait returns, and is_set says yes, only when what the event was    *)
(* handed out for is complete, every kernel of a group included: in whatever *)
(* execution it is asked, as long as the object is not handed out again, and *)
(* if neither a flag nor a callback of an earlier use was left on it.        *)
Promised(u) == uses[u].clean /\ Own(u)

ToldWhenComplete == \A u \in told : Promised(u) => IsComplete(u)

(* A handler is called at most once, though the user's set and the driver's  *)
(* callback may both call the handlers of one object, and never before the   *)
(* event it was added for is complete, if the object could be relied on.     *)
CalledOnceComplete ==
    \A x \in Handlers : called[x] > 0 =>
        called[x] = 1 /\ (Promised(handled[x]) => IsComplete(handled[x]))

(* "Register call back to be called on event completion" (event.hpp:77), for *)
(* the handler whose insertion asks the driver for the callback: whatever    *)
(* runs between is_set and the mutex, it is called.                          *)
FirstHandlerCalled ==
    \A x \in Handlers :
        (x \in first /\ Own(handled[x]) /\ IsComplete(handled[x])) ~> called[x] = 1

(* "Wait for event completion" (event.hpp:71): a user event is not complete  *)
(* before it is "set to 'completed' by user" (event.hpp:37), even if nothing *)
(* was reset and nobody looked at its object before.                         *)
UserEventsWaitForSet ==
    \A u \in told : uses[u].clean /\ uses[u].epoch = resets
                      /\ objects[uses[u].object].pool = "user" => IsComplete(u)
=============================================================================
