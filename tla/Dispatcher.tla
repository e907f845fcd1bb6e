----------------------------- MODULE Dispatcher -----------------------------
(***************************************************************************)
(* The dispatcher of a context (core/event_dispatch.c): an event goes      *)
(* through the filter to the handler of its type and is unreferenced; a    *)
(* handler may dispatch, delay or emit in turn, so that dispatches nest.   *)
(* Filters and handlers are the program's: what they may do is external.   *)
(***************************************************************************)
EXTENDS Integers, Sequences, SequencesExt, FiniteSets

CONSTANTS
    Event,      \* event_t
    Capacity,   \* events buffed_event_queue holds, 102399 in the code
    MaxDepth,   \* bound on nested calls
    MaxRef,     \* bound on the references handlers take to one event
    NULL

DispatcherAssumption ==
    /\ NULL \notin Event
    /\ Capacity \in Nat /\ MaxDepth \in Nat /\ MaxRef \in Nat

VARIABLES
    stack,      \* the calls on the stack, the innermost last
    count,      \* dispatch_reentrant_count
    buffed,     \* buffed_event_queue
    ref,        \* refcount
    owned,      \* the references that handlers or the caller hold
    swallowed,  \* history: the events the filter has kept, in order
    lost,       \* history: how many references went with delayed events
    delayed,    \* history: the events accepted by delay_dispatch_event, in order
    emitted     \* history: the events taken out again, in order

vars == <<stack, count, buffed, ref, owned, swallowed, lost, delayed, emitted>>
history == <<swallowed, lost, delayed, emitted>>

\* One reference to each event, with the program.
Init ==
    /\ stack = <<>> /\ count = 0 /\ buffed = <<>>
    /\ ref = [e \in Event |-> 1] /\ owned = [e \in Event |-> 1]
    /\ swallowed = <<>> /\ lost = [e \in Event |-> 0]
    /\ delayed = <<>> /\ emitted = <<>>

Call(at, e) == [at |-> at, event |-> e]
Top == Last(stack)
Within(at) == stack # <<>> /\ Top.at = at

\* The program's code runs: outside, or in a handler.
Running == stack = <<>> \/ Within("handler")

\* dispatch_event is entered with a reference of the caller.
dispatch_event(e) ==
    /\ Running /\ Len(stack) < MaxDepth /\ owned[e] > 0
    /\ owned' = [owned EXCEPT ![e] = @ - 1]
    /\ count' = count + 1
    /\ stack' = Append(stack, Call("filter", e))
    /\ UNCHANGED <<buffed, ref>> /\ UNCHANGED history

\* The filter lets an event through, or another one of its own instead of it.
Filter ==
    /\ Within("filter")
    /\ \E e \in Event :
        /\ e = Top.event \/ owned[e] > 0
        /\ stack' = Append(Front(stack), Call("handler", e))
        /\ owned' = [x \in Event |->
              owned[x] + (IF x = Top.event THEN 1 ELSE 0) - (IF x = e THEN 1 ELSE 0)]
    /\ UNCHANGED <<count, buffed, ref>> /\ UNCHANGED history

\* Mutant: the count is put right when the filter answers NULL.
SwallowBalanced == count' = count - 1

\* The early return leaves the count as it is.
SwallowCount == UNCHANGED count

\* The filter answers NULL: the event is now the filter's.
Swallow ==
    /\ Within("filter")
    /\ stack' = Front(stack)
    /\ owned' = [owned EXCEPT ![Top.event] = @ + 1]
    /\ swallowed' = Append(swallowed, Top.event)
    /\ SwallowCount
    /\ UNCHANGED <<buffed, ref, lost, delayed, emitted>>

DropReference(e) == ref' = [ref EXCEPT ![e] = @ - 1]

\* The handler has returned.
Return ==
    /\ Within("handler")
    /\ DropReference(Top.event)
    /\ count' = count - 1
    /\ stack' = Front(stack)
    /\ UNCHANGED <<buffed, owned>> /\ UNCHANGED history

\* A handler takes a reference to its event, to keep it or to delay it.
Keep ==
    /\ Within("handler") /\ ref[Top.event] < MaxRef
    /\ ref' = [ref EXCEPT ![Top.event] = @ + 1]
    /\ owned' = [owned EXCEPT ![Top.event] = @ + 1]
    /\ UNCHANGED <<stack, count, buffed>> /\ UNCHANGED history

Room == Len(buffed) < Capacity

\* delay_dispatch_event passes a reference on, and does not say when the
\* buffer was full.
delay_dispatch_event(e) ==
    /\ Running /\ owned[e] > 0
    /\ owned' = [owned EXCEPT ![e] = @ - 1]
    /\ IF Room
       THEN /\ buffed' = Append(buffed, e)
            /\ delayed' = Append(delayed, e)
            /\ UNCHANGED lost
       ELSE /\ lost' = [lost EXCEPT ![e] = @ + 1]
            /\ UNCHANGED <<buffed, delayed>>
    /\ UNCHANGED <<stack, count, ref, swallowed, emitted>>

\* emit_delayed_events is entered, also by a handler that it has called.
emit_delayed_events ==
    /\ Running /\ Len(stack) < MaxDepth
    /\ stack' = Append(stack, Call("emit", NULL))
    /\ UNCHANGED <<count, buffed, ref, owned>> /\ UNCHANGED history

NextBuffed == Head(buffed)

\* The loop takes the next event out and dispatches it.
EmitNext ==
    /\ Within("emit") /\ buffed # <<>>
    /\ count' = count + 1
    /\ buffed' = Tail(buffed)
    /\ emitted' = Append(emitted, NextBuffed)
    /\ stack' = Append(stack, Call("filter", NextBuffed))
    /\ UNCHANGED <<ref, owned, swallowed, lost, delayed>>

EmitEnd ==
    /\ Within("emit") /\ buffed = <<>>
    /\ stack' = Front(stack)
    /\ UNCHANGED <<count, buffed, ref, owned>> /\ UNCHANGED history

Next ==
    \/ Filter \/ Swallow \/ Return \/ Keep
    \/ emit_delayed_events \/ EmitNext \/ EmitEnd
    \/ \E e \in Event : dispatch_event(e) \/ delay_dispatch_event(e)

Spec == Init /\ [][Next]_vars
-----------------------------------------------------------------------------
(* Properties. *)

Dispatches == Cardinality({i \in DOMAIN stack : stack[i].at # "emit"})

TypeOK ==
    /\ stack \in Seq([at : {"filter", "handler", "emit"}, event : Event \cup {NULL}])
    /\ \A i \in DOMAIN stack : stack[i].event = NULL <=> stack[i].at = "emit"
    /\ count \in Nat
    /\ buffed \in Seq(Event) /\ Len(buffed) <= Capacity
    /\ ref \in [Event -> Nat] /\ owned \in [Event -> Nat]

\* dispatch_reentrant_count is the number of dispatches under way plus one for
\* every event the filter has ever swallowed: once it has, the count never
\* goes back to 0.
CountNeverForgets == count = Dispatches + Len(swallowed)

\* However dispatches nest, each ends with one unref: the count of an event
\* is its holders, the calls it is in, its places in the buffer, and the
\* delayed references that were lost because the buffer was full.
ReferencesBalance ==
    \A e \in Event :
        ref[e] = owned[e] + lost[e]
            + Cardinality({i \in DOMAIN stack : stack[i].event = e})
            + Cardinality({i \in DOMAIN buffed : buffed[i] = e})

\* Delayed events are taken out in the order they were accepted, by whatever
\* nesting of emits.
DelayedInOrder == delayed = emitted \o buffed

\* What is counted, owned and delayed adds up at every depth of nesting.
AccountsBalance ==
    TypeOK /\ CountNeverForgets /\ ReferencesBalance /\ DelayedInOrder
=============================================================================
