--------------------------- MODULE EventLifetime ----------------------------
(***************************************************************************)
(* The life of events from event_zalloc to event_free: who holds           *)
(* references to an event on its way from a producer through a queue, the  *)
(* saved event, attached queues, timers and handlers (core/event.c, and    *)
(* the references that core/event_bus.c and event_queue.c take and drop).  *)
(* Which event comes next, and when, is left open: EventBus decides that.  *)
(***************************************************************************)
EXTENDS Integers, Sequences, FiniteSets

CONSTANTS
    Event,      \* event_t, the timers among them
    Timer,      \* reminder_event_t
    Repeating,  \* the timers with a repeat
    Copy,       \* the memory that event_clone can get
    Silent,     \* events that open or close a queue, which are not forwarded
    Capacity,   \* of the queue that is attached
    NULL

LifetimeAssumption ==
    /\ Timer \subseteq Event /\ Repeating \subseteq Timer
    /\ Silent \subseteq Event /\ Copy \subseteq Event \ Timer
    /\ NULL \notin Event
    /\ Capacity \in Nat

VARIABLES
    live,     \* events that were allocated and not freed
    freed,    \* events after event_free
    ref,      \* refcount
    held,     \* the references that code outside of the bus holds
    queue,    \* a queue of the bus
    tap,      \* the attached queue
    saved,    \* saved_event
    timers,   \* the timers in timer_heap
    given,    \* history: events passed to a queue or a heap, once each (bound)
    kept,     \* history: events a handler has taken a reference to, once each
    cloned,   \* history: originals and copies
    leaked    \* history: events that lost an owner who did not unref them

vars == <<live, freed, ref, held, queue, tap, saved, timers, given, kept,
          cloned, leaked>>

Init ==
    /\ live = {} /\ freed = {}
    /\ ref = [e \in Event |-> 0] /\ held = [e \in Event |-> 0]
    /\ queue = <<>> /\ tap = <<>> /\ saved = NULL /\ timers = {}
    /\ given = {} /\ kept = {} /\ cloned = {} /\ leaked = {}

Times(s, e) == Cardinality({i \in DOMAIN s : s[i] = e})

\* How many unref the event: event_unref frees it at the last reference.
Unref(count) ==
    LET dead == {e \in live : count[e] > 0 /\ count[e] >= ref[e]}
    IN  /\ ref' = [e \in Event |-> ref[e] - count[e]]
        /\ live' = live \ dead
        /\ freed' = freed \cup dead

Once(e) == [x \in Event |-> IF x = e THEN 1 ELSE 0]

\* event_zalloc by a producer, for a registered type.
event_zalloc(e) ==
    /\ e \notin live \cup freed \cup Copy
    /\ live' = live \cup {e}
    /\ ref' = [ref EXCEPT ![e] = 1]
    /\ held' = [held EXCEPT ![e] = 1]
    /\ UNCHANGED <<freed, queue, tap, saved, timers, given, kept, cloned,
                   leaked>>

\* event_ref by a handler that keeps the event.
event_ref(e) ==
    /\ held[e] > 0 /\ e \notin kept
    /\ kept' = kept \cup {e}
    /\ ref' = [ref EXCEPT ![e] = @ + 1]
    /\ held' = [held EXCEPT ![e] = @ + 1]
    /\ UNCHANGED <<live, freed, queue, tap, saved, timers, given, cloned,
                   leaked>>

\* event_unref by whoever holds the event; dispatch_event ends with it.
event_unref(e) ==
    /\ held[e] > 0
    /\ held' = [held EXCEPT ![e] = @ - 1]
    /\ Unref(Once(e))
    /\ UNCHANGED <<queue, tap, saved, timers, given, kept, cloned, leaked>>

\* default_clone copies the count with the rest and then resets the one of
\* the original.
CopyCount(e, c) == ref' = [ref EXCEPT ![c] = ref[e], ![e] = 1]

\* event_clone, with default_clone, in a build without assertions: its own one
\* has the answer of check_event_type upside down.
event_clone(e) ==
    /\ held[e] > 0 /\ e \in live \ Timer
    /\ \E c \in Copy \ (live \cup freed) :
        /\ CopyCount(e, c)
        /\ live' = live \cup {c}
        /\ held' = [held EXCEPT ![c] = 1]
        /\ cloned' = cloned \cup {e, c}
    /\ UNCHANGED <<freed, queue, tap, saved, timers, given, kept, leaked>>

\* event_queue_push passes the producer's reference on.
Push(e) ==
    /\ held[e] > 0 /\ e \notin given \cup Timer
    /\ given' = given \cup {e}
    /\ held' = [held EXCEPT ![e] = @ - 1]
    /\ queue' = Append(queue, e)
    /\ UNCHANGED <<live, freed, ref, tap, saved, timers, kept, cloned, leaked>>

\* The bus takes a market event out and saves it.
Save ==
    /\ saved = NULL /\ queue # <<>>
    /\ saved' = Head(queue)
    /\ queue' = Tail(queue)
    /\ UNCHANGED <<live, freed, ref, held, tap, timers, given, kept, cloned,
                   leaked>>

\* An event that stops the simulator or comes late is dropped, reference and
\* all.
Discard ==
    /\ saved = NULL /\ queue # <<>>
    /\ queue' = Tail(queue)
    /\ leaked' = leaked \cup {Head(queue)}
    /\ UNCHANGED <<live, freed, ref, held, tap, saved, timers, given, kept,
                   cloned>>

\* Mutant: the attached queue gets the event without a reference.
ForwardUncounted(e) == 0

\* event_ref for the attached queue.
ForwardRef(e) == IF e \in Silent THEN 0 ELSE 1

\* The saved event is returned, and forwarded before with a reference of its
\* own, which is lost if the attached queue is full.
ReturnSaved ==
    LET e == saved
        room == Len(tap) < Capacity
    IN  /\ e # NULL
        /\ saved' = NULL
        /\ held' = [held EXCEPT ![e] = @ + 1]
        /\ ref' = [ref EXCEPT ![e] = @ + ForwardRef(e)]
        /\ tap' = IF e \notin Silent /\ room THEN Append(tap, e) ELSE tap
        /\ leaked' = IF e \notin Silent /\ ~room THEN leaked \cup {e} ELSE leaked
        /\ UNCHANGED <<live, freed, queue, timers, given, kept, cloned>>

\* The bus at the other end returns the event.
TapPop ==
    /\ tap # <<>>
    /\ tap' = Tail(tap)
    /\ held' = [held EXCEPT ![Head(tap)] = @ + 1]
    /\ UNCHANGED <<live, freed, ref, queue, saved, timers, given, kept, cloned,
                   leaked>>

\* bus_add_timer passes the reference to the heap.
AddTimer(e) ==
    /\ held[e] > 0 /\ e \in Timer \ given
    /\ given' = given \cup {e}
    /\ held' = [held EXCEPT ![e] = @ - 1]
    /\ timers' = timers \cup {e}
    /\ UNCHANGED <<live, freed, ref, queue, tap, saved, kept, cloned, leaked>>

\* timer_heap_pop: a repeating timer is returned and stays in the heap, with
\* one reference for both (bound: two at a time, and none once it was freed).
PopTimer(e) ==
    /\ e \in timers \cap live /\ held[e] < 2
    /\ timers' = IF e \in Repeating THEN timers ELSE timers \ {e}
    /\ held' = [held EXCEPT ![e] = @ + 1]
    /\ UNCHANGED <<live, freed, ref, queue, tap, saved, given, kept, cloned,
                   leaked>>

\* bus_remove_timer hands the reference back.
RemoveTimer(e) ==
    /\ e \in timers
    /\ timers' = timers \ {e}
    /\ held' = [held EXCEPT ![e] = @ + 1]
    /\ UNCHANGED <<live, freed, ref, queue, tap, saved, given, kept, cloned,
                   leaked>>

\* Mutant: the saved event is forgotten.
ClearSavedLess(e) == Times(tap, e) + (IF e \in timers THEN 1 ELSE 0)

\* What bus_clear unrefs: the saved event, the timers and what is in the
\* attached queue, which it destroys.
ClearCount(e) ==
    Times(tap, e) + (IF e = saved THEN 1 ELSE 0) + (IF e \in timers THEN 1 ELSE 0)

bus_clear ==
    /\ Unref([e \in Event |-> ClearCount(e)])
    /\ saved' = NULL /\ timers' = {} /\ tap' = <<>>
    /\ UNCHANGED <<held, queue, given, kept, cloned, leaked>>

\* event_queue_destroy by the owner of the bus's queue.
event_queue_destroy ==
    /\ queue # <<>>
    /\ Unref([e \in Event |-> Times(queue, e)])
    /\ queue' = <<>>
    /\ UNCHANGED <<held, tap, saved, timers, given, kept, cloned, leaked>>

Next ==
    \/ Save \/ Discard \/ ReturnSaved \/ TapPop
    \/ bus_clear \/ event_queue_destroy
    \/ \E e \in Event :
        \/ PopTimer(e)
        \/ event_zalloc(e) \/ event_ref(e) \/ event_unref(e) \/ event_clone(e)
        \/ Push(e) \/ AddTimer(e) \/ RemoveTimer(e)

Spec == Init /\ [][Next]_vars

\* The buses are run, and whoever is handed an event gives it back.
FairSpec ==
    /\ Spec
    /\ WF_vars(Save \/ Discard) /\ WF_vars(ReturnSaved) /\ WF_vars(TapPop)
    /\ \A e \in Event : WF_vars(PopTimer(e)) /\ WF_vars(event_unref(e))
-----------------------------------------------------------------------------
(* Properties. *)

Owners(e) ==
    held[e] + Times(queue, e) + Times(tap, e)
        + (IF e = saved THEN 1 ELSE 0) + (IF e \in timers THEN 1 ELSE 0)

TypeOK ==
    /\ live \cap freed = {} /\ live \cup freed \subseteq Event
    /\ ref \in [Event -> Int] /\ held \in [Event -> Nat]
    /\ queue \in Seq(Event \ Timer) /\ tap \in Seq(Event \ Timer)
    /\ saved \in (Event \ Timer) \cup {NULL} /\ timers \subseteq Timer
    /\ cloned \cup leaked \cup given \cup kept \subseteq live \cup freed

\* However an event travels, and whoever drops it: nobody who still has it has
\* it freed under him.  Only a repeating timer, which is handed out while it
\* is in the heap, and an event that default_clone reset can be.
FreedOnlyUnowned ==
    \A e \in freed : Owners(e) = 0 \/ e \in Repeating \cup cloned

\* The other side: an event nobody has is freed, but for those the bus dropped
\* or could not forward, and copies that were born with too high a count.
OwnerlessIsFreed ==
    \A e \in live : Owners(e) > 0 \/ e \in leaked \cup cloned

\* An event that is passed to the bus is freed in the end, unless it was lost
\* or cloned, or is a timer that comes back for ever.
EventuallyFreed ==
    \A e \in Event :
        e \in given ~> e \in freed \cup leaked \cup cloned \cup Repeating
=============================================================================
