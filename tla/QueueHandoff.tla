---------------------------- MODULE QueueHandoff ----------------------------
(***************************************************************************)
(* How a queue passes between its producer's thread and the bus's thread:  *)
(* event_queue_push against event_pop_form_pipe, bus_add_queue and         *)
(* check_pending_queue, one step per look at what the other thread writes. *)
(* Only the number of events in a queue matters here, and the order of the *)
(* heap does not: the bus may serve any queue in it.  A push to the        *)
(* pending queue is one step, the one at which mpscq_push takes effect.    *)
(***************************************************************************)
EXTENDS Integers, Sequences, Functions

CONSTANTS
    Queue,          \* market queues of one bus, each with its producer thread
    Limit,          \* events a queue can hold, spscq capacity less one
    MaxPush,        \* bound: pushes of each producer
    RegisterFirst   \* are the queues added before the producers start?

ASSUME HandoffAssumption ==
    /\ Limit \in Nat \ {0} /\ MaxPush \in Nat /\ RegisterFirst \in BOOLEAN

VARIABLES
    size,       \* events in each queue
    owned,      \* queues whose ctx the producers can see
    added,      \* queues the bus thread has called bus_add_queue for
    heap,       \* queues in the heap
    pending,    \* the pending queue
    ppc,        \* where each producer is in event_queue_push
    was_empty,  \* its local is_empty
    ret,        \* its local ret
    left,       \* its remaining pushes
    bpc,        \* where the bus thread is
    bq,         \* the queue the bus thread has in hand
    broken,     \* has a node been linked twice?  "no", "heap" or "pending"
    missed,     \* history: found empty although a push was on its way
    early       \* history: put in the heap although the producer will ask for it

producerVars == <<ppc, was_empty, ret, left>>
busVars == <<added, heap, bpc, bq, early, missed>>
vars == <<size, owned, added, heap, pending, ppc, was_empty, ret, left, bpc,
          bq, broken, missed, early>>

Init ==
    /\ size = [q \in Queue |-> 0]
    /\ owned = IF RegisterFirst THEN Queue ELSE {}
    /\ added = owned
    /\ heap = {} /\ pending = <<>>
    /\ ppc = [q \in Queue |-> "idle"]
    /\ was_empty = [q \in Queue |-> FALSE]
    /\ ret = [q \in Queue |-> 0]
    /\ left = [q \in Queue |-> MaxPush]
    /\ bpc = "pending" /\ bq \in Queue
    /\ broken = "no" /\ missed = {} /\ early = {}

-----------------------------------------------------------------------------
(* event_queue_push by the producer of queue q. *)

\* Mutant: the test is the wrong way round.
SeesSome(q) == size[q] # 0

SeesEmpty(q) == size[q] = 0

LookEmpty(q) ==
    /\ broken = "no" /\ ppc[q] = "idle" /\ left[q] > 0
    /\ was_empty' = [was_empty EXCEPT ![q] = SeesEmpty(q)]
    /\ ppc' = [ppc EXCEPT ![q] = "push"]
    /\ left' = [left EXCEPT ![q] = @ - 1]
    /\ UNCHANGED <<size, owned, pending, ret, broken>> /\ UNCHANGED busVars

HasRoom(q) == size[q] < Limit

\* spscq_push, which answers -1 when the queue is full.
Put(q) ==
    /\ broken = "no" /\ ppc[q] = "push"
    /\ size' = [size EXCEPT ![q] = IF HasRoom(q) THEN @ + 1 ELSE @]
    /\ ret' = [ret EXCEPT ![q] = IF HasRoom(q) THEN 0 ELSE -1]
    /\ ppc' = [ppc EXCEPT ![q] = "tell"]
    /\ UNCHANGED <<owned, pending, was_empty, left, broken>> /\ UNCHANGED busVars

\* Mutants: the queue's answer after the push is what counts; every push tells.
TellsBusLate(q) == size[q] = 0 /\ q \in owned
TellsBusAlways(q) == q \in owned

\* The bus is told when the queue was empty before the push.
TellsBus(q) == was_empty[q] /\ q \in owned

\* bus_async_add_queue; linking a node that is still linked breaks the list.
Tell(q) ==
    /\ broken = "no" /\ ppc[q] = "tell"
    /\ IF TellsBus(q)
       THEN /\ pending' = Append(pending, q)
            /\ broken' = IF q \in Range(pending) THEN "pending" ELSE "no"
       ELSE UNCHANGED <<pending, broken>>
    /\ ppc' = [ppc EXCEPT ![q] = "idle"]
    /\ UNCHANGED <<size, owned, was_empty, ret, left>> /\ UNCHANGED busVars

-----------------------------------------------------------------------------
(* The bus thread. *)

\* Will the producer of q ask the bus to add q for a push already made?
WillAsk(q) == q \in Range(pending) \/ (ppc[q] = "tell" /\ was_empty[q])

\* heap_insert, then what is done next; inserting a node twice breaks the heap.
Insert(q) ==
    /\ heap' = heap \cup {q}
    /\ broken' = IF q \in heap THEN "heap" ELSE broken
    /\ early' = IF WillAsk(q) THEN early \cup {q} ELSE early
    /\ UNCHANGED missed

\* The first call of bus_add_queue for q.  The store to ctx is not atomic: a
\* producer may see it later than the bus thread sees the queue.
Register(q) ==
    /\ broken = "no" /\ bpc = "pending" /\ q \notin added
    /\ added' = added \cup {q}
    /\ bq' = q /\ bpc' = "add"
    /\ UNCHANGED <<size, owned, heap, pending, broken, missed, early>>
    /\ UNCHANGED producerVars

CtxVisible(q) ==
    /\ q \in added \ owned
    /\ owned' = owned \cup {q}
    /\ UNCHANGED <<size, pending, broken>>
    /\ UNCHANGED producerVars /\ UNCHANGED busVars

TakePending ==
    /\ broken = "no" /\ bpc = "pending" /\ pending # <<>>
    /\ bq' = Head(pending)
    /\ pending' = Tail(pending)
    /\ bpc' = "add"
    /\ UNCHANGED <<size, owned, added, heap, broken, missed, early>>
    /\ UNCHANGED producerVars

\* The rest of bus_add_queue: an empty queue does not enter the heap.
AddIfNonEmpty ==
    /\ broken = "no" /\ bpc = "add"
    /\ IF size[bq] = 0
       THEN /\ missed' = IF bq \notin owned THEN missed \cup {bq} ELSE missed
            /\ UNCHANGED <<heap, broken, early>>
       ELSE Insert(bq)
    /\ bpc' = "pending"
    /\ UNCHANGED <<size, owned, added, pending, bq>> /\ UNCHANGED producerVars

EndPending ==
    /\ broken = "no" /\ bpc = "pending" /\ pending = <<>>
    /\ bpc' = "pop"
    /\ UNCHANGED <<size, owned, added, heap, pending, bq, broken, missed, early>>
    /\ UNCHANGED producerVars

NothingToPop ==
    /\ broken = "no" /\ bpc = "pop" /\ heap = {}
    /\ bpc' = "pending"
    /\ UNCHANGED <<size, owned, added, heap, pending, bq, broken, missed, early>>
    /\ UNCHANGED producerVars

\* heap_remove and event_queue_pop of the queue that is served.  The release
\* store to the read position makes ctx visible before it.
Pop(q) ==
    /\ broken = "no" /\ bpc = "pop" /\ q \in heap \cap owned
    /\ heap' = heap \ {q}
    /\ size' = [size EXCEPT ![q] = @ - 1]
    /\ bq' = q /\ bpc' = "reinsert"
    /\ UNCHANGED <<owned, added, pending, broken, missed, early>>
    /\ UNCHANGED producerVars

GoesBack(q) == size[q] # 0

\* A queue that still holds events goes back.  The simulation may discard the
\* event and pop the next one without a look at the pending queue.
Reinsert ==
    /\ broken = "no" /\ bpc = "reinsert"
    /\ IF GoesBack(bq)
       THEN Insert(bq)
       ELSE /\ missed' = IF ppc[bq] = "push" /\ ~was_empty[bq]
                         THEN missed \cup {bq} ELSE missed
            /\ UNCHANGED <<heap, broken, early>>
    /\ bpc' \in {"pending", "pop"}
    /\ UNCHANGED <<size, owned, added, pending, bq>> /\ UNCHANGED producerVars

Next ==
    \/ \E q \in Queue : LookEmpty(q) \/ Put(q) \/ Tell(q)
    \/ \E q \in Queue : Register(q) \/ CtxVisible(q) \/ Pop(q)
    \/ TakePending \/ AddIfNonEmpty \/ EndPending \/ NothingToPop \/ Reinsert

Spec == Init /\ [][Next]_vars

-----------------------------------------------------------------------------
(* Properties. *)

\* The values every variable takes.
TypeOK ==
    /\ size \in [Queue -> 0 .. Limit]
    /\ owned \subseteq added /\ added \subseteq Queue /\ heap \subseteq added
    /\ pending \in Seq(Queue)
    /\ ppc \in [Queue -> {"idle", "push", "tell"}]
    /\ was_empty \in [Queue -> BOOLEAN] /\ ret \in [Queue -> {0, -1}]
    /\ left \in [Queue -> 0 .. MaxPush]
    /\ bpc \in {"pending", "add", "pop", "reinsert"} /\ bq \in Queue
    /\ broken \in {"no", "heap", "pending"}
    /\ missed \subseteq Queue /\ early \subseteq Queue

\* event_queue_push asserts that a push to a queue found empty succeeds: only
\* the bus takes events out, so the room is still there.
PushAfterEmptySucceeds ==
    \A q \in Queue : ppc[q] = "tell" /\ was_empty[q] => ret[q] = 0

\* The comparator and the simulation assert that a queue in the heap has a
\* head: that holds as long as no node is linked twice.
HeapHeadsExist == broken = "no" => \A q \in heap : size[q] > 0

\* The assertions of event_queue_push, of the comparator and of the simulation.
AssertionsHold == TypeOK /\ PushAfterEmptySucceeds /\ HeapHeadsExist

\* A queue that holds events while it is in no heap, in no list and in nobody's
\* hands: the bus will never look at it.
Stranded(q) ==
    /\ q \in owned /\ size[q] > 0
    /\ q \notin heap /\ ~WillAsk(q)
    /\ ~(bq = q /\ bpc \in {"add", "reinsert"})

\* "If an event is pushed to an empty queue the bus must be notified"
\* (event_queue.c): no queue is ever stranded.
NothingStranded == \A q \in Queue : ~Stranded(q)

\* There is exactly one window for it: the bus looks at the queue, finds it
\* empty and leaves it, while the producer is between its own look at the queue
\* (not empty then) and its push, or cannot see yet which bus it belongs to.
StrandedOnlyByOverlap == \A q \in Queue : Stranded(q) => q \in missed

\* Once stranded, always stranded: the queue never is empty again, so no later
\* push tells the bus.
StrandedForEver ==
    [][ \A q \in Queue : Stranded(q) => Stranded(q)' ]_vars

\* A node is linked twice only when the bus put the queue in its heap while the
\* producer had pushed to an empty queue and not been heard yet.
LinkedTwiceOnlyByOverlap ==
    /\ broken = "heap" => bq \in early
    /\ broken = "pending" => \E q \in Range(pending) : q \in early

\* What can go wrong between a push and the bus takes one of two overlaps.
LostOnlyByOverlap == StrandedOnlyByOverlap /\ LinkedTwiceOnlyByOverlap
=============================================================================
