----------------------------- MODULE BusAttach ------------------------------
(***************************************************************************)
(* Attaching buses to one another (core/event_bus.c): the source bus keeps *)
(* an array of queues of its own, one per bus_attach, and pushes a         *)
(* reference to every market event it hands out to all of them; each       *)
(* queue belongs to its destination bus, which serves it like any other.   *)
(* Events are counted, not told apart.  All buses are run by one thread;   *)
(* QueueHandoff shows what two threads do to a queue.                      *)
(***************************************************************************)
EXTENDS Integers, Sequences, SequencesExt

CONSTANTS
    Queue,          \* event_queue_t that bus_attach can allocate (a bound)
    Bus,            \* the destination buses
    NoBus,          \* the bus of a queue that is not allocated
    AttachCapacity  \* events an attached queue holds, 10000 in the code

AttachAssumption == NoBus \notin Bus /\ AttachCapacity \in Nat \ {0}

VARIABLES
    attached,   \* attached[] of the source up to attached_count
    ctx,        \* the bus a queue belongs to, NoBus before it is allocated
    content,    \* the number of events in a queue
    heap,       \* the queues in queue_heap[CATEGORY_MARKET] of each bus
    pending,    \* pending_queue of each bus
    corrupt,    \* buses whose heap lost nodes to the removal of an absent one
    destroyed,  \* queues after event_queue_destroy
    skipped     \* history: queues destroyed although their bus kept them

attachVars == <<attached, ctx, content, heap, pending, corrupt, destroyed, skipped>>

AttachInit ==
    /\ attached = <<>>
    /\ ctx = [q \in Queue |-> NoBus]
    /\ content = [q \in Queue |-> 0]
    /\ heap = [b \in Bus |-> {}]
    /\ pending = [b \in Bus |-> <<>>]
    /\ corrupt = {} /\ destroyed = {} /\ skipped = {}

\* bus_attach: the new queue, whichever memory it gets, is empty and enters no
\* heap.
bus_attach(b) ==
    LET fresh == {q \in Queue : ctx[q] = NoBus}
        q == CHOOSE x \in fresh : TRUE
    IN  /\ fresh # {}
        /\ attached' = Append(attached, q)
        /\ ctx' = [ctx EXCEPT ![q] = b]
        /\ UNCHANGED <<content, heap, pending, corrupt, destroyed, skipped>>

\* Mutant: the last entry fills the gap.
WithoutFilled(s, i) ==
    IF i = Len(s) THEN Front(s) ELSE [Front(s) EXCEPT ![i] = Last(s)]

\* The later entries of attached[] move down.
Without(s, i) == RemoveAt(s, i)

\* The loop of bus_detach over attached[] = s, what it leaves and what it takes
\* out: having removed entry i it goes on at i + 1, past the entry that has
\* moved down to i.
Detach(s, b) ==
    LET walk[i \in 0 .. Len(s)] ==
            IF i = 0 THEN [left |-> s, out |-> <<>>]
            ELSE LET w == walk[i - 1]
                 IN  IF i <= Len(w.left) /\ ctx[w.left[i]] = b
                     THEN [left |-> Without(w.left, i), out |-> Append(w.out, w.left[i])]
                     ELSE w
    IN  walk[Len(s)]

\* Mutant: nothing leaves the heap.
RemoveNone(out) == UNCHANGED <<heap, corrupt>>

\* bus_remove_queue for one queue after the other; see Heap for what removing
\* a queue that is not in a heap does to those that are.
RemoveFromHeaps(out) ==
    /\ heap' = [b \in Bus |-> heap[b] \ ToSet(out)]
    /\ corrupt' = corrupt \cup {b \in Bus : \E i \in DOMAIN out :
            /\ ctx[out[i]] = b /\ out[i] \notin heap[b]
            /\ heap[b] \ {out[j] : j \in 1 .. i} # {}}

bus_detach(b) ==
    LET w == Detach(attached, b)
    IN  /\ attached' = w.left
        /\ RemoveFromHeaps(w.out)
        /\ UNCHANGED <<ctx, content, pending, destroyed, skipped>>

\* bus_clear: for entry after entry, all queues of its bus are detached,
\* which moves later entries past the walk, and it alone is destroyed.
ClearWalk ==
    LET walk[i \in 0 .. Len(attached)] ==
            IF i = 0 THEN [left |-> attached, out |-> <<>>, freed |-> <<>>]
            ELSE LET w == walk[i - 1]
                     d == Detach(w.left, ctx[w.left[i]])
                 IN  IF i > Len(w.left) THEN w
                     ELSE [left |-> d.left, out |-> w.out \o d.out,
                           freed |-> Append(w.freed, w.left[i])]
    IN  walk[Len(attached)]

\* The part of bus_clear that is about the attached queues.
ClearAttached ==
    LET w == ClearWalk
        freed == ToSet(w.freed)
    IN  /\ RemoveFromHeaps(w.out)
        /\ attached' = <<>>
        /\ content' = [q \in Queue |-> IF q \in freed THEN 0 ELSE content[q]]
        /\ destroyed' = destroyed \cup freed
        /\ skipped' = skipped \cup (freed \ ToSet(w.out))
        /\ UNCHANGED <<ctx, pending>>

\* event_queue_push asks the bus of a queue it finds empty.
Notifies(q) == content[q] = 0

\* The queues that ask for bus b, one after the other.
Asking(b) ==
    LET asked[i \in 0 .. Len(attached)] ==
            IF i = 0 THEN pending[b]
            ELSE IF ctx[attached[i]] = b /\ Notifies(attached[i])
                 THEN Append(asked[i - 1], attached[i])
                 ELSE asked[i - 1]
    IN  asked[Len(attached)]

\* The end of bus_dequeue: a market event goes to all attached queues; one
\* that is full loses it.
Forward ==
    /\ attached # <<>>
    /\ content' = [q \in Queue |->
          IF q \in ToSet(attached) /\ content[q] < AttachCapacity THEN content[q] + 1
          ELSE content[q]]
    /\ pending' = [b \in Bus |-> Asking(b)]
    /\ UNCHANGED <<attached, ctx, heap, corrupt, destroyed, skipped>>

\* bus_internal_dequeue_queue of bus b: one pending queue is added.
AddPending(b) ==
    LET q == Head(pending[b])
    IN  /\ pending[b] # <<>> /\ b \notin corrupt
        /\ pending' = [pending EXCEPT ![b] = Tail(@)]
        /\ heap' = IF content[q] = 0 THEN heap ELSE [heap EXCEPT ![b] = @ \cup {q}]
        /\ UNCHANGED <<attached, ctx, content, corrupt, destroyed, skipped>>

\* event_pop_form_pipe of bus b, which of its queues is first left open.
PopFrom(b, q) ==
    /\ q \in heap[b] /\ b \notin corrupt
    /\ content[q] > 0
    /\ content' = [content EXCEPT ![q] = @ - 1]
    /\ heap' = IF content[q] = 1 THEN [heap EXCEPT ![b] = @ \ {q}] ELSE heap
    /\ UNCHANGED <<attached, ctx, pending, corrupt, destroyed, skipped>>

AttachNext ==
    \/ ClearAttached
    \/ Forward
    \/ \E b \in Bus :
        \/ bus_attach(b)
        \/ bus_detach(b)
        \/ AddPending(b)
        \/ \E q \in Queue : PopFrom(b, q)

AttachSpec == AttachInit /\ [][AttachNext]_attachVars
-----------------------------------------------------------------------------
(* Properties. *)

AttachTypeOK ==
    /\ attached \in Seq(Queue) /\ IsInjective(attached)
    /\ ctx \in [Queue -> Bus \cup {NoBus}]
    /\ content \in [Queue -> 0 .. AttachCapacity]
    /\ heap \in [Bus -> SUBSET Queue]
    /\ pending \in [Bus -> Seq(Queue)]
    /\ corrupt \subseteq Bus
    /\ destroyed \subseteq Queue /\ skipped \subseteq destroyed

\* Whatever is detached in between: an event forwarded to a bus is in a queue
\* that this bus serves or has been asked to serve, as long as its heap is
\* whole and the queue is still attached.
AttachedAreServed ==
    \A i \in DOMAIN attached :
        LET q == attached[i]
            b == ctx[q]
        IN  content[q] > 0 /\ b \notin corrupt =>
                q \in heap[b] \cup ToSet(pending[b])

\* bus_clear destroys what it walks over, and a detach inside it can skip the
\* very queue it is for: only such a queue is destroyed and still in the heap,
\* or was in the pending list, and it takes three attached queues.
DestroyedInHeapOnlySkipped ==
    \A b \in Bus : \A q \in heap[b] : q \in destroyed => q \in skipped

\* No queue gets out of its bus' sight: what is forwarded is served, and what is
\* destroyed has left the heap, but for the queues that were skipped.
NoneOutOfSight == AttachedAreServed /\ DestroyedInHeapOnlySkipped

\* The loop of bus_detach removes while it walks: it keeps the other buses'
\* queues in their order, and a queue of this bus survives only right behind
\* one that was removed.  bus_clear, which walks and detaches at once, skips
\* none as long as there are two.
SkipsOnlyNeighbours ==
    [][/\ \A b \in Bus : bus_detach(b) =>
            /\ \A i \in DOMAIN attached :
                 IF ctx[attached[i]] # b THEN attached[i] \in ToSet(attached')
                 ELSE attached[i] \in ToSet(attached') =>
                        i > 1 /\ ctx[attached[i - 1]] = b
                              /\ attached[i - 1] \notin ToSet(attached')
            /\ \A k, l \in DOMAIN attached' : k < l =>
                 \E i, j \in DOMAIN attached :
                    i < j /\ attached[i] = attached'[k] /\ attached[j] = attached'[l]
       /\ ClearAttached /\ Len(attached) <= 2 => skipped' = skipped]_attachVars

\* queue_less_than asserts that both queues have a first event.
HeapQueuesHoldEvents ==
    \A b \in Bus \ corrupt : \A q \in heap[b] : content[q] > 0
=============================================================================
