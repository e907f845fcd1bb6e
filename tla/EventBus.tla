------------------------------ MODULE EventBus ------------------------------
(***************************************************************************)
(* The event bus of one context, core/event_bus.c with core/event_queue.c: *)
(* queues of events grouped in four categories, a heap of non-empty queues *)
(* per category, a list of queues that asked to be added (pending), timers *)
(* on two clocks and one saved market event.  bus_dequeue is taken apart   *)
(* into the steps between which another thread can push; a push and a pop  *)
(* are single steps here (SPSCQueue shows what the ring buffer promises,   *)
(* QueueHandoff what happens between the reads of a push and of a pop).    *)
(* A heap is the set of its nodes and its minimum the node no other is     *)
(* less than; that this is well defined is StartIdsUnique.                 *)
(***************************************************************************)
EXTENDS Integers, Sequences, FiniteSets, Functions

CONSTANTS
    Queue,           \* event_queue_t
    Category,        \* Category[q]: the pipe of queue q
    Event,           \* event_t
    EventCategory,   \* EventCategory[e]: the kind of queue e is pushed to
    EventType,       \* EventType[e]: what the bus tells apart
    Stamp,           \* Stamp[e]: the timestamp e is created with
    Timer,           \* reminder_event_t
    ClockType,       \* ClockType[t]: "local" or "exchange"
    Repeat,          \* Repeat[t]: the period of t, 0 if it fires once
    Mode,            \* "simulation" or "realtime"
    MaxTime,         \* bound on the times that are tried
    MaxAttach,       \* bound on the number of attached queues
    AttachCapacity,  \* what an attached queue can hold
    MaxCounter,      \* bound: no removed queue is added again from here on
    NULL

Categories == {"market", "execution", "service", "command"}
Clocks == {"local", "exchange"}
Time == 0 .. MaxTime
MIN_DATE_TIME == 0

ASSUME QueueAssumption == Category \in [Queue -> Categories]
ASSUME EventAssumption ==
    /\ EventCategory \in [Event -> Categories]
    /\ EventType \in [Event -> {"tick", "plain", "queue", "progress", "stop"}]
    /\ Stamp \in [Event -> Nat]
ASSUME TimerAssumption ==
    /\ ClockType \in [Timer -> Clocks]
    /\ Repeat \in [Timer -> Nat]
ASSUME BoundAssumption ==
    /\ Mode \in {"simulation", "realtime"}
    /\ MaxTime \in Nat /\ MaxAttach \in Nat
    /\ AttachCapacity \in Nat /\ MaxCounter \in Nat
ASSUME PointerAssumption ==
    /\ NULL \notin Event \cup Timer \cup Queue
    /\ Event \cap Timer = {} /\ Queue \cap Timer = {}

VARIABLES
    content,    \* the events in each queue
    owned,      \* the queues whose ctx points to this bus
    removed,    \* history: the queues taken out with bus_remove_queue
    heap,       \* the queues in queue_heap
    pending,    \* pending_queue
    start_id,   \* start_id of queues and of timers
    counter,    \* the next start_id
    timers,     \* the timers in timer_heap
    timeout,    \* when each timer is due
    timestamp,  \* the timestamp field of events and of timers
    time,       \* time[CLOCK_LOCAL] and time[CLOCK_EXCHANGE]
    now,        \* datetime_now()
    saved,      \* saved_event
    stopped,    \* is_simulator_stop
    attached,   \* what the attached queues hold, in the order of attached[]
    pc,         \* where bus_dequeue is, "idle" outside
    returned,   \* what the last bus_dequeue returned
    passed,     \* history: passed[q], the queues served while q waited
    pushed,     \* history: everything ever pushed to each queue
    done,       \* history: the events bus_dequeue has returned
    dropped     \* history: the events bus_dequeue has discarded

queueVars == <<content, owned, removed, heap, pending, passed>>
timerVars == <<timers, timeout>>
clockVars == <<time, now>>
historyVars == <<pushed, done, dropped>>
vars == <<content, owned, removed, heap, pending, start_id, counter, timers,
          timeout, timestamp, time, now, saved, stopped, attached, pc,
          returned, passed, pushed, done, dropped>>

\* bus_init, on queues that are empty and belong to no bus.
Init ==
    /\ content = [q \in Queue |-> <<>>]
    /\ owned = {} /\ removed = {} /\ heap = {} /\ pending = <<>>
    /\ start_id = [x \in Queue \cup Timer |-> 0]
    /\ counter = 1
    /\ timers = {}
    /\ timeout = [t \in Timer |-> 0]
    /\ timestamp = [x \in Event \cup Timer |-> IF x \in Event THEN Stamp[x] ELSE 0]
    /\ time = [c \in Clocks |-> MIN_DATE_TIME]
    /\ now = MIN_DATE_TIME
    /\ saved = NULL /\ stopped = FALSE /\ attached = <<>>
    /\ pc = "idle" /\ returned = NULL
    /\ passed = [q \in Queue |-> {}]
    /\ pushed = [q \in Queue |-> <<>>] /\ done = {} /\ dropped = {}

-----------------------------------------------------------------------------
(* The heaps. *)

Pipe(c) == {q \in heap : Category[q] = c}

\* Earliest head first; among equals the queue that was inserted first.
queue_less_than(p, q) ==
    LET a == timestamp[Head(content[p])]
        b == timestamp[Head(content[q])]
    IN  a < b \/ (a = b /\ start_id[p] < start_id[q])

PipeMin(c) ==
    CHOOSE q \in Pipe(c) : \A p \in Pipe(c) : ~queue_less_than(p, q)

TimersOn(k) == {t \in timers : ClockType[t] = k}

timer_less_than(s, t) ==
    \/ timeout[s] < timeout[t]
    \/ timeout[s] = timeout[t] /\ start_id[s] < start_id[t]

TimerMin(k) ==
    CHOOSE t \in TimersOn(k) : \A s \in TimersOn(k) : ~timer_less_than(s, t)

\* Mutant: a node keeps the id it had.
TakeNoId(x) == UNCHANGED <<start_id, counter>>

\* A node that enters a heap draws the next start_id.
TakeId(x) ==
    /\ start_id' = [start_id EXCEPT ![x] = counter]
    /\ counter' = counter + 1

\* event_pop_form_pipe: take the head of queue q out; a queue that still
\* holds events goes back behind the others with the same timestamp.
PopFrom(q) ==
    /\ content' = [content EXCEPT ![q] = Tail(@)]
    /\ IF Tail(content[q]) = <<>>
       THEN /\ heap' = heap \ {q}
            /\ UNCHANGED <<start_id, counter>>
       ELSE TakeId(q) /\ UNCHANGED heap
    /\ passed' = [p \in Queue |->
                    CASE p = q -> {}
                      [] p \in Pipe(Category[q]) \ {q} -> passed[p] \cup {q}
                      [] OTHER -> passed[p]]
    /\ UNCHANGED <<owned, removed, pending>>

\* timer_heap_pop: a repeating timer is put back for its next period.
PopTimer(t) ==
    IF Repeat[t] = 0
    THEN /\ timers' = timers \ {t}
         /\ UNCHANGED <<timeout, start_id, counter>>
    ELSE /\ timeout' = [timeout EXCEPT ![t] = @ + Repeat[t]]
         /\ TakeId(t)
         /\ UNCHANGED timers

\* bus_add_queue: an empty queue only learns which bus it belongs to.
AddTo(q) ==
    /\ owned' = owned \cup {q}
    /\ TakeId(q)
    /\ heap' = IF content[q] = <<>> THEN heap ELSE heap \cup {q}
    /\ passed' = [passed EXCEPT ![q] = {}]

-----------------------------------------------------------------------------
(* The operations other than bus_dequeue. *)

\* Mutant: every push asks, whatever the queue holds.
NotifiesAlways(q) == q \in owned

\* Mutant: only a queue without a bus asks.
NotifiesUnowned(q) == content[q] = <<>> /\ q \notin owned

\* Does a push to queue q ask the bus to add it?
Notifies(q) == content[q] = <<>> /\ q \in owned

\* event_queue_push, from any thread.
Push(q, e) ==
    /\ Category[q] = EventCategory[e]
    /\ \A p \in Queue : e \notin Range(pushed[p])
    /\ content' = [content EXCEPT ![q] = Append(@, e)]
    /\ pushed' = [pushed EXCEPT ![q] = Append(@, e)]
    /\ pending' = IF Notifies(q) THEN Append(pending, q) ELSE pending
    /\ UNCHANGED <<owned, removed, heap, passed, start_id, counter, timestamp,
                   saved, stopped, attached, pc, returned, done, dropped>>
    /\ UNCHANGED timerVars /\ UNCHANGED clockVars

\* bus_add_queue by the caller: a new queue, or one it has removed before.
AddQueue(q) ==
    /\ pc = "idle"
    /\ q \notin owned \/ (q \in removed /\ counter < MaxCounter)
    /\ AddTo(q)
    /\ removed' = removed \ {q}
    /\ UNCHANGED <<content, pending, timestamp, saved, stopped, attached, pc,
                   returned>>
    /\ UNCHANGED timerVars /\ UNCHANGED clockVars /\ UNCHANGED historyVars

\* bus_remove_queue; removing a queue that is in no heap corrupts the heap.
RemoveQueue(q) ==
    /\ pc = "idle" /\ q \in heap
    /\ heap' = heap \ {q}
    /\ removed' = removed \cup {q}
    /\ UNCHANGED <<content, owned, pending, passed, start_id, counter, timestamp,
                   saved, stopped, attached, pc, returned>>
    /\ UNCHANGED timerVars /\ UNCHANGED clockVars /\ UNCHANGED historyVars

\* bus_add_timer; a timer is added once (bound).
AddTimer(t, x) ==
    /\ pc = "idle" /\ start_id[t] = 0
    /\ timeout' = [timeout EXCEPT ![t] = x]
    /\ timestamp' = [timestamp EXCEPT ![t] = x]
    /\ TakeId(t)
    /\ timers' = timers \cup {t}
    /\ UNCHANGED <<saved, stopped, attached, pc, returned>>
    /\ UNCHANGED queueVars /\ UNCHANGED clockVars /\ UNCHANGED historyVars

RemoveTimer(t) ==
    /\ pc = "idle" /\ t \in timers
    /\ timers' = timers \ {t}
    /\ UNCHANGED <<timeout, start_id, counter, timestamp, saved, stopped,
                   attached, pc, returned>>
    /\ UNCHANGED queueVars /\ UNCHANGED clockVars /\ UNCHANGED historyVars

\* bus_timer_dequeue, which asks no clock (bound: up to MaxTime).  What it
\* returns is kept apart from the answers of bus_dequeue: nobody sets the clock
\* to a timer that is not due.
TimerDequeue(k) ==
    /\ pc = "idle" /\ TimersOn(k) # {}
    /\ timeout[TimerMin(k)] <= MaxTime
    /\ PopTimer(TimerMin(k))
    /\ UNCHANGED <<timestamp, saved, stopped, attached, pc, returned>>
    /\ UNCHANGED queueVars /\ UNCHANGED clockVars /\ UNCHANGED historyVars

\* The handler of a market event or of a timer sets the clock to its
\* timestamp; bus_set_time and bus_set_exchange_time refuse to go back.
SetTime(k) ==
    /\ pc = "idle"
    /\ Mode = "simulation" \/ k = "exchange"
    /\ \/ returned \in Event /\ EventCategory[returned] = "market"
       \/ returned \in Timer /\ ClockType[returned] = k
    /\ timestamp[returned] >= time[k]
    /\ time' = [time EXCEPT ![k] = timestamp[returned]]
    /\ UNCHANGED <<start_id, counter, timestamp, now, saved, stopped, attached,
                   pc, returned>>
    /\ UNCHANGED queueVars /\ UNCHANGED timerVars /\ UNCHANGED historyVars

\* The wall clock, which only the realtime mode reads.
Tick ==
    /\ Mode = "realtime" /\ now < MaxTime
    /\ now' = now + 1
    /\ UNCHANGED <<start_id, counter, timestamp, time, saved, stopped, attached,
                   pc, returned>>
    /\ UNCHANGED queueVars /\ UNCHANGED timerVars /\ UNCHANGED historyVars

\* bus_attach on the source side: one more queue to forward to.
Attach ==
    /\ pc = "idle" /\ Len(attached) < MaxAttach
    /\ attached' = Append(attached, <<>>)
    /\ UNCHANGED <<start_id, counter, timestamp, saved, stopped, pc, returned>>
    /\ UNCHANGED queueVars /\ UNCHANGED timerVars
    /\ UNCHANGED clockVars /\ UNCHANGED historyVars

-----------------------------------------------------------------------------
(* bus_dequeue. *)

Dequeue ==
    /\ pc = "idle"
    /\ pc' = "pending"
    /\ UNCHANGED <<start_id, counter, timestamp, saved, stopped, attached, returned>>
    /\ UNCHANGED queueVars /\ UNCHANGED timerVars
    /\ UNCHANGED clockVars /\ UNCHANGED historyVars

\* check_pending_queue: add the queues that asked for it, one by one.
AddPending ==
    /\ pc = "pending" /\ pending # <<>>
    /\ AddTo(Head(pending))
    /\ pending' = Tail(pending)
    /\ UNCHANGED <<content, removed, timestamp, saved, stopped, attached, pc, returned>>
    /\ UNCHANGED timerVars /\ UNCHANGED clockVars /\ UNCHANGED historyVars

\* mpscq_pop answers NULL: nobody asks, or the push of the oldest request is
\* still under way and hides the ones behind it.
EndPending ==
    /\ pc = "pending"
    /\ pc' = "market"
    /\ UNCHANGED <<start_id, counter, timestamp, saved, stopped, attached, returned>>
    /\ UNCHANGED queueVars /\ UNCHANGED timerVars
    /\ UNCHANGED clockVars /\ UNCHANGED historyVars

\* Mutant: the saved event is not looked at.
FetchesOverSaved == Pipe("market") # {}

FetchesMarket == Pipe("market") # {} /\ saved = NULL

\* Mutant: nothing is late.
NeverLate(e) == FALSE

\* Too old to be delivered in a simulation.
IsLate(e) == timestamp[e] < time["local"]

\* QUEUE_OPEN, QUEUE_CLOSE and SIMULATOR_PROGRESS are delivered all the same.
KeptWhenLate(e) == EventType[e] \in {"queue", "progress"}

Discarded(e) ==
    /\ Mode = "simulation"
    /\ EventType[e] = "stop" \/ (IsLate(e) /\ ~KeptWhenLate(e))

\* One round of the loop of bus_simualtion_dequeue that ends in "goto again".
Discard ==
    /\ pc = "market" /\ FetchesMarket
    /\ LET q == PipeMin("market")
           e == Head(content[q])
       IN  /\ Discarded(e)
           /\ PopFrom(q)
           /\ dropped' = dropped \cup {e}
           /\ stopped' = (stopped \/ EventType[e] = "stop")
    /\ UNCHANGED <<timestamp, saved, attached, pc, returned, pushed, done>>
    /\ UNCHANGED timerVars /\ UNCHANGED clockVars

\* The next market event is put aside, a late one with the bus's time.
Save ==
    /\ pc = "market" /\ FetchesMarket
    /\ LET q == PipeMin("market")
           e == Head(content[q])
       IN  /\ ~Discarded(e)
           /\ PopFrom(q)
           /\ saved' = e
           /\ timestamp' =
                IF Mode = "simulation" /\ IsLate(e)
                THEN [timestamp EXCEPT ![e] = time["local"]]
                ELSE timestamp
    /\ pc' = "select"
    /\ UNCHANGED <<stopped, attached, returned>>
    /\ UNCHANGED timerVars /\ UNCHANGED clockVars /\ UNCHANGED historyVars

NoMarket ==
    /\ pc = "market" /\ ~FetchesMarket
    /\ pc' = "select"
    /\ UNCHANGED <<start_id, counter, timestamp, saved, stopped, attached, returned>>
    /\ UNCHANGED queueVars /\ UNCHANGED timerVars
    /\ UNCHANGED clockVars /\ UNCHANGED historyVars

\* Mutant: a timer due at the time of the saved event waits.
TimerIsPast(k) ==
    /\ TimersOn(k) # {}
    /\ saved # NULL
    /\ k = "exchange" => EventType[saved] = "tick"
    /\ timeout[TimerMin(k)] < timestamp[saved]

\* Is the first timer of clock k due before the saved event, or by now?
TimerIsDue(k) ==
    /\ TimersOn(k) # {}
    /\ IF k = "local" /\ Mode = "realtime"
       THEN timeout[TimerMin(k)] <= now
       ELSE /\ saved # NULL
            /\ k = "exchange" => EventType[saved] = "tick"
            /\ timeout[TimerMin(k)] <= timestamp[saved]

ReturnTimer(k) ==
    /\ pc = "select" /\ TimerIsDue(k)
    /\ k = "exchange" => ~TimerIsDue("local")
    /\ returned' = TimerMin(k)
    /\ PopTimer(TimerMin(k))
    /\ pc' = "idle"
    /\ UNCHANGED <<timestamp, saved, stopped, attached>>
    /\ UNCHANGED queueVars /\ UNCHANGED clockVars /\ UNCHANGED historyVars

NoTimerDue == \A k \in Clocks : ~TimerIsDue(k)

\* The pipes that are served before the saved market event.
PipeOrder ==
    IF Mode = "simulation" THEN <<"execution", "service", "command">>
                           ELSE <<"execution", "command", "service">>

ReturnPiped(i) ==
    /\ pc = "select" /\ NoTimerDue
    /\ Pipe(PipeOrder[i]) # {}
    /\ \A j \in 1 .. i - 1 : Pipe(PipeOrder[j]) = {}
    /\ LET q == PipeMin(PipeOrder[i])
       IN  /\ returned' = Head(content[q])
           /\ done' = done \cup {Head(content[q])}
           /\ PopFrom(q)
    /\ pc' = "idle"
    /\ UNCHANGED <<timestamp, saved, stopped, attached, pushed, dropped>>
    /\ UNCHANGED timerVars /\ UNCHANGED clockVars

NothingPiped == \A i \in 1 .. 3 : Pipe(PipeOrder[i]) = {}

\* Mutant: every event is forwarded.
ForwardAll(e) ==
    [i \in DOMAIN attached |->
        IF Len(attached[i]) < AttachCapacity THEN Append(attached[i], e)
                                             ELSE attached[i]]

\* The saved event goes to every attached queue that has room, in a
\* simulation and unless it opens or closes a queue.
Forward(e) ==
    IF Mode = "simulation" /\ EventType[e] # "queue"
    THEN [i \in DOMAIN attached |->
            IF Len(attached[i]) < AttachCapacity THEN Append(attached[i], e)
                                                 ELSE attached[i]]
    ELSE attached

ReturnSaved ==
    /\ pc = "select" /\ NoTimerDue /\ NothingPiped /\ saved # NULL
    /\ returned' = saved
    /\ done' = done \cup {saved}
    /\ saved' = NULL
    /\ attached' = Forward(saved)
    /\ pc' = "idle"
    /\ UNCHANGED <<start_id, counter, timestamp, stopped, pushed, dropped>>
    /\ UNCHANGED queueVars /\ UNCHANGED timerVars /\ UNCHANGED clockVars

ReturnNothing ==
    /\ pc = "select" /\ NoTimerDue /\ NothingPiped /\ saved = NULL
    /\ returned' = NULL
    /\ pc' = "idle"
    /\ UNCHANGED <<start_id, counter, timestamp, saved, stopped, attached>>
    /\ UNCHANGED queueVars /\ UNCHANGED timerVars
    /\ UNCHANGED clockVars /\ UNCHANGED historyVars

BusStep ==
    \/ Dequeue \/ AddPending \/ EndPending
    \/ Discard \/ Save \/ NoMarket
    \/ \E k \in Clocks : ReturnTimer(k)
    \/ \E i \in 1 .. 3 : ReturnPiped(i)
    \/ ReturnSaved \/ ReturnNothing

Next ==
    \/ \E q \in Queue, e \in Event : Push(q, e)
    \/ \E q \in Queue : AddQueue(q) \/ RemoveQueue(q)
    \/ \E t \in Timer : (\E x \in Time : AddTimer(t, x)) \/ RemoveTimer(t)
    \/ \E k \in Clocks : TimerDequeue(k) \/ SetTime(k)
    \/ Tick \/ Attach
    \/ BusStep

Spec == Init /\ [][Next]_vars

\* ctx_run calls bus_dequeue again and again, and a push to the pending queue
\* that has begun is completed (MPSCQueue's EventuallyPopped).
FairSpec == Spec /\ WF_vars(BusStep) /\ SF_vars(AddPending)

-----------------------------------------------------------------------------
(* Properties. *)

\* The values every variable takes.
TypeOK ==
    /\ content \in [Queue -> Seq(Event)]
    /\ owned \subseteq Queue /\ removed \subseteq owned /\ heap \subseteq owned
    /\ pending \in Seq(Queue) /\ passed \in [Queue -> SUBSET Queue]
    /\ start_id \in [Queue \cup Timer -> Nat] /\ counter \in Nat \ {0}
    /\ timers \subseteq Timer /\ timeout \in [Timer -> Nat]
    /\ timestamp \in [Event \cup Timer -> Nat]
    /\ time \in [Clocks -> Nat] /\ now \in Nat
    /\ saved \in Event \cup {NULL} /\ stopped \in BOOLEAN
    /\ attached \in Seq(Seq(Event))
    /\ pc \in {"idle", "pending", "market", "select"}
    /\ returned \in Event \cup Timer \cup {NULL}
    /\ pushed \in [Queue -> Seq(Event)]
    /\ done \subseteq Event /\ dropped \subseteq Event

\* No queue with events is forgotten, no empty queue is ever compared
\* (queue_less_than asserts both heads), and no queue is put in a heap twice:
\* a queue of the bus that holds events is either in its heap or waiting once
\* in the pending queue, whatever producers push while bus_dequeue runs.
NoStrandedQueue ==
    \A q \in owned \ removed :
        content[q] # <<>> => q \in heap \/ q \in Range(pending)

HeapQueuesNonEmpty == \A q \in heap : content[q] # <<>> /\ q \notin removed

PendingOnce ==
    /\ IsInjective(pending)
    /\ \A i \in DOMAIN pending :
          /\ pending[i] \in owned \ (heap \cup removed)
          /\ content[pending[i]] # <<>>

HeapMembership == NoStrandedQueue /\ HeapQueuesNonEmpty /\ PendingOnce

\* Start ids never repeat among the nodes of a heap, so the comparators order
\* them totally and the order among equal timestamps is first come first
\* served.
StartIdsUnique ==
    \A x, y \in heap \cup timers :
        start_id[x] < counter /\ (start_id[x] = start_id[y] => x = y)

\* Every event ever pushed to a queue is in one place: returned or discarded,
\* saved, or still in its queue; it leaves its queue in the order of pushes.
FifoConservation ==
    \A q \in Queue : \E n \in 0 .. Len(pushed[q]) :
        /\ content[q] = SubSeq(pushed[q], n + 1, Len(pushed[q]))
        /\ \A i \in DOMAIN pushed[q] :
              LET e == pushed[q][i]
                  places == {p \in {"done", "dropped", "saved"} :
                                \/ p = "done" /\ e \in done
                                \/ p = "dropped" /\ e \in dropped
                                \/ p = "saved" /\ e = saved}
              IN  Cardinality(places) = IF i <= n THEN 1 ELSE 0

\* A simulation whose handlers set the clock to the market events and the
\* timers they are given never goes back in time: the lateness check is made
\* when an event is saved, and nothing delivered before it moves the clock
\* past it.
SavedNotLate ==
    Mode = "simulation" /\ saved # NULL => timestamp[saved] >= time["local"]

\* A market event leaves the bus only after every timer due by then: on the
\* local clock for any event, on the exchange clock for a tick.
TimersBeforeMarket ==
    [][ /\ Mode = "simulation"
        /\ saved # NULL /\ saved' = NULL
        => \A t \in timers :
             \/ ClockType[t] = "exchange" /\ EventType[saved] # "tick"
             \/ timeout[t] > timestamp[saved] ]_vars

\* Queue p has just been served.
Served(p) == content'[p] # content[p] /\ Len(content'[p]) < Len(content[p])

\* Round robin: a queue that was served while another of its pipe was waiting
\* goes before that one again only with a strictly earlier event.
RoundRobin ==
    [][ \A p, q \in heap :
            Served(p) /\ p \in passed[q] =>
                timestamp[Head(content[p])] < timestamp[Head(content[q])] ]_vars

\* Every event pushed to a queue of the bus is returned or discarded in the
\* end, unless the queue is removed, as long as bus_dequeue is called.
EventuallyHandled ==
    \A q \in Queue, e \in Event :
        (q \in owned /\ e \in Range(content[q]))
            ~> (e \in done \cup dropped \/ q \in removed)

\* Only the events the simulation may discard are: stop events and events
\* older than the clock.
DroppedOnlyLate ==
    \A e \in dropped :
        /\ Mode = "simulation" /\ EventCategory[e] = "market"
        /\ \/ EventType[e] = "stop"
           \/ /\ timestamp[e] < time["local"]
              /\ EventType[e] \notin {"queue", "progress"}

\* An event that was pushed is in one place, and nothing is lost but what the
\* simulation may discard.
Conserved == FifoConservation /\ DroppedOnlyLate

\* An attached queue holds events the bus has returned, each once and never
\* a queue's opening or closing; a queue attached later holds the same events
\* as an earlier one since then, as long as neither has overflowed.
ForwardedOnce ==
    \A i \in DOMAIN attached :
        /\ \A m, n \in DOMAIN attached[i] : attached[i][m] = attached[i][n] => m = n
        /\ \A e \in Range(attached[i]) :
              e \in done /\ EventCategory[e] = "market" /\ EventType[e] # "queue"
        /\ \A j \in 1 .. i - 1 :
              LET n == Len(attached[j]) IN
              n < AttachCapacity =>
                /\ Len(attached[i]) <= n
                /\ attached[i] = SubSeq(attached[j], n - Len(attached[i]) + 1, n)
=============================================================================
