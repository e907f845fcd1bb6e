---------------------------- MODULE ContextLoop -----------------------------
(***************************************************************************)
(* The loop of a context, core/context.c, on a bus in real time: callbacks *)
(* posted from other threads, queues that ask to be added to the bus, one  *)
(* event per turn, local timers, and the condition variable the loop waits *)
(* on when no timer is due.  The two lists are the mpscq of MPSCQueue: a   *)
(* push takes its place first and is linked in a later step, and pop gives *)
(* nothing while the link it needs is missing.  Which queue is served      *)
(* first, and what becomes of an event, is the matter of EventBus,         *)
(* BusAttach and Dispatcher: here a queue holds one event, and the order   *)
(* is open.                                                                *)
(***************************************************************************)
EXTENDS Integers, Sequences, SequencesExt, FiniteSets

CONSTANTS
    Callback,    \* async_t, each posted once
    Queue,       \* event queues, each filled once from another thread
    Timer,       \* local reminders, each added at most once by the loop
    MaxTime,     \* bound: the clock stands still there, all timers are due
    NsPerTick,   \* the nanoseconds that really are in a microsecond
    NULL

LoopAssumption ==
    /\ MaxTime \in Nat /\ NsPerTick \in Nat \ {0}
    /\ NULL \notin Callback \cup Queue \cup Timer
    /\ Callback \cap Queue = {} /\ (Callback \cup Queue) \cap Timer = {}

VARIABLES
    list,       \* async_queue and pending_queue: the items, in place order
    linked,     \* the items that their predecessor points to
    ready,      \* the queues in the bus' heaps
    due,        \* the local timers and when they are due
    now,        \* datetime_now()
    stop_flag,
    pc,         \* where ctx_run is; "out" outside of it
    mode,       \* the mode ctx_run was called with
    e,          \* what bus_dequeue has returned
    timeout,    \* the local variable, and while asleep what is left of it
    at,         \* where the thread that posts an item is
    missed,     \* history: items whose signal found the loop awake
    done,       \* history: the callbacks called and events dispatched, in order
    handled,    \* history: how many events this ctx_run has dispatched
    placed,     \* history: the items in the order they took their place
    after,      \* history: how many events were dispatched after a stop
    freed       \* history: the async_t that ctx_destroy has freed

sendVars == <<at, missed, placed>>
vars == <<list, linked, ready, due, now, stop_flag, pc, mode, e, timeout, at, missed,
          done, handled, placed, after, freed>>

RunModes == {"default", "once", "nowait"}

Item == Callback \cup Queue
ListOf(i) == IF i \in Callback THEN "async" ELSE "pending"

\* ctx_init and bus_init
Init ==
    /\ list = [l \in {"async", "pending"} |-> <<>>] /\ linked = {}
    /\ ready = {} /\ due = <<>> /\ now = 0 /\ stop_flag = 0
    /\ pc = "out" /\ mode = "default" /\ e = NULL /\ timeout = 0
    /\ at = [i \in Item |-> "start"] /\ missed = {}
    /\ done = <<>> /\ handled = 0 /\ freed = {} /\ placed = <<>> /\ after = 0

Destroyed == pc = "destroyed"

-----------------------------------------------------------------------------
(* ctx_async_post, and event_queue_push with bus_async_add_queue.          *)

\* mpscq_push takes its place in the list...
Exchange(i) ==
    /\ at[i] = "start" /\ ~Destroyed
    /\ list' = [list EXCEPT ![ListOf(i)] = Append(@, i)]
    /\ placed' = Append(placed, i)
    /\ at' = [at EXCEPT ![i] = "link"]
    /\ UNCHANGED <<mode, linked, ready, due, now, stop_flag, pc, e, timeout,
                   missed, done, handled, after, freed>>

\* ...and links the item in.
Link(i) ==
    /\ at[i] = "link"
    /\ linked' = linked \cup {i}
    /\ at' = [at EXCEPT ![i] = "signal"]
    /\ UNCHANGED <<mode, list, ready, due, now, stop_flag, pc, e, timeout,
                   missed, done, handled, after, freed, placed>>

\* Mutant: a queue that asks to be added is not worth waking up for.
WakesForCallbacks(i) == pc = "asleep" /\ i \in Callback

Wakes(i) == pc = "asleep"

\* ctx_wakeup: a signal that finds nobody waiting leaves no trace.
ctx_wakeup(i) ==
    /\ at[i] = "signal"
    /\ at' = [at EXCEPT ![i] = "sent"]
    /\ pc' = IF Wakes(i) THEN "top" ELSE pc
    /\ missed' = IF pc = "asleep" THEN missed ELSE missed \cup {i}
    /\ UNCHANGED <<mode, list, linked, ready, due, now, stop_flag, e, timeout,
                   done, handled, after, freed, placed>>

\* ctx_stop, from any thread: nothing is signalled.
ctx_stop ==
    /\ ~Destroyed
    /\ stop_flag' = 1
    /\ UNCHANGED <<mode, list, linked, ready, due, now, pc, e, timeout, done,
                   handled, after, freed>>
    /\ UNCHANGED sendVars

\* The clock; a wait lasts NsPerTick times too short, for its microseconds are
\* taken for nanoseconds.
Tick ==
    /\ now < MaxTime \/ (pc = "asleep" /\ timeout > 0)
    /\ now' = IF now < MaxTime THEN now + 1 ELSE now
    /\ timeout' = IF pc = "asleep" /\ timeout > 0 THEN timeout - 1 ELSE timeout
    /\ UNCHANGED <<mode, list, linked, ready, due, stop_flag, pc, e, done,
                   handled, after, freed>>
    /\ UNCHANGED sendVars

-----------------------------------------------------------------------------
(* ctx_run.                                                                *)

Run ==
    /\ pc = "out"
    /\ mode' \in RunModes
    /\ pc' = "top" /\ handled' = 0
    /\ UNCHANGED <<list, linked, ready, due, now, stop_flag, e, timeout, done,
                   after, freed>>
    /\ UNCHANGED sendVars

Go(from, to) == pc = from /\ pc' = to

Continues == stop_flag = 0

Top ==
    /\ Go("top", IF Continues THEN "async" ELSE "out")
    /\ UNCHANGED <<mode, list, linked, ready, due, now, stop_flag, e, timeout,
                   done, handled, after, freed>>
    /\ UNCHANGED sendVars

\* Mutant: an item waits for its successor even if it is the last.
CanPopWithSuccessor(l) ==
    Len(list[l]) > 1 /\ list[l][1] \in linked /\ list[l][2] \in linked

\* mpscq_pop gives the first item when its successor, if any, is linked too.
CanPop(l) ==
    /\ list[l] # <<>> /\ list[l][1] \in linked
    /\ Len(list[l]) > 1 => list[l][2] \in linked

\* Mutant: the second item is unlinked instead of the first.
PopSecond(l) ==
    list' = [list EXCEPT ![l] = IF Len(@) > 1 THEN <<@[1]>> \o Tail(Tail(@)) ELSE <<>>]

PopFirst(l) == list' = [list EXCEPT ![l] = Tail(@)]

\* What a callback or handler may do, from outside this code: nothing, stop
\* the loop or add a local timer.
UserCode ==
    \/ UNCHANGED <<stop_flag, due>>
    \/ stop_flag' = 1 /\ UNCHANGED due
    \/ /\ UNCHANGED stop_flag
       /\ \E t \in Timer \ DOMAIN due, d \in 1 .. MaxTime :
            /\ t \notin ToSet(done) \cup {e}
            /\ due' = [s \in DOMAIN due \cup {t} |-> IF s = t THEN d ELSE due[s]]

CallNext ==
    /\ Go("async", "async") /\ CanPop("async")
    /\ PopFirst("async") /\ UserCode
    /\ done' = Append(done, Head(list["async"]))
    /\ UNCHANGED <<mode, linked, ready, now, e, timeout, handled, after, freed>>
    /\ UNCHANGED sendVars

CallsEnd ==
    /\ Go("async", "pending") /\ ~CanPop("async")
    /\ UNCHANGED <<mode, list, linked, ready, due, now, stop_flag, e, timeout,
                   done, handled, after, freed>>
    /\ UNCHANGED sendVars

\* check_pending_queue
AddPending ==
    /\ Go("pending", "pending") /\ CanPop("pending")
    /\ PopFirst("pending") /\ ready' = ready \cup {Head(list["pending"])}
    /\ UNCHANGED <<mode, linked, due, now, stop_flag, e, timeout, done,
                   handled, after, freed>>
    /\ UNCHANGED sendVars

PendingEnd ==
    /\ Go("pending", "dequeue") /\ ~CanPop("pending")
    /\ UNCHANGED <<mode, list, linked, ready, due, now, stop_flag, e, timeout,
                   done, handled, after, freed>>
    /\ UNCHANGED sendVars

Earliest == {t \in DOMAIN due : \A s \in DOMAIN due : due[t] <= due[s]}

\* bus_realtime_dequeue: a local timer that is due comes before the queues.
Dequeue ==
    /\ pc = "dequeue"
    /\ IF \E t \in Earliest : due[t] <= now
       THEN \E t \in Earliest :
                /\ e' = t /\ UNCHANGED ready
                /\ due' = [s \in DOMAIN due \ {t} |-> due[s]]
       ELSE /\ e' \in (IF ready = {} THEN {NULL} ELSE ready)
            /\ ready' = ready \ {e'} /\ UNCHANGED due
    /\ pc' = IF e' = NULL THEN "mode" ELSE "dispatch"
    /\ UNCHANGED <<mode, list, linked, now, stop_flag, timeout, done, handled,
                   after, freed>>
    /\ UNCHANGED sendVars

Dispatch ==
    /\ Go("dispatch", "mode") /\ UserCode
    /\ done' = Append(done, e) /\ handled' = handled + 1 /\ after' = after + stop_flag
    /\ UNCHANGED <<mode, list, linked, ready, now, e, timeout, freed>>
    /\ UNCHANGED sendVars

\* Mutant: one turn is enough for RUN_ONCE, event or not.
LeavesAtOnce == mode # "default"

Leaves == mode = "nowait" \/ (mode = "once" /\ e # NULL)

Mode ==
    /\ Go("mode", IF Leaves THEN "out" ELSE "timeout")
    /\ e' = NULL
    /\ UNCHANGED <<mode, list, linked, ready, due, now, stop_flag, timeout,
                   done, handled, after, freed>>
    /\ UNCHANGED sendVars

\* bus_next_timeout: 0, and no wait, without a local timer
NextTimeout == IF due = <<>> THEN 0 ELSE due[CHOOSE t \in Earliest : TRUE] - now

Timeout ==
    /\ Go("timeout", IF NextTimeout > 0 THEN "wait" ELSE "top")
    /\ timeout' = IF NextTimeout > 0 THEN NextTimeout ELSE 0
    /\ UNCHANGED <<mode, list, linked, ready, due, now, stop_flag, e, done,
                   handled, after, freed>>
    /\ UNCHANGED sendVars

\* timewait: nobody else takes wait_mutex, and nothing is looked at again.
Wait ==
    /\ Go("wait", "asleep")
    /\ timeout' = timeout \div NsPerTick
    /\ UNCHANGED <<mode, list, linked, ready, due, now, stop_flag, e, done,
                   handled, after, freed>>
    /\ UNCHANGED sendVars

TimesOut == timeout = 0

WakeUp ==
    /\ Go("asleep", "top") /\ TimesOut
    /\ UNCHANGED <<mode, list, linked, ready, due, now, stop_flag, e, timeout,
                   done, handled, after, freed>>
    /\ UNCHANGED sendVars

\* A condition variable may wake without a reason.
WakeUpSpuriously ==
    /\ Go("asleep", "top") /\ ~TimesOut /\ timeout' = 0
    /\ UNCHANGED <<mode, list, linked, ready, due, now, stop_flag, e, done,
                   handled, after, freed>>
    /\ UNCHANGED sendVars

\* ctx_destroy, when no thread is posting: what was posted and never called is
\* freed.  What was called has not been freed, and never is.
ctx_destroy ==
    /\ Go("out", "destroyed")
    /\ \A i \in Item : at[i] \in {"start", "sent"}
    /\ freed' = ToSet(list["async"]) /\ list' = [list EXCEPT !["async"] = <<>>]
    /\ UNCHANGED <<mode, linked, ready, due, now, stop_flag, e, timeout, done,
                   handled, after>>
    /\ UNCHANGED sendVars

Loop ==
    \/ Top \/ CallNext \/ CallsEnd \/ AddPending \/ PendingEnd \/ Dequeue
    \/ Dispatch \/ Mode \/ Timeout \/ Wait \/ WakeUp

Send(i) == Link(i) \/ ctx_wakeup(i)

Next ==
    \/ Loop \/ WakeUpSpuriously \/ Run \/ Tick \/ ctx_stop \/ ctx_destroy
    \/ \E i \in Item : Exchange(i) \/ Send(i)

Spec == Init /\ [][Next]_vars

\* The loop's thread and the threads that post are scheduled and time passes;
\* nobody has to post, to stop the loop, to run it or to destroy it.
FairSpec ==
    /\ Spec
    /\ WF_vars(Loop) /\ WF_vars(Tick) /\ \A i \in Item : WF_vars(Send(i))

-----------------------------------------------------------------------------
(* Properties.                                                             *)

TypeOK ==
    /\ \A l \in DOMAIN list : IsInjective(list[l]) /\ \A i \in ToSet(list[l]) : ListOf(i) = l
    /\ linked \subseteq Item /\ ready \subseteq Queue /\ missed \subseteq Item
    /\ DOMAIN due \subseteq Timer /\ now \in 0 .. MaxTime /\ stop_flag \in {0, 1}
    /\ timeout \in 0 .. MaxTime /\ e \in Queue \cup Timer \cup {NULL}
    /\ mode \in RunModes /\ IsInjective(done) /\ freed \subseteq Callback

\* Where an item is: on its way, in a list, in the bus, being dispatched or done,
\* and in one of these only.
Places(i) ==
    {p \in {"start", "list", "ready", "e", "done", "freed"} :
        CASE p = "start" -> at[i] = "start"
          [] p = "list" -> i \in ToSet(list[ListOf(i)])
          [] p = "ready" -> i \in ready
          [] p = "e" -> i = e /\ pc = "dispatch"
          [] p = "done" -> i \in ToSet(done)
          [] p = "freed" -> i \in freed}

\* Nothing posted is lost or handled twice, whatever meets whatever, and what
\* is left when the context is destroyed is freed.
HandledOnce == \A i \in Item : Cardinality(Places(i)) = 1

\* In s, x comes before y.
Before(s, x, y) == \E m, n \in DOMAIN s : m < n /\ s[m] = x /\ s[n] = y

\* The callbacks are called in the order in which their pushes took their
\* places, whichever thread was linked in or signalled first: when one has been
\* called, those placed before it were called before it.
CalledInOrder ==
    \A x, y \in Callback :
        Before(placed, x, y) /\ y \in ToSet(done) => Before(done, x, y)

\* Each item is handled once, the callbacks are called in order, and every
\* variable keeps to its values.
HandledInOrder == TypeOK /\ HandledOnce /\ CalledInOrder

\* The loop sleeps on work it could do only if the thread that brought it has
\* yet to signal, or signalled when the loop was no longer looking and not yet
\* asleep: the wait does not look at the lists again.
SleepsOnMissedOnly ==
    pc = "asleep" =>
        \A l \in DOMAIN list : CanPop(l) =>
            \E i \in ToSet(list[l]) : at[i] \in {"link", "signal"} \/ i \in missed

\* ctx_run returns by its mode or because it was stopped: RUN_ONCE with exactly
\* one event, RUN_NOWAIT with at most one.  Once stopped the loop dispatches at
\* most the event of the turn it is in, and nothing in any later ctx_run:
\* nothing resets stop_flag.
ReturnsInTime ==
    [][/\ Go("mode", "out") =>
            CASE mode = "once" -> handled = 1
              [] mode = "nowait" -> handled <= 1
              [] OTHER -> FALSE
       /\ after' <= 1]_vars

\* A callback that has been posted while the loop is in ctx_run is called, or
\* the loop was stopped.
PostedIsCalled ==
    \A i \in Callback :
        at[i] = "sent" ~> (i \in ToSet(done) \/ pc \in {"out", "destroyed"} \/ stop_flag = 1)

\* An event gets dispatched even if its signal went astray.
PushedIsDispatched ==
    \A i \in Queue :
        at[i] = "sent" ~> (i \in ToSet(done) \/ pc \in {"out", "destroyed"} \/ stop_flag = 1)

\* A timer that has been added fires, and a stopped loop returns.
TimersFire ==
    \A t \in Timer :
        t \in DOMAIN due ~> (t \in ToSet(done) \/ pc \in {"out", "destroyed"} \/ stop_flag = 1)

StopReturns == stop_flag = 1 ~> pc \in {"out", "destroyed"}

\* As long as it is not stopped the loop gets to everything in the end, and it
\* returns when it is stopped, although signals go astray.
LoopGoesOn == PostedIsCalled /\ PushedIsDispatched /\ TimersFire /\ StopReturns
=============================================================================
