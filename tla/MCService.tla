------------------------------ MODULE MCService -----------------------------
(* What is handed over is dealt with, side by side: by the dispatcher, as in *)
(* Dispatcher, by the loop of a context, by a bus in real time, and by       *)
(* whoever holds references to events.  A behaviour is about one of these    *)
(* parts while the others rest in their initial states.                      *)
EXTENDS Dispatcher

CONSTANT MaxHistory  \* bound on the events that are delayed and swallowed

VARIABLES
    part,
    list, linked, ready, due, now, stop_flag, pc, mode, e, timeout, at, missed, done,
    handled, placed, after, destroyed,
    content, bus_owned, removed, heap, bus_pending, start_id, counter, bus_timers, timers_due,
    timestamp, time, clock, bus_saved, stopped, attached, bus_pc, returned, passed,
    pushed, returned_all, dropped,
    live, freed, refcount, held, queue, tap, saved, timers, given, kept, cloned, leaked

loopVars ==
    <<list, linked, ready, due, now, stop_flag, pc, mode, e, timeout, at, missed, done,
      handled, placed, after, destroyed>>
busVars ==
    <<content, bus_owned, removed, heap, bus_pending, start_id, counter, bus_timers,
      timers_due, timestamp, time, clock, bus_saved, stopped, attached, bus_pc, returned,
      passed, pushed, returned_all, dropped>>
eventVars ==
    <<live, freed, refcount, held, queue, tap, saved, timers, given, kept, cloned, leaked>>
serviceVars == <<part, loopVars, busVars, eventVars, vars>>

Events == {"tick1", "once1", "again1"}

Context ==
    INSTANCE ContextLoop WITH
        Callback <- {"callback1"}, Queue <- {"queue1"}, Timer <- {"timer1"},
        MaxTime <- 1, NsPerTick <- 2, freed <- destroyed

\* A market queue, and a timer that repeats and goes first.
Bus ==
    INSTANCE EventBus WITH
        Queue <- {"market1"}, Category <- [market1 |-> "market"],
        Event <- {"tick1", "tick2"}, EventCategory <- [x \in {"tick1", "tick2"} |-> "market"],
        EventType <- [x \in {"tick1", "tick2"} |-> "tick"],
        Stamp <- [tick1 |-> 1, tick2 |-> 2],
        Timer <- {"timer1"}, ClockType <- [timer1 |-> "local"], Repeat <- [timer1 |-> 1],
        Mode <- "realtime", MaxTime <- 1, MaxAttach <- 0, AttachCapacity <- 1,
        MaxCounter <- 0,
        owned <- bus_owned, pending <- bus_pending, timers <- bus_timers, timeout <- timers_due,
        now <- clock, saved <- bus_saved, pc <- bus_pc, done <- returned_all

Lifetime ==
    INSTANCE EventLifetime WITH
        Event <- Events, Timer <- {"once1", "again1"}, Repeating <- {"again1"},
        Copy <- {}, Silent <- {}, Capacity <- 1, ref <- refcount

ASSUME
    /\ DispatcherAssumption /\ Context!LoopAssumption /\ Lifetime!LifetimeAssumption

ServiceInit ==
    /\ part \in {"dispatch", "loop", "bus", "events"}
    /\ Init /\ Context!Init /\ Bus!Init /\ Lifetime!Init

Dispatching(A) ==
    /\ part = "dispatch" /\ A
    /\ Len(delayed') <= MaxHistory /\ Len(swallowed') <= MaxHistory
    /\ UNCHANGED <<part, loopVars, busVars, eventVars>>
Looping(A) == part = "loop" /\ A /\ UNCHANGED <<part, busVars, eventVars, vars>>
Serving(A) == part = "bus" /\ A /\ UNCHANGED <<part, loopVars, eventVars, vars>>
Living(A) == part = "events" /\ A /\ UNCHANGED <<part, loopVars, busVars, vars>>

ServiceNext ==
    \/ Dispatching(Next) \/ Looping(Context!Next)
    \/ Serving(Bus!Next) \/ Living(Lifetime!Next)

\* The fairness of ContextLoop, EventBus and EventLifetime, each for its part.
FairSpec ==
    /\ ServiceInit /\ [][ServiceNext]_serviceVars
    /\ WF_serviceVars(Looping(Context!Loop)) /\ WF_serviceVars(Looping(Context!Tick))
    /\ \A i \in {"callback1", "queue1"} : WF_serviceVars(Looping(Context!Send(i)))
    /\ WF_serviceVars(Serving(Bus!BusStep)) /\ SF_serviceVars(Serving(Bus!AddPending))
    /\ WF_serviceVars(Living(Lifetime!Save \/ Lifetime!Discard))
    /\ WF_serviceVars(Living(Lifetime!ReturnSaved))
    /\ WF_serviceVars(Living(Lifetime!TapPop))
    /\ \A x \in Events :
          /\ WF_serviceVars(Living(Lifetime!PopTimer(x)))
          /\ WF_serviceVars(Living(Lifetime!event_unref(x)))

-----------------------------------------------------------------------------
(* The properties; the one of Dispatcher itself is AccountsBalance.          *)

\* The loop gets to everything, and returns when it is stopped.
LoopGoesOn == Context!LoopGoesOn

\* An event pushed to a queue of the bus is returned.
EventuallyHandled == Bus!EventuallyHandled

\* An event handed to the bus is freed in the end.
EventuallyFreed == Lifetime!EventuallyFreed
=============================================================================
