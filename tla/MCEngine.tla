------------------------------ MODULE MCEngine ------------------------------
(* Around the bus, side by side: the references of events, as in             *)
(* EventLifetime, queues attached to two other buses, as in BusAttach, and a *)
(* bus that forwards to attached queues, an instance of EventBus.  They share *)
(* no state that the models keep, so a behaviour is about one part while the *)
(* others rest in their initial states.                                      *)
EXTENDS EventLifetime, BusAttach

VARIABLES
    part,
    bus_content, owned, removed, bus_heap, bus_pending, start_id, counter, bus_timers,
    timeout, timestamp, time, now, bus_saved, stopped, bus_attached, pc, returned,
    passed, pushed, done, dropped

busVars ==
    <<bus_content, owned, removed, bus_heap, bus_pending, start_id, counter, bus_timers,
      timeout, timestamp, time, now, bus_saved, stopped, bus_attached, pc, returned,
      passed, pushed, done, dropped>>
engineVars == <<part, busVars, attachVars, vars>>

-----------------------------------------------------------------------------
(* The parts. *)

Forwarded == {"tick1", "tick2", "open1"}

Source ==
    INSTANCE EventBus WITH
        Queue <- {"queue1"}, Category <- [q \in {"queue1"} |-> "market"],
        Event <- Forwarded, EventCategory <- [x \in Forwarded |-> "market"],
        EventType <- [x \in Forwarded |-> IF x = "open1" THEN "queue" ELSE "tick"],
        Stamp <- [x \in Forwarded |-> IF x = "tick2" THEN 2 ELSE 1],
        Timer <- {}, ClockType <- <<>>, Repeat <- <<>>, Mode <- "simulation", MaxTime <- 2,
        MaxAttach <- 2, AttachCapacity <- 2, MaxCounter <- 0,
        saved <- bus_saved, timers <- bus_timers, content <- bus_content,
        heap <- bus_heap, pending <- bus_pending, attached <- bus_attached

ASSUME LifetimeAssumption /\ AttachAssumption

-----------------------------------------------------------------------------

EngineInit ==
    /\ part \in {"bus", "pair", "events"}
    /\ Init /\ Source!Init /\ AttachInit

BusNext == part = "bus" /\ Source!Next /\ UNCHANGED <<part, attachVars, vars>>

PairNext == part = "pair" /\ AttachNext /\ UNCHANGED <<part, busVars, vars>>

EventsNext == part = "events" /\ Next /\ UNCHANGED <<part, busVars, attachVars>>

EngineNext == BusNext \/ PairNext \/ EventsNext

EngineSpec == EngineInit /\ [][EngineNext]_engineVars

-----------------------------------------------------------------------------
(* The properties are those of EventLifetime and BusAttach themselves, and of *)
(* EventBus the one below, with the type invariants.                         *)

\* EventBus: attached queues hold the same events, each once.
ForwardedOnce ==
    TypeOK /\ AttachTypeOK /\ (part = "bus" => Source!TypeOK /\ Source!ForwardedOnce)
=============================================================================
