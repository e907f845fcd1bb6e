----------------------------- MODULE MCEventBus -----------------------------
(* Instances of EventBus: queues, events and timers to choose from. *)
EXTENDS EventBus, TLC

CONSTANTS m1, m2, x1,                               \* queues
          tick1, tick2, tock2, open1, progress1, stop2, exec1,
          local1, exchange1                         \* timers

CategoryOf(q) ==
    CASE q \in {m1, m2} -> "market"
      [] q = x1 -> "execution"

TypeOf(e) ==
    CASE e = open1 -> "queue"
      [] e = progress1 -> "progress"
      [] e = stop2 -> "stop"
      [] e = exec1 -> "plain"
      [] OTHER -> "tick"

PipeOf(e) ==
    CASE e = exec1 -> "execution"
      [] OTHER -> "market"

MCCategory == [q \in Queue |-> CategoryOf(q)]
MCEventType == [e \in Event |-> TypeOf(e)]
MCEventCategory == [e \in Event |-> PipeOf(e)]
MCStamp == [e \in Event |-> IF e \in {tick2, tock2, stop2} THEN 2 ELSE 1]
MCClockType == [t \in Timer |-> IF t = local1 THEN "local" ELSE "exchange"]
MCRepeat == [t \in Timer |-> IF t = local1 THEN 1 ELSE 0]

MarketQueues == Permutations({m1, m2})
=============================================================================
