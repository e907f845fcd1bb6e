----------------------------- MODULE MCBusAttach -----------------------------
(* An instance of BusAttach for TLC: four queues, on two buses besides the   *)
(* source, each of which holds two events.                                   *)
EXTENDS BusAttach
=============================================================================
