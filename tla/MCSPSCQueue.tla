---------------------------- MODULE MCSPSCQueue ----------------------------
(* SPSCQueue on a ring of four slots and two distinct pointers. *)
EXTENDS SPSCQueue
=============================================================================
