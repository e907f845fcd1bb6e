---------------------------- MODULE MCMPSCQueue ----------------------------
(* An instance of MPSCQueue for TLC: two producers and three nodes.         *)
EXTENDS MPSCQueue
=============================================================================
