---------------------------- MODULE MCContextLoop ----------------------------
(* An instance of ContextLoop for TLC: two threads that post a callback, one *)
(* that fills a queue, and one local timer.                                  *)
EXTENDS ContextLoop

ASSUME LoopAssumption
=============================================================================
