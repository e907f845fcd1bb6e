--------------------------- MODULE MCQueueHandoff ---------------------------
(* QueueHandoff with two producers. *)
EXTENDS QueueHandoff, TLC

CONSTANTS q1, q2

BothQueues == Permutations({q1, q2})
=============================================================================
