---------------------------- MODULE BoundedFIFO ----------------------------
(***************************************************************************)
(* What a single-producer, single-consumer queue of events promises to its *)
(* users, event_queue_push and event_queue_pop: a first-in first-out list  *)
(* of at most Limit values.  Taking a value out and handing it to the      *)
(* caller are two steps, because the caller of a pop sees the value later  *)
(* than the producer sees the free place.                                  *)
(***************************************************************************)
EXTENDS Naturals, Sequences

CONSTANTS Limit,     \* the number of values the queue can hold
          Value,     \* the values that may be pushed
          NoValue    \* the answer of a pop that finds nothing

VARIABLES queue,     \* the values in the queue, oldest first
          handed,    \* the value taken out and not yet returned
          push_ret,  \* the answer of the last push: 0 or -1
          pop_ret    \* the answer of the last pop

fifoVars == <<queue, handed, push_ret, pop_ret>>

FIFOInit ==
    /\ queue = <<>>
    /\ handed = NoValue
    /\ push_ret = 0
    /\ pop_ret = NoValue

\* A push succeeds only while there is room.
Put(v) ==
    /\ Len(queue) < Limit
    /\ queue' = Append(queue, v)
    /\ push_ret' = 0
    /\ UNCHANGED <<handed, pop_ret>>

\* A push is refused only when the queue is full.
Refuse ==
    /\ Len(queue) = Limit
    /\ push_ret' = 0 - 1
    /\ UNCHANGED <<queue, handed, pop_ret>>

Take ==
    /\ queue # <<>>
    /\ handed = NoValue
    /\ handed' = Head(queue)
    /\ queue' = Tail(queue)
    /\ UNCHANGED <<push_ret, pop_ret>>

\* The value returned is the one that was taken.
Return ==
    /\ handed # NoValue
    /\ pop_ret' = handed
    /\ handed' = NoValue
    /\ UNCHANGED <<queue, push_ret>>

\* A pop finds nothing only when the queue is empty.
FindNothing ==
    /\ queue = <<>>
    /\ handed = NoValue
    /\ pop_ret' = NoValue
    /\ UNCHANGED <<queue, handed, push_ret>>

FIFONext ==
    \/ \E v \in Value : Put(v)
    \/ Refuse
    \/ Take
    \/ Return
    \/ FindNothing

FIFOSpec == FIFOInit /\ [][FIFONext]_fifoVars
=============================================================================
