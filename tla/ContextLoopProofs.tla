------------------------- MODULE ContextLoopProofs --------------------------
(***************************************************************************)
(* Proofs about the loop of a context: for every set of callbacks, queues  *)
(* and timers, however the threads that post and the loop meet.            *)
(***************************************************************************)
EXTENDS ContextLoop, SequenceTheorems, FiniteSetTheorems, WellFoundedInduction,
        TLAPS

-----------------------------------------------------------------------------
(* What is in a list. *)

\* Appending adds one member.
LEMMA SetOfAppend ==
  ASSUME NEW S, NEW s \in Seq(S), NEW x \in S
  PROVE  ToSet(Append(s, x)) = ToSet(s) \cup {x}
<1>1. /\ Append(s, x) \in Seq(S) /\ Len(Append(s, x)) = Len(s) + 1
      /\ \A i \in 1 .. Len(s) : Append(s, x)[i] = s[i]
      /\ Append(s, x)[Len(s) + 1] = x
  OBVIOUS
<1>2. DOMAIN s = 1 .. Len(s) /\ DOMAIN Append(s, x) = 1 .. Len(s) + 1 /\ Len(s) \in Nat
  BY <1>1
<1> QED
  BY <1>1, <1>2 DEF ToSet

\* A tail has no other members.
LEMMA SetOfTail ==
  ASSUME NEW S, NEW s \in Seq(S), s # <<>>
  PROVE  Tail(s) \in Seq(S) /\ ToSet(Tail(s)) \subseteq ToSet(s)
<1>1. /\ Tail(s) \in Seq(S) /\ Len(Tail(s)) = Len(s) - 1
      /\ \A i \in 1 .. Len(s) - 1 : Tail(s)[i] = s[i + 1]
  BY HeadTailProperties
<1>2. DOMAIN s = 1 .. Len(s) /\ DOMAIN Tail(s) = 1 .. Len(s) - 1 /\ Len(s) \in Nat \ {0}
  BY <1>1, EmptySeq
<1> QED
  BY <1>1, <1>2 DEF ToSet

-----------------------------------------------------------------------------
(* ctx_run returns in time. *)

\* Where the loop is while it has yet to look for the event of a turn.
InTurn == {"async", "pending", "dequeue", "dispatch"}

\* An event that was dispatched after ctx_stop was the last of its turn, and the
\* next look at stop_flag ends the loop, in this ctx_run or a later one.
Stopping ==
    /\ stop_flag \in {0, 1} /\ after \in {0, 1}
    /\ after = 1 => stop_flag = 1 /\ pc \notin InTurn

\* With RUN_ONCE and RUN_NOWAIT no event has been dispatched before the mode is
\* looked at, and then only if one was there.
Counting ==
    /\ pc = "dispatch" => e # NULL
    /\ mode \in {"once", "nowait"} /\ pc \in InTurn \cup {"top", "timeout", "wait", "asleep"}
            => handled = 0
    /\ mode \in {"once", "nowait"} /\ pc = "mode"
            => handled = IF e = NULL THEN 0 ELSE 1

\* Nothing is counted before the first turn.
LEMMA InitTurns == Init => Stopping /\ Counting
BY DEF Init, Stopping, Counting, InTurn

\* Every step keeps what is counted.
LEMMA TurnStep ==
  ASSUME Stopping, Counting, [Next]_vars
  PROVE  Stopping' /\ Counting'
<1> USE DEF Stopping, Counting, InTurn
<1>1. ASSUME Top
      PROVE  Stopping' /\ Counting'
  BY <1>1 DEF Top, Go, Continues, sendVars
<1>2. ASSUME CallNext
      PROVE  Stopping' /\ Counting'
  BY <1>2 DEF CallNext, Go, UserCode, sendVars
<1>3. ASSUME CallsEnd
      PROVE  Stopping' /\ Counting'
  BY <1>3 DEF CallsEnd, Go, sendVars
<1>4. ASSUME AddPending
      PROVE  Stopping' /\ Counting'
  BY <1>4 DEF AddPending, Go, sendVars
<1>5. ASSUME PendingEnd
      PROVE  Stopping' /\ Counting'
  BY <1>5 DEF PendingEnd, Go, sendVars
<1>6. ASSUME Dequeue
      PROVE  Stopping' /\ Counting'
  BY <1>6 DEF Dequeue, sendVars
<1>7. ASSUME Dispatch
      PROVE  Stopping' /\ Counting'
  BY <1>7 DEF Dispatch, Go, UserCode, sendVars
<1>8. ASSUME Mode
      PROVE  Stopping' /\ Counting'
  BY <1>8 DEF Mode, Go, Leaves, sendVars
<1>9. ASSUME Timeout
      PROVE  Stopping' /\ Counting'
  BY <1>9 DEF Timeout, Go, sendVars
<1>10. ASSUME Wait
      PROVE  Stopping' /\ Counting'
  BY <1>10 DEF Wait, Go, sendVars
<1>11. ASSUME WakeUp
      PROVE  Stopping' /\ Counting'
  BY <1>11 DEF WakeUp, Go, sendVars
<1>12. ASSUME WakeUpSpuriously
      PROVE  Stopping' /\ Counting'
  BY <1>12 DEF WakeUpSpuriously, Go, sendVars
<1>13. ASSUME Run
      PROVE  Stopping' /\ Counting'
  BY <1>13 DEF Run, RunModes, sendVars
<1>14. ASSUME Tick
      PROVE  Stopping' /\ Counting'
  BY <1>14 DEF Tick, sendVars
<1>15. ASSUME ctx_stop
      PROVE  Stopping' /\ Counting'
  BY <1>15 DEF ctx_stop, sendVars
<1>16. ASSUME ctx_destroy
      PROVE  Stopping' /\ Counting'
  BY <1>16 DEF ctx_destroy, Go, sendVars
<1>17. ASSUME NEW i \in Item, Exchange(i)
      PROVE  Stopping' /\ Counting'
  BY <1>17 DEF Exchange
<1>18. ASSUME NEW i \in Item, Link(i)
      PROVE  Stopping' /\ Counting'
  BY <1>18 DEF Link
<1>19. ASSUME NEW i \in Item, ctx_wakeup(i)
      PROVE  Stopping' /\ Counting'
  BY <1>19 DEF ctx_wakeup, Wakes
<1>20. CASE UNCHANGED vars
  BY <1>20 DEF vars
<1> QED
  BY <1>1, <1>2, <1>3, <1>4, <1>5, <1>6, <1>7, <1>8, <1>9, <1>10,
     <1>11, <1>12, <1>13, <1>14, <1>15, <1>16, <1>17, <1>18, <1>19, <1>20 DEF Next, Loop, Send

\* So the counts are always right.
LEMMA Turns == Spec => [](Stopping /\ Counting)
<1>1. Stopping /\ Counting /\ [Next]_vars => (Stopping /\ Counting)'
  BY TurnStep
<1> QED
  BY <1>1, InitTurns, PTL DEF Spec

\* The step that leaves ctx_run from the look at the mode.
LEMMA LeavingStep ==
  ASSUME Stopping, Counting, [Next]_vars, Go("mode", "out")
  PROVE  /\ mode \in {"once", "nowait"} /\ handled \in {0, 1}
         /\ mode = "once" => handled = 1
<1>1. pc = "mode" /\ pc' = "out"
  BY DEF Go
<1>2. Mode
  BY <1>1 DEF Next, Loop, Send, vars, Go, Top, CallNext, CallsEnd, AddPending,
     PendingEnd, Dequeue, Dispatch, Timeout, Wait, WakeUp, WakeUpSpuriously, Run,
     Tick, ctx_stop, ctx_destroy, Exchange, Link, ctx_wakeup, Wakes
<1>3. Leaves
  BY <1>1, <1>2 DEF Mode, Go
<1> QED
  BY <1>1, <1>3 DEF Leaves, Counting

\* ctx_run returns from the look at the mode with the events its mode allows,
\* and after ctx_stop one event at most is dispatched, in this and in all later
\* calls of ctx_run together.
THEOREM ReturnsByModeOrStop == Spec => ReturnsInTime
<1> DEFINE InTime ==
        /\ Go("mode", "out") =>
             CASE mode = "once" -> handled = 1
               [] mode = "nowait" -> handled <= 1
               [] OTHER -> FALSE
        /\ after' <= 1
<1>1. Stopping /\ Counting /\ (Stopping /\ Counting)' /\ [Next]_vars => InTime
  <2> SUFFICES ASSUME Stopping, Counting, Stopping', [Next]_vars PROVE InTime
    OBVIOUS
  <2>1. after' <= 1
    BY DEF Stopping
  <2>2. ASSUME Go("mode", "out")
        PROVE  CASE mode = "once" -> handled = 1
                 [] mode = "nowait" -> handled <= 1
                 [] OTHER -> FALSE
    BY <2>2, LeavingStep
  <2> QED
    BY <2>1, <2>2
<1> HIDE DEF InTime
<1>2. Stopping /\ Counting /\ (Stopping /\ Counting)' /\ [Next]_vars => [InTime]_vars
  BY <1>1
<1>3. Spec => [][InTime]_vars
  BY <1>2, Turns, PTL DEF Spec
<1> QED
  BY <1>3 DEF InTime, ReturnsInTime

-----------------------------------------------------------------------------
(* The loop sleeps on missed signals only. *)

Lists == {"async", "pending"}

PostTypes ==
    /\ list \in [Lists -> Seq(Item)]
    /\ at \in [Item -> {"start", "link", "signal", "sent"}]

\* A thread signals after it has linked its item, and what is in a list has been
\* put there by a thread that is past its first step.
Posted ==
    /\ \A i \in Item : at[i] \in {"signal", "sent"} => i \in linked
    /\ \A l \in Lists : \A i \in ToSet(list[l]) : i \in Item /\ at[i] # "start"

\* Someone is not done with an item of the list, or his signal went astray.
Excused(l) ==
    list[l] # <<>> => \E i \in ToSet(list[l]) : at[i] # "sent" \/ i \in missed

\* Once the loop has found nothing to pop from a list in a turn, this holds until
\* the turn is over: an item whose push is complete would have been popped, and
\* a signal that comes later finds the loop awake.
Looked ==
    /\ pc \in {"pending", "dequeue", "dispatch", "mode", "timeout", "wait", "asleep"}
            => Excused("async")
    /\ pc \in {"dequeue", "dispatch", "mode", "timeout", "wait", "asleep"}
            => Excused("pending")

LoopInv == PostTypes /\ Posted /\ Looked

\* At the start nothing is posted.
LEMMA InitLoopInv == Init => LoopInv
<1> SUFFICES ASSUME Init PROVE LoopInv
  OBVIOUS
<1>1. PostTypes
  BY DEF Init, PostTypes, Lists
<1>2. ToSet(<<>>) = {}
  BY DEF ToSet
<1>3. Posted
  BY <1>2 DEF Init, Posted, Lists
<1> QED
  BY <1>1, <1>3 DEF Init, LoopInv, Looked

\* A list with items that cannot be popped from has one that is not linked.
LEMMA NothingToPop ==
  ASSUME PostTypes, Posted, NEW l \in Lists, ~CanPop(l)
  PROVE  Excused(l)
<1> SUFFICES ASSUME list[l] # <<>>
             PROVE  \E i \in ToSet(list[l]) : at[i] # "sent"
  BY DEF Excused
<1> DEFINE s == list[l]
<1>1. s \in Seq(Item) /\ Len(s) \in Nat \ {0} /\ DOMAIN s = 1 .. Len(s)
  BY EmptySeq DEF PostTypes
<1>2. s[1] \in ToSet(s) /\ (Len(s) > 1 => s[2] \in ToSet(s))
  BY <1>1 DEF ToSet
<1>3. s[1] \notin linked \/ (Len(s) > 1 /\ s[2] \notin linked)
  BY DEF CanPop
<1> HIDE DEF s
<1> QED
  BY <1>2, <1>3 DEF Posted, s, Lists

\* Every step keeps the lists and what is known of their items.
LEMMA PostedStep ==
  ASSUME PostTypes, Posted, [Next]_vars
  PROVE  PostTypes' /\ Posted'
<1> USE DEF PostTypes, Posted, Lists
<1>1. ASSUME Top
      PROVE  PostTypes' /\ Posted'
  BY <1>1 DEF Top, Go, Continues, sendVars
<1>2. ASSUME CallNext
      PROVE  PostTypes' /\ Posted'
  <2>1. list["async"] \in Seq(Item) /\ list["async"] # <<>>
    BY <1>2 DEF CallNext, CanPop
  <2>2. Tail(list["async"]) \in Seq(Item) /\ ToSet(Tail(list["async"])) \subseteq ToSet(list["async"])
    BY <2>1, SetOfTail
  <2> QED
    BY <1>2, <2>2 DEF CallNext, PopFirst, Go, UserCode, sendVars
<1>3. ASSUME CallsEnd
      PROVE  PostTypes' /\ Posted'
  BY <1>3 DEF CallsEnd, Go, sendVars
<1>4. ASSUME AddPending
      PROVE  PostTypes' /\ Posted'
  <2>1. list["pending"] \in Seq(Item) /\ list["pending"] # <<>>
    BY <1>4 DEF AddPending, CanPop
  <2>2. Tail(list["pending"]) \in Seq(Item) /\ ToSet(Tail(list["pending"])) \subseteq ToSet(list["pending"])
    BY <2>1, SetOfTail
  <2> QED
    BY <1>4, <2>2 DEF AddPending, PopFirst, Go, UserCode, sendVars
<1>5. ASSUME PendingEnd
      PROVE  PostTypes' /\ Posted'
  BY <1>5 DEF PendingEnd, Go, sendVars
<1>6. ASSUME Dequeue
      PROVE  PostTypes' /\ Posted'
  BY <1>6 DEF Dequeue, sendVars
<1>7. ASSUME Dispatch
      PROVE  PostTypes' /\ Posted'
  BY <1>7 DEF Dispatch, Go, UserCode, sendVars
<1>8. ASSUME Mode
      PROVE  PostTypes' /\ Posted'
  BY <1>8 DEF Mode, Go, Leaves, sendVars
<1>9. ASSUME Timeout
      PROVE  PostTypes' /\ Posted'
  BY <1>9 DEF Timeout, Go, sendVars
<1>10. ASSUME Wait
      PROVE  PostTypes' /\ Posted'
  BY <1>10 DEF Wait, Go, sendVars
<1>11. ASSUME WakeUp
      PROVE  PostTypes' /\ Posted'
  BY <1>11 DEF WakeUp, Go, sendVars
<1>12. ASSUME WakeUpSpuriously
      PROVE  PostTypes' /\ Posted'
  BY <1>12 DEF WakeUpSpuriously, Go, sendVars
<1>13. ASSUME Run
      PROVE  PostTypes' /\ Posted'
  BY <1>13 DEF Run, RunModes, sendVars
<1>14. ASSUME Tick
      PROVE  PostTypes' /\ Posted'
  BY <1>14 DEF Tick, sendVars
<1>15. ASSUME ctx_stop
      PROVE  PostTypes' /\ Posted'
  BY <1>15 DEF ctx_stop, sendVars
<1>16. ASSUME ctx_destroy
      PROVE  PostTypes' /\ Posted'
  <2>1. ToSet(<<>>) = {}
    BY DEF ToSet
  <2> QED
    BY <1>16, <2>1 DEF ctx_destroy, Go, sendVars
<1>17. ASSUME NEW i \in Item, Exchange(i)
      PROVE  PostTypes' /\ Posted'
  <2>1. ListOf(i) \in Lists
    BY DEF ListOf
  <2>2. ToSet(Append(list[ListOf(i)], i)) = ToSet(list[ListOf(i)]) \cup {i}
    BY <2>1, SetOfAppend
  <2> QED
    BY <1>17, <2>1, <2>2 DEF Exchange
<1>18. ASSUME NEW i \in Item, Link(i)
      PROVE  PostTypes' /\ Posted'
  BY <1>18 DEF Link
<1>19. ASSUME NEW i \in Item, ctx_wakeup(i)
      PROVE  PostTypes' /\ Posted'
  BY <1>19 DEF ctx_wakeup, Wakes
<1>20. CASE UNCHANGED vars
  BY <1>20 DEF vars
<1> QED
  BY <1>1, <1>2, <1>3, <1>4, <1>5, <1>6, <1>7, <1>8, <1>9, <1>10,
     <1>11, <1>12, <1>13, <1>14, <1>15, <1>16, <1>17, <1>18, <1>19, <1>20 DEF Next, Loop, Send

\* Every step keeps the excuse for what is left in a list.
LEMMA LookedStep ==
  ASSUME PostTypes, Posted, Looked, [Next]_vars
  PROVE  Looked'
<1> USE DEF PostTypes, Lists, Looked
<1>1. ASSUME Top
      PROVE  Looked'
  BY <1>1 DEF Top, Go, Continues, sendVars, Excused
<1>2. ASSUME CallNext
      PROVE  Looked'
  BY <1>2 DEF CallNext, Go, UserCode, sendVars, Excused, PopFirst
<1>3. ASSUME CallsEnd
      PROVE  Looked'
  <2>1. Excused("async")
    BY <1>3, NothingToPop DEF CallsEnd
  <2> QED
    BY <1>3, <2>1 DEF CallsEnd, Go, sendVars, Excused
<1>4. ASSUME AddPending
      PROVE  Looked'
  BY <1>4 DEF AddPending, Go, sendVars, Excused, PopFirst
<1>5. ASSUME PendingEnd
      PROVE  Looked'
  <2>1. Excused("pending")
    BY <1>5, NothingToPop DEF PendingEnd
  <2> QED
    BY <1>5, <2>1 DEF PendingEnd, Go, sendVars, Excused
<1>6. ASSUME Dequeue
      PROVE  Looked'
  BY <1>6 DEF Dequeue, sendVars, Excused
<1>7. ASSUME Dispatch
      PROVE  Looked'
  BY <1>7 DEF Dispatch, Go, UserCode, sendVars, Excused
<1>8. ASSUME Mode
      PROVE  Looked'
  BY <1>8 DEF Mode, Go, Leaves, sendVars, Excused
<1>9. ASSUME Timeout
      PROVE  Looked'
  BY <1>9 DEF Timeout, Go, sendVars, Excused
<1>10. ASSUME Wait
      PROVE  Looked'
  BY <1>10 DEF Wait, Go, sendVars, Excused
<1>11. ASSUME WakeUp
      PROVE  Looked'
  BY <1>11 DEF WakeUp, Go, sendVars, Excused
<1>12. ASSUME WakeUpSpuriously
      PROVE  Looked'
  BY <1>12 DEF WakeUpSpuriously, Go, sendVars, Excused
<1>13. ASSUME Run
      PROVE  Looked'
  BY <1>13 DEF Run, RunModes, sendVars, Excused
<1>14. ASSUME Tick
      PROVE  Looked'
  BY <1>14 DEF Tick, sendVars, Excused
<1>15. ASSUME ctx_stop
      PROVE  Looked'
  BY <1>15 DEF ctx_stop, sendVars, Excused
<1>16. ASSUME ctx_destroy
      PROVE  Looked'
  BY <1>16 DEF ctx_destroy, Go, sendVars, Excused
<1>17. ASSUME NEW i \in Item, Exchange(i)
      PROVE  Looked'
  <2>1. ListOf(i) \in Lists
    BY DEF ListOf
  <2>2. ToSet(Append(list[ListOf(i)], i)) = ToSet(list[ListOf(i)]) \cup {i}
    BY <2>1, SetOfAppend
  <2> QED
    BY <1>17, <2>1, <2>2 DEF Exchange, Excused
<1>18. ASSUME NEW i \in Item, Link(i)
      PROVE  Looked'
  BY <1>18 DEF Link, Excused
<1>19. ASSUME NEW i \in Item, ctx_wakeup(i)
      PROVE  Looked'
  BY <1>19 DEF ctx_wakeup, Wakes, Excused
<1>20. CASE UNCHANGED vars
  BY <1>20 DEF vars, Excused
<1> QED
  BY <1>1, <1>2, <1>3, <1>4, <1>5, <1>6, <1>7, <1>8, <1>9, <1>10,
     <1>11, <1>12, <1>13, <1>14, <1>15, <1>16, <1>17, <1>18, <1>19, <1>20 DEF Next, Loop, Send

\* So the invariant always holds.
LEMMA LoopInvariant == Spec => []LoopInv
<1>1. LoopInv /\ [Next]_vars => LoopInv'
  BY PostedStep, LookedStep DEF LoopInv
<1> QED
  BY <1>1, InitLoopInv, PTL DEF Spec

\* The loop is asleep on an item it could take only while the thread that brought
\* it has yet to signal, or because the signal came before the wait: ctx_wakeup
\* and timewait do not share a lock that covers the look at the lists.
THEOREM SleepsThroughMissedSignalsOnly == Spec => []SleepsOnMissedOnly
<1>1. LoopInv => SleepsOnMissedOnly
  <2> SUFFICES ASSUME LoopInv, pc = "asleep", NEW l \in DOMAIN list, CanPop(l)
               PROVE  \E i \in ToSet(list[l]) : at[i] \in {"link", "signal"} \/ i \in missed
    BY DEF SleepsOnMissedOnly
  <2>1. l \in Lists
    BY DEF LoopInv, PostTypes
  <2>2. PICK i \in ToSet(list[l]) : at[i] # "sent" \/ i \in missed
    BY <2>1 DEF LoopInv, Looked, Excused, CanPop, Lists
  <2>3. at[i] \in {"link", "signal", "sent"}
    BY <2>1, <2>2 DEF LoopInv, PostTypes, Posted
  <2> QED
    BY <2>2, <2>3
<1> QED
  BY <1>1, LoopInvariant, PTL

-----------------------------------------------------------------------------
(* Each item is handled once, and the callbacks in order.                   *)

\* The values of the variables; of the lists and of at, see PostTypes.
Values ==
    /\ linked \subseteq Item /\ ready \subseteq Queue /\ missed \subseteq Item
    /\ DOMAIN due \subseteq Timer /\ due \in [DOMAIN due -> 1 .. MaxTime]
    /\ now \in 0 .. MaxTime /\ stop_flag \in {0, 1} /\ timeout \in 0 .. MaxTime
    /\ e \in Queue \cup Timer \cup {NULL} /\ mode \in RunModes
    /\ done \in Seq(Item \cup Timer) /\ placed \in Seq(Item)
    /\ freed \subseteq Callback

\* An item is in the list of its kind, and there once.
OwnList ==
    \A l \in Lists : IsInjective(list[l]) /\ \A i \in ToSet(list[l]) : ListOf(i) = l

\* Item i is in exactly one of the places named in Places.
OnePlace(i) ==
    LET started == at[i] # "start"
        listed == i \in ToSet(list[ListOf(i)])
        held == i \in ready
        current == i = e /\ pc = "dispatch"
        over == i \in ToSet(done)
        gone == i \in freed
    IN  /\ started => listed \/ held \/ current \/ over \/ gone
        /\ ~started => ~listed /\ ~held /\ ~current /\ ~over /\ ~gone
        /\ listed => ~held /\ ~current /\ ~over /\ ~gone
        /\ held => ~current /\ ~over /\ ~gone
        /\ current => ~over /\ ~gone
        /\ over => ~gone

\* A timer that is due, or whose reminder is being dispatched, has not fired.
FiresOnce ==
    /\ \A t \in DOMAIN due : t \notin ToSet(done)
    /\ pc = "dispatch" => e # NULL
    /\ pc = "dispatch" /\ e \in Timer => e \notin ToSet(done) \cup DOMAIN due

Placed ==
    /\ OwnList /\ FiresOnce /\ IsInjective(done)
    /\ \A i \in Item : OnePlace(i)
    /\ pc # "destroyed" => freed = {}

\* Items take their place once, callbacks wait in the order of their places, and
\* behind those that were called.
InOrder ==
    /\ IsInjective(placed)
    /\ \A i \in Item : i \in ToSet(placed) <=> at[i] # "start"
    /\ \A x, y : Before(list["async"], x, y) => Before(placed, x, y)
    /\ \A x \in ToSet(done) \cap Callback, y \in ToSet(list["async"]) :
          Before(placed, x, y)
    /\ CalledInOrder

HandleInv == Values /\ Placed /\ InOrder

\* Without its head, an injective sequence has lost one member.
LEMMA InjectiveTail ==
  ASSUME NEW S, NEW s \in Seq(S), s # <<>>, IsInjective(s)
  PROVE  /\ IsInjective(Tail(s)) /\ Tail(s) \in Seq(S)
         /\ Head(s) \in ToSet(s) /\ Head(s) \in S
         /\ ToSet(Tail(s)) = ToSet(s) \ {Head(s)}
<1>1. /\ Tail(s) \in Seq(S) /\ Len(Tail(s)) = Len(s) - 1
      /\ \A i \in 1 .. Len(s) - 1 : Tail(s)[i] = s[i + 1]
      /\ Head(s) = s[1] /\ Head(s) \in S
  BY HeadTailProperties
<1>2. DOMAIN s = 1 .. Len(s) /\ DOMAIN Tail(s) = 1 .. Len(s) - 1 /\ Len(s) \in Nat \ {0}
  BY <1>1, EmptySeq
<1>3. IsInjective(Tail(s))
  BY <1>1, <1>2 DEF IsInjective
<1>4. Head(s) \in ToSet(s)
  BY <1>1, <1>2 DEF ToSet
<1>5. ToSet(Tail(s)) \subseteq ToSet(s) \ {Head(s)}
  BY <1>1, <1>2 DEF ToSet, IsInjective
<1>6. ASSUME NEW x \in ToSet(s) \ {Head(s)} PROVE x \in ToSet(Tail(s))
  <2>1. PICK i \in 1 .. Len(s) : s[i] = x
    BY <1>2 DEF ToSet
  <2>2. i - 1 \in 1 .. Len(s) - 1 /\ (i - 1) + 1 = i
    BY <1>1, <1>2, <2>1
  <2>3. Tail(s)[i - 1] = x
    BY <1>1, <2>1, <2>2
  <2> QED
    BY <1>2, <2>2, <2>3 DEF ToSet
<1> QED
  BY <1>1, <1>3, <1>4, <1>5, <1>6

\* A new member keeps a sequence injective.
LEMMA InjectiveAppend ==
  ASSUME NEW S, NEW s \in Seq(S), NEW x \in S, IsInjective(s), x \notin ToSet(s)
  PROVE  IsInjective(Append(s, x))
<1>1. /\ Append(s, x) \in Seq(S) /\ Len(Append(s, x)) = Len(s) + 1
      /\ \A i \in 1 .. Len(s) : Append(s, x)[i] = s[i]
      /\ Append(s, x)[Len(s) + 1] = x
  OBVIOUS
<1>2. DOMAIN s = 1 .. Len(s) /\ DOMAIN Append(s, x) = 1 .. Len(s) + 1 /\ Len(s) \in Nat
  BY <1>1
<1>3. \A i \in 1 .. Len(s) : s[i] # x
  BY <1>2 DEF ToSet
<1> QED
  BY <1>1, <1>2, <1>3 DEF IsInjective

\* What comes before what in a longer sequence.
LEMMA BeforeAppend ==
  ASSUME NEW S, NEW s \in Seq(S), NEW z \in S
  PROVE  \A x, y : Before(Append(s, z), x, y)
                     <=> Before(s, x, y) \/ (x \in ToSet(s) /\ y = z)
<1>1. /\ Append(s, z) \in Seq(S) /\ Len(Append(s, z)) = Len(s) + 1
      /\ \A i \in 1 .. Len(s) : Append(s, z)[i] = s[i]
      /\ Append(s, z)[Len(s) + 1] = z
  OBVIOUS
<1>2. DOMAIN s = 1 .. Len(s) /\ DOMAIN Append(s, z) = 1 .. Len(s) + 1 /\ Len(s) \in Nat
  BY <1>1
<1>3. ASSUME NEW x, NEW y, Before(s, x, y) PROVE Before(Append(s, z), x, y)
  BY <1>1, <1>2, <1>3 DEF Before
<1>4. ASSUME NEW x \in ToSet(s) PROVE Before(Append(s, z), x, z)
  <2>1. PICK i \in 1 .. Len(s) : s[i] = x
    BY <1>2 DEF ToSet
  <2>2. i \in 1 .. Len(s) + 1 /\ Len(s) + 1 \in 1 .. Len(s) + 1 /\ i < Len(s) + 1
    BY <1>2, <2>1
  <2> QED
    BY <1>1, <1>2, <2>1, <2>2 DEF Before
<1>5. ASSUME NEW x, NEW y, Before(Append(s, z), x, y)
      PROVE  Before(s, x, y) \/ (x \in ToSet(s) /\ y = z)
  <2>1. PICK m \in 1 .. Len(s) + 1, n \in 1 .. Len(s) + 1 :
          m < n /\ Append(s, z)[m] = x /\ Append(s, z)[n] = y
    BY <1>2, <1>5 DEF Before
  <2>2. m \in 1 .. Len(s) /\ (n \in 1 .. Len(s) \/ n = Len(s) + 1)
    BY <1>2, <2>1
  <2> QED
    BY <1>1, <1>2, <2>1, <2>2 DEF Before, ToSet
<1> QED
  BY <1>3, <1>4, <1>5

\* The head of a sequence comes before the others.
LEMMA BeforeTail ==
  ASSUME NEW S, NEW s \in Seq(S), s # <<>>
  PROVE  /\ \A x, y : Before(Tail(s), x, y) => Before(s, x, y)
         /\ \A y \in ToSet(Tail(s)) : Before(s, Head(s), y)
<1>1. /\ Tail(s) \in Seq(S) /\ Len(Tail(s)) = Len(s) - 1
      /\ \A i \in 1 .. Len(s) - 1 : Tail(s)[i] = s[i + 1]
      /\ Head(s) = s[1]
  BY HeadTailProperties
<1>2. DOMAIN s = 1 .. Len(s) /\ DOMAIN Tail(s) = 1 .. Len(s) - 1 /\ Len(s) \in Nat \ {0}
  BY <1>1, EmptySeq
<1>3. \A i \in 1 .. Len(s) - 1 : i + 1 \in 1 .. Len(s) /\ 1 < i + 1
  BY <1>2
<1>4. ASSUME NEW x, NEW y, Before(Tail(s), x, y) PROVE Before(s, x, y)
  <2>1. PICK m \in 1 .. Len(s) - 1, n \in 1 .. Len(s) - 1 :
          m < n /\ Tail(s)[m] = x /\ Tail(s)[n] = y
    BY <1>2, <1>4 DEF Before
  <2>2. m + 1 < n + 1
    BY <2>1, <1>2
  <2> QED
    BY <1>1, <1>2, <1>3, <2>1, <2>2 DEF Before
<1>5. ASSUME NEW y \in ToSet(Tail(s)) PROVE Before(s, Head(s), y)
  <2>1. PICK i \in 1 .. Len(s) - 1 : Tail(s)[i] = y
    BY <1>2 DEF ToSet
  <2> QED
    BY <1>1, <1>2, <1>3, <2>1 DEF Before
<1> QED
  BY <1>4, <1>5

\* In an injective sequence no two members come before each other.
LEMMA BeforeIsStrict ==
  ASSUME NEW S, NEW s \in Seq(S), IsInjective(s), NEW x, NEW y,
         Before(s, x, y)
  PROVE  ~Before(s, y, x) /\ x # y /\ x \in ToSet(s) /\ y \in ToSet(s)
<1>1. DOMAIN s \subseteq Nat
  OBVIOUS
<1>2. PICK m \in DOMAIN s, n \in DOMAIN s : m < n /\ s[m] = x /\ s[n] = y
  BY DEF Before
<1>3. \A i, j \in DOMAIN s : s[i] = y /\ s[j] = x => i = n /\ j = m
  BY <1>2 DEF IsInjective
<1>4. ~(n < m) /\ m # n
  BY <1>1, <1>2
<1> QED
  BY <1>2, <1>3, <1>4 DEF Before, IsInjective, ToSet

\* A step that moves no item and no timer.
Quiet ==
    /\ UNCHANGED <<list, ready, due, done, placed, freed>>
    /\ \A i \in Item : at'[i] = "start" <=> at[i] = "start"
    /\ IF pc = "dispatch" THEN pc' = "dispatch" /\ e' = e ELSE pc' # "dispatch"
    /\ pc' = "destroyed" <=> pc = "destroyed"

\* Six actions move items, the others move none.
LEMMA ItemSteps ==
  ASSUME PostTypes, [Next]_vars
  PROVE  \/ Quiet \/ \E i \in Item : Exchange(i)
         \/ CallNext \/ AddPending \/ Dequeue \/ Dispatch \/ ctx_destroy
<1> USE DEF Quiet, Go, sendVars
<1>1. ASSUME Top PROVE Quiet
  BY <1>1 DEF Top
<1>2. ASSUME CallsEnd \/ PendingEnd PROVE Quiet
  BY <1>2 DEF CallsEnd, PendingEnd
<1>3. ASSUME Mode PROVE Quiet
  BY <1>3 DEF Mode
<1>4. ASSUME Timeout PROVE Quiet
  BY <1>4 DEF Timeout
<1>5. ASSUME Wait \/ WakeUp \/ WakeUpSpuriously PROVE Quiet
  BY <1>5 DEF Wait, WakeUp, WakeUpSpuriously
<1>6. ASSUME Run \/ Tick \/ ctx_stop \/ UNCHANGED vars PROVE Quiet
  BY <1>6 DEF Run, Tick, ctx_stop, vars
<1>7. ASSUME NEW i \in Item, Link(i) PROVE Quiet
  BY <1>7 DEF Link, PostTypes
<1>8. ASSUME NEW i \in Item, ctx_wakeup(i) PROVE Quiet
  BY <1>8 DEF ctx_wakeup, Wakes, PostTypes
<1> QED
  BY <1>1, <1>2, <1>3, <1>4, <1>5, <1>6, <1>7, <1>8 DEF Next, Loop, Send

\* A non-empty set of numbers has a smallest member.
LEMMA SmallestMember ==
  ASSUME NEW T \in SUBSET Nat, T # {}
  PROVE  \E x \in T : \A y \in T : x <= y
<1>1. PICK x \in T : \A y \in T : ~ (<<y, x>> \in OpToRel(<, Nat))
  BY WFMin, NatLessThanWellFounded
<1>2. \A y \in T : ~(y < x)
  BY <1>1 DEF OpToRel
<1> QED
  BY <1>2

\* The loop waits no longer than until the latest time there is.
LEMMA TimeoutBounded ==
  ASSUME LoopAssumption, Values PROVE NextTimeout > 0 => NextTimeout \in 0 .. MaxTime
<1>1. MaxTime \in Nat /\ now \in 0 .. MaxTime /\ due \in [DOMAIN due -> 1 .. MaxTime]
  BY DEF LoopAssumption, Values
<1>2. CASE due = <<>>
  BY <1>2 DEF NextTimeout
<1>3. CASE due # <<>>
  <2>1. DOMAIN due # {}
    <3>1. SUFFICES ASSUME DOMAIN due = {} PROVE due = <<>>
      BY <1>3
    <3>2. due \in [1 .. 0 -> 1 .. MaxTime]
      BY <1>1, <3>1
    <3>3. due \in Seq(1 .. MaxTime) /\ Len(due) = 0
      BY <3>2
    <3> QED
      BY <3>3, EmptySeq
  <2> DEFINE T == {due[t] : t \in DOMAIN due}
  <2>2. T \in SUBSET Nat /\ T # {}
    BY <1>1, <2>1
  <2>3. PICK x \in T : \A y \in T : x <= y
    <3> HIDE DEF T
    <3> QED
      BY <2>2, SmallestMember
  <2>4. PICK t \in DOMAIN due : due[t] = x
    BY <2>3
  <2>5. t \in Earliest
    BY <2>3, <2>4 DEF Earliest
  <2>6. (CHOOSE s \in Earliest : TRUE) \in DOMAIN due
    BY <2>5 DEF Earliest
  <2>7. due[CHOOSE s \in Earliest : TRUE] \in 1 .. MaxTime
    BY <1>1, <2>6
  <2> QED
    BY <1>1, <1>3, <2>7 DEF NextTimeout
<1> QED
  BY <1>2, <1>3

\* A part of the time is no longer.
LEMMA PartOfTime ==
  ASSUME NEW M \in Nat, NEW x \in 0 .. M, NEW n \in Nat \ {0}
  PROVE  x \div n \in 0 .. M
OBVIOUS

\* A timer that user code adds is due in the time there is, and nowhere else.
LEMMA UserCodeKeeps ==
  ASSUME LoopAssumption, Values, UserCode
  PROVE  /\ DOMAIN due' \subseteq Timer /\ due' \in [DOMAIN due' -> 1 .. MaxTime]
         /\ stop_flag' \in {0, 1}
         /\ \A t \in DOMAIN due' \ DOMAIN due : t \notin ToSet(done) \cup {e}
BY DEF UserCode, Values

\* Every step keeps the values.
LEMMA ValuesStep ==
  ASSUME LoopAssumption, PostTypes, Values, Placed, [Next]_vars
  PROVE  Values'
<1> USE DEF Values
<1>1. ASSUME Top \/ CallsEnd \/ PendingEnd \/ WakeUp \/ UNCHANGED vars PROVE Values'
  BY <1>1 DEF Top, CallsEnd, PendingEnd, WakeUp, sendVars, vars
<1>2. ASSUME Mode PROVE Values'
  BY <1>2 DEF Mode, sendVars
<1>3. ASSUME Timeout PROVE Values'
  <2>1. timeout' \in 0 .. MaxTime
    BY <1>3, TimeoutBounded DEF Timeout, LoopAssumption
  <2> QED
    BY <1>3, <2>1 DEF Timeout, sendVars
<1>4. ASSUME Wait PROVE Values'
  <2>1. timeout' \in 0 .. MaxTime
    BY <1>4, PartOfTime DEF Wait, LoopAssumption
  <2> QED
    BY <1>4, <2>1 DEF Wait, sendVars
<1>5. ASSUME WakeUpSpuriously PROVE Values'
  <2>1. timeout' \in 0 .. MaxTime
    BY <1>5 DEF WakeUpSpuriously, LoopAssumption
  <2> QED
    BY <1>5, <2>1 DEF WakeUpSpuriously, sendVars
<1>6. ASSUME Run \/ ctx_stop PROVE Values'
  BY <1>6 DEF Run, ctx_stop, sendVars
<1>7. ASSUME Tick PROVE Values'
  <2>1. timeout' \in 0 .. MaxTime /\ now' \in 0 .. MaxTime
    BY <1>7 DEF Tick, LoopAssumption
  <2> QED
    BY <1>7, <2>1 DEF Tick, sendVars
<1>8. ASSUME NEW i \in Item, Link(i) \/ ctx_wakeup(i) PROVE Values'
  BY <1>8 DEF Link, ctx_wakeup
<1>9. ASSUME NEW i \in Item, Exchange(i) PROVE Values'
  <2>1. Append(placed, i) \in Seq(Item)
    OBVIOUS
  <2> QED
    BY <1>9, <2>1 DEF Exchange
<1>10. ASSUME CallNext PROVE Values'
  <2>1. Head(list["async"]) \in Item
    BY <1>10 DEF CallNext, CanPop, PostTypes, Lists
  <2>2. Append(done, Head(list["async"])) \in Seq(Item \cup Timer)
    BY <2>1
  <2>3. UserCode
    BY <1>10 DEF CallNext
  <2> QED
    BY <1>10, <2>2, <2>3, UserCodeKeeps DEF CallNext, sendVars
<1>11. ASSUME AddPending PROVE Values'
  <2>1. list["pending"] \in Seq(Item) /\ list["pending"] # <<>>
    BY <1>11 DEF AddPending, CanPop, PostTypes, Lists
  <2>2. Head(list["pending"]) \in Item /\ ListOf(Head(list["pending"])) = "pending"
    BY <2>1, InjectiveTail DEF Placed, OwnList, Lists
  <2>3. Head(list["pending"]) \in Queue
    BY <2>2 DEF ListOf, Item
  <2> QED
    BY <1>11, <2>3 DEF AddPending, sendVars
<1>12. ASSUME Dequeue PROVE Values'
  BY <1>12 DEF Dequeue, Earliest, sendVars
<1>13. ASSUME Dispatch PROVE Values'
  <2>1. e \in Item \cup Timer
    BY <1>13 DEF Dispatch, Go, Placed, FiresOnce, Item
  <2>2. Append(done, e) \in Seq(Item \cup Timer)
    BY <2>1
  <2>3. UserCode
    BY <1>13 DEF Dispatch
  <2> QED
    BY <1>13, <2>2, <2>3, UserCodeKeeps DEF Dispatch, sendVars
<1>14. ASSUME ctx_destroy PROVE Values'
  <2>1. \A i \in ToSet(list["async"]) : i \in Item /\ ListOf(i) = "async"
    <3>1. list["async"] \in Seq(Item)
      BY DEF PostTypes, Lists
    <3> QED
      BY <3>1 DEF Placed, OwnList, Lists, ToSet
  <2>2. ToSet(list["async"]) \subseteq Callback
    BY <2>1 DEF ListOf
  <2> QED
    BY <1>14, <2>2 DEF ctx_destroy, sendVars
<1> QED
  BY <1>1, <1>2, <1>3, <1>4, <1>5, <1>6, <1>7, <1>8, <1>9, <1>10, <1>11, <1>12,
     <1>13, <1>14 DEF Next, Loop, Send

\* Callbacks, queues, timers and NULL are different things.
LEMMA Apart ==
  ASSUME LoopAssumption
  PROVE  /\ \A i \in Callback : i \in Item /\ i \notin Queue \cup Timer \cup {NULL}
                                  /\ ListOf(i) = "async"
         /\ \A i \in Queue : i \in Item /\ i \notin Callback \cup Timer \cup {NULL}
                               /\ ListOf(i) = "pending"
         /\ \A i \in Item : i \notin Timer \cup {NULL} /\ ListOf(i) \in Lists
         /\ \A i \in Item : ListOf(i) = "async" <=> i \in Callback
         /\ NULL \notin Timer
BY DEF LoopAssumption, Item, ListOf, Lists

\* A callback that is called leaves its list, once.
LEMMA CallPlaced ==
  ASSUME LoopAssumption, PostTypes, Values, Placed, CallNext PROVE Placed'
<1> DEFINE h == Head(list["async"])
<1>1. list["async"] \in Seq(Item) /\ list["async"] # <<>> /\ IsInjective(list["async"])
      /\ list \in [Lists -> Seq(Item)]
  BY DEF CallNext, CanPop, PostTypes, Lists, Placed, OwnList
<1>2. /\ IsInjective(Tail(list["async"])) /\ h \in ToSet(list["async"]) /\ h \in Item
      /\ ToSet(Tail(list["async"])) = ToSet(list["async"]) \ {h}
  BY <1>1, InjectiveTail
<1>3. h \in Callback /\ ListOf(h) = "async"
  BY <1>2, Apart DEF Placed, OwnList, Lists
<1>4. list'["async"] = Tail(list["async"]) /\ list'["pending"] = list["pending"]
      /\ done' = Append(done, h) /\ pc = "async" /\ pc' = "async"
      /\ UNCHANGED <<at, ready, e, freed>>
  BY <1>1 DEF CallNext, PopFirst, Go, sendVars, Lists
<1>5. h \notin ToSet(done) /\ h \notin ready /\ h \notin freed
  BY <1>2, <1>3 DEF Placed, OnePlace
<1>6. ToSet(done') = ToSet(done) \cup {h} /\ IsInjective(done')
  <2>1. done \in Seq(Item \cup Timer) /\ h \in Item \cup Timer
    BY <1>2 DEF Values
  <2> HIDE DEF h
  <2> QED
    BY <2>1, <1>4, <1>5, SetOfAppend, InjectiveAppend DEF Placed
<1> HIDE DEF h
<1>7. OwnList'
  <2>1. \A l \in Lists : IsInjective(list'[l]) /\ ToSet(list'[l]) \subseteq ToSet(list[l])
    BY <1>2, <1>4 DEF Placed, OwnList, Lists
  <2> QED
    BY <2>1 DEF Placed, OwnList
<1>8. FiresOnce'
  <2>1. UserCode
    BY DEF CallNext
  <2>2. \A t \in DOMAIN due' : t \in Timer /\ t \notin ToSet(done)
    BY <2>1, UserCodeKeeps DEF Placed, FiresOnce
  <2> QED
    BY <2>2, <1>3, <1>4, <1>6, Apart DEF FiresOnce
<1>9. ASSUME NEW i \in Item PROVE OnePlace(i)'
  <2>1. ListOf(i) \in Lists
    BY Apart
  <2>2. OnePlace(i)
    BY DEF Placed
  <2>3. CASE i = h
    BY <2>2, <2>3, <1>2, <1>3, <1>4, <1>5, <1>6 DEF OnePlace
  <2>4. CASE i # h
    <3>1. i \in ToSet(list'[ListOf(i)]) <=> i \in ToSet(list[ListOf(i)])
      BY <2>1, <2>4, <1>2, <1>4 DEF Lists
    <3>2. i \in ToSet(done') <=> i \in ToSet(done)
      BY <2>4, <1>6
    <3> QED
      BY <2>2, <3>1, <3>2, <1>4 DEF OnePlace
  <2> QED
    BY <2>3, <2>4
<1> QED
  BY <1>4, <1>6, <1>7, <1>8, <1>9 DEF Placed

\* A queue that is added to the bus leaves its list, once.
LEMMA AddPlaced ==
  ASSUME LoopAssumption, PostTypes, Values, Placed, AddPending PROVE Placed'
<1> DEFINE h == Head(list["pending"])
<1>1. list["pending"] \in Seq(Item) /\ list["pending"] # <<>>
      /\ IsInjective(list["pending"]) /\ list \in [Lists -> Seq(Item)]
  BY DEF AddPending, CanPop, PostTypes, Lists, Placed, OwnList
<1>2. /\ IsInjective(Tail(list["pending"])) /\ h \in ToSet(list["pending"]) /\ h \in Item
      /\ ToSet(Tail(list["pending"])) = ToSet(list["pending"]) \ {h}
  BY <1>1, InjectiveTail
<1>3. ListOf(h) = "pending"
  BY <1>2 DEF Placed, OwnList, Lists
<1>4. list'["pending"] = Tail(list["pending"]) /\ list'["async"] = list["async"]
      /\ ready' = ready \cup {h} /\ pc = "pending" /\ pc' = "pending"
      /\ UNCHANGED <<at, done, due, e, freed>>
  BY <1>1 DEF AddPending, PopFirst, Go, sendVars, Lists
<1> HIDE DEF h
<1>5. OwnList'
  <2>1. \A l \in Lists : IsInjective(list'[l]) /\ ToSet(list'[l]) \subseteq ToSet(list[l])
    BY <1>2, <1>4 DEF Placed, OwnList, Lists
  <2> QED
    BY <2>1 DEF Placed, OwnList
<1>6. FiresOnce' /\ IsInjective(done')
  BY <1>4 DEF Placed, FiresOnce
<1>7. ASSUME NEW i \in Item PROVE OnePlace(i)'
  <2>1. ListOf(i) \in Lists
    BY Apart
  <2>2. OnePlace(i)
    BY DEF Placed
  <2>3. CASE i = h
    BY <2>2, <2>3, <1>2, <1>3, <1>4 DEF OnePlace
  <2>4. CASE i # h
    <3>1. i \in ToSet(list'[ListOf(i)]) <=> i \in ToSet(list[ListOf(i)])
      BY <2>1, <2>4, <1>2, <1>4 DEF Lists
    <3>2. i \in ready' <=> i \in ready
      BY <2>4, <1>4
    <3> QED
      BY <2>2, <3>1, <3>2, <1>4 DEF OnePlace
  <2> QED
    BY <2>3, <2>4
<1> QED
  BY <1>4, <1>5, <1>6, <1>7 DEF Placed

\* An item that is posted takes its place once.
LEMMA ExchangePlaced ==
  ASSUME LoopAssumption, PostTypes, Values, Placed, NEW i \in Item, Exchange(i)
  PROVE  Placed'
<1> DEFINE l == ListOf(i)
<1>1. l \in Lists /\ list \in [Lists -> Seq(Item)] /\ list[l] \in Seq(Item)
      /\ IsInjective(list[l]) /\ at[i] = "start" /\ at \in [Item -> {"start", "link", "signal", "sent"}]
  BY Apart DEF PostTypes, Placed, OwnList, Exchange
<1>2. OnePlace(i)
  BY DEF Placed
<1>3. i \notin ToSet(list[l])
  BY <1>1, <1>2 DEF OnePlace
<1>4. ToSet(Append(list[l], i)) = ToSet(list[l]) \cup {i} /\ IsInjective(Append(list[l], i))
  <2> HIDE DEF l
  <2> QED
    BY <1>1, <1>3, SetOfAppend, InjectiveAppend
<1>5. /\ list'[l] = Append(list[l], i)
      /\ \A k \in Lists \ {l} : list'[k] = list[k]
      /\ at'[i] = "link" /\ \A j \in Item \ {i} : at'[j] = at[j]
      /\ UNCHANGED <<ready, done, due, e, pc, freed>>
  BY <1>1 DEF Exchange
<1>6. OwnList'
  <2>1. \A k \in Lists : IsInjective(list'[k])
    BY <1>4, <1>5 DEF Placed, OwnList
  <2>2. \A k \in Lists : \A j \in ToSet(list'[k]) : ListOf(j) = k
    BY <1>4, <1>5 DEF Placed, OwnList
  <2> QED
    BY <2>1, <2>2 DEF OwnList
<1>7. FiresOnce' /\ IsInjective(done')
  BY <1>5 DEF Placed, FiresOnce
<1>8. ASSUME NEW j \in Item PROVE OnePlace(j)'
  <2>1. ListOf(j) \in Lists
    BY Apart
  <2>2. OnePlace(j)
    BY DEF Placed
  <2>3. CASE j = i
    BY <2>2, <2>3, <1>1, <1>4, <1>5 DEF OnePlace
  <2>4. CASE j # i
    <3>1. j \in ToSet(list'[ListOf(j)]) <=> j \in ToSet(list[ListOf(j)])
      BY <2>1, <2>4, <1>4, <1>5
    <3> QED
      BY <2>2, <2>4, <3>1, <1>5 DEF OnePlace
  <2> QED
    BY <2>3, <2>4
<1> QED
  BY <1>5, <1>6, <1>7, <1>8 DEF Placed

\* The bus gives out an event of a queue, or a timer that is due, once.
LEMMA DequeuePlaced ==
  ASSUME LoopAssumption, PostTypes, Values, Placed, Dequeue PROVE Placed'
<1>1. UNCHANGED <<list, at, done, freed>> /\ pc = "dequeue"
      /\ pc' = IF e' = NULL THEN "mode" ELSE "dispatch"
  BY DEF Dequeue, sendVars
<1>2. OwnList' /\ IsInjective(done')
  BY <1>1 DEF Placed, OwnList
<1>3. CASE \E t \in Earliest : due[t] <= now
  <2>1. PICK t \in Earliest : /\ e' = t /\ ready' = ready
                              /\ due' = [s \in DOMAIN due \ {t} |-> due[s]]
    BY <1>3 DEF Dequeue
  <2>2. t \in Timer /\ t \notin ToSet(done) /\ t # NULL /\ DOMAIN due' = DOMAIN due \ {t}
    BY <2>1, Apart DEF Earliest, Values, Placed, FiresOnce
  <2>3. FiresOnce'
    BY <1>1, <2>1, <2>2 DEF Placed, FiresOnce
  <2>4. ASSUME NEW i \in Item PROVE OnePlace(i)'
    <3>1. i # t
      BY <2>2, Apart
    <3> QED
      BY <1>1, <2>1, <3>1 DEF Placed, OnePlace
  <2> QED
    BY <1>1, <1>2, <2>2, <2>3, <2>4 DEF Placed
<1>4. CASE ~(\E t \in Earliest : due[t] <= now)
  <2>1. /\ e' \in (IF ready = {} THEN {NULL} ELSE ready)
        /\ ready' = ready \ {e'} /\ due' = due
    BY <1>4 DEF Dequeue
  <2>2. e' = NULL \/ (e' \in ready /\ e' \in Queue)
    BY <2>1 DEF Values
  <2>3. e' \notin Timer
    BY <2>2, Apart
  <2>4. FiresOnce'
    BY <1>1, <2>1, <2>3 DEF Placed, FiresOnce
  <2>5. ASSUME NEW i \in Item PROVE OnePlace(i)'
    <3>1. i # NULL
      BY Apart
    <3>2. OnePlace(i)
      BY DEF Placed
    <3>3. CASE i = e'
      BY <1>1, <2>1, <2>2, <3>1, <3>2, <3>3 DEF OnePlace
    <3>4. CASE i # e'
      BY <1>1, <2>1, <3>2, <3>4 DEF OnePlace
    <3> QED
      BY <3>3, <3>4
  <2> QED
    BY <1>1, <1>2, <2>4, <2>5 DEF Placed
<1> QED
  BY <1>3, <1>4

\* An event is dispatched once.
LEMMA DispatchPlaced ==
  ASSUME LoopAssumption, PostTypes, Values, Placed, Dispatch PROVE Placed'
<1>1. UNCHANGED <<list, at, ready, e, freed>> /\ pc = "dispatch" /\ pc' = "mode"
      /\ done' = Append(done, e)
  BY DEF Dispatch, Go, sendVars
<1>2. e \in Item \cup Timer /\ done \in Seq(Item \cup Timer)
  BY <1>1 DEF Values, Placed, FiresOnce, Item
<1>3. e \notin ToSet(done)
  BY <1>1, <1>2 DEF Placed, OnePlace, FiresOnce
<1>4. ToSet(done') = ToSet(done) \cup {e} /\ IsInjective(done')
  BY <1>1, <1>2, <1>3, SetOfAppend, InjectiveAppend DEF Placed
<1>5. UserCode
  BY DEF Dispatch
<1>6. \A t \in DOMAIN due' : t \in Timer /\ t \notin ToSet(done) \cup {e}
  BY <1>1, <1>5, UserCodeKeeps DEF Placed, FiresOnce
<1>7. FiresOnce'
  BY <1>1, <1>4, <1>6 DEF FiresOnce
<1>8. ASSUME NEW i \in Item PROVE OnePlace(i)'
  <2>1. OnePlace(i)
    BY DEF Placed
  <2> QED
    BY <1>1, <1>4, <2>1 DEF OnePlace
<1> QED
  BY <1>1, <1>4, <1>7, <1>8 DEF Placed, OwnList

\* What was posted and never called is freed, once (ctx_destroy).
LEMMA DestroyPlaced ==
  ASSUME LoopAssumption, PostTypes, Values, Placed, ctx_destroy PROVE Placed'
<1>1. UNCHANGED <<at, ready, e, done, due>> /\ pc = "out" /\ pc' = "destroyed"
      /\ freed = {} /\ freed' = ToSet(list["async"])
      /\ list'["async"] = <<>> /\ list'["pending"] = list["pending"]
  BY DEF ctx_destroy, Go, sendVars, PostTypes, Lists, Placed
<1>2. ToSet(<<>>) = {} /\ IsInjective(<<>>)
  BY DEF ToSet, IsInjective
<1>3. OwnList'
  BY <1>1, <1>2 DEF Placed, OwnList, Lists
<1>4. FiresOnce' /\ IsInjective(done')
  BY <1>1 DEF Placed, FiresOnce
<1>5. ASSUME NEW i \in Item PROVE OnePlace(i)'
  <2>1. ListOf(i) \in Lists /\ OnePlace(i)
    BY Apart DEF Placed
  <2>2. i \in freed' <=> ListOf(i) = "async" /\ i \in ToSet(list["async"])
    BY <1>1 DEF Placed, OwnList, Lists
  <2>3. CASE ListOf(i) = "async"
    BY <1>1, <1>2, <2>1, <2>2, <2>3 DEF OnePlace
  <2>4. CASE ListOf(i) = "pending"
    BY <1>1, <2>1, <2>2, <2>4 DEF OnePlace
  <2> QED
    BY <2>1, <2>3, <2>4 DEF Lists
<1> QED
  BY <1>1, <1>3, <1>4, <1>5 DEF Placed

\* Every step keeps each item in one place.
LEMMA PlacedStep ==
  ASSUME LoopAssumption, PostTypes, Values, Placed, [Next]_vars
  PROVE  Placed'
<1>1. CASE Quiet
  BY <1>1 DEF Quiet, Placed, OwnList, OnePlace, FiresOnce
<1> QED
  BY <1>1, ItemSteps, ExchangePlaced, CallPlaced, AddPlaced, DequeuePlaced,
     DispatchPlaced, DestroyPlaced

\* A callback that is called comes behind those that were, in the order of places.
LEMMA CallInOrder ==
  ASSUME LoopAssumption, PostTypes, Values, Placed, InOrder, CallNext PROVE InOrder'
<1> DEFINE h == Head(list["async"])
<1>1. list["async"] \in Seq(Item) /\ list["async"] # <<>> /\ IsInjective(list["async"])
      /\ list \in [Lists -> Seq(Item)]
  BY DEF CallNext, CanPop, PostTypes, Lists, Placed, OwnList
<1>2. /\ h \in ToSet(list["async"]) /\ h \in Item
      /\ ToSet(Tail(list["async"])) = ToSet(list["async"]) \ {h}
  BY <1>1, InjectiveTail
<1>3. h \in Callback
  BY <1>2, Apart DEF Placed, OwnList, Lists
<1>4. list'["async"] = Tail(list["async"]) /\ done' = Append(done, h) /\ pc = "async"
      /\ UNCHANGED <<at, placed>>
  BY <1>1 DEF CallNext, PopFirst, Go, sendVars, Lists
<1>5. /\ \A x, y : Before(Tail(list["async"]), x, y) => Before(list["async"], x, y)
      /\ \A y \in ToSet(Tail(list["async"])) : Before(list["async"], h, y)
  BY <1>1, BeforeTail
<1>6. ToSet(done') = ToSet(done) \cup {h}
      /\ \A x, y : Before(done', x, y) <=> Before(done, x, y) \/ (x \in ToSet(done) /\ y = h)
  <2>1. done \in Seq(Item \cup Timer) /\ h \in Item \cup Timer
    BY <1>2 DEF Values
  <2> HIDE DEF h
  <2> QED
    BY <2>1, <1>4, SetOfAppend, BeforeAppend
<1> HIDE DEF h
<1>7. \A x, y : Before(list'["async"], x, y) => Before(placed', x, y)
  BY <1>4, <1>5 DEF InOrder
<1>8. \A x \in ToSet(done') \cap Callback, y \in ToSet(list'["async"]) : Before(placed', x, y)
  BY <1>2, <1>4, <1>5, <1>6 DEF InOrder
<1>9. ASSUME NEW x \in Callback, Before(placed, x, h) PROVE x \in ToSet(done)
  <2>1. /\ ~Before(placed, h, x) /\ x # h /\ x \in ToSet(placed)
    BY <1>9, BeforeIsStrict DEF InOrder, Values
  <2>2. x \notin ToSet(list["async"])
    BY <2>1, <1>2, <1>5 DEF InOrder
  <2>3. x \in Item /\ x \notin Queue \cup Timer \cup {NULL} /\ ListOf(x) = "async"
    BY Apart
  <2>4. at[x] # "start" /\ x \notin ready /\ x # e /\ x \notin freed
    BY <2>1, <2>3, <1>4 DEF InOrder, Values, Placed
  <2> QED
    BY <2>2, <2>3, <2>4 DEF Placed, OnePlace
<1>10. CalledInOrder'
  <2> SUFFICES ASSUME NEW x \in Callback, NEW y \in Callback,
                      Before(placed', x, y), y \in ToSet(done')
               PROVE  Before(done', x, y)
    BY DEF CalledInOrder
  <2>1. CASE y = h
    BY <2>1, <1>4, <1>6, <1>9
  <2>2. CASE y # h
    BY <2>2, <1>4, <1>6 DEF InOrder, CalledInOrder
  <2> QED
    BY <2>1, <2>2
<1> QED
  BY <1>4, <1>7, <1>8, <1>10 DEF InOrder

\* A callback that is posted takes the last place.
LEMMA ExchangeInOrder ==
  ASSUME LoopAssumption, PostTypes, Values, Placed, InOrder, NEW i \in Item, Exchange(i)
  PROVE  InOrder'
<1>1. /\ placed' = Append(placed, i) /\ placed \in Seq(Item) /\ at[i] = "start"
      /\ at'[i] = "link" /\ \A j \in Item \ {i} : at'[j] = at[j]
      /\ UNCHANGED done
  BY DEF Exchange, PostTypes, Values
<1>2. i \notin ToSet(placed) /\ i \notin ToSet(done)
  BY <1>1 DEF InOrder, Placed, OnePlace
<1>3. /\ ToSet(placed') = ToSet(placed) \cup {i} /\ IsInjective(placed')
      /\ \A x, y : Before(placed', x, y) <=> Before(placed, x, y) \/ (x \in ToSet(placed) /\ y = i)
  BY <1>1, <1>2, SetOfAppend, InjectiveAppend, BeforeAppend DEF InOrder
<1>4. \A j \in Item : j \in ToSet(placed') <=> at'[j] # "start"
  BY <1>1, <1>3 DEF InOrder
<1>5. \/ list'["async"] = list["async"]
      \/ i \in Callback /\ list'["async"] = Append(list["async"], i)
  BY Apart DEF Exchange, PostTypes, Lists
<1>6. list["async"] \in Seq(Item)
  BY DEF PostTypes, Lists
<1>7. \A x \in ToSet(list["async"]) : x \in ToSet(placed)
  <2> SUFFICES ASSUME NEW x \in ToSet(list["async"]) PROVE x \in ToSet(placed)
    OBVIOUS
  <2>1. x \in Item
    BY <1>6 DEF ToSet
  <2>2. ListOf(x) = "async"
    BY DEF Placed, OwnList, Lists
  <2> QED
    BY <2>1, <2>2 DEF InOrder, Placed, OnePlace
<1>8. \A x \in ToSet(done) \cap Callback : x \in ToSet(placed)
  BY Apart DEF InOrder, Placed, OnePlace
<1>9. CalledInOrder'
  BY <1>1, <1>2, <1>3 DEF InOrder, CalledInOrder
<1>10. /\ \A x, y : Before(list'["async"], x, y) => Before(placed', x, y)
       /\ \A x \in ToSet(done') \cap Callback, y \in ToSet(list'["async"]) :
             Before(placed', x, y)
  <2>1. CASE list'["async"] = list["async"]
    BY <2>1, <1>1, <1>3 DEF InOrder
  <2>2. CASE i \in Callback /\ list'["async"] = Append(list["async"], i)
    <3>1. /\ ToSet(list'["async"]) = ToSet(list["async"]) \cup {i}
          /\ \A x, y : Before(list'["async"], x, y)
                <=> Before(list["async"], x, y) \/ (x \in ToSet(list["async"]) /\ y = i)
      BY <2>2, <1>6, SetOfAppend, BeforeAppend
    <3> QED
      BY <3>1, <1>1, <1>3, <1>7, <1>8 DEF InOrder
  <2> QED
    BY <1>5, <2>1, <2>2
<1> QED
  BY <1>3, <1>4, <1>9, <1>10 DEF InOrder

\* Every step keeps the order.
LEMMA OrderStep ==
  ASSUME LoopAssumption, PostTypes, Values, Placed, InOrder, [Next]_vars
  PROVE  InOrder'
<1>1. CASE Quiet \/ AddPending \/ Dequeue
  <2>1. UNCHANGED <<list["async"], done, placed>>
        /\ \A i \in Item : at'[i] = "start" <=> at[i] = "start"
    <3>1. CASE Quiet
      BY <3>1 DEF Quiet
    <3>2. CASE AddPending
      BY <3>2 DEF AddPending, PopFirst, sendVars, PostTypes, Lists
    <3>3. CASE Dequeue
      BY <3>3 DEF Dequeue, sendVars
    <3> QED
      BY <1>1, <3>1, <3>2, <3>3
  <2> QED
    BY <2>1 DEF InOrder, CalledInOrder
<1>2. CASE ctx_destroy
  <2>1. UNCHANGED <<done, placed, at>> /\ list'["async"] = <<>>
    BY <1>2 DEF ctx_destroy, sendVars, PostTypes, Lists
  <2>2. ToSet(<<>>) = {} /\ \A x, y : ~Before(<<>>, x, y)
    BY DEF ToSet, Before
  <2> QED
    BY <2>1, <2>2 DEF InOrder, CalledInOrder
<1>3. CASE Dispatch
  <2>1. UNCHANGED <<list, placed, at>> /\ done' = Append(done, e) /\ pc = "dispatch"
    BY <1>3 DEF Dispatch, Go, sendVars
  <2>2. e \in Item \cup Timer /\ done \in Seq(Item \cup Timer) /\ e \notin Callback
    BY <2>1, Apart DEF Values, Placed, FiresOnce, Item
  <2>3. ToSet(done') = ToSet(done) \cup {e}
        /\ \A x, y : Before(done, x, y) => Before(done', x, y)
    BY <2>1, <2>2, SetOfAppend, BeforeAppend
  <2> QED
    BY <2>1, <2>2, <2>3 DEF InOrder, CalledInOrder
<1> QED
  BY <1>1, <1>2, <1>3, ItemSteps, CallInOrder, ExchangeInOrder

\* At the start every item is on its way.
LEMMA InitHandleInv == ASSUME LoopAssumption, Init PROVE HandleInv
<1>1. <<>> \in Seq(Item \cup Timer) /\ <<>> \in Seq(Item) /\ ToSet(<<>>) = {}
      /\ IsInjective(<<>>) /\ DOMAIN <<>> = {} /\ \A x, y : ~Before(<<>>, x, y)
  BY DEF ToSet, IsInjective, Before
<1>2. Values
  <2>1. due \in [DOMAIN due -> 1 .. MaxTime]
    BY <1>1 DEF Init
  <2> QED
    BY <1>1, <2>1 DEF Init, Values, LoopAssumption, RunModes
<1>3. Placed
  <2>1. \A i \in Item : OnePlace(i)
    BY <1>1, Apart DEF Init, OnePlace, Lists
  <2> QED
    BY <1>1, <2>1 DEF Init, Placed, OwnList, FiresOnce, Lists
<1>4. InOrder
  BY <1>1 DEF Init, InOrder, CalledInOrder
<1> QED
  BY <1>2, <1>3, <1>4 DEF HandleInv

\* An item that is in one place is counted once.
LEMMA OnePlaceCounts ==
  ASSUME NEW i, OnePlace(i) PROVE Cardinality(Places(i)) = 1
<1>1. \E p \in {"start", "list", "ready", "e", "done", "freed"} : Places(i) = {p}
  BY DEF OnePlace, Places
<1> QED
  BY <1>1, FS_Singleton

\* Whatever is posted is handled once: a callback called or, when the context is
\* destroyed before, freed; a queue served; a timer fired; and the callbacks are
\* called in the order in which their pushes took their places (ctx_async_post,
\* mpscq_push, ctx_run, ctx_destroy).
THEOREM NothingPostedIsLost == LoopAssumption /\ Spec => []HandledInOrder
<1> SUFFICES ASSUME LoopAssumption PROVE Spec => []HandledInOrder
  OBVIOUS
<1>1. Init => HandleInv
  BY InitHandleInv
<1>2. HandleInv /\ LoopInv /\ [Next]_vars => HandleInv'
  BY ValuesStep, PlacedStep, OrderStep DEF HandleInv, LoopInv
<1>3. HandleInv /\ LoopInv => HandledInOrder
  <2> SUFFICES ASSUME HandleInv, LoopInv PROVE HandledInOrder
    OBVIOUS
  <2>1. TypeOK
    BY DEF HandleInv, LoopInv, PostTypes, Values, Placed, OwnList, TypeOK
  <2>2. HandledOnce
    BY OnePlaceCounts DEF HandleInv, Placed, HandledOnce
  <2> QED
    BY <2>1, <2>2 DEF HandleInv, InOrder, HandledInOrder
<1> QED
  BY <1>1, <1>2, <1>3, LoopInvariant, PTL DEF Spec
=============================================================================
