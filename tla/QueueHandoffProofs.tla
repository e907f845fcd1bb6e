------------------------- MODULE QueueHandoffProofs -------------------------
(***************************************************************************)
(* Proofs about a queue between its producer and the bus: for every number *)
(* of queues and producers, every capacity and every number of pushes, the *)
(* two overlaps that missed and early record are the only ones in which a  *)
(* queue is lost or linked twice.                                          *)
(***************************************************************************)
EXTENDS QueueHandoff, SequenceTheorems, TLAPS

-----------------------------------------------------------------------------
(* What the pending queue holds. *)

\* Appending adds one member.
LEMMA RangeOfAppend ==
  ASSUME NEW S, NEW s \in Seq(S), NEW x \in S
  PROVE  Range(Append(s, x)) = Range(s) \cup {x}
<1>1. /\ Append(s, x) \in Seq(S) /\ Len(Append(s, x)) = Len(s) + 1
      /\ \A i \in 1 .. Len(s) : Append(s, x)[i] = s[i]
      /\ Append(s, x)[Len(s) + 1] = x
  OBVIOUS
<1>2. DOMAIN s = 1 .. Len(s) /\ DOMAIN Append(s, x) = 1 .. Len(s) + 1 /\ Len(s) \in Nat
  BY <1>1
<1> QED
  BY <1>1, <1>2 DEF Range

\* The head and the tail have all members.
LEMMA RangeOfTail ==
  ASSUME NEW S, NEW s \in Seq(S), s # <<>>
  PROVE  Range(s) = {Head(s)} \cup Range(Tail(s))
<1>1. /\ Head(s) = s[1] /\ Tail(s) \in Seq(S) /\ Len(Tail(s)) = Len(s) - 1
      /\ \A i \in 1 .. Len(s) - 1 : Tail(s)[i] = s[i + 1]
  BY HeadTailProperties
<1>2. DOMAIN s = 1 .. Len(s) /\ DOMAIN Tail(s) = 1 .. Len(s) - 1 /\ Len(s) \in Nat \ {0}
  BY <1>1, EmptySeq
<1>3. ASSUME NEW i \in 1 .. Len(s)
      PROVE  s[i] \in {Head(s)} \cup Range(Tail(s))
  <2>1. CASE i = 1
    BY <1>1, <2>1
  <2>2. CASE i # 1
    <3>1. i - 1 \in 1 .. Len(s) - 1 /\ (i - 1) + 1 = i
      BY <1>2, <2>2
    <3>2. Tail(s)[i - 1] = s[i] /\ i - 1 \in DOMAIN Tail(s)
      BY <1>1, <1>2, <3>1
    <3> QED
      BY <3>2 DEF Range
  <2> QED
    BY <2>1, <2>2
<1>4. Range(s) \subseteq {Head(s)} \cup Range(Tail(s))
  BY <1>2, <1>3 DEF Range
<1>5. {Head(s)} \cup Range(Tail(s)) \subseteq Range(s)
  BY <1>1, <1>2 DEF Range
<1> QED
  BY <1>4, <1>5

\* Members come from the set the sequence is over.
LEMMA RangeOfQueues ==
  ASSUME NEW S, NEW s \in Seq(S)
  PROVE  Range(s) \subseteq S
BY DEF Range

-----------------------------------------------------------------------------
(* The inductive invariant. *)

\* The queue in the bus thread's hands is one the bus thread knows; one that it
\* popped from, the producer has heard of.  Only known queues are pending.
InHand ==
    /\ Range(pending) \subseteq owned
    /\ bpc = "add" => bq \in added
    /\ bpc = "reinsert" => bq \in owned /\ bq \notin heap

\* A producer that found its queue empty finds it empty still when it pushes,
\* for nobody but itself puts events in.
EmptyStaysEmpty == \A q \in Queue : ppc[q] = "push" /\ was_empty[q] => size[q] = 0

\* A queue in the heap holds events as long as the links are whole.
Held == broken = "no" => \A q \in heap : size[q] > 0

\* The first overlap.  A queue whose producer cannot see its bus is in the heap
\* or was missed; so was one that went empty behind the producer's look at it;
\* and one with events that is nowhere.
Accounted ==
    /\ \A q \in added \ owned : q \in heap \cup missed \/ (bpc = "add" /\ bq = q)
    /\ \A q \in Queue :
        ppc[q] = "push" /\ ~was_empty[q] /\ size[q] = 0 =>
            q \in missed \/ (bpc = "reinsert" /\ bq = q)
    /\ StrandedOnlyByOverlap

\* The second overlap.  A queue that its producer has asked for, or will, while
\* it is in the heap or empty again, was put in the heap by the bus itself.
AskedEarly ==
    /\ \A q \in Queue : WillAsk(q) /\ (q \in heap \/ size[q] = 0) => q \in early
    /\ \A q \in Queue :
        ppc[q] = "tell" /\ was_empty[q] /\ q \in Range(pending) => q \in early
    /\ bpc = "add" /\ bq \in heap => bq \in early
    /\ LinkedTwiceOnlyByOverlap

IInv ==
    /\ TypeOK /\ InHand /\ EmptyStaysEmpty /\ PushAfterEmptySucceeds /\ Held
    /\ Accounted /\ AskedEarly

\* At the start no thread is inside an operation and all is empty.
LEMMA InitIInv == Init => IInv
<1> SUFFICES ASSUME Init PROVE IInv
  OBVIOUS
<1>1. TypeOK
  BY HandoffAssumption DEF Init, TypeOK
<1>2. Range(pending) = {}
  BY DEF Init, Range
<1>3. InHand /\ EmptyStaysEmpty /\ PushAfterEmptySucceeds /\ Held
  BY <1>2 DEF Init, InHand, EmptyStaysEmpty, PushAfterEmptySucceeds, Held
<1>4. Accounted
  BY <1>2 DEF Init, Accounted, StrandedOnlyByOverlap, Stranded
<1>5. AskedEarly
  BY <1>2 DEF Init, AskedEarly, WillAsk, LinkedTwiceOnlyByOverlap
<1> QED
  BY <1>1, <1>3, <1>4, <1>5 DEF IInv
-----------------------------------------------------------------------------
(* Steps. *)

\* Every step keeps the types.
LEMMA TypeStep ==
  ASSUME TypeOK, Range(pending) \subseteq owned, bpc = "add" => bq \in added,
         bpc = "reinsert" => bq \in owned, Held, [Next]_vars
  PROVE  TypeOK'
<1> USE DEF TypeOK
<1>1. ASSUME NEW q \in Queue, LookEmpty(q)
      PROVE  TypeOK'
  <2>1. left[q] - 1 \in 0 .. MaxPush /\ SeesEmpty(q) \in BOOLEAN
    BY <1>1, HandoffAssumption DEF LookEmpty, SeesEmpty
  <2> QED
    BY <1>1, <2>1 DEF LookEmpty, busVars
<1>2. ASSUME NEW q \in Queue, Put(q)
      PROVE  TypeOK'
  BY <1>2, HandoffAssumption DEF Put, HasRoom, busVars
<1>3. ASSUME NEW q \in Queue, Tell(q)
      PROVE  TypeOK'
  <2>1. CASE TellsBus(q)
    <3>1. pending' = Append(pending, q) /\ broken' \in {"no", "pending"}
      BY <1>3, <2>1, Zenon DEF Tell
    <3>2. ppc' \in [Queue -> {"idle", "push", "tell"}]
      BY <1>3 DEF Tell
    <3> QED
      BY <1>3, <3>1, <3>2 DEF Tell, busVars
  <2>2. CASE ~TellsBus(q)
    BY <1>3, <2>2 DEF Tell, busVars
  <2> QED
    BY <2>1, <2>2
<1>4. ASSUME NEW q \in Queue, Register(q)
      PROVE  TypeOK'
  BY <1>4 DEF Register, producerVars
<1>5. ASSUME NEW q \in Queue, CtxVisible(q)
      PROVE  TypeOK'
  BY <1>5 DEF CtxVisible, producerVars, busVars
<1>6. ASSUME NEW q \in Queue, Pop(q)
      PROVE  TypeOK'
  <2>1. size[q] - 1 \in 0 .. Limit
    BY <1>6, HandoffAssumption DEF Pop, Held
  <2> QED
    BY <1>6, <2>1 DEF Pop, producerVars
<1>7. ASSUME TakePending
      PROVE  TypeOK'
  BY <1>7, HeadTailProperties DEF TakePending, producerVars
<1>8. ASSUME AddIfNonEmpty
      PROVE  TypeOK'
  BY <1>8 DEF AddIfNonEmpty, Insert, producerVars
<1>9. ASSUME EndPending
      PROVE  TypeOK'
  BY <1>9 DEF EndPending, producerVars
<1>10. ASSUME NothingToPop
      PROVE  TypeOK'
  BY <1>10 DEF NothingToPop, producerVars
<1>11. ASSUME Reinsert
      PROVE  TypeOK'
  BY <1>11 DEF Reinsert, GoesBack, Insert, producerVars
<1>12. CASE UNCHANGED vars
  BY <1>12 DEF vars
<1> QED
  BY <1>1, <1>2, <1>3, <1>4, <1>5, <1>6, <1>7, <1>8, <1>9, <1>10, <1>11, <1>12 DEF Next

\* Every step keeps what the bus thread has in hand.
LEMMA InHandStep ==
  ASSUME TypeOK, InHand, [Next]_vars
  PROVE  InHand'
<1> USE DEF TypeOK, InHand
<1>1. ASSUME NEW q \in Queue, LookEmpty(q)
      PROVE  InHand'
  BY <1>1 DEF LookEmpty, SeesEmpty, busVars
<1>2. ASSUME NEW q \in Queue, Put(q)
      PROVE  InHand'
  BY <1>2 DEF Put, HasRoom, busVars
<1>3. ASSUME NEW q \in Queue, Tell(q)
      PROVE  InHand'
  <2>1. CASE TellsBus(q)
    <3>1. pending' = Append(pending, q)
      BY <1>3, <2>1, Zenon DEF Tell
    <3>2. Range(pending') = Range(pending) \cup {q}
      BY <3>1, RangeOfAppend
    <3> QED
      BY <1>3, <2>1, <3>2 DEF Tell, TellsBus, busVars
  <2>2. CASE ~TellsBus(q)
    <3>1. pending' = pending
      BY <1>3, <2>2, Zenon DEF Tell
    <3> QED
      BY <1>3, <3>1 DEF Tell, busVars
  <2> QED
    BY <2>1, <2>2
<1>4. ASSUME NEW q \in Queue, Register(q)
      PROVE  InHand'
  BY <1>4 DEF Register, producerVars
<1>5. ASSUME NEW q \in Queue, CtxVisible(q)
      PROVE  InHand'
  BY <1>5 DEF CtxVisible, producerVars, busVars
<1>6. ASSUME NEW q \in Queue, Pop(q)
      PROVE  InHand'
  BY <1>6 DEF Pop, producerVars
<1>7. ASSUME TakePending
      PROVE  InHand'
  <2>1. Range(pending) = {Head(pending)} \cup Range(pending')
    BY <1>7, RangeOfTail DEF TakePending
  <2> QED
    BY <1>7, <2>1 DEF TakePending, producerVars
<1>8. ASSUME AddIfNonEmpty
      PROVE  InHand'
  BY <1>8 DEF AddIfNonEmpty, Insert, producerVars
<1>9. ASSUME EndPending
      PROVE  InHand'
  BY <1>9 DEF EndPending, producerVars
<1>10. ASSUME NothingToPop
      PROVE  InHand'
  BY <1>10 DEF NothingToPop, producerVars
<1>11. ASSUME Reinsert
      PROVE  InHand'
  BY <1>11 DEF Reinsert, GoesBack, Insert, producerVars
<1>12. CASE UNCHANGED vars
  BY <1>12 DEF vars
<1> QED
  BY <1>1, <1>2, <1>3, <1>4, <1>5, <1>6, <1>7, <1>8, <1>9, <1>10, <1>11, <1>12 DEF Next

\* A producer that found its queue empty finds room, for nobody else fills it.
LEMMA EmptyStep ==
  ASSUME TypeOK, Held, EmptyStaysEmpty, PushAfterEmptySucceeds, [Next]_vars
  PROVE  EmptyStaysEmpty' /\ PushAfterEmptySucceeds'
<1> USE DEF TypeOK, EmptyStaysEmpty, PushAfterEmptySucceeds
<1>1. ASSUME NEW q \in Queue, LookEmpty(q)
      PROVE  EmptyStaysEmpty' /\ PushAfterEmptySucceeds'
  BY <1>1 DEF LookEmpty, SeesEmpty, busVars
<1>2. ASSUME NEW q \in Queue, Put(q)
      PROVE  EmptyStaysEmpty' /\ PushAfterEmptySucceeds'
  BY <1>2, HandoffAssumption DEF Put, HasRoom, busVars
<1>3. ASSUME NEW q \in Queue, Tell(q)
      PROVE  EmptyStaysEmpty' /\ PushAfterEmptySucceeds'
  BY <1>3 DEF Tell, TellsBus, busVars
<1>4. ASSUME NEW q \in Queue, Register(q)
      PROVE  EmptyStaysEmpty' /\ PushAfterEmptySucceeds'
  BY <1>4 DEF Register, producerVars
<1>5. ASSUME NEW q \in Queue, CtxVisible(q)
      PROVE  EmptyStaysEmpty' /\ PushAfterEmptySucceeds'
  BY <1>5 DEF CtxVisible, producerVars, busVars
<1>6. ASSUME NEW q \in Queue, Pop(q)
      PROVE  EmptyStaysEmpty' /\ PushAfterEmptySucceeds'
  BY <1>6 DEF Pop, Held, producerVars
<1>7. ASSUME TakePending
      PROVE  EmptyStaysEmpty' /\ PushAfterEmptySucceeds'
  BY <1>7 DEF TakePending, producerVars
<1>8. ASSUME AddIfNonEmpty
      PROVE  EmptyStaysEmpty' /\ PushAfterEmptySucceeds'
  BY <1>8 DEF AddIfNonEmpty, Insert, producerVars
<1>9. ASSUME EndPending
      PROVE  EmptyStaysEmpty' /\ PushAfterEmptySucceeds'
  BY <1>9 DEF EndPending, producerVars
<1>10. ASSUME NothingToPop
      PROVE  EmptyStaysEmpty' /\ PushAfterEmptySucceeds'
  BY <1>10 DEF NothingToPop, producerVars
<1>11. ASSUME Reinsert
      PROVE  EmptyStaysEmpty' /\ PushAfterEmptySucceeds'
  BY <1>11 DEF Reinsert, GoesBack, Insert, producerVars
<1>12. CASE UNCHANGED vars
  BY <1>12 DEF vars
<1> QED
  BY <1>1, <1>2, <1>3, <1>4, <1>5, <1>6, <1>7, <1>8, <1>9, <1>10, <1>11, <1>12 DEF Next

\* Every step keeps the queues in the heap filled.
LEMMA HeldStep ==
  ASSUME TypeOK, InHand, Held, [Next]_vars
  PROVE  Held'
<1> USE DEF TypeOK, InHand, Held
<1>1. ASSUME NEW q \in Queue, LookEmpty(q)
      PROVE  Held'
  BY <1>1 DEF LookEmpty, SeesEmpty, busVars
<1>2. ASSUME NEW q \in Queue, Put(q)
      PROVE  Held'
  BY <1>2 DEF Put, HasRoom, busVars
<1>3. ASSUME NEW q \in Queue, Tell(q)
      PROVE  Held'
  BY <1>3 DEF Tell, TellsBus, busVars
<1>4. ASSUME NEW q \in Queue, Register(q)
      PROVE  Held'
  BY <1>4 DEF Register, producerVars
<1>5. ASSUME NEW q \in Queue, CtxVisible(q)
      PROVE  Held'
  BY <1>5 DEF CtxVisible, producerVars, busVars
<1>6. ASSUME NEW q \in Queue, Pop(q)
      PROVE  Held'
  BY <1>6 DEF Pop, producerVars
<1>7. ASSUME TakePending
      PROVE  Held'
  BY <1>7 DEF TakePending, producerVars
<1>8. ASSUME AddIfNonEmpty
      PROVE  Held'
  BY <1>8 DEF AddIfNonEmpty, Insert, producerVars
<1>9. ASSUME EndPending
      PROVE  Held'
  BY <1>9 DEF EndPending, producerVars
<1>10. ASSUME NothingToPop
      PROVE  Held'
  BY <1>10 DEF NothingToPop, producerVars
<1>11. ASSUME Reinsert
      PROVE  Held'
  BY <1>11 DEF Reinsert, GoesBack, Insert, producerVars
<1>12. CASE UNCHANGED vars
  BY <1>12 DEF vars
<1> QED
  BY <1>1, <1>2, <1>3, <1>4, <1>5, <1>6, <1>7, <1>8, <1>9, <1>10, <1>11, <1>12 DEF Next

\* Every step keeps track of what is missed.
LEMMA AccountedStep ==
  ASSUME TypeOK, InHand, EmptyStaysEmpty, Held, Accounted, [Next]_vars
  PROVE  Accounted'
<1> USE DEF TypeOK, InHand, EmptyStaysEmpty, Held, Accounted,
           StrandedOnlyByOverlap, Stranded, WillAsk
<1>1. ASSUME NEW q \in Queue, LookEmpty(q)
      PROVE  Accounted'
  BY <1>1 DEF LookEmpty, SeesEmpty, busVars
<1>2. ASSUME NEW q \in Queue, Put(q)
      PROVE  Accounted'
  BY <1>2 DEF Put, HasRoom, busVars
<1>3. ASSUME NEW q \in Queue, Tell(q)
      PROVE  Accounted'
  <2>1. CASE TellsBus(q)
    <3>1. pending' = Append(pending, q)
      BY <1>3, <2>1, Zenon DEF Tell
    <3>2. Range(pending') = Range(pending) \cup {q}
      BY <3>1, RangeOfAppend
    <3> QED
      BY <1>3, <2>1, <3>2 DEF Tell, TellsBus, busVars
  <2>2. CASE ~TellsBus(q)
    <3>1. pending' = pending /\ broken' = broken
      BY <1>3, <2>2, Zenon DEF Tell
    <3> QED
      BY <1>3, <2>2, <3>1 DEF Tell, TellsBus, busVars
  <2> QED
    BY <2>1, <2>2
<1>4. ASSUME NEW q \in Queue, Register(q)
      PROVE  Accounted'
  BY <1>4 DEF Register, producerVars
<1>5. ASSUME NEW q \in Queue, CtxVisible(q)
      PROVE  Accounted'
  BY <1>5 DEF CtxVisible, producerVars, busVars
<1>6. ASSUME NEW q \in Queue, Pop(q)
      PROVE  Accounted'
  BY <1>6 DEF Pop, producerVars
<1>7. ASSUME TakePending
      PROVE  Accounted'
  <2>1. Range(pending) = {Head(pending)} \cup Range(pending')
    BY <1>7, RangeOfTail DEF TakePending
  <2> QED
    BY <1>7, <2>1 DEF TakePending, producerVars
<1>8. ASSUME AddIfNonEmpty
      PROVE  Accounted'
  BY <1>8 DEF AddIfNonEmpty, Insert, producerVars
<1>9. ASSUME EndPending
      PROVE  Accounted'
  BY <1>9 DEF EndPending, producerVars
<1>10. ASSUME NothingToPop
      PROVE  Accounted'
  BY <1>10 DEF NothingToPop, producerVars
<1>11. ASSUME Reinsert
      PROVE  Accounted'
  BY <1>11 DEF Reinsert, GoesBack, Insert, producerVars
<1>12. CASE UNCHANGED vars
  BY <1>12 DEF vars
<1> QED
  BY <1>1, <1>2, <1>3, <1>4, <1>5, <1>6, <1>7, <1>8, <1>9, <1>10, <1>11, <1>12 DEF Next

\* Every step keeps track of what is early.
LEMMA AskedStep ==
  ASSUME TypeOK, InHand, EmptyStaysEmpty, Held, AskedEarly, [Next]_vars
  PROVE  AskedEarly'
<1> USE DEF TypeOK, InHand, EmptyStaysEmpty, Held, AskedEarly,
           LinkedTwiceOnlyByOverlap, WillAsk
<1>1. ASSUME NEW q \in Queue, LookEmpty(q)
      PROVE  AskedEarly'
  BY <1>1 DEF LookEmpty, SeesEmpty, busVars
<1>2. ASSUME NEW q \in Queue, Put(q)
      PROVE  AskedEarly'
  BY <1>2, HandoffAssumption DEF Put, HasRoom, busVars
<1>3. ASSUME NEW q \in Queue, Tell(q)
      PROVE  AskedEarly'
  <2>1. CASE TellsBus(q)
    <3>1. pending' = Append(pending, q)
      BY <1>3, <2>1, Zenon DEF Tell
    <3>2. Range(pending') = Range(pending) \cup {q}
      BY <3>1, RangeOfAppend
    <3> QED
      BY <1>3, <2>1, <3>2 DEF Tell, TellsBus, busVars
  <2>2. CASE ~TellsBus(q)
    <3>1. pending' = pending /\ broken' = broken
      BY <1>3, <2>2, Zenon DEF Tell
    <3> QED
      BY <1>3, <2>2, <3>1 DEF Tell, TellsBus, busVars
  <2> QED
    BY <2>1, <2>2
<1>4. ASSUME NEW q \in Queue, Register(q)
      PROVE  AskedEarly'
  BY <1>4 DEF Register, producerVars
<1>5. ASSUME NEW q \in Queue, CtxVisible(q)
      PROVE  AskedEarly'
  BY <1>5 DEF CtxVisible, producerVars, busVars
<1>6. ASSUME NEW q \in Queue, Pop(q)
      PROVE  AskedEarly'
  BY <1>6 DEF Pop, producerVars
<1>7. ASSUME TakePending
      PROVE  AskedEarly'
  <2>1. Range(pending) = {Head(pending)} \cup Range(pending')
    BY <1>7, RangeOfTail DEF TakePending
  <2> QED
    BY <1>7, <2>1 DEF TakePending, producerVars
<1>8. ASSUME AddIfNonEmpty
      PROVE  AskedEarly'
  BY <1>8 DEF AddIfNonEmpty, Insert, producerVars
<1>9. ASSUME EndPending
      PROVE  AskedEarly'
  BY <1>9 DEF EndPending, producerVars
<1>10. ASSUME NothingToPop
      PROVE  AskedEarly'
  BY <1>10 DEF NothingToPop, producerVars
<1>11. ASSUME Reinsert
      PROVE  AskedEarly'
  BY <1>11 DEF Reinsert, GoesBack, Insert, producerVars
<1>12. CASE UNCHANGED vars
  BY <1>12 DEF vars
<1> QED
  BY <1>1, <1>2, <1>3, <1>4, <1>5, <1>6, <1>7, <1>8, <1>9, <1>10, <1>11, <1>12 DEF Next

\* The parts of the invariant support each other in every step.
LEMMA NextIInv == IInv /\ [Next]_vars => IInv'
<1> SUFFICES ASSUME IInv, [Next]_vars PROVE IInv'
  OBVIOUS
<1>1. TypeOK'
  BY TypeStep DEF IInv, InHand
<1>2. InHand'
  BY InHandStep DEF IInv
<1>3. EmptyStaysEmpty' /\ PushAfterEmptySucceeds'
  BY EmptyStep DEF IInv
<1>4. Held'
  BY HeldStep DEF IInv
<1>5. Accounted'
  BY AccountedStep DEF IInv
<1>6. AskedEarly'
  BY AskedStep DEF IInv
<1> QED
  BY <1>1, <1>2, <1>3, <1>4, <1>5, <1>6 DEF IInv

\* So the invariant always holds.
LEMMA Inductive == Spec => []IInv
BY InitIInv, NextIInv, PTL DEF Spec

-----------------------------------------------------------------------------
(* Theorems. *)

\* The assertions of event_queue_push, of the heap's comparator and of the
\* simulation hold in every interleaving of the producers with the bus.
THEOREM AssertionsAreRight == Spec => []AssertionsHold
<1>1. IInv => AssertionsHold
  BY DEF IInv, Held, AssertionsHold, HeapHeadsExist
<1> QED
  BY <1>1, Inductive, PTL

\* A queue that event_queue_push leaves to itself was looked at by the bus
\* between the producer's look and its push, or before its bus was visible; a
\* node is linked twice only if the bus was faster than the producer's request.
THEOREM TwoOverlapsOnly == Spec => []LostOnlyByOverlap
<1>1. IInv => LostOnlyByOverlap
  BY DEF IInv, Accounted, AskedEarly, LostOnlyByOverlap
<1> QED
  BY <1>1, Inductive, PTL

\* The queue that event_queue_push has lost stays lost: it is not empty, so that
\* no push asks for the bus again, and the bus looks at its heap only.
LEMMA StrandedStep ==
  ASSUME IInv, [Next]_vars, NEW p \in Queue, Stranded(p)
  PROVE  Stranded(p)'
<1> USE DEF IInv, TypeOK, InHand, EmptyStaysEmpty, Stranded, WillAsk
<1>1. ASSUME NEW q \in Queue, LookEmpty(q)
      PROVE  Stranded(p)'
  BY <1>1 DEF LookEmpty, SeesEmpty, busVars
<1>2. ASSUME NEW q \in Queue, Put(q)
      PROVE  Stranded(p)'
  BY <1>2 DEF Put, HasRoom, busVars
<1>3. ASSUME NEW q \in Queue, Tell(q)
      PROVE  Stranded(p)'
  <2>1. CASE TellsBus(q)
    <3>1. pending' = Append(pending, q)
      BY <1>3, <2>1, Zenon DEF Tell
    <3>2. Range(pending') = Range(pending) \cup {q}
      BY <3>1, RangeOfAppend
    <3> QED
      BY <1>3, <2>1, <3>2 DEF Tell, TellsBus, busVars
  <2>2. CASE ~TellsBus(q)
    <3>1. pending' = pending /\ broken' = broken
      BY <1>3, <2>2, Zenon DEF Tell
    <3> QED
      BY <1>3, <2>2, <3>1 DEF Tell, TellsBus, busVars
  <2> QED
    BY <2>1, <2>2
<1>4. ASSUME NEW q \in Queue, Register(q)
      PROVE  Stranded(p)'
  BY <1>4 DEF Register, producerVars
<1>5. ASSUME NEW q \in Queue, CtxVisible(q)
      PROVE  Stranded(p)'
  BY <1>5 DEF CtxVisible, producerVars, busVars
<1>6. ASSUME NEW q \in Queue, Pop(q)
      PROVE  Stranded(p)'
  BY <1>6 DEF Pop, producerVars
<1>7. ASSUME TakePending
      PROVE  Stranded(p)'
  <2>1. Range(pending) = {Head(pending)} \cup Range(pending')
    BY <1>7, RangeOfTail DEF TakePending
  <2> QED
    BY <1>7, <2>1 DEF TakePending, producerVars
<1>8. ASSUME AddIfNonEmpty
      PROVE  Stranded(p)'
  BY <1>8 DEF AddIfNonEmpty, Insert, producerVars
<1>9. ASSUME EndPending
      PROVE  Stranded(p)'
  BY <1>9 DEF EndPending, producerVars
<1>10. ASSUME NothingToPop
      PROVE  Stranded(p)'
  BY <1>10 DEF NothingToPop, producerVars
<1>11. ASSUME Reinsert
      PROVE  Stranded(p)'
  BY <1>11 DEF Reinsert, GoesBack, Insert, producerVars
<1>12. CASE UNCHANGED vars
  BY <1>12 DEF vars
<1> QED
  BY <1>1, <1>2, <1>3, <1>4, <1>5, <1>6, <1>7, <1>8, <1>9, <1>10, <1>11, <1>12 DEF Next

\* A queue that is stranded once is never served again: its producer finds it
\* non-empty at every push and the bus does not look at it.
THEOREM StrandedStaysStranded == Spec => StrandedForEver
<1>1. IInv /\ [Next]_vars => \A q \in Queue : Stranded(q) => Stranded(q)'
  BY StrandedStep
<1>2. IInv /\ [Next]_vars => [\A q \in Queue : Stranded(q) => Stranded(q)']_vars
  BY <1>1
<1> QED
  BY <1>2, Inductive, PTL DEF Spec, StrandedForEver
=============================================================================
