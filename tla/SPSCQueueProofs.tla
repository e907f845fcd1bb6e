-------------------------- MODULE SPSCQueueProofs --------------------------
(***************************************************************************)
(* Proofs about the ring buffer, for every capacity of at least two and    *)
(* every set of pointers.                                                  *)
(***************************************************************************)
EXTENDS SPSCQueue, SequenceTheorems, TLAPS

\* What the positions are while an operation is under way: the room the
\* producer found stays, the element the consumer found stays, and a slot
\* being read late is the one just behind the read position.
Progress ==
    /\ ppc # "idle" => pw = write_pos /\ RoomFor(write_pos, read_pos)
    /\ ppc = "publish" => records[pw] = pv
    /\ cpc \in {"publish", "peek"} => cr = read_pos /\ ~IsEmpty(read_pos, write_pos)
    /\ cpc = "load" => read_pos = NextRecord(cr)

IInv == TypeOK /\ Progress

\* The ring buffer starts empty, with nothing under way.
LEMMA InitIInv == Init => IInv
  BY CapacityAssumption DEF Init, IInv, TypeOK, Progress, Slot

\* The position behind a position is a position.
LEMMA NextRecordInSlot == \A i \in Slot : NextRecord(i) \in Slot
  BY CapacityAssumption DEF Slot, NextRecord

\* The number of elements between two positions is below the capacity.
LEMMA SizeInSlot == \A r, w \in Slot : Size(r, w) \in Slot
  BY CapacityAssumption DEF Slot, Size

\* One step of either thread preserves the types.
LEMMA TypeStep == IInv /\ [Next]_vars => TypeOK'
<1> SUFFICES ASSUME IInv, [Next]_vars PROVE TypeOK'
  OBVIOUS
<1> USE CapacityAssumption, NextRecordInSlot, SizeInSlot
<1> USE DEF IInv, TypeOK
<1>1. CASE UNCHANGED vars
  BY <1>1 DEF vars
<1>2. CASE \E v \in Value : PushBegin(v)
  BY <1>2 DEF PushBegin, consumerVars
<1>3. CASE PushFull
  BY <1>3 DEF PushFull, consumerVars
<1>4. CASE PushStore
  BY <1>4 DEF PushStore, consumerVars
<1>5. CASE PushPublish
  <2>1. write_pos' \in Slot
    BY <1>5 DEF PushPublish
  <2>2. pview' \in Slot
    BY <1>5 DEF PushPublish, Slot
  <2> QED
    BY <1>5, <2>1, <2>2 DEF PushPublish, consumerVars
<1>6. CASE ProducerIsEmpty \/ ProducerIsNotFull \/ ProducerSize
  <2>1. pview' \in Slot
    <3>1. CASE ProducerIsEmpty
      BY <3>1 DEF ProducerIsEmpty, Slot
    <3>2. CASE ProducerIsNotFull
      BY <3>2 DEF ProducerIsNotFull, Slot
    <3>3. CASE ProducerSize
      BY <3>3 DEF ProducerSize
    <3> QED
      BY <1>6, <3>1, <3>2, <3>3
  <2> QED
    BY <1>6, <2>1 DEF ProducerIsEmpty, ProducerIsNotFull, ProducerSize, consumerVars
<1>7. CASE PopBegin \/ PopEmpty
  BY <1>7 DEF PopBegin, PopEmpty, producerVars
<1>8. CASE PopPublish
  <2>1. read_pos' \in Slot
    BY <1>8 DEF PopPublish
  <2>2. cview' \in Slot
    BY <1>8 DEF PopPublish, Slot
  <2> QED
    BY <1>8, <2>1, <2>2 DEF PopPublish, producerVars
<1>9. CASE PopLoad
  BY <1>9 DEF PopLoad, producerVars
<1>10. CASE PeekBegin \/ PeekLoad
  BY <1>10 DEF PeekBegin, PeekLoad, producerVars
<1>11. CASE ConsumerIsNotEmpty \/ ConsumerIsFull \/ ConsumerSize
  <2>1. cview' \in Slot
    <3>1. CASE ConsumerIsNotEmpty
      BY <3>1 DEF ConsumerIsNotEmpty, Slot
    <3>2. CASE ConsumerIsFull
      BY <3>2 DEF ConsumerIsFull, Slot
    <3>3. CASE ConsumerSize
      BY <3>3 DEF ConsumerSize
    <3> QED
      BY <1>11, <3>1, <3>2, <3>3
  <2> QED
    BY <1>11, <2>1 DEF ConsumerIsNotEmpty, ConsumerIsFull, ConsumerSize, producerVars
<1> QED
  BY <1>1, <1>2, <1>3, <1>4, <1>5, <1>6, <1>7, <1>8, <1>9, <1>10, <1>11
     DEF Next, Producer, Consumer

\* Every step keeps what the two threads know about the positions.
LEMMA ProgressStep == IInv /\ [Next]_vars => Progress'
<1> SUFFICES ASSUME IInv, [Next]_vars PROVE Progress'
  OBVIOUS
<1> USE CapacityAssumption
<1> USE DEF IInv, TypeOK, Progress, RoomFor, IsEmpty, NextRecord, Slot
<1>1. CASE UNCHANGED vars
  BY <1>1 DEF vars
<1>2. CASE \E v \in Value : PushBegin(v)
  BY <1>2 DEF PushBegin, consumerVars
<1>3. CASE PushFull
  BY <1>3 DEF PushFull, consumerVars
<1>4. CASE PushStore
  BY <1>4 DEF PushStore, consumerVars
<1>5. CASE PushPublish
  BY <1>5 DEF PushPublish, consumerVars
<1>6. CASE ProducerIsEmpty \/ ProducerIsNotFull \/ ProducerSize
  BY <1>6 DEF ProducerIsEmpty, ProducerIsNotFull, ProducerSize, consumerVars
<1>7. CASE PopBegin \/ PopEmpty
  BY <1>7 DEF PopBegin, PopEmpty, producerVars
<1>8. CASE PopPublish
  BY <1>8 DEF PopPublish, producerVars
<1>9. CASE PopLoad
  BY <1>9 DEF PopLoad, producerVars
<1>10. CASE PeekBegin \/ PeekLoad
  BY <1>10 DEF PeekBegin, PeekLoad, producerVars
<1>11. CASE ConsumerIsNotEmpty \/ ConsumerIsFull \/ ConsumerSize
  BY <1>11 DEF ConsumerIsNotEmpty, ConsumerIsFull, ConsumerSize, producerVars
<1> QED
  BY <1>1, <1>2, <1>3, <1>4, <1>5, <1>6, <1>7, <1>8, <1>9, <1>10, <1>11
     DEF Next, Producer, Consumer

\* Every reachable state satisfies the inductive invariant.
THEOREM Invariance == Spec => []IInv
<1>1. IInv /\ [Next]_vars => IInv'
  BY TypeStep, ProgressStep DEF IInv
<1> QED
  BY InitIInv, <1>1, PTL DEF Spec

\* The positions of the ring buffer stay inside it, whatever its capacity.
THEOREM TypeCorrect == Spec => []TypeOK
  BY Invariance, PTL DEF IInv

\* The slot that spscq_pop reads after giving it back is never the slot the
\* producer is writing: the one slot that always stays empty protects it.
THEOREM NoRace == Spec => []NoSlotRace
<1>1. IInv => NoSlotRace
  BY CapacityAssumption
     DEF IInv, TypeOK, Progress, NoSlotRace, RoomFor, IsEmpty, NextRecord, Slot
<1> QED
  BY Invariance, <1>1, PTL

-----------------------------------------------------------------------------
(* Sizes and slots. *)

\* A push adds one element.
LEMMA SizeAfterPush ==
  \A r, w \in Slot : RoomFor(w, r) => Size(r, NextRecord(w)) = Size(r, w) + 1
  BY CapacityAssumption DEF Slot, Size, RoomFor, NextRecord

\* A pop takes one element away.
LEMMA SizeAfterPop ==
  \A r, w \in Slot : ~IsEmpty(r, w) =>
    Size(r, w) > 0 /\ Size(NextRecord(r), w) = Size(r, w) - 1
  BY CapacityAssumption DEF Slot, Size, IsEmpty, NextRecord

\* Every element lies in a slot.
LEMMA SlotOfInSlot ==
  \A r, w \in Slot : \A i \in 1 .. Size(r, w) : SlotOf(r, i) \in Slot
  BY CapacityAssumption DEF Slot, Size, SlotOf

\* The slot written next is the one behind the newest pointer and holds none.
LEMMA WriteSlotIsFree ==
  \A r, w \in Slot :
    /\ \A i \in 1 .. Size(r, w) : SlotOf(r, i) # w
    /\ SlotOf(r, Size(r, w) + 1) = w
  BY CapacityAssumption DEF Slot, Size, SlotOf

\* Moving the read position shifts the pointers by one.
LEMMA ReadSlotShifts ==
  \A r, w \in Slot : ~IsEmpty(r, w) =>
    /\ SlotOf(r, 1) = r
    /\ \A i \in 1 .. Size(r, w) - 1 : SlotOf(NextRecord(r), i) = SlotOf(r, i + 1)
  BY CapacityAssumption DEF Slot, Size, IsEmpty, NextRecord, SlotOf

\* An answer of is_empty, is_full or size stays true for the thread that got
\* it until that thread pushes or pops.
THEOREM ViewsHold == Spec => []ViewsBracketSize
<1>1. Init => ViewsBracketSize
  BY CapacityAssumption DEF Init, ViewsBracketSize, Size
<1>2. IInv /\ ViewsBracketSize /\ [Next]_vars => ViewsBracketSize'
  <2> SUFFICES ASSUME IInv, ViewsBracketSize, [Next]_vars
               PROVE  ViewsBracketSize'
    OBVIOUS
  <2> USE CapacityAssumption, SizeInSlot DEF IInv, ViewsBracketSize
  <2>0. /\ read_pos \in Slot /\ write_pos \in Slot
        /\ pview \in 0 .. Capacity - 1 /\ cview \in 0 .. Capacity - 1
        /\ Size(read_pos, write_pos) \in 0 .. Capacity - 1
    BY DEF TypeOK, Slot
  <2>1. CASE UNCHANGED vars
    BY <2>1 DEF vars
  <2>2. CASE \/ \E v \in Value : PushBegin(v)
             \/ PushFull \/ PushStore
    BY <2>2 DEF PushBegin, PushFull, PushStore, consumerVars
  <2>3. CASE PushPublish
    <3>1. Size(read_pos', write_pos') = Size(read_pos, write_pos) + 1
      BY <2>3, <2>0, SizeAfterPush DEF PushPublish, consumerVars, Progress
    <3>2. write_pos' \in Slot
      BY <2>3, <2>0, NextRecordInSlot DEF PushPublish, Progress
    <3>3. Size(read_pos, write_pos) + 1 \in 0 .. Capacity - 1
      BY <3>1, <3>2, <2>0, <2>3 DEF PushPublish, consumerVars, Slot
    <3> QED
      BY <2>3, <2>0, <3>1, <3>3 DEF PushPublish, consumerVars
  <2>4. CASE ProducerIsEmpty
    <3>1. Size(read_pos, write_pos) = 0
      BY <2>4, <2>0 DEF ProducerIsEmpty, IsEmpty, Size, Slot
    <3> QED
      BY <2>4, <2>0, <3>1 DEF ProducerIsEmpty, consumerVars
  <2>5. CASE ProducerIsNotFull
    BY <2>5, <2>0 DEF ProducerIsNotFull, consumerVars, IsFull, Size, NextRecord, Slot
  <2>6. CASE ProducerSize
    BY <2>6, <2>0 DEF ProducerSize, consumerVars
  <2>7. CASE PopBegin \/ PopEmpty \/ PopLoad \/ PeekBegin \/ PeekLoad
    BY <2>7 DEF PopBegin, PopEmpty, PopLoad, PeekBegin, PeekLoad, producerVars
  <2>8. CASE PopPublish
    <3>1. Size(read_pos', write_pos') = Size(read_pos, write_pos) - 1
      BY <2>8, <2>0, SizeAfterPop DEF PopPublish, producerVars, Progress
    <3> QED
      BY <2>8, <2>0, <3>1, SizeAfterPop DEF PopPublish, producerVars, Progress
  <2>9. CASE ConsumerIsNotEmpty
    BY <2>9, <2>0, SizeAfterPop DEF ConsumerIsNotEmpty, producerVars
  <2>10. CASE ConsumerIsFull
    BY <2>10, <2>0 DEF ConsumerIsFull, producerVars, IsFull, Size, NextRecord, Slot
  <2>11. CASE ConsumerSize
    BY <2>11, <2>0 DEF ConsumerSize, producerVars
  <2> QED
    BY <2>1, <2>2, <2>3, <2>4, <2>5, <2>6, <2>7, <2>8, <2>9, <2>10, <2>11
       DEF Next, Producer, Consumer
<1> QED
  BY Invariance, <1>1, <1>2, PTL DEF Spec

\* What the consumer peeked at is what its next pop returns.
THEOREM PeekStable == Spec => []PeekedIsHead
<1>1. Init => PeekedIsHead
  BY DEF Init, PeekedIsHead
<1>2. IInv /\ PeekedIsHead /\ [Next]_vars => PeekedIsHead'
  <2> SUFFICES ASSUME IInv, PeekedIsHead, [Next]_vars PROVE PeekedIsHead'
    OBVIOUS
  <2> USE CapacityAssumption
  <2> USE DEF IInv, TypeOK, Progress, PeekedIsHead, IsEmpty
  <2>1. CASE UNCHANGED vars
    BY <2>1 DEF vars
  <2>2. CASE \/ \E v \in Value : PushBegin(v)
             \/ PushFull \/ ProducerIsEmpty \/ ProducerIsNotFull \/ ProducerSize
    BY <2>2 DEF PushBegin, PushFull, ProducerIsEmpty, ProducerIsNotFull,
                ProducerSize, consumerVars
  <2>3. CASE PushStore
    BY <2>3 DEF PushStore, consumerVars
  <2>4. CASE PushPublish
    BY <2>4 DEF PushPublish, consumerVars, RoomFor
  <2>5. CASE PopBegin \/ PopEmpty \/ PopLoad \/ PeekBegin
    BY <2>5 DEF PopBegin, PopEmpty, PopLoad, PeekBegin, producerVars
  <2>6. CASE PopPublish
    BY <2>6 DEF PopPublish
  <2>7. CASE PeekLoad
    BY <2>7 DEF PeekLoad, producerVars
  <2>8. CASE ConsumerIsNotEmpty \/ ConsumerIsFull \/ ConsumerSize
    BY <2>8 DEF ConsumerIsNotEmpty, ConsumerIsFull, ConsumerSize, producerVars
  <2> QED
    BY <2>1, <2>2, <2>3, <2>4, <2>5, <2>6, <2>7, <2>8 DEF Next, Producer, Consumer
<1> QED
  BY Invariance, <1>1, <1>2, PTL DEF Spec
-----------------------------------------------------------------------------
(* The ring buffer implements the bounded queue. *)

\* Every slot between the positions holds a pushed pointer, and so does the
\* slot a pop has given back and not read yet.
Filled ==
    /\ \A i \in 1 .. Size(read_pos, write_pos) : records[SlotOf(read_pos, i)] \in Value
    /\ cpc = "load" => records[cr] \in Value

\* A step that changes no position and no record in use leaves the pointers
\* alone.
LEMMA ContentsKept ==
  ASSUME IInv, UNCHANGED <<read_pos, write_pos>>,
         \/ UNCHANGED records
         \/ PushStore
  PROVE  /\ Contents' = Contents
         /\ \A i \in 1 .. Size(read_pos, write_pos) :
               records'[SlotOf(read_pos, i)] = records[SlotOf(read_pos, i)]
<1>0. read_pos \in Slot /\ write_pos \in Slot
  BY DEF IInv, TypeOK
<1>1. \A i \in 1 .. Size(read_pos, write_pos) :
        records'[SlotOf(read_pos, i)] = records[SlotOf(read_pos, i)]
  <2>1. CASE UNCHANGED records
    BY <2>1
  <2>2. CASE PushStore
    BY <2>2, <1>0, WriteSlotIsFree, SlotOfInSlot DEF PushStore, IInv, TypeOK, Progress
  <2> QED
    BY <2>1, <2>2
<1> QED
  BY <1>0, <1>1 DEF Contents

\* A push appends its element to the contents.
LEMMA ContentsPushed ==
  ASSUME IInv, PushPublish
  PROVE  /\ Size(read_pos', write_pos') = Size(read_pos, write_pos) + 1
         /\ records[SlotOf(read_pos, Size(read_pos, write_pos) + 1)] = pv
         /\ pv \in Value
         /\ Len(Contents) = Size(read_pos, write_pos)
         /\ Len(Contents) < Capacity - 1
         /\ Contents' = Append(Contents, pv)
<1>0. read_pos \in Slot /\ write_pos \in Slot /\ NextRecord(write_pos) \in Slot
  BY NextRecordInSlot DEF IInv, TypeOK
<1>1. Size(read_pos', write_pos') = Size(read_pos, write_pos) + 1
  BY <1>0, SizeAfterPush DEF PushPublish, consumerVars, IInv, Progress
<1>2. records[SlotOf(read_pos, Size(read_pos, write_pos) + 1)] = pv
  BY <1>0, WriteSlotIsFree DEF PushPublish, IInv, Progress
<1>3. pv \in Value
  BY DEF PushPublish, IInv, TypeOK
<1>4. /\ Size(read_pos, write_pos) \in 0 .. Capacity - 1
      /\ Size(read_pos, write_pos) + 1 \in 0 .. Capacity - 1
  <2>1. Size(read_pos, write_pos) \in Slot
    BY <1>0, SizeInSlot
  <2>2. Size(read_pos, NextRecord(write_pos)) \in Slot
    BY <1>0, SizeInSlot
  <2>3. Size(read_pos, NextRecord(write_pos)) = Size(read_pos, write_pos) + 1
    BY <1>0, SizeAfterPush DEF PushPublish, IInv, Progress
  <2> QED
    BY <2>1, <2>2, <2>3 DEF Slot
<1>5. Len(Contents) = Size(read_pos, write_pos)
  BY <1>4, CapacityAssumption DEF Contents
<1>6. Contents' = Append(Contents, pv)
  <2> DEFINE n == Size(read_pos, write_pos)
             S == Value \cup {NoValue}
  <2>1. Contents' = [i \in 1 .. n + 1 |-> records[SlotOf(read_pos, i)]]
    BY <1>1 DEF Contents, PushPublish, consumerVars
  <2>2. \A i \in 1 .. n : records[SlotOf(read_pos, i)] \in S
    BY <1>0, SlotOfInSlot DEF IInv, TypeOK
  <2>3. records[SlotOf(read_pos, n + 1)] = pv /\ pv \in S
    BY <1>2, <1>3
  <2>4. n \in Nat
    BY <1>4
  <2>5. Contents = [i \in 1 .. n |-> records[SlotOf(read_pos, i)]]
    BY DEF Contents
  <2> HIDE DEF n, S
  <2>6. Contents \in Seq(S) /\ Len(Contents) = n
    BY <2>2, <2>4, <2>5
  <2>7. \A i \in 1 .. n + 1 : i = n + 1 \/ i \in 1 .. n
    BY <2>4
  <2>8. Contents' \in Seq(S) /\ Len(Contents') = n + 1
    BY <2>1, <2>2, <2>3, <2>4, <2>7
  <2>9. /\ Append(Contents, pv) \in Seq(S)
        /\ Len(Append(Contents, pv)) = n + 1
        /\ \A i \in 1 .. n : Append(Contents, pv)[i] = Contents[i]
        /\ Append(Contents, pv)[n + 1] = pv
    BY <2>3, <2>6, AppendProperties
  <2>10. \A i \in 1 .. n + 1 : Contents'[i] = Append(Contents, pv)[i]
    BY <2>1, <2>3, <2>5, <2>7, <2>9
  <2> QED
    BY <2>8, <2>9, <2>10, SeqEqual
<1> QED
  BY <1>1, <1>2, <1>3, <1>4, <1>5, <1>6, CapacityAssumption

\* A pop takes the first element off the contents.
LEMMA ContentsPopped ==
  ASSUME IInv, Filled, PopPublish
  PROVE  /\ Size(read_pos', write_pos') = Size(read_pos, write_pos) - 1
         /\ \A i \in 1 .. Size(read_pos', write_pos') :
               SlotOf(read_pos', i) = SlotOf(read_pos, i + 1)
         /\ records[cr] \in Value
         /\ Contents # <<>>
         /\ records[cr] = Head(Contents)
         /\ Contents' = Tail(Contents)
<1>0. /\ read_pos \in Slot /\ write_pos \in Slot
      /\ ~IsEmpty(read_pos, write_pos) /\ cr = read_pos
      /\ read_pos' = NextRecord(read_pos)
      /\ UNCHANGED <<write_pos, records>>
  BY DEF IInv, TypeOK, Progress, PopPublish, producerVars
<1>1. /\ Size(read_pos, write_pos) > 0
      /\ Size(read_pos', write_pos') = Size(read_pos, write_pos) - 1
  BY <1>0, SizeAfterPop
<1>2. Size(read_pos, write_pos) \in 0 .. Capacity - 1
  BY <1>0, SizeInSlot DEF Slot
<1>3. /\ SlotOf(read_pos, 1) = cr
      /\ \A i \in 1 .. Size(read_pos', write_pos') :
            SlotOf(read_pos', i) = SlotOf(read_pos, i + 1)
  BY <1>0, <1>1, ReadSlotShifts
<1>4. records[cr] \in Value
  BY <1>1, <1>2, <1>3, CapacityAssumption DEF Filled
<1>5. Contents # <<>> /\ records[cr] = Head(Contents)
  BY <1>1, <1>2, <1>3, CapacityAssumption DEF Contents
<1>6. Contents' = Tail(Contents)
  <2>1. Contents' = [i \in 1 .. Size(read_pos, write_pos) - 1 |->
                       records[SlotOf(read_pos, i + 1)]]
    BY <1>0, <1>1, <1>3 DEF Contents
  <2> QED
    BY <1>1, <1>2, <2>1, CapacityAssumption DEF Contents
<1> QED
  BY <1>1, <1>3, <1>4, <1>5, <1>6
\* Pointers stay in their slots until they have been read.
LEMMA FilledStep == IInv /\ Filled /\ [Next]_vars => Filled'
<1> SUFFICES ASSUME IInv, Filled, [Next]_vars PROVE Filled'
  OBVIOUS
<1>1. CASE /\ UNCHANGED <<read_pos, write_pos, records>>
           /\ cpc' = "load" => cpc = "load" /\ cr' = cr
  BY <1>1 DEF Filled
<1>2. CASE PushStore
  <2>1. /\ UNCHANGED <<read_pos, write_pos, cpc, cr>>
        /\ \A i \in 1 .. Size(read_pos, write_pos) :
              records'[SlotOf(read_pos, i)] = records[SlotOf(read_pos, i)]
    BY <1>2, ContentsKept DEF PushStore, consumerVars
  <2>2. cpc = "load" => records'[cr] = records[cr]
    BY <1>2, CapacityAssumption
       DEF PushStore, IInv, TypeOK, Progress, RoomFor, NextRecord, Slot
  <2> QED
    BY <2>1, <2>2 DEF Filled
<1>3. CASE PushPublish
  <2>1. /\ Size(read_pos', write_pos') = Size(read_pos, write_pos) + 1
        /\ records[SlotOf(read_pos, Size(read_pos, write_pos) + 1)] \in Value
    BY <1>3, ContentsPushed
  <2>2. UNCHANGED <<records, read_pos, cpc, cr>>
    BY <1>3 DEF PushPublish, consumerVars
  <2>3. Size(read_pos, write_pos) \in 0 .. Capacity - 1
    BY SizeInSlot DEF IInv, TypeOK, Slot
  <2>4. \A i \in 1 .. Size(read_pos, write_pos) + 1 :
          \/ i = Size(read_pos, write_pos) + 1
          \/ i \in 1 .. Size(read_pos, write_pos)
    BY <2>3, CapacityAssumption
  <2> QED
    BY <2>1, <2>2, <2>4 DEF Filled
<1>4. CASE PopPublish
  <2>1. /\ Size(read_pos', write_pos') = Size(read_pos, write_pos) - 1
        /\ \A i \in 1 .. Size(read_pos', write_pos') :
              SlotOf(read_pos', i) = SlotOf(read_pos, i + 1)
        /\ records[cr] \in Value
    BY <1>4, ContentsPopped
  <2>2. UNCHANGED <<records, cr>>
    BY <1>4 DEF PopPublish, producerVars
  <2>3. Size(read_pos, write_pos) \in 0 .. Capacity - 1
    BY SizeInSlot DEF IInv, TypeOK, Slot
  <2>4. \A i \in 1 .. Size(read_pos', write_pos') :
          i + 1 \in 1 .. Size(read_pos, write_pos)
    BY <2>1, <2>3, CapacityAssumption
  <2> QED
    BY <2>1, <2>2, <2>4 DEF Filled
<1>5. \/ UNCHANGED vars \/ (\E v \in Value : PushBegin(v)) \/ PushFull
      \/ ProducerIsEmpty \/ ProducerIsNotFull \/ ProducerSize
      \/ PopBegin \/ PopEmpty \/ PopLoad \/ PeekBegin \/ PeekLoad
      \/ ConsumerIsNotEmpty \/ ConsumerIsFull \/ ConsumerSize
      => <1>1!1
  BY DEF vars, PushBegin, PushFull, ProducerIsEmpty, ProducerIsNotFull,
         ProducerSize, PopBegin, PopEmpty, PopLoad, PeekBegin, PeekLoad,
         ConsumerIsNotEmpty, ConsumerIsFull, ConsumerSize,
         producerVars, consumerVars
<1> QED
  BY <1>1, <1>2, <1>3, <1>4, <1>5 DEF Next, Producer, Consumer

\* The ring buffer starts as an empty queue.
LEMMA InitRefines == Init => FIFO!FIFOInit /\ Filled
  BY CapacityAssumption DEF Init, FIFO!FIFOInit, Contents, Handed, Filled, Size

\* Every step of the ring buffer is a step of the bounded queue or none.
LEMMA StepRefines ==
  IInv /\ Filled /\ [Next]_vars => [FIFO!FIFONext]_(FIFO!fifoVars)
<1> SUFFICES ASSUME IInv, Filled, [Next]_vars
             PROVE  FIFO!FIFONext \/ UNCHANGED FIFO!fifoVars
  OBVIOUS
<1> USE DEF FIFO!fifoVars, Handed
<1>0. /\ read_pos \in Slot /\ write_pos \in Slot
      /\ Size(read_pos, write_pos) \in 0 .. Capacity - 1
  BY SizeInSlot DEF IInv, TypeOK, Slot
<1>1. CASE \/ UNCHANGED vars \/ (\E v \in Value : PushBegin(v))
           \/ ProducerIsEmpty \/ ProducerIsNotFull \/ ProducerSize
           \/ PopBegin \/ PeekBegin \/ PeekLoad
           \/ ConsumerIsNotEmpty \/ ConsumerIsFull \/ ConsumerSize
  <2>1. /\ UNCHANGED <<read_pos, write_pos, records, push_ret, pop_ret>>
        /\ cpc' = "load" <=> cpc = "load"
        /\ cpc = "load" => cr' = cr
    BY <1>1 DEF vars, PushBegin, ProducerIsEmpty, ProducerIsNotFull,
                ProducerSize, PopBegin, PeekBegin, PeekLoad,
                ConsumerIsNotEmpty, ConsumerIsFull, ConsumerSize,
                producerVars, consumerVars
  <2> QED
    BY <2>1, ContentsKept
<1>2. CASE PushFull
  <2>1. Len(Contents) = Size(read_pos, write_pos)
    BY <1>0, CapacityAssumption DEF Contents
  <2>2. Size(read_pos, write_pos) = Capacity - 1
    BY <1>2, <1>0, CapacityAssumption DEF PushFull, RoomFor, NextRecord, Size, Slot
  <2>3. UNCHANGED <<Contents, Handed, pop_ret>> /\ push_ret' = -1
    BY <1>2, ContentsKept DEF PushFull, consumerVars
  <2>4. FIFO!Refuse
    BY <2>1, <2>2, <2>3, CapacityAssumption DEF FIFO!Refuse
  <2> QED
    BY <2>4 DEF FIFO!FIFONext
<1>3. CASE PushStore
  <2>1. cpc = "load" => records'[cr] = records[cr]
    BY <1>3, CapacityAssumption
       DEF PushStore, IInv, TypeOK, Progress, RoomFor, NextRecord, Slot
  <2>2. UNCHANGED <<read_pos, write_pos, cpc, cr, push_ret, pop_ret>>
    BY <1>3 DEF PushStore, consumerVars
  <2> QED
    BY <1>3, <2>1, <2>2, ContentsKept
<1>4. CASE PushPublish
  <2>1. /\ pv \in Value
        /\ Len(Contents) < Capacity - 1
        /\ Contents' = Append(Contents, pv)
    BY <1>4, ContentsPushed
  <2>2. FIFO!Put(pv)
    BY <1>4, <2>1 DEF FIFO!Put, PushPublish, consumerVars
  <2> QED
    BY <2>1, <2>2 DEF FIFO!FIFONext
<1>5. CASE PopEmpty
  <2>1. Size(read_pos, write_pos) = 0
    BY <1>5, <1>0, CapacityAssumption DEF PopEmpty, IsEmpty, Size, Slot
  <2>2. Contents = <<>>
    BY <2>1 DEF Contents
  <2>3. UNCHANGED <<Contents, Handed, push_ret>> /\ pop_ret' = NoValue /\ Handed = NoValue
    BY <1>5, ContentsKept DEF PopEmpty, producerVars
  <2>4. FIFO!FindNothing
    BY <2>2, <2>3 DEF FIFO!FindNothing
  <2> QED
    BY <2>4 DEF FIFO!FIFONext
<1>6. CASE PopPublish
  <2>1. /\ Contents # <<>>
        /\ records[cr] = Head(Contents)
        /\ Contents' = Tail(Contents)
    BY <1>6, ContentsPopped
  <2>2. FIFO!Take
    BY <1>6, <2>1 DEF FIFO!Take, PopPublish, producerVars
  <2> QED
    BY <2>2 DEF FIFO!FIFONext
<1>7. CASE PopLoad
  <2>1. records[cr] # NoValue
    BY <1>7, ValueAssumption DEF PopLoad, Filled
  <2>2. Contents' = Contents
    BY <1>7, ContentsKept DEF PopLoad, producerVars
  <2>3. FIFO!Return
    BY <1>7, <2>1, <2>2 DEF FIFO!Return, PopLoad, producerVars
  <2> QED
    BY <2>3 DEF FIFO!FIFONext
<1> QED
  BY <1>1, <1>2, <1>3, <1>4, <1>5, <1>6, <1>7 DEF Next, Producer, Consumer

\* The ring buffer is a bounded first-in first-out queue, for every capacity:
\* no pointer is lost, duplicated, reordered or read before it was written.
THEOREM Refinement == Spec => ImplementsFIFO
<1>1. IInv /\ Filled /\ [Next]_vars => [FIFO!FIFONext]_(FIFO!fifoVars)
  BY StepRefines
<1>2. IInv /\ Filled /\ [Next]_vars => Filled'
  BY FilledStep
<1> QED
  BY Invariance, InitRefines, <1>1, <1>2, PTL DEF Spec, ImplementsFIFO, FIFO!FIFOSpec
=============================================================================
