---------------------------- MODULE EngineProofs ----------------------------
(***************************************************************************)
(* Proofs about what is shared around the bus.  Reference counts: for      *)
(* every set of events, timers and copies and every size of the attached   *)
(* queue, an event is freed when its last owner gives it back, with the    *)
(* exceptions the properties name.  Attached queues: for every number of   *)
(* them, on any buses and of any size, each stays where its bus serves it, *)
(* and the walks that remove them miss no others than the property names.  *)
(***************************************************************************)
EXTENDS EventLifetime, BusAttach, SequenceTheorems, FiniteSetTheorems,
        WellFoundedInduction, TLAPS

-----------------------------------------------------------------------------
(* Reference counts: the inductive invariant. *)

Places == Seq(Event \ Timer)

Types ==
    /\ live \cap freed = {} /\ live \cup freed \subseteq Event
    /\ ref \in [Event -> Int] /\ held \in [Event -> Nat]
    /\ queue \in Places /\ tap \in Places
    /\ saved \in (Event \ Timer) \cup {NULL}
    /\ timers \subseteq Timer \cap given

\* The books on event x.  The count of a live event is the number of its owners;
\* it may be higher once an owner was lost, and lower for a repeating timer,
\* which is handed out without a reference.  What is not live has no owner.
Books(x) ==
    x \notin cloned =>
        /\ x \in live =>
            /\ ref[x] >= 1
            /\ x \notin leaked => ref[x] <= Owners(x)
            /\ x \notin Repeating => ref[x] >= Owners(x)
        /\ x \notin live /\ x \notin Repeating => Owners(x) = 0

IInv == Types /\ \A x \in Event : Books(x)

\* One if event x is the saved one; one if it is in the heap of timers.
IsSaved(x) == IF x = saved THEN 1 ELSE 0
IsTimer(x) == IF x \in timers THEN 1 ELSE 0

\* How often an event is in a queue is a number.
LEMMA TimesIsNat ==
  ASSUME NEW s \in Places, NEW x
  PROVE  IsFiniteSet({i \in DOMAIN s : s[i] = x}) /\ Times(s, x) \in Nat
<1>1. IsFiniteSet(1 .. Len(s)) /\ DOMAIN s = 1 .. Len(s)
  BY FS_Interval DEF Places
<1>2. IsFiniteSet({i \in DOMAIN s : s[i] = x})
  BY <1>1, FS_Subset
<1> QED
  BY <1>2, FS_CardinalityType DEF Times

\* Nothing is in an empty queue.
LEMMA TimesOfEmpty ==
  ASSUME NEW x PROVE Times(<<>>, x) = 0
<1>1. {i \in DOMAIN <<>> : <<>>[i] = x} = {}
  OBVIOUS
<1> QED
  BY <1>1, FS_EmptySet DEF Times

\* A push adds one entry.
LEMMA TimesOfAppend ==
  ASSUME NEW s \in Places, NEW y \in Event \ Timer
  PROVE  /\ Append(s, y) \in Places
         /\ \A x : Times(Append(s, y), x) = Times(s, x) + (IF y = x THEN 1 ELSE 0)
<1> DEFINE t == Append(s, y)
<1>1. /\ t \in Places /\ Len(t) = Len(s) + 1 /\ Len(s) \in Nat
      /\ \A i \in 1 .. Len(s) : t[i] = s[i]
      /\ t[Len(s) + 1] = y
      /\ DOMAIN s = 1 .. Len(s) /\ DOMAIN t = 1 .. Len(s) + 1
  BY DEF Places
<1>2. ASSUME NEW x PROVE Times(t, x) = Times(s, x) + (IF y = x THEN 1 ELSE 0)
  <2> DEFINE I == {i \in DOMAIN s : s[i] = x}
             J == {i \in DOMAIN t : t[i] = x}
  <2>1. IsFiniteSet(I) /\ Cardinality(I) \in Nat
    BY TimesIsNat DEF Times
  <2> HIDE DEF t
  <2>2. CASE y = x
    <3>1. J = I \cup {Len(s) + 1} /\ Len(s) + 1 \notin I
      BY <1>1, <2>2
    <3> HIDE DEF I, J
    <3>2. Cardinality(J) = Cardinality(I) + 1
      BY <2>1, <3>1, FS_AddElement
    <3> QED
      BY <2>2, <3>2 DEF I, J, Times
  <2>3. CASE y # x
    <3>1. J = I
      BY <1>1, <2>3
    <3> HIDE DEF I, J
    <3>2. Cardinality(J) = Cardinality(I) + 0
      BY <2>1, <3>1
    <3> QED
      BY <2>3, <3>2 DEF I, J, Times
  <2> QED
    BY <2>2, <2>3
<1> QED
  BY <1>1, <1>2 DEF t

\* A pop takes one entry.
LEMMA TimesOfTail ==
  ASSUME NEW s \in Places, s # <<>>
  PROVE  /\ Head(s) \in Event \ Timer /\ Tail(s) \in Places
         /\ \A x : Times(Tail(s), x) = Times(s, x) - (IF Head(s) = x THEN 1 ELSE 0)
<1> DEFINE t == Tail(s)
           L == Len(s)
<1>1. /\ Head(s) \in Event \ Timer /\ Head(s) = s[1] /\ t \in Places
      /\ DOMAIN s = 1 .. L /\ DOMAIN t = 1 .. L - 1 /\ L \in Nat \ {0}
      /\ \A i \in 1 .. L - 1 : t[i] = s[i + 1]
  <2>1. s \in Seq(Event \ Timer) /\ L \in Nat \ {0}
    BY EmptySeq DEF Places
  <2>2. /\ Head(s) \in Event \ Timer /\ t \in Seq(Event \ Timer) /\ Len(t) = L - 1
        /\ \A i \in 1 .. Len(t) : t[i] = s[i + 1]
    BY <2>1, HeadTailProperties
  <2>3. Head(s) = s[1] /\ DOMAIN s = 1 .. L /\ DOMAIN t = 1 .. Len(t)
    BY <2>1, <2>2
  <2> QED
    BY <2>1, <2>2, <2>3 DEF Places
<1> HIDE DEF t, L
<1>2. ASSUME NEW x PROVE Times(t, x) = Times(s, x) - (IF Head(s) = x THEN 1 ELSE 0)
  <2> DEFINE I == {i \in DOMAIN s : s[i] = x}
             J == {i \in DOMAIN t : t[i] = x}
  <2>1. IsFiniteSet(I) /\ IsFiniteSet(J)
    BY <1>1, TimesIsNat
  <2>2. Cardinality(I \ {1}) = Cardinality(J)
    <3> DEFINE f == [j \in J |-> j + 1]
    <3>1. f \in [J -> I \ {1}]
      BY <1>1
    <3>2. \A i, j \in J : f[i] = f[j] => i = j
      BY <1>1
    <3>3. \A i \in I \ {1} : i - 1 \in J /\ f[i - 1] = i
      <4> SUFFICES ASSUME NEW i \in I \ {1} PROVE i - 1 \in J /\ f[i - 1] = i
        OBVIOUS
      <4>1. i - 1 \in 1 .. L - 1 /\ (i - 1) + 1 = i
        BY <1>1
      <4>2. t[i - 1] = s[i]
        BY <1>1, <4>1
      <4> QED
        BY <1>1, <4>1, <4>2
    <3> HIDE DEF f, I, J
    <3>4. f \in Bijection(J, I \ {1})
      BY <3>1, <3>2, <3>3 DEF Bijection, Injection, Surjection, IsInjective
    <3> QED
      BY <2>1, <3>4, FS_Bijection DEF ExistsBijection
  <2>3. 1 \in I <=> Head(s) = x
    BY <1>1
  <2> HIDE DEF I, J
  <2>4. /\ Cardinality(I \ {1}) = IF 1 \in I THEN Cardinality(I) - 1 ELSE Cardinality(I)
        /\ Cardinality(I) \in Nat
    BY <2>1, FS_RemoveElement, FS_CardinalityType
  <2>5. Cardinality(J) = Cardinality(I) - (IF Head(s) = x THEN 1 ELSE 0)
    BY <2>2, <2>3, <2>4
  <2> QED
    BY <2>5 DEF I, J, Times
<1> QED
  BY <1>1, <1>2 DEF t

\* The owners of an event, by kind.
LEMMA OwnersAdd ==
  ASSUME Types, NEW x \in Event
  PROVE  /\ Owners(x) = held[x] + Times(queue, x) + Times(tap, x) + IsSaved(x) + IsTimer(x)
         /\ held[x] \in Nat /\ Times(queue, x) \in Nat /\ Times(tap, x) \in Nat
         /\ IsSaved(x) \in {0, 1} /\ IsTimer(x) \in {0, 1} /\ ref[x] \in Int
<1>1. Times(queue, x) \in Nat /\ Times(tap, x) \in Nat
  BY TimesIsNat DEF Types
<1> QED
  BY <1>1 DEF Types, Owners, IsSaved, IsTimer

\* Owners are counted in natural numbers.
LEMMA OwnersAreNat ==
  ASSUME Types, NEW x \in Event
  PROVE  Owners(x) \in Nat /\ ref[x] \in Int
BY OwnersAdd

\* At the start there are no events.
LEMMA InitIInv ==
  ASSUME LifetimeAssumption, Init PROVE IInv
<1>1. Types
  BY EmptySeq DEF Init, Types, Places
<1>2. ASSUME NEW x \in Event PROVE Books(x)
  <2>1. Owners(x) = 0
    BY TimesOfEmpty DEF Init, Owners, LifetimeAssumption
  <2> QED
    BY <2>1 DEF Init, Books
<1> QED
  BY <1>1, <1>2 DEF IInv
-----------------------------------------------------------------------------
(* Steps. *)

\* The same after a step.
LEMMA OwnersAddNext ==
  ASSUME Types', NEW x \in Event
  PROVE  /\ Owners(x)' = held'[x] + Times(queue', x) + Times(tap', x) + IsSaved(x)' + IsTimer(x)'
         /\ held'[x] \in Nat /\ Times(queue', x) \in Nat /\ Times(tap', x) \in Nat
         /\ IsSaved(x)' \in {0, 1} /\ IsTimer(x)' \in {0, 1} /\ ref'[x] \in Int
<1>1. Times(queue', x) \in Nat /\ Times(tap', x) \in Nat
  BY TimesIsNat DEF Types
<1> QED
  BY <1>1 DEF Types, Owners, IsSaved, IsTimer

\* The same after a step.
LEMMA OwnersAreNatNext ==
  ASSUME Types', NEW x \in Event
  PROVE  Owners(x)' \in Nat /\ ref'[x] \in Int
BY OwnersAddNext

\* Who unrefs an event gives back as many references as he owned.  Then it is
\* freed exactly when nobody owns it any more.
LEMMA UnrefKeepsBooks ==
  ASSUME Types, Types', NEW x \in Event, Books(x), NEW n \in [Event -> Nat], Unref(n),
         Owners(x)' = Owners(x) - n[x], UNCHANGED <<cloned, leaked>>
  PROVE  Books(x)'
<1> SUFFICES ASSUME x \notin cloned PROVE Books(x)'
  BY DEF Books
<1>1. ref'[x] = ref[x] - n[x] /\ ref[x] \in Int /\ n[x] \in Nat
  BY DEF Unref, Types
<1>2. Owners(x) \in Nat /\ Owners(x)' \in Nat
  BY OwnersAdd, OwnersAddNext
<1>3. x \in live' <=> x \in live /\ ~(n[x] > 0 /\ n[x] >= ref[x])
  BY DEF Unref
<1>4. CASE x \in live'
  BY <1>1, <1>2, <1>3, <1>4 DEF Books
<1>5. CASE x \notin live' /\ x \in live
  BY <1>1, <1>2, <1>3, <1>5 DEF Books
<1>6. CASE x \notin live
  BY <1>1, <1>2, <1>3, <1>6 DEF Books
<1> QED
  BY <1>4, <1>5, <1>6

\* What is handed on, or referenced once more for one more owner, stays in order.
LEMMA BooksMove ==
  ASSUME Types, Types', NEW x \in Event, Books(x),
         x \in live' <=> x \in live, ref'[x] >= ref[x],
         x \notin Repeating => Owners(x)' - Owners(x) <= ref'[x] - ref[x],
         x \notin leaked' => ref'[x] - ref[x] <= Owners(x)' - Owners(x),
         Owners(x) = 0 => Owners(x)' = 0,
         cloned \subseteq cloned', leaked \subseteq leaked'
  PROVE  Books(x)'
<1>1. Owners(x) \in Int /\ Owners(x)' \in Int /\ ref[x] \in Int /\ ref'[x] \in Int
  BY OwnersAdd, OwnersAddNext
<1> QED
  BY <1>1 DEF Books

\* A push passes the producer's reference to the queue.
LEMMA PushStep ==
  ASSUME LifetimeAssumption, IInv, NEW e \in Event, Push(e)
  PROVE  IInv'
<1>0. Types /\ \A x \in Event : Books(x)
  BY DEF IInv
<1>1. Types'
  BY <1>0, TimesOfAppend DEF Push, Types
<1>2. ASSUME NEW x \in Event PROVE Books(x)'
  <2>1. /\ held'[x] = held[x] - (IF e = x THEN 1 ELSE 0)
        /\ Times(queue', x) = Times(queue, x) + (IF e = x THEN 1 ELSE 0)
        /\ Times(tap', x) = Times(tap, x)
    BY <1>0, TimesOfAppend DEF Push, Types
  <2>2. IsSaved(x)' = IsSaved(x) /\ IsTimer(x)' = IsTimer(x)
    BY <1>0, TimesOfAppend DEF Push, IsSaved, IsTimer, LifetimeAssumption, Types
  <2>3. Owners(x)' = Owners(x)
    <3>1. CASE e = x
      BY <1>0, <1>1, <2>1, <2>2, OwnersAdd, OwnersAddNext, <3>1
    <3>2. CASE ~(e = x)
      BY <1>0, <1>1, <2>1, <2>2, OwnersAdd, OwnersAddNext, <3>2
    <3> QED
      BY <3>1, <3>2
  <2>4. ref'[x] = ref[x] /\ live' = live /\ cloned' = cloned /\ leaked' = leaked
    BY DEF Push
  <2> QED
    BY <1>0, <1>1, <2>3, <2>4, OwnersAdd, OwnersAddNext, BooksMove
<1> QED
  BY <1>1, <1>2 DEF IInv

\* The queue's reference becomes that of the saved event.
LEMMA SaveStep ==
  ASSUME LifetimeAssumption, IInv, Save
  PROVE  IInv'
<1>0. Types /\ \A x \in Event : Books(x)
  BY DEF IInv
<1>1. Types'
  BY <1>0, TimesOfTail DEF Save, Types
<1>2. ASSUME NEW x \in Event PROVE Books(x)'
  <2>1. /\ held'[x] = held[x]
        /\ Times(queue', x) = Times(queue, x) - (IF Head(queue) = x THEN 1 ELSE 0)
        /\ Times(tap', x) = Times(tap, x)
    BY <1>0, TimesOfTail DEF Save, Types
  <2>2. IsSaved(x)' = IsSaved(x) + (IF Head(queue) = x THEN 1 ELSE 0) /\ IsTimer(x)' = IsTimer(x)
    BY <1>0, TimesOfTail DEF Save, IsSaved, IsTimer, LifetimeAssumption, Types
  <2>3. Owners(x)' = Owners(x)
    BY <1>0, <1>1, <2>1, <2>2, OwnersAdd, OwnersAddNext
  <2>4. ref'[x] = ref[x] /\ live' = live /\ cloned' = cloned /\ leaked' = leaked
    BY DEF Save
  <2> QED
    BY <1>0, <1>1, <2>3, <2>4, OwnersAdd, OwnersAddNext, BooksMove
<1> QED
  BY <1>1, <1>2 DEF IInv

\* The attached queue's reference becomes the handler's.
LEMMA TapPopStep ==
  ASSUME LifetimeAssumption, IInv, TapPop
  PROVE  IInv'
<1>0. Types /\ \A x \in Event : Books(x)
  BY DEF IInv
<1>1. Types'
  BY <1>0, TimesOfTail DEF TapPop, Types
<1>2. ASSUME NEW x \in Event PROVE Books(x)'
  <2>1. /\ held'[x] = held[x] + (IF Head(tap) = x THEN 1 ELSE 0)
        /\ Times(queue', x) = Times(queue, x)
        /\ Times(tap', x) = Times(tap, x) - (IF Head(tap) = x THEN 1 ELSE 0)
    BY <1>0, TimesOfTail DEF TapPop, Types
  <2>2. IsSaved(x)' = IsSaved(x) /\ IsTimer(x)' = IsTimer(x)
    BY <1>0, TimesOfTail DEF TapPop, IsSaved, IsTimer, LifetimeAssumption, Types
  <2>3. Owners(x)' = Owners(x)
    BY <1>0, <1>1, <2>1, <2>2, OwnersAdd, OwnersAddNext
  <2>4. ref'[x] = ref[x] /\ live' = live /\ cloned' = cloned /\ leaked' = leaked
    BY DEF TapPop
  <2> QED
    BY <1>0, <1>1, <2>3, <2>4, OwnersAdd, OwnersAddNext, BooksMove
<1> QED
  BY <1>1, <1>2 DEF IInv

\* The reference goes to the heap.
LEMMA AddTimerStep ==
  ASSUME LifetimeAssumption, IInv, NEW e \in Event, AddTimer(e)
  PROVE  IInv'
<1>0. Types /\ \A x \in Event : Books(x)
  BY DEF IInv
<1>1. Types'
  BY <1>0 DEF AddTimer, Types
<1>2. ASSUME NEW x \in Event PROVE Books(x)'
  <2>1. /\ held'[x] = held[x] - (IF e = x THEN 1 ELSE 0)
        /\ Times(queue', x) = Times(queue, x)
        /\ Times(tap', x) = Times(tap, x)
    BY <1>0 DEF AddTimer, Types
  <2>2. IsSaved(x)' = IsSaved(x) /\ IsTimer(x)' = IsTimer(x) + (IF e = x THEN 1 ELSE 0)
    BY <1>0 DEF AddTimer, IsSaved, IsTimer, LifetimeAssumption, Types
  <2>3. Owners(x)' = Owners(x)
    BY <1>0, <1>1, <2>1, <2>2, OwnersAdd, OwnersAddNext
  <2>4. ref'[x] = ref[x] /\ live' = live /\ cloned' = cloned /\ leaked' = leaked
    BY DEF AddTimer
  <2> QED
    BY <1>0, <1>1, <2>3, <2>4, OwnersAdd, OwnersAddNext, BooksMove
<1> QED
  BY <1>1, <1>2 DEF IInv

\* And back from the heap.
LEMMA RemoveTimerStep ==
  ASSUME LifetimeAssumption, IInv, NEW e \in Event, RemoveTimer(e)
  PROVE  IInv'
<1>0. Types /\ \A x \in Event : Books(x)
  BY DEF IInv
<1>1. Types'
  BY <1>0 DEF RemoveTimer, Types
<1>2. ASSUME NEW x \in Event PROVE Books(x)'
  <2>1. /\ held'[x] = held[x] + (IF e = x THEN 1 ELSE 0)
        /\ Times(queue', x) = Times(queue, x)
        /\ Times(tap', x) = Times(tap, x)
    BY <1>0 DEF RemoveTimer, Types
  <2>2. IsSaved(x)' = IsSaved(x) /\ IsTimer(x)' = IsTimer(x) - (IF e = x THEN 1 ELSE 0)
    BY <1>0 DEF RemoveTimer, IsSaved, IsTimer, LifetimeAssumption, Types
  <2>3. Owners(x)' = Owners(x)
    BY <1>0, <1>1, <2>1, <2>2, OwnersAdd, OwnersAddNext
  <2>4. ref'[x] = ref[x] /\ live' = live /\ cloned' = cloned /\ leaked' = leaked
    BY DEF RemoveTimer
  <2> QED
    BY <1>0, <1>1, <2>3, <2>4, OwnersAdd, OwnersAddNext, BooksMove
<1> QED
  BY <1>1, <1>2 DEF IInv

\* The queue's reference is lost.
LEMMA DiscardStep ==
  ASSUME LifetimeAssumption, IInv, Discard
  PROVE  IInv'
<1>0. Types /\ \A x \in Event : Books(x)
  BY DEF IInv
<1>1. Types'
  BY <1>0, TimesOfTail DEF Discard, Types
<1>2. ASSUME NEW x \in Event PROVE Books(x)'
  <2>1. /\ held'[x] = held[x]
        /\ Times(queue', x) = Times(queue, x) - (IF Head(queue) = x THEN 1 ELSE 0)
        /\ Times(tap', x) = Times(tap, x)
    BY <1>0, TimesOfTail DEF Discard, Types
  <2>2. IsSaved(x)' = IsSaved(x) /\ IsTimer(x)' = IsTimer(x)
    BY <1>0, TimesOfTail DEF Discard, IsSaved, IsTimer, LifetimeAssumption, Types
  <2>3. Owners(x)' = Owners(x) - (IF Head(queue) = x THEN 1 ELSE 0)
    BY <1>0, <1>1, <2>1, <2>2, OwnersAdd, OwnersAddNext
  <2>4. /\ ref'[x] = ref[x] /\ live' = live /\ cloned' = cloned
        /\ leaked' = leaked \cup {Head(queue)}
    BY DEF Discard
  <2> QED
    BY <1>0, <1>1, <2>3, <2>4, OwnersAdd, OwnersAddNext, BooksMove
<1> QED
  BY <1>1, <1>2 DEF IInv

\* One more reference for one more owner.
LEMMA RefStep ==
  ASSUME LifetimeAssumption, IInv, NEW e \in Event, event_ref(e)
  PROVE  IInv'
<1>0. Types /\ \A x \in Event : Books(x)
  BY DEF IInv
<1>1. Types'
  BY <1>0 DEF event_ref, Types
<1>2. ASSUME NEW x \in Event PROVE Books(x)'
  <2>1. /\ held'[x] = held[x] + (IF e = x THEN 1 ELSE 0)
        /\ Times(queue', x) = Times(queue, x)
        /\ Times(tap', x) = Times(tap, x)
    BY <1>0 DEF event_ref, Types
  <2>2. IsSaved(x)' = IsSaved(x) /\ IsTimer(x)' = IsTimer(x)
    BY <1>0 DEF event_ref, IsSaved, IsTimer, LifetimeAssumption, Types
  <2>3. Owners(x)' = Owners(x) + (IF e = x THEN 1 ELSE 0)
    BY <1>0, <1>1, <2>1, <2>2, OwnersAdd, OwnersAddNext
  <2>4. /\ ref'[x] = ref[x] + (IF e = x THEN 1 ELSE 0) /\ held[e] > 0
        /\ live' = live /\ cloned' = cloned /\ leaked' = leaked
    BY <1>0 DEF event_ref, Types
  <2> QED
    BY <1>0, <1>1, <2>3, <2>4, OwnersAdd, OwnersAddNext, BooksMove
<1> QED
  BY <1>1, <1>2 DEF IInv

\* A timer leaves the heap with its reference, or stays in it without a second.
LEMMA PopTimerStep ==
  ASSUME LifetimeAssumption, IInv, NEW e \in Event, PopTimer(e)
  PROVE  IInv'
<1>0. Types /\ \A x \in Event : Books(x)
  BY DEF IInv
<1>1. Types'
  BY <1>0 DEF PopTimer, Types
<1>2. ASSUME NEW x \in Event PROVE Books(x)'
  <2>1. /\ held'[x] = held[x] + (IF e = x THEN 1 ELSE 0)
        /\ Times(queue', x) = Times(queue, x)
        /\ Times(tap', x) = Times(tap, x)
    BY <1>0 DEF PopTimer, Types
  <2>2. IsSaved(x)' = IsSaved(x) /\ IsTimer(x)' = IsTimer(x) - (IF e = x /\ e \notin Repeating THEN 1 ELSE 0)
    BY <1>0 DEF PopTimer, IsSaved, IsTimer, LifetimeAssumption, Types
  <2>3. Owners(x)' = Owners(x) + (IF e = x /\ e \in Repeating THEN 1 ELSE 0)
    BY <1>0, <1>1, <2>1, <2>2, OwnersAdd, OwnersAddNext
  <2>4. /\ ref'[x] = ref[x] /\ live' = live /\ cloned' = cloned /\ leaked' = leaked
        /\ IsTimer(e) = 1
    BY DEF PopTimer, IsTimer
  <2> QED
    BY <1>0, <1>1, <2>3, <2>4, OwnersAdd, OwnersAddNext, BooksMove
<1> QED
  BY <1>1, <1>2 DEF IInv

\* What ReturnSaved does to the attached queue.
LEMMA Forwarding ==
  ASSUME Types, ReturnSaved
  PROVE  /\ tap' \in Places
         /\ \A x : Times(tap', x) = Times(tap, x)
               + (IF saved = x /\ saved \notin Silent /\ Len(tap) < Capacity THEN 1 ELSE 0)
<1>1. saved \in Event \ Timer /\ tap \in Places
  BY DEF ReturnSaved, Types
<1>2. CASE saved \notin Silent /\ Len(tap) < Capacity
  <2>1. tap' = Append(tap, saved)
    BY <1>2 DEF ReturnSaved
  <2> QED
    BY <1>1, <1>2, <2>1, TimesOfAppend
<1>3. CASE ~(saved \notin Silent /\ Len(tap) < Capacity)
  <2>1. tap' = tap
    BY <1>3 DEF ReturnSaved
  <2>2. ASSUME NEW x PROVE Times(tap, x) \in Int
    <3>1. Times(tap, x) \in Nat
      BY <1>1, TimesIsNat
    <3> QED
      BY <3>1
  <2> QED
    BY <1>1, <1>3, <2>1, <2>2
<1> QED
  BY <1>2, <1>3

\* The saved event is handed out, and forwarded with a reference of its own, which a
\* full queue loses.
LEMMA ReturnSavedStep ==
  ASSUME LifetimeAssumption, IInv, ReturnSaved
  PROVE  IInv'
<1>0. Types /\ \A x \in Event : Books(x)
  BY DEF IInv
<1>1. /\ saved \in Event \ Timer /\ saved' = NULL /\ live' = live /\ cloned' = cloned
      /\ held' = [held EXCEPT ![saved] = @ + 1]
      /\ UNCHANGED <<queue, timers, freed, given>>
  BY <1>0 DEF ReturnSaved, Types
<1>2. ref' = [ref EXCEPT ![saved] = @ + ForwardRef(saved)] /\ ForwardRef(saved) \in {0, 1}
      /\ (ForwardRef(saved) = 0 <=> saved \in Silent)
  BY <1>0 DEF ReturnSaved, ForwardRef
<1>3. leaked' = IF saved \notin Silent /\ ~(Len(tap) < Capacity)
                THEN leaked \cup {saved} ELSE leaked
  BY DEF ReturnSaved
<1>4. Types'
  BY <1>0, <1>1, <1>2, Forwarding DEF Types
<1>5. ASSUME NEW x \in Event, x # saved PROVE Books(x)'
  <2>1. held'[x] = held[x] /\ ref'[x] = ref[x] /\ Times(queue', x) = Times(queue, x)
        /\ Times(tap', x) = Times(tap, x)
    BY <1>0, <1>1, <1>2, <1>5, Forwarding, OwnersAdd DEF Types
  <2>2. IsSaved(x)' = IsSaved(x) /\ IsTimer(x)' = IsTimer(x)
    BY <1>1, <1>5 DEF IsSaved, IsTimer, LifetimeAssumption
  <2>3. Owners(x)' = Owners(x) /\ leaked \subseteq leaked'
    BY <1>0, <1>3, <1>4, <2>1, <2>2, OwnersAdd, OwnersAddNext
  <2> QED
    BY <1>0, <1>1, <1>4, <2>1, <2>3, OwnersAdd, OwnersAddNext, BooksMove
<1>6. ASSUME NEW x \in Event, x = saved PROVE Books(x)'
  <2>1. held'[x] = held[x] + 1 /\ ref'[x] = ref[x] + ForwardRef(saved)
        /\ Times(queue', x) = Times(queue, x)
    BY <1>0, <1>1, <1>2, <1>6 DEF Types
  <2>2. IsSaved(x) = 1 /\ IsSaved(x)' = 0 /\ IsTimer(x)' = IsTimer(x)
    BY <1>1, <1>6 DEF IsSaved, IsTimer, LifetimeAssumption
  <2>3. Owners(x) \in Nat /\ ref[x] \in Int
    BY <1>0, OwnersAreNat
  <2>4. Owners(x)' \in Nat /\ ref'[x] \in Int
    BY <1>4, OwnersAreNatNext
  <2>5. /\ Types /\ Types' /\ Books(x) /\ (x \in live' <=> x \in live)
        /\ cloned \subseteq cloned' /\ leaked \subseteq leaked'
    BY <1>0, <1>1, <1>3, <1>4
  <2>6. CASE saved \in Silent
    <3>1. Times(tap', x) = Times(tap, x)
      BY <1>0, <2>6, Forwarding, OwnersAdd
    <3>2. Owners(x)' = Owners(x)
      BY <1>0, <1>4, <2>1, <2>2, <3>1, OwnersAdd, OwnersAddNext
    <3>3. ref'[x] = ref[x]
      BY <1>2, <2>1, <2>3, <2>6
    <3> QED
      BY <2>3, <2>4, <2>5, <3>2, <3>3, BooksMove
  <2>7. CASE saved \notin Silent /\ Len(tap) < Capacity
    <3>1. Times(tap', x) = Times(tap, x) + 1
      BY <1>0, <1>6, <2>7, Forwarding
    <3>2. Owners(x)' = Owners(x) + 1 /\ Owners(x) # 0
      BY <1>0, <1>4, <2>1, <2>2, <3>1, OwnersAdd, OwnersAddNext
    <3>3. ref'[x] = ref[x] + 1
      BY <1>2, <2>1, <2>7
    <3> QED
      BY <2>3, <2>4, <2>5, <3>2, <3>3, BooksMove
  <2>8. CASE saved \notin Silent /\ ~(Len(tap) < Capacity)
    <3>1. Times(tap', x) = Times(tap, x) /\ x \in leaked'
      BY <1>0, <1>3, <1>6, <2>8, Forwarding, OwnersAdd
    <3>2. Owners(x)' = Owners(x)
      BY <1>0, <1>4, <2>1, <2>2, <3>1, OwnersAdd, OwnersAddNext
    <3>3. ref'[x] = ref[x] + 1
      BY <1>2, <2>1, <2>8
    <3> QED
      BY <2>3, <2>4, <2>5, <3>1, <3>2, <3>3, BooksMove
  <2> QED
    BY <2>6, <2>7, <2>8
<1> QED
  BY <1>4, <1>5, <1>6 DEF IInv

\* A new event has one reference, for the one who asked for it.
LEMMA ZallocStep ==
  ASSUME LifetimeAssumption, IInv, NEW e \in Event, event_zalloc(e)
  PROVE  IInv'
<1>0. Types /\ \A x \in Event : Books(x)
  BY DEF IInv
<1>1. Types'
  BY <1>0 DEF event_zalloc, Types
<1>2. /\ UNCHANGED <<queue, tap, saved, timers, cloned, leaked>> /\ live' = live \cup {e}
      /\ e \notin live
  BY DEF event_zalloc
<1>3. ASSUME NEW x \in Event PROVE Books(x)'
  <2>1. /\ Times(queue', x) = Times(queue, x) /\ Times(tap', x) = Times(tap, x)
        /\ IsSaved(x)' = IsSaved(x) /\ IsTimer(x)' = IsTimer(x)
    BY <1>2 DEF IsSaved, IsTimer
  <2>2. CASE x # e
    <3>1. held'[x] = held[x] /\ ref'[x] = ref[x]
      BY <1>0, <2>2 DEF event_zalloc, Types
    <3>2. Owners(x)' = Owners(x)
      BY <1>0, <1>1, <2>1, <3>1, OwnersAdd, OwnersAddNext
    <3> QED
      BY <1>0, <1>2, <2>2, <3>1, <3>2 DEF Books
  <2>3. CASE x = e
    <3>1. held'[x] = 1 /\ ref'[x] = 1
      BY <1>0, <2>3 DEF event_zalloc, Types
    <3>2. Owners(x)' = Owners(x) - held[x] + 1 /\ Owners(x)' >= 1
      BY <1>0, <1>1, <2>1, <3>1, OwnersAdd, OwnersAddNext
    <3>3. Owners(x) = 0 => held[x] = 0
      <4>1. /\ held[x] \in Nat /\ Times(queue, x) \in Nat /\ Times(tap, x) \in Nat
            /\ IsSaved(x) \in Nat /\ IsTimer(x) \in Nat
            /\ Owners(x) = held[x] + Times(queue, x) + Times(tap, x) + IsSaved(x) + IsTimer(x)
        BY <1>0, OwnersAdd
      <4>2. \A a, b, c, d, f \in Nat : a + b + c + d + f = 0 => a = 0
        OBVIOUS
      <4> QED
        BY <4>1, <4>2
    <3> QED
      BY <1>0, <1>2, <2>3, <3>1, <3>2, <3>3 DEF Books
  <2> QED
    BY <2>2, <2>3
<1> QED
  BY <1>1, <1>3 DEF IInv

\* What Unref does to the types.
LEMMA UnrefTypes ==
  ASSUME Types, NEW n \in [Event -> Nat], Unref(n)
  PROVE  /\ live' \cap freed' = {} /\ live' \cup freed' \subseteq Event
         /\ ref' \in [Event -> Int]
BY DEF Types, Unref

\* Who has the event gives one reference back.
LEMMA UnrefStep ==
  ASSUME LifetimeAssumption, IInv, NEW e \in Event, event_unref(e)
  PROVE  IInv'
<1>0. Types /\ \A x \in Event : Books(x)
  BY DEF IInv
<1>1. Once(e) \in [Event -> Nat] /\ Unref(Once(e))
  BY DEF Once, event_unref
<1>2. UNCHANGED <<queue, tap, saved, timers, given, cloned, leaked>>
  BY DEF event_unref
<1>3. held' \in [Event -> Nat]
  BY <1>0 DEF event_unref, Types
<1>4. Types'
  BY <1>0, <1>1, <1>2, <1>3, UnrefTypes DEF Types
<1>5. ASSUME NEW x \in Event PROVE Books(x)'
  <2>1. held'[x] = held[x] - Once(e)[x] /\ Once(e)[x] \in Nat
    BY <1>0 DEF event_unref, Types, Once
  <2>2. /\ Times(queue', x) = Times(queue, x) /\ Times(tap', x) = Times(tap, x)
        /\ IsSaved(x)' = IsSaved(x) /\ IsTimer(x)' = IsTimer(x)
    BY <1>2 DEF IsSaved, IsTimer
  <2>3. Owners(x)' = Owners(x) - Once(e)[x]
    BY <1>0, <1>4, <2>1, <2>2, OwnersAdd, OwnersAddNext
  <2> QED
    BY <1>0, <1>1, <1>2, <1>4, <2>3, UnrefKeepsBooks
<1> QED
  BY <1>4, <1>5 DEF IInv

\* The counts of an original and its copy are wrong from here on: the invariant
\* says nothing of them.
LEMMA CloneStep ==
  ASSUME LifetimeAssumption, IInv, NEW e \in Event, event_clone(e)
  PROVE  IInv'
<1>0. Types /\ \A x \in Event : Books(x)
  BY DEF IInv
<1>1. PICK c \in Copy \ (live \cup freed) :
        /\ CopyCount(e, c)
        /\ live' = live \cup {c}
        /\ held' = [held EXCEPT ![c] = 1]
        /\ cloned' = cloned \cup {e, c}
  BY DEF event_clone
<1>2. UNCHANGED <<freed, queue, tap, saved, timers, given, kept, leaked>>
  BY DEF event_clone
<1>3. c \in Event
  BY DEF LifetimeAssumption
<1>4. ref' \in [Event -> Int] /\ \A x \in Event \ {e, c} : ref'[x] = ref[x]
  BY <1>0, <1>1, <1>3 DEF CopyCount, Types
<1>5. Types'
  BY <1>0, <1>1, <1>2, <1>3, <1>4 DEF Types
<1>6. ASSUME NEW x \in Event PROVE Books(x)'
  <2>1. CASE x \in {e, c}
    BY <1>1, <2>1 DEF Books
  <2>2. CASE x \notin {e, c}
    <3>1. held'[x] = held[x] /\ ref'[x] = ref[x]
      BY <1>0, <1>1, <1>4, <2>2 DEF Types
    <3>2. /\ Times(queue', x) = Times(queue, x) /\ Times(tap', x) = Times(tap, x)
          /\ IsSaved(x)' = IsSaved(x) /\ IsTimer(x)' = IsTimer(x)
      BY <1>2 DEF IsSaved, IsTimer
    <3>3. Owners(x)' = Owners(x)
      BY <1>0, <1>5, <3>1, <3>2, OwnersAdd, OwnersAddNext
    <3> QED
      BY <1>0, <1>1, <1>2, <2>2, <3>1, <3>3 DEF Books
  <2> QED
    BY <2>1, <2>2
<1> QED
  BY <1>5, <1>6 DEF IInv

\* bus_clear gives back what the bus owns.
LEMMA ClearStep ==
  ASSUME LifetimeAssumption, IInv, bus_clear
  PROVE  IInv'
<1>0. Types /\ \A x \in Event : Books(x)
  BY DEF IInv
<1> DEFINE n == [x \in Event |-> ClearCount(x)]
<1>1. \A x \in Event : n[x] = Times(tap, x) + IsSaved(x) + IsTimer(x) /\ n[x] \in Nat
  <2> SUFFICES ASSUME NEW x \in Event
               PROVE  n[x] = Times(tap, x) + IsSaved(x) + IsTimer(x) /\ n[x] \in Nat
    OBVIOUS
  <2>1. n[x] = Times(tap, x) + IsSaved(x) + IsTimer(x)
    BY DEF ClearCount, IsSaved, IsTimer
  <2>2. Times(tap, x) \in Nat /\ IsSaved(x) \in Nat /\ IsTimer(x) \in Nat
    BY <1>0, OwnersAdd
  <2> QED
    BY <2>1, <2>2
<1>2. n \in [Event -> Nat]
  BY <1>1
<1>3. Unref(n)
  BY DEF bus_clear
<1>4. /\ UNCHANGED <<held, queue, given, cloned, leaked>>
      /\ saved' = NULL /\ timers' = {} /\ tap' = <<>>
  BY DEF bus_clear
<1> HIDE DEF n
<1>5. tap' \in Places
  BY <1>4, EmptySeq DEF Places
<1>6. Types'
  BY <1>0, <1>2, <1>3, <1>4, <1>5, UnrefTypes DEF Types
<1>7. ASSUME NEW x \in Event PROVE Books(x)'
  <2>1. Times(queue', x) = Times(queue, x) /\ held'[x] = held[x] /\ Times(tap', x) = 0
    BY <1>4, TimesOfEmpty
  <2>2. IsSaved(x)' = 0 /\ IsTimer(x)' = 0
    BY <1>4 DEF IsSaved, IsTimer, LifetimeAssumption
  <2>3. Owners(x)' = Owners(x) - n[x]
    BY <1>0, <1>1, <1>6, <2>1, <2>2, OwnersAdd, OwnersAddNext
  <2> QED
    BY <1>0, <1>2, <1>3, <1>4, <1>6, <2>3, UnrefKeepsBooks
<1> QED
  BY <1>6, <1>7 DEF IInv

\* event_queue_destroy gives back what the queue owns.
LEMMA DestroyStep ==
  ASSUME LifetimeAssumption, IInv, event_queue_destroy
  PROVE  IInv'
<1>0. Types /\ \A x \in Event : Books(x)
  BY DEF IInv
<1> DEFINE n == [x \in Event |-> Times(queue, x)]
<1>1. n \in [Event -> Nat] /\ \A x \in Event : n[x] = Times(queue, x)
  BY <1>0, OwnersAdd
<1>2. Unref(n)
  BY DEF event_queue_destroy
<1>3. UNCHANGED <<held, tap, saved, timers, given, cloned, leaked>> /\ queue' = <<>>
  BY DEF event_queue_destroy
<1> HIDE DEF n
<1>4. queue' \in Places
  BY <1>3, EmptySeq DEF Places
<1>5. Types'
  BY <1>0, <1>1, <1>2, <1>3, <1>4, UnrefTypes DEF Types
<1>6. ASSUME NEW x \in Event PROVE Books(x)'
  <2>1. Times(queue', x) = 0 /\ held'[x] = held[x] /\ Times(tap', x) = Times(tap, x)
    BY <1>3, TimesOfEmpty
  <2>2. IsSaved(x)' = IsSaved(x) /\ IsTimer(x)' = IsTimer(x)
    BY <1>3 DEF IsSaved, IsTimer
  <2>3. Owners(x)' = Owners(x) - n[x]
    BY <1>0, <1>1, <1>5, <2>1, <2>2, OwnersAdd, OwnersAddNext
  <2> QED
    BY <1>0, <1>1, <1>2, <1>3, <1>5, <2>3, UnrefKeepsBooks
<1> QED
  BY <1>5, <1>6 DEF IInv

\* Every step keeps the books.
LEMMA NextIInv ==
  ASSUME LifetimeAssumption, IInv, [Next]_vars
  PROVE  IInv'
<1>1. CASE UNCHANGED vars
  BY <1>1 DEF vars, IInv, Types, Books, Owners, Times
<1>2. CASE Save
  BY <1>2, SaveStep
<1>3. CASE Discard
  BY <1>3, DiscardStep
<1>4. CASE ReturnSaved
  BY <1>4, ReturnSavedStep
<1>5. CASE TapPop
  BY <1>5, TapPopStep
<1>6. CASE bus_clear
  BY <1>6, ClearStep
<1>7. CASE event_queue_destroy
  BY <1>7, DestroyStep
<1>8. ASSUME NEW e \in Event,
             \/ PopTimer(e)
             \/ event_zalloc(e) \/ event_ref(e) \/ event_unref(e) \/ event_clone(e)
             \/ Push(e) \/ AddTimer(e) \/ RemoveTimer(e)
      PROVE  IInv'
  BY <1>8, PopTimerStep, ZallocStep, RefStep, UnrefStep, CloneStep, PushStep,
     AddTimerStep, RemoveTimerStep
<1> QED
  BY <1>1, <1>2, <1>3, <1>4, <1>5, <1>6, <1>7, <1>8 DEF Next

\* The two sides of the books.
LEMMA BooksBalance ==
  ASSUME IInv PROVE FreedOnlyUnowned /\ OwnerlessIsFreed
<1>0. Types /\ \A x \in Event : Books(x)
  BY DEF IInv
<1>1. ASSUME NEW e \in freed PROVE Owners(e) = 0 \/ e \in Repeating \cup cloned
  BY <1>0 DEF Types, Books
<1>2. ASSUME NEW e \in live PROVE Owners(e) > 0 \/ e \in leaked \cup cloned
  <2>1. e \in Event
    BY <1>0 DEF Types
  <2>2. Owners(e) \in Nat /\ ref[e] \in Int
    BY <1>0, <2>1, OwnersAreNat
  <2> QED
    BY <1>0, <2>1, <2>2, <1>2 DEF Books
<1> QED
  BY <1>1, <1>2 DEF FreedOnlyUnowned, OwnerlessIsFreed
-----------------------------------------------------------------------------
(* Theorems. *)

\* Whatever the way of an event through queues, timers, handlers, attached
\* queues of any size and a bus_clear in between: no one who still has it finds
\* it freed, unless it is a repeating timer or was cloned.
THEOREM NobodyLosesHisEvent ==
  ASSUME LifetimeAssumption PROVE Spec => []FreedOnlyUnowned
<1>1. Init => IInv
  BY InitIInv
<1>2. IInv /\ [Next]_vars => IInv'
  BY NextIInv
<1>3. IInv => FreedOnlyUnowned
  BY BooksBalance
<1> QED
  BY <1>1, <1>2, <1>3, PTL DEF Spec

\* And an event no one has is freed, but for the ones that late_event drops, a
\* full attached queue refuses, or default_clone gave too high a count.
THEOREM NoEventIsForgotten ==
  ASSUME LifetimeAssumption PROVE Spec => []OwnerlessIsFreed
<1>1. Init => IInv
  BY InitIInv
<1>2. IInv /\ [Next]_vars => IInv'
  BY NextIInv
<1>3. IInv => OwnerlessIsFreed
  BY BooksBalance
<1> QED
  BY <1>1, <1>2, <1>3, PTL DEF Spec

-----------------------------------------------------------------------------
(* Attached queues: sequences and loops. *)

\* A non-empty set of numbers has a smallest member.
LEMMA SmallestMember ==
  ASSUME NEW T \in SUBSET Nat, T # {}
  PROVE  \E x \in T : \A y \in T : x <= y
<1>1. PICK x \in T : \A y \in T : ~ (<<y, x>> \in OpToRel(<, Nat))
  BY WFMin, NatLessThanWellFounded
<1>2. \A y \in T : ~(y < x)
  BY <1>1 DEF OpToRel
<1> QED
  BY <1>2

\* A sequence without its i-th element.
LEMMA WithoutOne ==
  ASSUME NEW S, NEW s \in Seq(S), NEW i \in 1 .. Len(s)
  PROVE  /\ RemoveAt(s, i) \in Seq(S) /\ Len(RemoveAt(s, i)) = Len(s) - 1
         /\ \A j \in 1 .. Len(s) - 1 :
                RemoveAt(s, i)[j] = IF j < i THEN s[j] ELSE s[j + 1]
<1> DEFINE a == SubSeq(s, 1, i - 1)
           b == SubSeq(s, i + 1, Len(s))
<1>1. Len(s) \in Nat /\ i \in Nat /\ i >= 1 /\ i <= Len(s)
  BY LenProperties
<1>2. /\ a \in Seq(S) /\ Len(a) = i - 1 /\ \A j \in 1 .. i - 1 : a[j] = s[j]
  BY <1>1, SubSeqProperties
<1>3. /\ b \in Seq(S) /\ Len(b) = Len(s) - i
      /\ \A j \in 1 .. Len(s) - i : b[j] = s[(i + 1) + j - 1]
  BY <1>1, SubSeqProperties
<1> HIDE DEF a, b
<1>4. /\ a \o b \in Seq(S) /\ Len(a \o b) = Len(a) + Len(b)
      /\ \A j \in 1 .. Len(a) + Len(b) : (a \o b)[j] = IF j <= Len(a) THEN a[j] ELSE b[j - Len(a)]
  BY <1>2, <1>3, ConcatProperties
<1>5. RemoveAt(s, i) = a \o b
  BY DEF RemoveAt, a, b
<1>6. ASSUME NEW j \in 1 .. Len(s) - 1
      PROVE  (a \o b)[j] = IF j < i THEN s[j] ELSE s[j + 1]
  <2>1. CASE j < i
    BY <1>1, <1>2, <1>3, <1>4, <2>1
  <2>2. CASE j >= i
    <3>1. (a \o b)[j] = b[j - (i - 1)]
      BY <1>1, <1>2, <1>3, <1>4, <2>2
    <3>2. j - (i - 1) \in 1 .. Len(s) - i /\ (i + 1) + (j - (i - 1)) - 1 = j + 1
      BY <1>1, <2>2
    <3>3. b[j - (i - 1)] = s[(i + 1) + (j - (i - 1)) - 1]
      BY <1>3, <3>2
    <3> QED
      BY <1>1, <2>2, <3>1, <3>2, <3>3
  <2>3. j < i \/ j >= i
    BY <1>1
  <2> QED
    BY <2>1, <2>2, <2>3
<1>7. Len(a \o b) = Len(s) - 1
  BY <1>1, <1>2, <1>3, <1>4
<1> QED
  BY <1>4, <1>5, <1>6, <1>7

\* What a sequence holds.
LEMMA Held ==
  ASSUME NEW S, NEW s \in Seq(S)
  PROVE  /\ Len(s) \in Nat /\ ToSet(s) = {s[i] : i \in 1 .. Len(s)} /\ ToSet(s) \subseteq S
         /\ \A i \in 1 .. Len(s) : s[i] \in ToSet(s) /\ s[i] \in S
BY DEF ToSet

\* What it holds with one more at the end.
LEMMA HeldAppended ==
  ASSUME NEW S, NEW s \in Seq(S), NEW x \in S
  PROVE  /\ Append(s, x) \in Seq(S) /\ Len(Append(s, x)) = Len(s) + 1
         /\ ToSet(Append(s, x)) = ToSet(s) \cup {x}
<1> DEFINE t == Append(s, x)
<1>1. t \in Seq(S) /\ Len(t) = Len(s) + 1 /\ Len(s) \in Nat
      /\ (\A i \in 1 .. Len(s) : t[i] = s[i]) /\ t[Len(s) + 1] = x
  BY AppendProperties
<1> HIDE DEF t
<1>2. ASSUME NEW y \in ToSet(t)
      PROVE  y \in ToSet(s) \cup {x}
  <2>1. PICK i \in 1 .. Len(s) + 1 : t[i] = y
    BY <1>1 DEF ToSet
  <2>2. CASE i = Len(s) + 1
    BY <1>1, <2>1, <2>2
  <2>3. CASE i \in 1 .. Len(s)
    BY <1>1, <2>1, <2>3, Held
  <2> QED
    BY <1>1, <2>2, <2>3
<1>3. ASSUME NEW y \in ToSet(s) \cup {x}
      PROVE  y \in ToSet(t)
  <2>1. CASE y = x
    <3>1. Len(s) + 1 \in 1 .. Len(t)
      BY <1>1
    <3> QED
      BY <1>1, <2>1, <3>1, Held
  <2>2. CASE y \in ToSet(s)
    <3>1. PICK i \in 1 .. Len(s) : s[i] = y
      BY <2>2 DEF ToSet
    <3>2. i \in 1 .. Len(t) /\ t[i] = y
      BY <1>1, <3>1
    <3> QED
      BY <1>1, <3>2, Held
  <2> QED
    BY <2>1, <2>2
<1>4. ToSet(t) = ToSet(s) \cup {x}
  <2>1. \A y : y \in ToSet(t) <=> y \in ToSet(s) \cup {x}
    BY <1>2, <1>3
  <2> QED
    BY <2>1
<1> QED
  BY <1>1, <1>4 DEF t

-----------------------------------------------------------------------------
(* The loop of bus_detach. *)

Entries == [left : Seq(Queue), out : Seq(Queue)]

DetachedUpTo(s, b, n, f) ==
    f = [i \in 0 .. n |->
            IF i = 0 THEN [left |-> s, out |-> <<>>]
            ELSE IF i <= Len(f[i - 1].left) /\ ctx[f[i - 1].left[i]] = b
                 THEN [left |-> Without(f[i - 1].left, i),
                       out |-> Append(f[i - 1].out, f[i - 1].left[i])]
                 ELSE f[i - 1]]

LEMMA DetachLoopExists ==
  ASSUME NEW s, NEW b, NEW m \in Nat
  PROVE  \E f : DetachedUpTo(s, b, m, f)
<1> DEFINE P(k) == \E f : DetachedUpTo(s, b, k, f)
           Bad == {k \in Nat : ~P(k)}
<1>1. P(0)
  <2>1. DetachedUpTo(s, b, 0, [k \in 0 .. 0 |-> [left |-> s, out |-> <<>>]])
    BY DEF DetachedUpTo
  <2> QED
    BY <2>1
<1>2. ASSUME NEW k \in Nat, P(k) PROVE P(k + 1)
  <2>1. PICK f : DetachedUpTo(s, b, k, f)
    BY <1>2
  <2> DEFINE g == [i \in 0 .. k + 1 |->
            IF i = 0 THEN [left |-> s, out |-> <<>>]
            ELSE IF i <= Len(f[i - 1].left) /\ ctx[f[i - 1].left[i]] = b
                 THEN [left |-> Without(f[i - 1].left, i),
                       out |-> Append(f[i - 1].out, f[i - 1].left[i])]
                 ELSE f[i - 1]]
  <2>2. ASSUME NEW i \in 0 .. k PROVE g[i] = f[i]
    <3>1. f[i] = (IF i = 0 THEN [left |-> s, out |-> <<>>]
            ELSE IF i <= Len(f[i - 1].left) /\ ctx[f[i - 1].left[i]] = b
                 THEN [left |-> Without(f[i - 1].left, i),
                       out |-> Append(f[i - 1].out, f[i - 1].left[i])]
                 ELSE f[i - 1])
      BY <2>1, Zenon DEF DetachedUpTo
    <3>2. i \in 0 .. k + 1
      OBVIOUS
    <3> QED
      BY <3>1, <3>2, Zenon
  <2>3. ASSUME NEW i \in 0 .. k + 1, i # 0 PROVE g[i - 1] = f[i - 1]
    <3>1. i - 1 \in 0 .. k
      BY <2>3
    <3> QED
      BY <2>2, <3>1
  <2>4. DetachedUpTo(s, b, k + 1, g)
    BY <2>3 DEF DetachedUpTo
  <2> QED
    BY <2>4
<1>3. Bad = {}
  <2> SUFFICES ASSUME Bad # {} PROVE FALSE
    OBVIOUS
  <2> HIDE DEF P
  <2>1. PICK k \in Bad : \A j \in Bad : k <= j
    BY SmallestMember
  <2>2. CASE k = 0
    BY <1>1, <2>2
  <2>3. CASE k # 0
    <3>1. k - 1 \in Nat /\ k - 1 \notin Bad /\ k = (k - 1) + 1
      BY <2>1, <2>3
    <3> QED
      BY <1>2, <3>1
  <2> QED
    BY <2>2, <2>3
<1> QED
  BY <1>3

\* The entries in w.left come from the places p of s.  Those up to i have been
\* looked at; those behind are the rest of s.
FromPlaces(s, w, i, p) ==
    /\ p \in [1 .. Len(w.left) -> 1 .. Len(s)]
    /\ \A k, l \in 1 .. Len(w.left) : k < l => p[k] < p[l]
    /\ \A k \in 1 .. Len(w.left) :
          /\ w.left[k] = s[p[k]]
          /\ k > i => p[k] = k + (Len(s) - Len(w.left))

\* What has been taken out: queues of b, and what is left of b is right behind.
TakenOut(s, b, w, i, p) ==
    /\ \A k \in 1 .. Len(w.left) : w.left[k] \notin ToSet(w.out)
    /\ \A q \in ToSet(w.out) : q \in ToSet(s) /\ ctx[q] = b
    /\ \A j \in 1 .. Len(s) : s[j] \in ToSet(w.left) \/ s[j] \in ToSet(w.out)
    /\ \A k \in 1 .. Len(w.left) :
          k <= i /\ ctx[w.left[k]] = b => p[k] > 1 /\ s[p[k] - 1] \in ToSet(w.out)

Walked(s, b, w, i) ==
    /\ w \in Entries /\ Len(w.left) + Len(w.out) = Len(s)
    /\ \E p : FromPlaces(s, w, i, p) /\ TakenOut(s, b, w, i, p)

\* Entry i + 1 is not removed.
LEMMA WalkPasses ==
  ASSUME NEW s \in Seq(Queue), NEW b, NEW w, NEW i \in Nat, Walked(s, b, w, i),
         ~(i + 1 <= Len(w.left) /\ ctx[w.left[i + 1]] = b)
  PROVE  Walked(s, b, w, i + 1)
<1>1. PICK p : FromPlaces(s, w, i, p) /\ TakenOut(s, b, w, i, p)
  BY DEF Walked
<1>2. Len(w.left) \in Nat
  BY DEF Walked, Entries
<1>3. FromPlaces(s, w, i + 1, p)
  <2>1. \A k \in 1 .. Len(w.left) : k > i + 1 => k > i
    BY <1>2
  <2> QED
    BY <1>1, <2>1 DEF FromPlaces
<1>4. TakenOut(s, b, w, i + 1, p)
  <2>1. ASSUME NEW k \in 1 .. Len(w.left), k <= i + 1, ctx[w.left[k]] = b
        PROVE  k <= i
    BY <1>2, <2>1
  <2> QED
    BY <1>1, <2>1 DEF TakenOut
<1> QED
  BY <1>3, <1>4 DEF Walked

\* Entry i + 1 is removed.
LEMMA WalkRemoves ==
  ASSUME NEW s \in Seq(Queue), IsInjective(s), NEW b, NEW w, NEW i \in Nat, Walked(s, b, w, i),
         i + 1 <= Len(w.left), ctx[w.left[i + 1]] = b,
         NEW v, v = [left |-> Without(w.left, i + 1), out |-> Append(w.out, w.left[i + 1])]
  PROVE  Walked(s, b, v, i + 1)
<1> DEFINE l == w.left
           n == Len(l)
           j == i + 1
           m == Len(s)
           x == l[j]
<1>1. PICK p : FromPlaces(s, w, i, p) /\ TakenOut(s, b, w, i, p)
  BY DEF Walked
<1>2. /\ l \in Seq(Queue) /\ w.out \in Seq(Queue) /\ n \in Nat /\ m \in Nat /\ j \in 1 .. n
      /\ n + Len(w.out) = m /\ Len(w.out) \in Nat /\ j = i + 1
  BY DEF Walked, Entries
<1>3. x \in Queue
  BY <1>2
<1>4. /\ v.left \in Seq(Queue) /\ Len(v.left) = n - 1
      /\ \A k \in 1 .. n - 1 : v.left[k] = IF k < j THEN l[k] ELSE l[k + 1]
  <2>1. v.left = RemoveAt(l, j)
    BY DEF Without
  <2> HIDE DEF l, j, n
  <2>2. /\ RemoveAt(l, j) \in Seq(Queue) /\ Len(RemoveAt(l, j)) = Len(l) - 1
        /\ \A k \in 1 .. Len(l) - 1 : RemoveAt(l, j)[k] = IF k < j THEN l[k] ELSE l[k + 1]
    BY <1>2, WithoutOne DEF n
  <2> QED
    BY <2>1, <2>2 DEF n
<1>5. /\ v.out \in Seq(Queue) /\ Len(v.out) = Len(w.out) + 1
      /\ ToSet(v.out) = ToSet(w.out) \cup {x}
  <2>1. v.out = Append(w.out, x)
    OBVIOUS
  <2> HIDE DEF x
  <2> QED
    BY <1>2, <1>3, <2>1, HeldAppended
<1>6. v \in Entries /\ Len(v.left) + Len(v.out) = Len(s)
  <2>1. v = [left |-> v.left, out |-> v.out]
    OBVIOUS
  <2>2. v \in Entries
    BY <1>4, <1>5, <2>1, Zenon DEF Entries
  <2>3. (n - 1) + (Len(w.out) + 1) = m
    <3>1. \A c \in Nat, d \in Nat : (c - 1) + (d + 1) = c + d
      OBVIOUS
    <3> HIDE DEF l, n, m, j
    <3> QED
      BY <1>2, <3>1
  <2> QED
    BY <1>4, <1>5, <2>2, <2>3
<1>7. /\ p \in [1 .. n -> 1 .. m]
      /\ \A k, h \in 1 .. n : k < h => p[k] < p[h]
      /\ \A k \in 1 .. n : l[k] = s[p[k]] /\ (k > i => p[k] = k + (m - n))
  BY <1>1 DEF FromPlaces
<1>8. /\ \A k \in 1 .. n : l[k] \notin ToSet(w.out)
      /\ \A q \in ToSet(w.out) : q \in ToSet(s) /\ ctx[q] = b
      /\ \A k \in 1 .. m : s[k] \in ToSet(l) \/ s[k] \in ToSet(w.out)
      /\ \A k \in 1 .. n :
            k <= i /\ ctx[l[k]] = b => p[k] > 1 /\ s[p[k] - 1] \in ToSet(w.out)
  BY <1>1 DEF TakenOut
<1>9. ctx[x] = b
  OBVIOUS
<1>10. \A c, d \in 1 .. m : s[c] = s[d] => c = d
  BY DEF IsInjective
<1> HIDE DEF l, n, j, m
<1>11. \A k \in 1 .. n : k # j => l[k] # x
  <2> SUFFICES ASSUME NEW k \in 1 .. n, k # j PROVE l[k] # x
    OBVIOUS
  <2>1. p[k] # p[j] /\ p[k] \in 1 .. m /\ p[j] \in 1 .. m
    <3>1. k < j \/ j < k
      BY <1>2
    <3>2. p[k] < p[j] \/ p[j] < p[k]
      BY <1>2, <1>7, <3>1
    <3>3. p[k] \in 1 .. m /\ p[j] \in 1 .. m
      BY <1>2, <1>7
    <3> QED
      BY <1>2, <3>2, <3>3
  <2> QED
    BY <1>2, <1>7, <1>10, <2>1 DEF x
<1> DEFINE r == [k \in 1 .. n - 1 |-> IF k < j THEN p[k] ELSE p[k + 1]]
<1>12. ASSUME NEW k \in 1 .. n - 1
       PROVE  /\ k \in 1 .. n /\ k + 1 \in 1 .. n /\ r[k] \in 1 .. m /\ v.left[k] = s[r[k]]
              /\ r[k] = IF k < j THEN p[k] ELSE p[k + 1]
              /\ v.left[k] = IF k < j THEN l[k] ELSE l[k + 1]
  <2>1. k \in 1 .. n /\ k + 1 \in 1 .. n
    BY <1>2
  <2> QED
    BY <1>4, <1>7, <2>1
<1>13. r \in [1 .. n - 1 -> 1 .. m]
  BY <1>12
<1> HIDE DEF r
<1>14. FromPlaces(s, v, j, r)
  <2>1. ASSUME NEW k \in 1 .. n - 1, NEW h \in 1 .. n - 1, k < h
        PROVE  r[k] < r[h]
    <3>1. k + 1 < h + 1 /\ k < h + 1
      BY <2>1
    <3>2. (h < j => k < j)
      BY <1>2, <2>1
    <3>3. p[k] < p[h] /\ p[k + 1] < p[h + 1] /\ p[k] < p[h + 1]
      BY <1>7, <1>12, <2>1, <3>1
    <3> QED
      BY <1>12, <3>2, <3>3
  <2>2. ASSUME NEW k \in 1 .. n - 1, k > j
        PROVE  r[k] = k + (m - (n - 1))
    <3>1. ~(k < j) /\ k + 1 > i
      BY <1>2, <2>2
    <3>2. r[k] = p[k + 1] /\ p[k + 1] = (k + 1) + (m - n)
      BY <1>7, <1>12, <3>1
    <3> QED
      BY <1>2, <3>2
  <2> QED
    BY <1>4, <1>12, <1>13, <2>1, <2>2 DEF FromPlaces, m
<1>15. TakenOut(s, b, v, j, r)
  <2>1. ASSUME NEW k \in 1 .. n - 1
        PROVE  v.left[k] \notin ToSet(v.out)
    <3>1. CASE k < j
      <4>1. l[k] # x /\ l[k] \notin ToSet(w.out)
        BY <1>2, <1>8, <1>11, <1>12, <3>1
      <4> QED
        BY <1>5, <1>12, <3>1, <4>1
    <3>2. CASE ~(k < j)
      <4>1. k + 1 # j
        BY <1>2, <3>2
      <4>2. l[k + 1] # x /\ l[k + 1] \notin ToSet(w.out)
        BY <1>8, <1>11, <1>12, <4>1
      <4> QED
        BY <1>5, <1>12, <3>2, <4>2
    <3> QED
      BY <3>1, <3>2
  <2>2. ASSUME NEW q \in ToSet(v.out)
        PROVE  q \in ToSet(s) /\ ctx[q] = b
    <3>1. x \in ToSet(s)
      <4>1. x = s[p[j]] /\ p[j] \in 1 .. m
        BY <1>2, <1>7 DEF x
      <4> QED
        BY <4>1, Held DEF m
    <3> QED
      BY <1>5, <1>8, <1>9, <3>1
  <2>3. ASSUME NEW c \in 1 .. m, s[c] \notin ToSet(v.out)
        PROVE  s[c] \in ToSet(v.left)
    <3>1. s[c] \in ToSet(l) /\ s[c] # x
      BY <1>5, <1>8, <2>3
    <3>2. PICK k \in 1 .. n : l[k] = s[c]
      BY <1>2, <3>1, Held DEF n
    <3>3. k # j
      BY <3>1, <3>2 DEF x
    <3>4. CASE k < j
      <4>1. k \in 1 .. n - 1
        BY <1>2, <3>4
      <4>2. v.left[k] = s[c]
        BY <1>12, <3>2, <3>4, <4>1
      <4> QED
        BY <1>4, <4>1, <4>2, Held
    <3>5. CASE k > j
      <4> DEFINE h == k - 1
      <4>1. h \in 1 .. n - 1 /\ ~(h < j) /\ h + 1 = k
        BY <1>2, <3>5
      <4>2. v.left[h] = s[c]
        BY <1>12, <3>2, <4>1
      <4> QED
        BY <1>4, <4>1, <4>2, Held
    <3> QED
      BY <1>2, <3>3, <3>4, <3>5
  <2>4. ASSUME NEW k \in 1 .. n - 1, k <= j, ctx[v.left[k]] = b
        PROVE  r[k] > 1 /\ s[r[k] - 1] \in ToSet(v.out)
    <3>1. CASE k < j
      <4>1. k <= i /\ ctx[l[k]] = b /\ r[k] = p[k]
        BY <1>2, <1>12, <2>4, <3>1
      <4> QED
        BY <1>5, <1>8, <1>12, <4>1
    <3>2. CASE ~(k < j)
      <4>1. k = j /\ j + 1 \in 1 .. n /\ j > i /\ j + 1 > i
        BY <1>2, <1>12, <2>4, <3>2
      <4>2. r[k] = p[j + 1] /\ p[j + 1] = (j + 1) + (m - n) /\ p[j] = j + (m - n)
        BY <1>2, <1>7, <1>12, <3>2, <4>1
      <4>3. r[k] > 1 /\ r[k] - 1 = p[j]
        <5>1. p[j] \in 1 .. m
          BY <1>2, <1>7
        <5>2. r[k] = p[j] + 1
          BY <1>2, <4>2
        <5>3. \A c \in 1 .. m : c + 1 > 1 /\ (c + 1) - 1 = c
          BY <1>2
        <5> QED
          BY <5>1, <5>2, <5>3
      <4>4. s[p[j]] = x
        BY <1>2, <1>7 DEF x
      <4> QED
        BY <1>5, <4>3, <4>4
    <3> QED
      BY <3>1, <3>2
  <2> QED
    BY <1>4, <2>1, <2>2, <2>3, <2>4 DEF TakenOut, m
<1> QED
  BY <1>6, <1>14, <1>15 DEF Walked, j
\* What bus_detach leaves and what it takes out.
Detached(s, b, w) ==
    /\ w \in Entries /\ Len(w.left) + Len(w.out) = Len(s)
    /\ IsInjective(w.left)
    /\ ToSet(s) = ToSet(w.left) \cup ToSet(w.out)
    /\ ToSet(w.left) \cap ToSet(w.out) = {}
    /\ \A q \in ToSet(w.out) : ctx[q] = b
    /\ \A i \in 1 .. Len(s) : ctx[s[i]] = b /\ s[i] \in ToSet(w.left) =>
            i > 1 /\ s[i - 1] \in ToSet(w.out)
    /\ \A k, l \in 1 .. Len(w.left) : k < l =>
            \E i, j \in 1 .. Len(s) : i < j /\ s[i] = w.left[k] /\ s[j] = w.left[l]

LEMMA WalkedToTheEnd ==
  ASSUME NEW s \in Seq(Queue), IsInjective(s), NEW b, NEW w, Walked(s, b, w, Len(s))
  PROVE  Detached(s, b, w)
<1> DEFINE l == w.left
           n == Len(l)
           m == Len(s)
<1>1. PICK p : FromPlaces(s, w, m, p) /\ TakenOut(s, b, w, m, p)
  BY DEF Walked
<1>2. /\ w \in Entries /\ l \in Seq(Queue) /\ w.out \in Seq(Queue) /\ n \in Nat /\ m \in Nat
      /\ n + Len(w.out) = m /\ Len(w.out) \in Nat
  BY DEF Walked, Entries
<1>3. /\ p \in [1 .. n -> 1 .. m]
      /\ \A k, h \in 1 .. n : k < h => p[k] < p[h]
      /\ \A k \in 1 .. n : l[k] = s[p[k]]
  BY <1>1 DEF FromPlaces
<1>4. /\ \A k \in 1 .. n : l[k] \notin ToSet(w.out)
      /\ \A q \in ToSet(w.out) : q \in ToSet(s) /\ ctx[q] = b
      /\ \A k \in 1 .. m : s[k] \in ToSet(l) \/ s[k] \in ToSet(w.out)
      /\ \A k \in 1 .. n :
            k <= m /\ ctx[l[k]] = b => p[k] > 1 /\ s[p[k] - 1] \in ToSet(w.out)
  BY <1>1 DEF TakenOut
<1>5. \A c, d \in 1 .. m : s[c] = s[d] => c = d
  BY DEF IsInjective
<1>6. ToSet(l) = {l[k] : k \in 1 .. n} /\ ToSet(s) = {s[k] : k \in 1 .. m}
  BY <1>2, Held
<1>7. DOMAIN l = 1 .. n
  BY <1>2
<1> HIDE DEF l, n, m
<1>8. IsInjective(l)
  <2> SUFFICES ASSUME NEW k \in 1 .. n, NEW h \in 1 .. n, l[k] = l[h], k < h PROVE FALSE
    BY <1>2, <1>7 DEF IsInjective
  <2>1. p[k] = p[h]
    BY <1>3, <1>5
  <2> QED
    BY <1>3, <2>1
<1>9. ToSet(s) = ToSet(l) \cup ToSet(w.out)
  <2>1. ASSUME NEW q \in ToSet(s) PROVE q \in ToSet(l) \cup ToSet(w.out)
    BY <1>4, <1>6
  <2>2. ASSUME NEW q \in ToSet(l) PROVE q \in ToSet(s)
    BY <1>3, <1>6
  <2> QED
    BY <1>4, <2>1, <2>2
<1>10. ToSet(l) \cap ToSet(w.out) = {}
  BY <1>4, <1>6
<1>11. ASSUME NEW i \in 1 .. m, ctx[s[i]] = b, s[i] \in ToSet(l)
       PROVE  i > 1 /\ s[i - 1] \in ToSet(w.out)
  <2>1. PICK k \in 1 .. n : l[k] = s[i]
    BY <1>6, <1>11
  <2>2. p[k] = i
    BY <1>3, <1>5, <2>1
  <2>3. k <= m
    BY <1>2
  <2>4. ctx[l[k]] = b
    BY <1>11, <2>1
  <2> QED
    BY <1>4, <2>2, <2>3, <2>4
<1>12. ASSUME NEW k \in 1 .. n, NEW h \in 1 .. n, k < h
       PROVE  \E i, j \in 1 .. m : i < j /\ s[i] = l[k] /\ s[j] = l[h]
  <2>1. p[k] \in 1 .. m /\ p[h] \in 1 .. m /\ p[k] < p[h] /\ s[p[k]] = l[k] /\ s[p[h]] = l[h]
    BY <1>3, <1>12
  <2> QED
    BY <2>1
<1> QED
  BY <1>2, <1>4, <1>8, <1>9, <1>10, <1>11, <1>12 DEF Detached, l, n, m

LEMMA Detaches ==
  ASSUME NEW s \in Seq(Queue), IsInjective(s), NEW b
  PROVE  Detached(s, b, Detach(s, b))
<1> DEFINE m == Len(s)
           Q(f) == DetachedUpTo(s, b, m, f)
           f == CHOOSE g : Q(g)
<1>1. m \in Nat
  BY LenProperties
<1>2. Q(f)
  <2>1. \E g : Q(g)
    BY <1>1, DetachLoopExists
  <2> HIDE DEF Q
  <2> QED
    BY <2>1
<1>3. Detach(s, b) = f[m]
  BY Zenon DEF Detach, DetachedUpTo
<1> HIDE DEF f
<1> DEFINE Bad == {k \in Nat : k <= m /\ ~Walked(s, b, f[k], k)}
<1>4. Bad = {}
  <2> SUFFICES ASSUME Bad # {} PROVE FALSE
    OBVIOUS
  <2>1. PICK k \in Bad : \A j \in Bad : k <= j
    BY SmallestMember
  <2>2. f[k] = (IF k = 0 THEN [left |-> s, out |-> <<>>]
            ELSE IF k <= Len(f[k - 1].left) /\ ctx[f[k - 1].left[k]] = b
                 THEN [left |-> Without(f[k - 1].left, k),
                       out |-> Append(f[k - 1].out, f[k - 1].left[k])]
                 ELSE f[k - 1])
    <3>1. k \in 0 .. m
      BY <1>1
    <3> QED
      BY <1>2, <3>1, Zenon DEF DetachedUpTo
  <2>3. CASE k = 0
    <3> DEFINE w == [left |-> s, out |-> <<>>]
               p == [i \in 1 .. m |-> i]
    <3>1. w \in Entries /\ Len(w.left) + Len(w.out) = Len(s)
      BY <1>1 DEF Entries
    <3>2. FromPlaces(s, w, 0, p)
      BY <1>1 DEF FromPlaces
    <3>3. ToSet(<<>>) = {}
      BY DEF ToSet
    <3>4. TakenOut(s, b, w, 0, p)
      <4>1. \A i \in 1 .. m : s[i] \in ToSet(s) /\ ~(i <= 0)
        BY <1>1, Held
      <4> QED
        BY <3>3, <4>1 DEF TakenOut
    <3>5. Walked(s, b, w, 0)
      BY <3>1, <3>2, <3>4 DEF Walked
    <3> QED
      BY <2>2, <2>3, <3>5
  <2>4. CASE k # 0
    <3> DEFINE j == k - 1
               w == f[j]
    <3>1. j \in Nat /\ j \notin Bad /\ j <= m /\ j + 1 = k
      BY <2>1, <2>4
    <3>2. Walked(s, b, w, j)
      BY <3>1
    <3>3. ~Walked(s, b, f[k], k)
      OBVIOUS
    <3>4. f[k] = IF k <= Len(w.left) /\ ctx[w.left[k]] = b
                 THEN [left |-> Without(w.left, k), out |-> Append(w.out, w.left[k])]
                 ELSE w
      BY <2>2, <2>4
    <3> HIDE DEF Bad, w, j
    <3>5. CASE k <= Len(w.left) /\ ctx[w.left[k]] = b
      <4> DEFINE v == [left |-> Without(w.left, j + 1), out |-> Append(w.out, w.left[j + 1])]
      <4>1. f[k] = v
        BY <3>1, <3>4, <3>5
      <4>2. j + 1 <= Len(w.left) /\ ctx[w.left[j + 1]] = b
        BY <3>1, <3>5
      <4>3. Walked(s, b, v, j + 1)
        BY <3>1, <3>2, <4>2, WalkRemoves
      <4> QED
        BY <3>1, <3>3, <4>1, <4>3
    <3>6. CASE ~(k <= Len(w.left) /\ ctx[w.left[k]] = b)
      <4>1. f[k] = w /\ ~(j + 1 <= Len(w.left) /\ ctx[w.left[j + 1]] = b)
        BY <3>1, <3>4, <3>6
      <4>2. Walked(s, b, w, j + 1)
        BY <3>1, <3>2, <4>1, WalkPasses
      <4> QED
        BY <3>1, <3>3, <4>1, <4>2
    <3> QED
      BY <3>5, <3>6
  <2> QED
    BY <2>3, <2>4
<1>5. Walked(s, b, f[m], m)
  <2>1. m \in Nat /\ m <= m /\ m \notin Bad
    BY <1>1, <1>4
  <2> QED
    BY <2>1
<1> QED
  BY <1>3, <1>5, WalkedToTheEnd
-----------------------------------------------------------------------------
(* The walk of bus_clear. *)

ClearedUpTo(n, f) ==
    f = [i \in 0 .. n |->
            IF i = 0 THEN [left |-> attached, out |-> <<>>, freed |-> <<>>]
            ELSE IF i > Len(f[i - 1].left) THEN f[i - 1]
                 ELSE [left |-> Detach(f[i - 1].left, ctx[f[i - 1].left[i]]).left,
                       out |-> f[i - 1].out \o Detach(f[i - 1].left, ctx[f[i - 1].left[i]]).out,
                       freed |-> Append(f[i - 1].freed, f[i - 1].left[i])]]

LEMMA ClearLoopExists ==
  ASSUME NEW m \in Nat
  PROVE  \E f : ClearedUpTo(m, f)
<1> DEFINE P(k) == \E f : ClearedUpTo(k, f)
           Bad == {k \in Nat : ~P(k)}
<1>1. P(0)
  <2>1. ClearedUpTo(0, [k \in 0 .. 0 |-> [left |-> attached, out |-> <<>>, freed |-> <<>>]])
    BY DEF ClearedUpTo
  <2> QED
    BY <2>1
<1>2. ASSUME NEW k \in Nat, P(k) PROVE P(k + 1)
  <2>1. PICK f : ClearedUpTo(k, f)
    BY <1>2
  <2> DEFINE g == [i \in 0 .. k + 1 |->
            IF i = 0 THEN [left |-> attached, out |-> <<>>, freed |-> <<>>]
            ELSE IF i > Len(f[i - 1].left) THEN f[i - 1]
                 ELSE [left |-> Detach(f[i - 1].left, ctx[f[i - 1].left[i]]).left,
                       out |-> f[i - 1].out \o Detach(f[i - 1].left, ctx[f[i - 1].left[i]]).out,
                       freed |-> Append(f[i - 1].freed, f[i - 1].left[i])]]
  <2>2. ASSUME NEW i \in 0 .. k PROVE g[i] = f[i]
    <3>1. f[i] = (IF i = 0 THEN [left |-> attached, out |-> <<>>, freed |-> <<>>]
            ELSE IF i > Len(f[i - 1].left) THEN f[i - 1]
                 ELSE [left |-> Detach(f[i - 1].left, ctx[f[i - 1].left[i]]).left,
                       out |-> f[i - 1].out \o Detach(f[i - 1].left, ctx[f[i - 1].left[i]]).out,
                       freed |-> Append(f[i - 1].freed, f[i - 1].left[i])])
      BY <2>1, Zenon DEF ClearedUpTo
    <3>2. i \in 0 .. k + 1
      OBVIOUS
    <3> QED
      BY <3>1, <3>2, Zenon
  <2>3. ASSUME NEW i \in 0 .. k + 1, i # 0 PROVE g[i - 1] = f[i - 1]
    <3>1. i - 1 \in 0 .. k
      BY <2>3
    <3> QED
      BY <2>2, <3>1
  <2>4. ClearedUpTo(k + 1, g)
    BY <2>3 DEF ClearedUpTo
  <2> QED
    BY <2>4
<1>3. Bad = {}
  <2> SUFFICES ASSUME Bad # {} PROVE FALSE
    OBVIOUS
  <2> HIDE DEF P
  <2>1. PICK k \in Bad : \A j \in Bad : k <= j
    BY SmallestMember
  <2>2. CASE k = 0
    BY <1>1, <2>2
  <2>3. CASE k # 0
    <3>1. k - 1 \in Nat /\ k - 1 \notin Bad /\ k = (k - 1) + 1
      BY <2>1, <2>3
    <3> QED
      BY <1>2, <3>1
  <2> QED
    BY <2>2, <2>3
<1> QED
  BY <1>3

\* What bus_clear has left, taken out of heaps and destroyed before entry i + 1:
\* attached queues, and with at most two of them none is destroyed that has not
\* been taken out.
Cleared(w, i) ==
    /\ w.left \in Seq(Queue) /\ IsInjective(w.left) /\ ToSet(w.left) \subseteq ToSet(attached)
    /\ w.out \in Seq(Queue) /\ ToSet(w.out) \subseteq ToSet(attached)
    /\ w.freed \in Seq(Queue) /\ ToSet(w.freed) \subseteq ToSet(attached)
    /\ i = 0 => w.left = attached /\ w.out = <<>> /\ w.freed = <<>>
    /\ i > 0 /\ Len(attached) <= 2 => ToSet(w.freed) \subseteq ToSet(w.out) /\ Len(w.left) <= 1

\* What two sequences hold, one after the other.
LEMMA HeldTogether ==
  ASSUME NEW S, NEW s \in Seq(S), NEW t \in Seq(S)
  PROVE  /\ s \o t \in Seq(S)
         /\ ToSet(s \o t) = ToSet(s) \cup ToSet(t)
<1> DEFINE u == s \o t
<1>1. /\ u \in Seq(S) /\ Len(u) = Len(s) + Len(t) /\ Len(s) \in Nat /\ Len(t) \in Nat
      /\ \A i \in 1 .. Len(s) + Len(t) : u[i] = IF i <= Len(s) THEN s[i] ELSE t[i - Len(s)]
  BY ConcatProperties
<1> HIDE DEF u
<1>2. ASSUME NEW y \in ToSet(u) PROVE y \in ToSet(s) \cup ToSet(t)
  <2>1. PICK i \in 1 .. Len(s) + Len(t) : u[i] = y
    BY <1>1 DEF ToSet
  <2>2. CASE i <= Len(s)
    <3>1. i \in 1 .. Len(s) /\ s[i] = y
      BY <1>1, <2>1, <2>2
    <3> QED
      BY <3>1, Held
  <2>3. CASE ~(i <= Len(s))
    <3> DEFINE j == i - Len(s)
    <3>1. j \in 1 .. Len(t) /\ t[j] = y
      BY <1>1, <2>1, <2>3
    <3> QED
      BY <3>1, Held
  <2> QED
    BY <2>2, <2>3
<1>3. ASSUME NEW y \in ToSet(s) PROVE y \in ToSet(u)
  <2>1. PICK i \in 1 .. Len(s) : s[i] = y
    BY <1>3 DEF ToSet
  <2>2. i \in 1 .. Len(u) /\ u[i] = y
    BY <1>1, <2>1
  <2> QED
    BY <1>1, <2>2, Held
<1>4. ASSUME NEW y \in ToSet(t) PROVE y \in ToSet(u)
  <2>1. PICK i \in 1 .. Len(t) : t[i] = y
    BY <1>4 DEF ToSet
  <2> DEFINE j == i + Len(s)
  <2>2. j \in 1 .. Len(u) /\ ~(j <= Len(s)) /\ j - Len(s) = i
    BY <1>1, <2>1
  <2>3. u[j] = y
    BY <1>1, <2>1, <2>2
  <2> QED
    BY <1>1, <2>2, <2>3, Held
<1>5. ToSet(u) = ToSet(s) \cup ToSet(t)
  <2>1. \A y : y \in ToSet(u) <=> y \in ToSet(s) \cup ToSet(t)
    BY <1>2, <1>3, <1>4
  <2> QED
    BY <2>1
<1> QED
  BY <1>1, <1>5 DEF u

\* Entry j + 1 is destroyed, and its bus' queues are taken out.
LEMMA ClearGoesOn ==
  ASSUME attached \in Seq(Queue), NEW j \in Nat, NEW w, Cleared(w, j), j + 1 <= Len(w.left),
         NEW d, Detached(w.left, ctx[w.left[j + 1]], d),
         NEW v, v = [left |-> d.left, out |-> w.out \o d.out,
                     freed |-> Append(w.freed, w.left[j + 1])]
  PROVE  Cleared(v, j + 1)
<1> DEFINE x == w.left[j + 1]
<1>1. /\ w.left \in Seq(Queue) /\ ToSet(w.left) \subseteq ToSet(attached)
      /\ w.out \in Seq(Queue) /\ ToSet(w.out) \subseteq ToSet(attached)
      /\ w.freed \in Seq(Queue) /\ ToSet(w.freed) \subseteq ToSet(attached)
      /\ (j = 0 => w.left = attached /\ w.out = <<>> /\ w.freed = <<>>)
      /\ (j > 0 /\ Len(attached) <= 2 => Len(w.left) <= 1)
  BY DEF Cleared
<1>2. /\ d.left \in Seq(Queue) /\ d.out \in Seq(Queue) /\ Len(d.left) + Len(d.out) = Len(w.left)
      /\ IsInjective(d.left) /\ ToSet(w.left) = ToSet(d.left) \cup ToSet(d.out)
      /\ \A i \in 1 .. Len(w.left) : ctx[w.left[i]] = ctx[x] /\ w.left[i] \in ToSet(d.left) =>
            i > 1 /\ w.left[i - 1] \in ToSet(d.out)
  BY DEF Detached, Entries
<1>3. /\ j + 1 \in 1 .. Len(w.left) /\ Len(w.left) \in Nat /\ Len(d.left) \in Nat
      /\ Len(d.out) \in Nat /\ Len(attached) \in Nat
  BY <1>1, <1>2
<1>4. x \in Queue /\ x \in ToSet(w.left)
  BY <1>1, <1>3, Held
<1>5. /\ Append(w.freed, x) \in Seq(Queue)
      /\ ToSet(Append(w.freed, x)) = ToSet(w.freed) \cup {x}
  <2> HIDE DEF x
  <2> QED
    BY <1>1, <1>4, HeldAppended
<1>6. /\ w.out \o d.out \in Seq(Queue)
      /\ ToSet(w.out \o d.out) = ToSet(w.out) \cup ToSet(d.out)
  BY <1>1, <1>2, HeldTogether
<1>7. /\ v.left = d.left /\ v.out = w.out \o d.out /\ v.freed = Append(w.freed, x)
  OBVIOUS
<1>8. ASSUME Len(attached) <= 2
      PROVE  ToSet(v.freed) \subseteq ToSet(v.out) /\ Len(v.left) <= 1
  <2>1. j = 0
    BY <1>1, <1>3, <1>8
  <2>2. w.left = attached /\ w.freed = <<>> /\ ToSet(w.freed) = {}
    BY <1>1, <2>1 DEF ToSet
  <2>3. x \notin ToSet(d.left)
    <3>1. 1 \in 1 .. Len(w.left) /\ w.left[1] = x
      BY <1>3, <2>1
    <3>2. ~(1 > 1)
      OBVIOUS
    <3> HIDE DEF x
    <3> QED
      BY <1>2, <3>1, <3>2
  <2>4. x \in ToSet(d.out)
    BY <1>2, <1>4, <2>3
  <2>5. Len(d.out) # 0
    <3> DEFINE o == d.out
    <3>1. o \in Seq(Queue) /\ x \in ToSet(o)
      BY <1>2, <2>4
    <3> HIDE DEF o, x
    <3>2. \E i \in 1 .. Len(o) : o[i] = x
      BY <3>1 DEF ToSet
    <3>3. Len(o) # 0
      BY <3>2
    <3> QED
      BY <3>3 DEF o
  <2>6. Len(d.left) <= 1
    <3>1. \A a \in Nat, c \in Nat : c # 0 /\ a + c <= 2 => a <= 1
      OBVIOUS
    <3>2. Len(d.left) + Len(d.out) <= 2
      BY <1>2, <1>8, <2>2
    <3> QED
      BY <1>3, <2>5, <3>1, <3>2
  <2> QED
    BY <1>5, <1>6, <1>7, <2>2, <2>4, <2>6
<1>9. j + 1 # 0
  OBVIOUS
<1> HIDE DEF x
<1> QED
  BY <1>1, <1>2, <1>4, <1>5, <1>6, <1>7, <1>8, <1>9 DEF Cleared

LEMMA Clears ==
  ASSUME attached \in Seq(Queue), IsInjective(attached)
  PROVE  \E i \in Nat : Cleared(ClearWalk, i) /\ i = Len(attached)
<1> DEFINE m == Len(attached)
           Q(f) == ClearedUpTo(m, f)
           f == CHOOSE g : Q(g)
<1>1. m \in Nat
  BY LenProperties
<1>2. Q(f)
  <2>1. \E g : Q(g)
    BY <1>1, ClearLoopExists
  <2> HIDE DEF Q
  <2> QED
    BY <2>1
<1>3. ClearWalk = f[m]
  BY Zenon DEF ClearWalk, ClearedUpTo
<1> HIDE DEF f
<1> DEFINE Bad == {k \in Nat : k <= m /\ ~Cleared(f[k], k)}
<1>4. Bad = {}
  <2> SUFFICES ASSUME Bad # {} PROVE FALSE
    OBVIOUS
  <2>1. PICK k \in Bad : \A j \in Bad : k <= j
    BY SmallestMember
  <2>2. f[k] = (IF k = 0 THEN [left |-> attached, out |-> <<>>, freed |-> <<>>]
            ELSE IF k > Len(f[k - 1].left) THEN f[k - 1]
                 ELSE [left |-> Detach(f[k - 1].left, ctx[f[k - 1].left[k]]).left,
                       out |-> f[k - 1].out \o Detach(f[k - 1].left, ctx[f[k - 1].left[k]]).out,
                       freed |-> Append(f[k - 1].freed, f[k - 1].left[k])])
    <3>1. k \in 0 .. m
      BY <1>1
    <3> QED
      BY <1>2, <3>1, Zenon DEF ClearedUpTo
  <2>3. CASE k = 0
    <3> DEFINE w == [left |-> attached, out |-> <<>>, freed |-> <<>>]
    <3>1. ToSet(<<>>) = {} /\ <<>> \in Seq(Queue)
      BY DEF ToSet
    <3>2. Cleared(w, 0)
      BY <3>1 DEF Cleared
    <3> QED
      BY <2>2, <2>3, <3>2
  <2>4. CASE k # 0
    <3> DEFINE j == k - 1
               w == f[j]
               d == Detach(w.left, ctx[w.left[j + 1]])
    <3>1. j \in Nat /\ j \notin Bad /\ j <= m /\ j + 1 = k
      BY <2>1, <2>4
    <3>2. Cleared(w, j)
      BY <3>1
    <3>3. ~Cleared(f[k], k)
      OBVIOUS
    <3>4. f[k] = IF j + 1 > Len(w.left) THEN w
                 ELSE [left |-> d.left, out |-> w.out \o d.out,
                       freed |-> Append(w.freed, w.left[j + 1])]
      BY <2>2, <2>4, <3>1
    <3>5. Len(w.left) \in Nat
      BY <3>2 DEF Cleared
    <3>6. Detached(w.left, ctx[w.left[j + 1]], d)
      <4>1. w.left \in Seq(Queue) /\ IsInjective(w.left)
        BY <3>2 DEF Cleared
      <4> HIDE DEF w, j
      <4> QED
        BY <4>1, Detaches
    <3> HIDE DEF Bad, w, j, d
    <3>7. CASE j + 1 <= Len(w.left)
      <4> DEFINE v == [left |-> d.left, out |-> w.out \o d.out,
                       freed |-> Append(w.freed, w.left[j + 1])]
      <4>1. f[k] = v
        BY <3>1, <3>4, <3>5, <3>7
      <4>2. Cleared(v, j + 1)
        BY <3>1, <3>2, <3>6, <3>7, ClearGoesOn
      <4> QED
        BY <3>1, <3>3, <4>1, <4>2
    <3>8. CASE ~(j + 1 <= Len(w.left))
      <4>0. j + 1 > Len(w.left)
        BY <3>1, <3>5, <3>8
      <4>1. f[k] = w
        BY <3>4, <4>0
      <4>2. ASSUME j = 0, Len(attached) <= 2
            PROVE  ToSet(w.freed) \subseteq ToSet(w.out) /\ Len(w.left) <= 1
        <5>1. w.freed = <<>> /\ Len(w.left) = 0 /\ ToSet(<<>>) = {}
          BY <3>2, <3>5, <3>8, <4>2 DEF Cleared, ToSet
        <5> QED
          BY <5>1
      <4>3. (j = 0 \/ j > 0) /\ j + 1 # 0
        BY <3>1
      <4>4. Cleared(w, j + 1)
        BY <3>2, <4>2, <4>3 DEF Cleared
      <4> QED
        BY <3>1, <3>3, <4>1, <4>4
    <3> QED
      BY <3>7, <3>8
  <2> QED
    BY <2>3, <2>4
<1>5. Cleared(f[m], m)
  <2>1. m \in Nat /\ m <= m /\ m \notin Bad
    BY <1>1, <1>4
  <2> QED
    BY <2>1
<1> QED
  BY <1>1, <1>3, <1>5
-----------------------------------------------------------------------------
(* The queues that ask for their bus. *)

AskedUpTo(b, n, f) ==
    f = [i \in 0 .. n |->
            IF i = 0 THEN pending[b]
            ELSE IF ctx[attached[i]] = b /\ Notifies(attached[i])
                 THEN Append(f[i - 1], attached[i])
                 ELSE f[i - 1]]

LEMMA AskingLoopExists ==
  ASSUME NEW b, NEW m \in Nat
  PROVE  \E f : AskedUpTo(b, m, f)
<1> DEFINE P(k) == \E f : AskedUpTo(b, k, f)
           Bad == {k \in Nat : ~P(k)}
<1>1. P(0)
  <2>1. AskedUpTo(b, 0, [k \in 0 .. 0 |-> pending[b]])
    BY DEF AskedUpTo
  <2> QED
    BY <2>1
<1>2. ASSUME NEW k \in Nat, P(k) PROVE P(k + 1)
  <2>1. PICK f : AskedUpTo(b, k, f)
    BY <1>2
  <2> DEFINE g == [i \in 0 .. k + 1 |->
            IF i = 0 THEN pending[b]
            ELSE IF ctx[attached[i]] = b /\ Notifies(attached[i])
                 THEN Append(f[i - 1], attached[i])
                 ELSE f[i - 1]]
  <2>2. ASSUME NEW i \in 0 .. k PROVE g[i] = f[i]
    <3>1. f[i] = (IF i = 0 THEN pending[b]
            ELSE IF ctx[attached[i]] = b /\ Notifies(attached[i])
                 THEN Append(f[i - 1], attached[i])
                 ELSE f[i - 1])
      BY <2>1, Zenon DEF AskedUpTo
    <3>2. i \in 0 .. k + 1
      OBVIOUS
    <3> QED
      BY <3>1, <3>2, Zenon
  <2>3. ASSUME NEW i \in 0 .. k + 1, i # 0 PROVE g[i - 1] = f[i - 1]
    <3>1. i - 1 \in 0 .. k
      BY <2>3
    <3> QED
      BY <2>2, <3>1
  <2>4. AskedUpTo(b, k + 1, g)
    BY <2>3 DEF AskedUpTo
  <2> QED
    BY <2>4
<1>3. Bad = {}
  <2> SUFFICES ASSUME Bad # {} PROVE FALSE
    OBVIOUS
  <2> HIDE DEF P
  <2>1. PICK k \in Bad : \A j \in Bad : k <= j
    BY SmallestMember
  <2>2. CASE k = 0
    BY <1>1, <2>2
  <2>3. CASE k # 0
    <3>1. k - 1 \in Nat /\ k - 1 \notin Bad /\ k = (k - 1) + 1
      BY <2>1, <2>3
    <3> QED
      BY <1>2, <3>1
  <2> QED
    BY <2>2, <2>3
<1> QED
  BY <1>3

\* The pending queues of b once the first i attached queues have been pushed to.
Asked(b, a, i) ==
    /\ a \in Seq(Queue) /\ ToSet(pending[b]) \subseteq ToSet(a)
    /\ \A k \in 1 .. Len(attached) :
          k <= i /\ ctx[attached[k]] = b /\ Notifies(attached[k]) => attached[k] \in ToSet(a)

\* All of those that ask for their bus, and none that has been pending is lost.
LEMMA Asks ==
  ASSUME attached \in Seq(Queue), NEW b, pending[b] \in Seq(Queue)
  PROVE  Asked(b, Asking(b), Len(attached))
<1> DEFINE m == Len(attached)
           Q(f) == AskedUpTo(b, m, f)
           f == CHOOSE g : Q(g)
<1>1. m \in Nat
  BY LenProperties
<1>2. Q(f)
  <2>1. \E g : Q(g)
    BY <1>1, AskingLoopExists
  <2> HIDE DEF Q
  <2> QED
    BY <2>1
<1>3. Asking(b) = f[m]
  BY Zenon DEF Asking, AskedUpTo
<1> HIDE DEF f
<1> DEFINE Bad == {k \in Nat : k <= m /\ ~Asked(b, f[k], k)}
<1>4. Bad = {}
  <2> SUFFICES ASSUME Bad # {} PROVE FALSE
    OBVIOUS
  <2>1. PICK k \in Bad : \A j \in Bad : k <= j
    BY SmallestMember
  <2>2. f[k] = (IF k = 0 THEN pending[b]
            ELSE IF ctx[attached[k]] = b /\ Notifies(attached[k])
                 THEN Append(f[k - 1], attached[k])
                 ELSE f[k - 1])
    <3>1. k \in 0 .. m
      BY <1>1
    <3> QED
      BY <1>2, <3>1, Zenon DEF AskedUpTo
  <2>3. CASE k = 0
    <3>1. Asked(b, pending[b], 0)
      BY DEF Asked
    <3> QED
      BY <2>2, <2>3, <3>1
  <2>4. CASE k # 0
    <3> DEFINE j == k - 1
               a == f[j]
    <3>1. j \in Nat /\ j \notin Bad /\ j <= m /\ j + 1 = k /\ k \in 1 .. m
      BY <1>1, <2>1, <2>4
    <3>2. Asked(b, a, j)
      BY <3>1
    <3>3. ~Asked(b, f[k], k)
      OBVIOUS
    <3>4. f[k] = IF ctx[attached[k]] = b /\ Notifies(attached[k]) THEN Append(a, attached[k])
                 ELSE a
      BY <2>2, <2>4
    <3>5. attached[k] \in Queue
      BY <3>1, Held
    <3>6. a \in Seq(Queue)
      BY <3>2 DEF Asked
    <3>7. \A h \in 1 .. m : h <= k => h <= j \/ h = k
      BY <1>1, <3>1
    <3> HIDE DEF Bad, a, j
    <3>8. CASE ctx[attached[k]] = b /\ Notifies(attached[k])
      <4>1. f[k] = Append(a, attached[k])
        BY <3>4, <3>8
      <4>2. f[k] \in Seq(Queue) /\ ToSet(f[k]) = ToSet(a) \cup {attached[k]}
        BY <3>5, <3>6, <4>1, HeldAppended
      <4>3. Asked(b, f[k], k)
        BY <3>2, <3>7, <4>2 DEF Asked
      <4> QED
        BY <3>3, <4>3
    <3>9. CASE ~(ctx[attached[k]] = b /\ Notifies(attached[k]))
      <4>1. f[k] = a
        BY <3>4, <3>9
      <4>2. Asked(b, f[k], k)
        BY <3>2, <3>7, <3>9, <4>1 DEF Asked
      <4> QED
        BY <3>3, <4>2
    <3> QED
      BY <3>8, <3>9
  <2> QED
    BY <2>3, <2>4
<1>5. Asked(b, f[m], m)
  <2>1. m \in Nat /\ m <= m /\ m \notin Bad
    BY <1>1, <1>4
  <2> QED
    BY <2>1
<1> QED
  BY <1>3, <1>5

-----------------------------------------------------------------------------
(* The inductive invariant of attached queues. *)

\* A queue that is not allocated, or has been destroyed, holds nothing and is
\* not attached.
UnusedIsEmpty ==
    \A q \in Queue :
        /\ ctx[q] = NoBus => q \notin destroyed
        /\ ctx[q] = NoBus \/ q \in destroyed => content[q] = 0 /\ q \notin ToSet(attached)

AttachInv == AttachTypeOK /\ UnusedIsEmpty /\ NoneOutOfSight

\* AttachedAreServed, said of queues.
LEMMA ServedByQueue ==
  ASSUME attached \in Seq(Queue)
  PROVE  AttachedAreServed <=>
            \A q \in ToSet(attached) : content[q] > 0 /\ ctx[q] \notin corrupt =>
                q \in heap[ctx[q]] \cup ToSet(pending[ctx[q]])
BY DEF AttachedAreServed, ToSet

LEMMA AttachInitHolds == ASSUME AttachAssumption, AttachInit PROVE AttachInv
<1>1. /\ attached = <<>> /\ ctx = [q \in Queue |-> NoBus] /\ content = [q \in Queue |-> 0]
      /\ heap = [b \in Bus |-> {}] /\ pending = [b \in Bus |-> <<>>]
      /\ corrupt = {} /\ destroyed = {} /\ skipped = {}
  BY DEF AttachInit
<1>2. <<>> \in Seq(Queue) /\ IsInjective(<<>>) /\ ToSet(<<>>) = {}
  BY DEF IsInjective, ToSet
<1>3. AttachTypeOK
  <2>1. 0 \in 0 .. AttachCapacity
    BY DEF AttachAssumption
  <2> QED
    BY <1>1, <1>2, <2>1 DEF AttachTypeOK
<1>4. UnusedIsEmpty
  BY <1>1, <1>2 DEF UnusedIsEmpty
<1>5. NoneOutOfSight
  BY <1>1 DEF NoneOutOfSight, AttachedAreServed, DestroyedInHeapOnlySkipped
<1> QED
  BY <1>3, <1>4, <1>5 DEF AttachInv
\* Sequences of queues, what is known of them at each step.
LEMMA AttachTypes ==
  ASSUME AttachTypeOK
  PROVE  /\ attached \in Seq(Queue) /\ IsInjective(attached) /\ ToSet(attached) \subseteq Queue
         /\ \A b \in Bus : pending[b] \in Seq(Queue) /\ heap[b] \in SUBSET Queue
         /\ \A q \in Queue : content[q] \in 0 .. AttachCapacity /\ ctx[q] \in Bus \cup {NoBus}
  BY Held DEF AttachTypeOK

\* An attached queue has a bus and has not been destroyed.
LEMMA AttachedIsUsed ==
  ASSUME AttachTypeOK, UnusedIsEmpty, NEW q \in ToSet(attached)
  PROVE  q \in Queue /\ ctx[q] \in Bus /\ q \notin destroyed
<1>1. q \in Queue /\ ctx[q] \in Bus \cup {NoBus}
  BY AttachTypes
<1> QED
  BY <1>1 DEF UnusedIsEmpty

\* What RemoveFromHeaps does: queues leave, buses may become corrupt.
LEMMA Leaves ==
  ASSUME AttachTypeOK, NEW out \in Seq(Queue), RemoveFromHeaps(out)
  PROVE  /\ heap' \in [Bus -> SUBSET Queue] /\ corrupt \subseteq corrupt' /\ corrupt' \subseteq Bus
         /\ \A b \in Bus : heap'[b] = heap[b] \ ToSet(out)
<1>1. heap' = [b \in Bus |-> heap[b] \ ToSet(out)]
  BY DEF RemoveFromHeaps
<1>2. \A b \in Bus : heap[b] \in SUBSET Queue
  BY AttachTypes
<1>3. corrupt \subseteq Bus
  BY DEF AttachTypeOK
<1>4. corrupt \subseteq corrupt' /\ corrupt' \subseteq Bus
  BY <1>3, Zenon DEF RemoveFromHeaps
<1> QED
  BY <1>1, <1>2, <1>4

LEMMA AttachKeeps ==
  ASSUME AttachAssumption, AttachInv, NEW b \in Bus, bus_attach(b)
  PROVE  AttachInv'
<1> DEFINE fresh == {x \in Queue : ctx[x] = NoBus}
           q == CHOOSE x \in fresh : TRUE
<1>1. /\ fresh # {} /\ attached' = Append(attached, q) /\ ctx' = [ctx EXCEPT ![q] = b]
      /\ UNCHANGED <<content, heap, pending, corrupt, destroyed, skipped>>
  BY DEF bus_attach
<1>2. q \in Queue /\ ctx[q] = NoBus
  BY <1>1
<1>3. AttachTypeOK /\ UnusedIsEmpty /\ AttachedAreServed /\ DestroyedInHeapOnlySkipped
  BY DEF AttachInv, NoneOutOfSight
<1>4. content[q] = 0 /\ q \notin ToSet(attached) /\ q \notin destroyed
  BY <1>2, <1>3 DEF UnusedIsEmpty
<1> HIDE DEF q
<1>5. attached \in Seq(Queue) /\ IsInjective(attached)
  BY <1>3, AttachTypes
<1>6. /\ attached' \in Seq(Queue) /\ Len(attached') = Len(attached) + 1 /\ Len(attached) \in Nat
      /\ ToSet(attached') = ToSet(attached) \cup {q}
      /\ \A i \in 1 .. Len(attached) : attached'[i] = attached[i]
      /\ attached'[Len(attached) + 1] = q
  BY <1>1, <1>2, <1>5, HeldAppended, AppendProperties
<1>7. IsInjective(attached')
  <2>1. \A i \in 1 .. Len(attached) : attached[i] # q
    BY <1>4, <1>5, Held
  <2>2. ASSUME NEW i \in 1 .. Len(attached'), NEW j \in 1 .. Len(attached'),
               attached'[i] = attached'[j]
        PROVE  i = j
    <3>1. CASE i \in 1 .. Len(attached) /\ j \in 1 .. Len(attached)
      BY <1>5, <1>6, <2>2, <3>1 DEF IsInjective
    <3>2. CASE i = Len(attached) + 1 /\ j \in 1 .. Len(attached)
      BY <1>6, <2>1, <2>2, <3>2
    <3>3. CASE j = Len(attached) + 1 /\ i \in 1 .. Len(attached)
      BY <1>6, <2>1, <2>2, <3>3
    <3> QED
      BY <1>6, <3>1, <3>2, <3>3
  <2> QED
    BY <1>6, <2>2 DEF IsInjective
<1>8. ctx' \in [Queue -> Bus \cup {NoBus}] /\ \A x \in Queue : x # q => ctx'[x] = ctx[x]
  BY <1>1, <1>3 DEF AttachTypeOK
<1>9. ctx'[q] = b /\ b # NoBus
  BY <1>1, <1>2, <1>3 DEF AttachTypeOK, AttachAssumption
<1>10. AttachTypeOK'
  BY <1>1, <1>3, <1>6, <1>7, <1>8 DEF AttachTypeOK
<1>11. UnusedIsEmpty'
  <2>1. ASSUME NEW x \in Queue
        PROVE  /\ ctx'[x] = NoBus => x \notin destroyed'
               /\ ctx'[x] = NoBus \/ x \in destroyed' => content'[x] = 0 /\ x \notin ToSet(attached')
    <3>1. CASE x = q
      BY <1>1, <1>4, <1>9, <3>1
    <3>2. CASE x # q
      BY <1>1, <1>3, <1>6, <1>8, <3>2 DEF UnusedIsEmpty
    <3> QED
      BY <3>1, <3>2
  <2> QED
    BY <2>1 DEF UnusedIsEmpty
<1>12. AttachedAreServed'
  <2>1. ASSUME NEW x \in ToSet(attached'), content'[x] > 0, ctx'[x] \notin corrupt'
        PROVE  x \in heap'[ctx'[x]] \cup ToSet(pending'[ctx'[x]])
    <3>1. x # q
      BY <1>1, <1>4, <2>1
    <3>2. x \in ToSet(attached) /\ ctx'[x] = ctx[x]
      BY <1>3, <1>6, <1>8, <3>1, AttachedIsUsed
    <3> QED
      BY <1>1, <1>3, <1>5, <2>1, <3>2, ServedByQueue
  <2> QED
    BY <1>6, <2>1 DEF AttachedAreServed, ToSet
<1>13. DestroyedInHeapOnlySkipped'
  BY <1>1, <1>3 DEF DestroyedInHeapOnlySkipped
<1> QED
  BY <1>10, <1>11, <1>12, <1>13 DEF AttachInv, NoneOutOfSight

LEMMA DetachKeeps ==
  ASSUME AttachInv, NEW b \in Bus, bus_detach(b)
  PROVE  AttachInv'
<1> DEFINE w == Detach(attached, b)
<1>1. /\ attached' = w.left /\ RemoveFromHeaps(w.out)
      /\ UNCHANGED <<ctx, content, pending, destroyed, skipped>>
  BY DEF bus_detach
<1>2. AttachTypeOK /\ UnusedIsEmpty /\ AttachedAreServed /\ DestroyedInHeapOnlySkipped
  BY DEF AttachInv, NoneOutOfSight
<1>3. attached \in Seq(Queue) /\ IsInjective(attached)
  BY <1>2, AttachTypes
<1>4. Detached(attached, b, w)
  BY <1>3, Detaches
<1> HIDE DEF w
<1>5. /\ w.left \in Seq(Queue) /\ w.out \in Seq(Queue) /\ IsInjective(w.left)
      /\ ToSet(w.left) \subseteq ToSet(attached) /\ ToSet(w.left) \cap ToSet(w.out) = {}
  BY <1>4 DEF Detached, Entries
<1>6. /\ heap' \in [Bus -> SUBSET Queue] /\ corrupt \subseteq corrupt' /\ corrupt' \subseteq Bus
      /\ \A c \in Bus : heap'[c] = heap[c] \ ToSet(w.out)
  BY <1>1, <1>2, <1>5, Leaves
<1>7. AttachTypeOK'
  BY <1>1, <1>2, <1>5, <1>6 DEF AttachTypeOK
<1>8. UnusedIsEmpty'
  BY <1>1, <1>2, <1>5 DEF UnusedIsEmpty
<1>9. AttachedAreServed'
  <2>1. ASSUME NEW x \in ToSet(w.left), content[x] > 0, ctx[x] \notin corrupt'
        PROVE  x \in heap'[ctx[x]] \cup ToSet(pending[ctx[x]])
    <3>1. x \in ToSet(attached) /\ x \notin ToSet(w.out) /\ ctx[x] \notin corrupt
      BY <1>5, <1>6, <2>1
    <3>2. x \in heap[ctx[x]] \cup ToSet(pending[ctx[x]])
      BY <1>2, <1>3, <2>1, <3>1, ServedByQueue
    <3>3. ctx[x] \in Bus
      BY <1>2, <3>1, AttachedIsUsed
    <3> QED
      BY <1>6, <3>1, <3>2, <3>3
  <2> QED
    BY <1>1, <1>5, <2>1 DEF AttachedAreServed, ToSet
<1>10. DestroyedInHeapOnlySkipped'
  BY <1>1, <1>2, <1>6 DEF DestroyedInHeapOnlySkipped
<1> QED
  BY <1>7, <1>8, <1>9, <1>10 DEF AttachInv, NoneOutOfSight

LEMMA ClearKeeps ==
  ASSUME AttachAssumption, AttachInv, ClearAttached
  PROVE  AttachInv'
<1> DEFINE w == ClearWalk
<1>1. /\ RemoveFromHeaps(w.out) /\ attached' = <<>>
      /\ content' = [q \in Queue |-> IF q \in ToSet(w.freed) THEN 0 ELSE content[q]]
      /\ destroyed' = destroyed \cup ToSet(w.freed)
      /\ skipped' = skipped \cup (ToSet(w.freed) \ ToSet(w.out))
      /\ UNCHANGED <<ctx, pending>>
  BY DEF ClearAttached
<1>2. AttachTypeOK /\ UnusedIsEmpty /\ AttachedAreServed /\ DestroyedInHeapOnlySkipped
  BY DEF AttachInv, NoneOutOfSight
<1>3. attached \in Seq(Queue) /\ IsInjective(attached)
  BY <1>2, AttachTypes
<1>4. /\ w.out \in Seq(Queue) /\ w.freed \in Seq(Queue)
      /\ ToSet(w.freed) \subseteq ToSet(attached)
  <2>1. PICK i \in Nat : Cleared(w, i)
    BY <1>3, Clears
  <2> QED
    BY <2>1 DEF Cleared
<1> HIDE DEF w
<1>5. /\ heap' \in [Bus -> SUBSET Queue] /\ corrupt' \subseteq Bus
      /\ \A c \in Bus : heap'[c] = heap[c] \ ToSet(w.out)
  BY <1>1, <1>2, <1>4, Leaves
<1>6. <<>> \in Seq(Queue) /\ IsInjective(<<>>) /\ ToSet(<<>>) = {} /\ 0 \in 0 .. AttachCapacity
  BY DEF IsInjective, ToSet, AttachAssumption
<1>7. ToSet(w.freed) \subseteq Queue
  BY <1>4, Held
<1>8. AttachTypeOK'
  BY <1>1, <1>2, <1>5, <1>6, <1>7 DEF AttachTypeOK
<1>9. UnusedIsEmpty'
  <2>1. ASSUME NEW q \in ToSet(w.freed) PROVE ctx[q] # NoBus
    BY <1>2, <1>4, <2>1, AttachedIsUsed DEF AttachAssumption
  <2> QED
    BY <1>1, <1>2, <1>6, <2>1 DEF UnusedIsEmpty
<1>10. AttachedAreServed'
  BY <1>1 DEF AttachedAreServed
<1>11. DestroyedInHeapOnlySkipped'
  BY <1>1, <1>2, <1>5 DEF DestroyedInHeapOnlySkipped
<1> QED
  BY <1>8, <1>9, <1>10, <1>11 DEF AttachInv, NoneOutOfSight
LEMMA ForwardKeeps ==
  ASSUME AttachAssumption, AttachInv, Forward
  PROVE  AttachInv'
<1>1. /\ content' = [q \in Queue |->
             IF q \in ToSet(attached) /\ content[q] < AttachCapacity THEN content[q] + 1
             ELSE content[q]]
      /\ pending' = [b \in Bus |-> Asking(b)]
      /\ UNCHANGED <<attached, ctx, heap, corrupt, destroyed, skipped>>
  BY DEF Forward
<1>2. AttachTypeOK /\ UnusedIsEmpty /\ AttachedAreServed /\ DestroyedInHeapOnlySkipped
  BY DEF AttachInv, NoneOutOfSight
<1>3. attached \in Seq(Queue)
  BY <1>2, AttachTypes
<1>4. ASSUME NEW b \in Bus
      PROVE  /\ pending'[b] \in Seq(Queue) /\ ToSet(pending[b]) \subseteq ToSet(pending'[b])
             /\ \A q \in ToSet(attached) : ctx[q] = b /\ content[q] = 0 => q \in ToSet(pending'[b])
  <2>1. Asked(b, Asking(b), Len(attached))
    BY <1>2, <1>3, AttachTypes, Asks
  <2>2. pending'[b] = Asking(b)
    BY <1>1
  <2>3. ASSUME NEW q \in ToSet(attached), ctx[q] = b, content[q] = 0
        PROVE  q \in ToSet(Asking(b))
    <3>1. PICK i \in 1 .. Len(attached) : attached[i] = q
      BY <1>3 DEF ToSet
    <3>2. i <= Len(attached)
      OBVIOUS
    <3> QED
      BY <2>1, <2>3, <3>1, <3>2 DEF Asked, Notifies
  <2> QED
    BY <2>1, <2>2, <2>3 DEF Asked
<1>5. pending' \in [Bus -> Seq(Queue)]
  BY <1>1, <1>4
<1>6. content' \in [Queue -> 0 .. AttachCapacity]
  <2>1. ASSUME NEW q \in Queue PROVE content'[q] \in 0 .. AttachCapacity
    <3>1. content[q] \in 0 .. AttachCapacity /\ AttachCapacity \in Nat
      BY <1>2, AttachTypes DEF AttachAssumption
    <3> QED
      BY <1>1, <3>1
  <2> QED
    BY <1>1, <2>1
<1>7. AttachTypeOK'
  BY <1>1, <1>2, <1>5, <1>6 DEF AttachTypeOK
<1>8. UnusedIsEmpty'
  BY <1>1, <1>2 DEF UnusedIsEmpty
<1>9. AttachedAreServed'
  <2>1. ASSUME NEW q \in ToSet(attached), ctx[q] \notin corrupt
        PROVE  q \in heap[ctx[q]] \cup ToSet(pending'[ctx[q]])
    <3>1. ctx[q] \in Bus /\ q \in Queue
      BY <1>2, <2>1, AttachedIsUsed
    <3>2. CASE content[q] = 0
      BY <1>4, <3>1, <3>2
    <3>3. CASE content[q] > 0
      <4>1. q \in heap[ctx[q]] \cup ToSet(pending[ctx[q]])
        BY <1>2, <1>3, <2>1, <3>3, ServedByQueue
      <4> QED
        BY <1>4, <3>1, <4>1
    <3>4. content[q] = 0 \/ content[q] > 0
      BY <1>2, <3>1, AttachTypes
    <3> QED
      BY <3>2, <3>3, <3>4
  <2>2. \A i \in DOMAIN attached : attached[i] \in ToSet(attached)
    BY DEF ToSet
  <2>3. attached' = attached /\ ctx' = ctx /\ heap' = heap /\ corrupt' = corrupt
    BY <1>1
  <2> QED
    BY <2>1, <2>2, <2>3, Zenon DEF AttachedAreServed
<1>10. DestroyedInHeapOnlySkipped'
  BY <1>1, <1>2 DEF DestroyedInHeapOnlySkipped
<1> QED
  BY <1>7, <1>8, <1>9, <1>10 DEF AttachInv, NoneOutOfSight

\* The first element of a sequence and the rest.
LEMMA HeadAndTail ==
  ASSUME NEW S, NEW s \in Seq(S), s # <<>>
  PROVE  /\ Head(s) \in S /\ Tail(s) \in Seq(S)
         /\ ToSet(s) \subseteq {Head(s)} \cup ToSet(Tail(s))
<1>1. /\ Len(s) \in Nat /\ Len(s) > 0 /\ Head(s) = s[1] /\ Tail(s) \in Seq(S)
      /\ Len(Tail(s)) = Len(s) - 1 /\ \A i \in 1 .. Len(s) - 1 : Tail(s)[i] = s[i + 1]
  BY HeadTailProperties, EmptySeq
<1>2. ASSUME NEW y \in ToSet(s), y # s[1] PROVE y \in ToSet(Tail(s))
  <2>1. PICK i \in 1 .. Len(s) : s[i] = y
    BY <1>2 DEF ToSet
  <2> DEFINE j == i - 1
  <2>2. j \in 1 .. Len(Tail(s)) /\ j \in 1 .. Len(s) - 1 /\ j + 1 = i
    BY <1>1, <1>2, <2>1
  <2>3. Tail(s)[j] = y
    BY <1>1, <2>1, <2>2
  <2> QED
    BY <1>1, <2>2, <2>3, Held
<1> QED
  BY <1>1, <1>2

LEMMA PendingKeeps ==
  ASSUME AttachInv, NEW b \in Bus, AddPending(b)
  PROVE  AttachInv'
<1> DEFINE q == Head(pending[b])
<1>1. /\ pending[b] # <<>>
      /\ pending' = [pending EXCEPT ![b] = Tail(@)]
      /\ heap' = IF content[q] = 0 THEN heap ELSE [heap EXCEPT ![b] = @ \cup {q}]
      /\ UNCHANGED <<attached, ctx, content, corrupt, destroyed, skipped>>
  BY DEF AddPending
<1>2. AttachTypeOK /\ UnusedIsEmpty /\ AttachedAreServed /\ DestroyedInHeapOnlySkipped
  BY DEF AttachInv, NoneOutOfSight
<1>3. attached \in Seq(Queue) /\ pending[b] \in Seq(Queue)
  BY <1>2, AttachTypes
<1>4. /\ q \in Queue /\ Tail(pending[b]) \in Seq(Queue)
      /\ ToSet(pending[b]) \subseteq {q} \cup ToSet(Tail(pending[b]))
  BY <1>1, <1>3, HeadAndTail
<1> HIDE DEF q
<1>5. content[q] = 0 \/ content[q] > 0
  BY <1>2, <1>4, AttachTypes
<1>6. /\ pending'[b] = Tail(pending[b]) /\ pending' \in [Bus -> Seq(Queue)]
      /\ \A c \in Bus : c # b => pending'[c] = pending[c]
  BY <1>1, <1>2, <1>4 DEF AttachTypeOK
<1>7. /\ heap' \in [Bus -> SUBSET Queue]
      /\ \A c \in Bus : heap[c] \subseteq heap'[c]
      /\ content[q] # 0 => q \in heap'[b]
      /\ \A c \in Bus : \A x \in heap'[c] : x \in heap[c] \/ (x = q /\ content[q] # 0)
  <2>1. heap \in [Bus -> SUBSET Queue]
    BY <1>2 DEF AttachTypeOK
  <2>2. CASE content[q] = 0
    BY <1>1, <2>1, <2>2
  <2>3. CASE content[q] # 0
    <3>1. heap' = [heap EXCEPT ![b] = @ \cup {q}]
      BY <1>1, <2>3
    <3>2. heap'[b] = heap[b] \cup {q} /\ \A c \in Bus : c # b => heap'[c] = heap[c]
      BY <2>1, <3>1
    <3>3. heap' \in [Bus -> SUBSET Queue]
      BY <1>4, <2>1, <3>1
    <3> QED
      BY <2>3, <3>2, <3>3
  <2> QED
    BY <2>2, <2>3
<1>8. AttachTypeOK'
  BY <1>1, <1>2, <1>6, <1>7 DEF AttachTypeOK
<1>9. UnusedIsEmpty'
  BY <1>1, <1>2 DEF UnusedIsEmpty
<1>10. AttachedAreServed'
  <2>1. ASSUME NEW x \in ToSet(attached), content[x] > 0, ctx[x] \notin corrupt
        PROVE  x \in heap'[ctx[x]] \cup ToSet(pending'[ctx[x]])
    <3>1. ctx[x] \in Bus
      BY <1>2, AttachedIsUsed
    <3>2. x \in heap[ctx[x]] \cup ToSet(pending[ctx[x]])
      BY <1>2, <1>3, <2>1, ServedByQueue
    <3>3. CASE x \in heap[ctx[x]]
      BY <1>7, <3>1, <3>3
    <3>4. CASE x \in ToSet(pending[ctx[x]]) /\ ctx[x] # b
      BY <1>6, <3>1, <3>4
    <3>5. CASE x \in ToSet(pending[ctx[x]]) /\ ctx[x] = b
      <4>1. x = q => content[q] # 0
        BY <2>1
      <4> QED
        BY <1>4, <1>6, <1>7, <3>5, <4>1
    <3> QED
      BY <3>2, <3>3, <3>4, <3>5
  <2> QED
    BY <1>1, <1>3, <2>1 DEF AttachedAreServed, ToSet
<1>11. DestroyedInHeapOnlySkipped'
  <2>1. q \in destroyed => content[q] = 0
    BY <1>2, <1>4 DEF UnusedIsEmpty
  <2> QED
    BY <1>1, <1>2, <1>7, <2>1 DEF DestroyedInHeapOnlySkipped
<1> QED
  BY <1>8, <1>9, <1>10, <1>11 DEF AttachInv, NoneOutOfSight

LEMMA PopKeeps ==
  ASSUME AttachAssumption, AttachInv, NEW b \in Bus, NEW q \in Queue, PopFrom(b, q)
  PROVE  AttachInv'
<1>1. /\ q \in heap[b] /\ content[q] > 0
      /\ content' = [content EXCEPT ![q] = @ - 1]
      /\ heap' = IF content[q] = 1 THEN [heap EXCEPT ![b] = @ \ {q}] ELSE heap
      /\ UNCHANGED <<attached, ctx, pending, corrupt, destroyed, skipped>>
  BY DEF PopFrom
<1>2. AttachTypeOK /\ UnusedIsEmpty /\ AttachedAreServed /\ DestroyedInHeapOnlySkipped
  BY DEF AttachInv, NoneOutOfSight
<1>3. attached \in Seq(Queue) /\ content \in [Queue -> 0 .. AttachCapacity]
      /\ heap \in [Bus -> SUBSET Queue] /\ content[q] \in 0 .. AttachCapacity
  BY <1>2 DEF AttachTypeOK
<1>4. /\ content'[q] = content[q] - 1
      /\ \A x \in Queue : x # q => content'[x] = content[x]
  BY <1>1, <1>3
<1>5. content' \in [Queue -> 0 .. AttachCapacity]
  <2>1. content[q] - 1 \in 0 .. AttachCapacity
    BY <1>1, <1>3 DEF AttachAssumption
  <2> QED
    BY <1>1, <1>3, <2>1
<1>6. /\ heap' \in [Bus -> SUBSET Queue]
      /\ \A c \in Bus : heap'[c] \subseteq heap[c]
      /\ \A c \in Bus : \A x \in heap[c] : x \in heap'[c] \/ (x = q /\ content[q] = 1)
  <2>1. CASE content[q] # 1
    BY <1>1, <1>3, <2>1
  <2>2. CASE content[q] = 1
    <3>1. heap' = [heap EXCEPT ![b] = @ \ {q}]
      BY <1>1, <2>2
    <3>2. heap'[b] = heap[b] \ {q} /\ \A c \in Bus : c # b => heap'[c] = heap[c]
      BY <1>3, <3>1
    <3>3. heap' \in [Bus -> SUBSET Queue]
      BY <1>3, <3>1
    <3> QED
      BY <2>2, <3>2, <3>3
  <2> QED
    BY <2>1, <2>2
<1>7. AttachTypeOK'
  BY <1>1, <1>2, <1>5, <1>6 DEF AttachTypeOK
<1>8. UnusedIsEmpty'
  <2>1. ctx[q] # NoBus /\ q \notin destroyed
    BY <1>1, <1>2 DEF UnusedIsEmpty
  <2> QED
    BY <1>1, <1>2, <1>4, <2>1 DEF UnusedIsEmpty
<1>9. AttachedAreServed'
  <2>1. ASSUME NEW x \in ToSet(attached), content'[x] > 0, ctx[x] \notin corrupt
        PROVE  x \in heap'[ctx[x]] \cup ToSet(pending[ctx[x]])
    <3>1. ctx[x] \in Bus /\ x \in Queue
      BY <1>2, AttachedIsUsed
    <3>2. content[x] > 0 /\ ~(x = q /\ content[q] = 1)
      BY <1>1, <1>4, <2>1, <3>1
    <3>3. x \in heap[ctx[x]] \cup ToSet(pending[ctx[x]])
      BY <1>2, <1>3, <2>1, <3>2, ServedByQueue
    <3> QED
      BY <1>6, <3>1, <3>2, <3>3
  <2>2. \A i \in DOMAIN attached : attached[i] \in ToSet(attached)
    BY DEF ToSet
  <2>3. /\ attached' = attached /\ ctx' = ctx /\ pending' = pending
        /\ corrupt' = corrupt
    BY <1>1
  <2> QED
    BY <2>1, <2>2, <2>3, Zenon DEF AttachedAreServed
<1>10. DestroyedInHeapOnlySkipped'
  BY <1>1, <1>2, <1>6 DEF DestroyedInHeapOnlySkipped
<1> QED
  BY <1>7, <1>8, <1>9, <1>10 DEF AttachInv, NoneOutOfSight

LEMMA AttachStepKeeps ==
  ASSUME AttachAssumption, AttachInv, [AttachNext]_attachVars
  PROVE  AttachInv'
<1>1. CASE UNCHANGED attachVars
  BY <1>1 DEF attachVars, AttachInv, AttachTypeOK, UnusedIsEmpty, NoneOutOfSight,
              AttachedAreServed, DestroyedInHeapOnlySkipped
<1>2. CASE AttachNext
  BY <1>2, AttachKeeps, DetachKeeps, ClearKeeps, ForwardKeeps, PendingKeeps, PopKeeps
     DEF AttachNext
<1> QED
  BY <1>1, <1>2

\* What is attached is served and what is destroyed has left its heap, for every
\* number of buses and queues of every size.
THEOREM NoQueueGetsOutOfSight ==
  ASSUME AttachAssumption PROVE AttachSpec => []NoneOutOfSight
<1>1. AttachInit => AttachInv
  BY AttachInitHolds
<1>2. AttachInv /\ [AttachNext]_attachVars => AttachInv'
  BY AttachStepKeeps
<1>3. AttachInv => NoneOutOfSight
  BY DEF AttachInv
<1> QED
  BY <1>1, <1>2, <1>3, PTL DEF AttachSpec

-----------------------------------------------------------------------------
(* What the removing walks miss. *)

\* Of bus b only the queue behind one that was removed survives, and the others
\* keep their order.
MissesNeighbours(b) ==
    /\ \A i \in DOMAIN attached :
         IF ctx[attached[i]] # b THEN attached[i] \in ToSet(attached')
         ELSE attached[i] \in ToSet(attached') =>
                i > 1 /\ ctx[attached[i - 1]] = b /\ attached[i - 1] \notin ToSet(attached')
    /\ \A k, l \in DOMAIN attached' : k < l =>
         \E i, j \in DOMAIN attached :
            i < j /\ attached[i] = attached'[k] /\ attached[j] = attached'[l]

LEMMA DetachMisses ==
  ASSUME AttachInv, NEW b \in Bus, bus_detach(b)
  PROVE  MissesNeighbours(b)
<1> DEFINE w == Detach(attached, b)
<1>1. attached' = w.left
  BY DEF bus_detach
<1>2. attached \in Seq(Queue) /\ IsInjective(attached)
  BY AttachTypes DEF AttachInv
<1>3. Detached(attached, b, w)
  BY <1>2, Detaches
<1> HIDE DEF w
<1>4. w.left \in Seq(Queue) /\ DOMAIN w.left = 1 .. Len(w.left) /\ DOMAIN attached = 1 .. Len(attached)
  BY <1>2, <1>3 DEF Detached, Entries
<1>5. ASSUME NEW i \in 1 .. Len(attached)
      PROVE  IF ctx[attached[i]] # b THEN attached[i] \in ToSet(w.left)
             ELSE attached[i] \in ToSet(w.left) =>
                i > 1 /\ ctx[attached[i - 1]] = b /\ attached[i - 1] \notin ToSet(w.left)
  <2>1. attached[i] \in ToSet(w.left) \cup ToSet(w.out)
    BY <1>2, <1>3, Held DEF Detached
  <2>2. \A q \in ToSet(w.out) : ctx[q] = b /\ q \notin ToSet(w.left)
    BY <1>3 DEF Detached
  <2>3. ctx[attached[i]] = b /\ attached[i] \in ToSet(w.left) =>
            i > 1 /\ attached[i - 1] \in ToSet(w.out)
    BY <1>3 DEF Detached
  <2> QED
    BY <2>1, <2>2, <2>3
<1>6. \A k, l \in 1 .. Len(w.left) : k < l =>
         \E i, j \in 1 .. Len(attached) :
            i < j /\ attached[i] = w.left[k] /\ attached[j] = w.left[l]
  BY <1>3 DEF Detached
<1>7. DOMAIN attached' = 1 .. Len(w.left)
  BY <1>1, <1>4
<1>8. \A i \in DOMAIN attached :
         IF ctx[attached[i]] # b THEN attached[i] \in ToSet(attached')
         ELSE attached[i] \in ToSet(attached') =>
                i > 1 /\ ctx[attached[i - 1]] = b /\ attached[i - 1] \notin ToSet(attached')
  BY <1>1, <1>4, <1>5
<1>9. ASSUME NEW k \in DOMAIN attached', NEW l \in DOMAIN attached', k < l
      PROVE  \E i, j \in DOMAIN attached :
                i < j /\ attached[i] = attached'[k] /\ attached[j] = attached'[l]
  <2>1. k \in 1 .. Len(w.left) /\ l \in 1 .. Len(w.left)
    BY <1>7
  <2>2. PICK i \in 1 .. Len(attached), j \in 1 .. Len(attached) :
            i < j /\ attached[i] = w.left[k] /\ attached[j] = w.left[l]
    BY <1>6, <1>9, <2>1
  <2>3. attached[i] = attached'[k] /\ attached[j] = attached'[l]
    BY <1>1, <2>2
  <2>4. i \in DOMAIN attached /\ j \in DOMAIN attached
    BY <1>4
  <2> QED
    BY <2>2, <2>3, <2>4
<1> QED
  BY <1>8, <1>9 DEF MissesNeighbours

LEMMA ClearMissesNone ==
  ASSUME AttachInv, ClearAttached, Len(attached) <= 2
  PROVE  skipped' = skipped
<1> DEFINE w == ClearWalk
<1>1. skipped' = skipped \cup (ToSet(w.freed) \ ToSet(w.out))
  BY DEF ClearAttached
<1>2. attached \in Seq(Queue) /\ IsInjective(attached)
  BY AttachTypes DEF AttachInv
<1>3. PICK i \in Nat : Cleared(w, i) /\ i = Len(attached)
  BY <1>2, Clears
<1> HIDE DEF w
<1>4. CASE i = 0
  BY <1>1, <1>3, <1>4 DEF Cleared, ToSet
<1>5. CASE i > 0
  BY <1>1, <1>3, <1>5 DEF Cleared
<1> QED
  BY <1>4, <1>5

\* For every number of attached queues: bus_detach misses the queue behind one
\* it removed, no other; bus_clear misses none as long as there are two.
THEOREM WalksMissOnlyNeighbours ==
  ASSUME AttachAssumption PROVE AttachSpec => SkipsOnlyNeighbours
<1> DEFINE Misses == /\ \A b \in Bus : bus_detach(b) => MissesNeighbours(b)
                     /\ ClearAttached /\ Len(attached) <= 2 => skipped' = skipped
<1>1. AttachInit => AttachInv
  BY AttachInitHolds
<1>2. AttachInv /\ [AttachNext]_attachVars => AttachInv'
  BY AttachStepKeeps
<1>3. AttachInv => Misses
  BY DetachMisses, ClearMissesNone
<1>4. SkipsOnlyNeighbours <=> [][Misses]_attachVars
  BY DEF SkipsOnlyNeighbours, MissesNeighbours
<1> HIDE DEF Misses
<1> QED
  BY <1>1, <1>2, <1>3, <1>4, PTL DEF AttachSpec
=============================================================================
