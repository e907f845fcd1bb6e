-------------------------- MODULE DispatcherProofs --------------------------
(***************************************************************************)
(* Proofs about the dispatcher: for every set of events, every size of the *)
(* buffer, every depth of nesting and every number of references.          *)
(***************************************************************************)
EXTENDS Dispatcher, SequenceTheorems, FiniteSetTheorems, TLAPS

-----------------------------------------------------------------------------
(* How often a sequence has a member: the calls on the stack and the events  *)
(* in the buffer are counted with it.                                        *)

\* How many places of s hold a member of T.
Tally(s, T) == Cardinality({i \in DOMAIN s : s[i] \in T})

\* A tally is a number.
LEMMA TallyIsNat ==
  ASSUME NEW S, NEW s \in Seq(S), NEW T
  PROVE  IsFiniteSet({i \in DOMAIN s : s[i] \in T}) /\ Tally(s, T) \in Nat
<1>1. IsFiniteSet(1 .. Len(s)) /\ DOMAIN s = 1 .. Len(s)
  BY FS_Interval
<1>2. IsFiniteSet({i \in DOMAIN s : s[i] \in T})
  BY <1>1, FS_Subset
<1> QED
  BY <1>2, FS_CardinalityType DEF Tally

\* There is nothing to tally in an empty sequence.
LEMMA TallyOfEmpty ==
  ASSUME NEW T PROVE Tally(<<>>, T) = 0
<1>1. {i \in DOMAIN <<>> : <<>>[i] \in T} = {}
  OBVIOUS
<1> QED
  BY <1>1, FS_EmptySet DEF Tally

\* The elements after an append.
LEMMA WhatAppendIs ==
  ASSUME NEW S, NEW s \in Seq(S), NEW x \in S
  PROVE  /\ Append(s, x) \in Seq(S) /\ Len(Append(s, x)) = Len(s) + 1
         /\ \A i \in 1 .. Len(s) : Append(s, x)[i] = s[i]
         /\ Append(s, x)[Len(s) + 1] = x
OBVIOUS

\* One more at the end.
LEMMA TallyOfAppend ==
  ASSUME NEW S, NEW s \in Seq(S), NEW x \in S, NEW T
  PROVE  Tally(Append(s, x), T) = Tally(s, T) + (IF x \in T THEN 1 ELSE 0)
<1> DEFINE I == {i \in DOMAIN s : s[i] \in T}
           J == {i \in DOMAIN Append(s, x) : Append(s, x)[i] \in T}
<1>1. /\ Append(s, x) \in Seq(S) /\ Len(Append(s, x)) = Len(s) + 1
      /\ \A i \in 1 .. Len(s) : Append(s, x)[i] = s[i]
      /\ Append(s, x)[Len(s) + 1] = x
  BY WhatAppendIs
<1>2. DOMAIN s = 1 .. Len(s) /\ DOMAIN Append(s, x) = 1 .. Len(s) + 1 /\ Len(s) \in Nat
  BY <1>1
<1>3. IsFiniteSet(I) /\ Cardinality(I) \in Nat
  BY TallyIsNat DEF Tally
<1>4. CASE x \in T
  <2>1. J = I \cup {Len(s) + 1} /\ Len(s) + 1 \notin I
    BY <1>1, <1>2, <1>4
  <2> HIDE DEF I, J
  <2>2. Cardinality(J) = Cardinality(I) + 1
    BY <1>3, <2>1, FS_AddElement
  <2> QED
    BY <1>4, <2>2 DEF I, J, Tally
<1>5. CASE x \notin T
  <2>1. J = I
    BY <1>1, <1>2, <1>5
  <2> HIDE DEF I, J
  <2>2. Cardinality(J) = Cardinality(I) + 0
    BY <1>3, <2>1
  <2> QED
    BY <1>5, <2>2 DEF I, J, Tally
<1> QED
  BY <1>4, <1>5

\* One less at the beginning.
LEMMA TallyOfTail ==
  ASSUME NEW S, NEW s \in Seq(S), s # <<>>, NEW T
  PROVE  Tally(Tail(s), T) = Tally(s, T) - (IF Head(s) \in T THEN 1 ELSE 0)
<1> DEFINE I == {i \in DOMAIN s : s[i] \in T}
           J == {i \in DOMAIN Tail(s) : Tail(s)[i] \in T}
<1>1. /\ Head(s) = s[1] /\ Tail(s) \in Seq(S) /\ Len(Tail(s)) = Len(s) - 1
      /\ \A i \in 1 .. Len(s) - 1 : Tail(s)[i] = s[i + 1]
  BY HeadTailProperties
<1>2. DOMAIN s = 1 .. Len(s) /\ DOMAIN Tail(s) = 1 .. Len(s) - 1 /\ Len(s) \in Nat \ {0}
  BY <1>1, EmptySeq
<1>3. IsFiniteSet(I) /\ IsFiniteSet(J)
  BY <1>1, TallyIsNat
<1>4. Cardinality(I \ {1}) = Cardinality(J)
  <2> DEFINE f == [j \in J |-> j + 1]
  <2>1. f \in [J -> I \ {1}]
    BY <1>1, <1>2
  <2>2. \A x, y \in J : f[x] = f[y] => x = y
    BY <1>2
  <2>3. \A i \in I \ {1} : i - 1 \in J /\ f[i - 1] = i
    <3> SUFFICES ASSUME NEW i \in I \ {1} PROVE i - 1 \in J /\ f[i - 1] = i
      OBVIOUS
    <3>1. i - 1 \in 1 .. Len(s) - 1 /\ (i - 1) + 1 = i
      BY <1>2
    <3>2. Tail(s)[i - 1] = s[i]
      BY <1>1, <3>1
    <3> QED
      BY <1>2, <3>1, <3>2
  <2> HIDE DEF f, I, J
  <2>4. f \in Bijection(J, I \ {1})
    BY <2>1, <2>2, <2>3 DEF Bijection, Injection, Surjection, IsInjective
  <2> QED
    BY <1>3, <2>4, FS_Bijection DEF ExistsBijection
<1>5. 1 \in I <=> Head(s) \in T
  BY <1>1, <1>2
<1> HIDE DEF I, J
<1>6. Cardinality(J) = Cardinality(I) - (IF Head(s) \in T THEN 1 ELSE 0)
  <2>1. Cardinality(I \ {1}) = IF 1 \in I THEN Cardinality(I) - 1 ELSE Cardinality(I)
    BY <1>3, FS_RemoveElement
  <2>2. Cardinality(I) \in Nat
    BY <1>3, FS_CardinalityType
  <2>3. CASE Head(s) \in T
    BY <1>4, <1>5, <2>1, <2>2, <2>3
  <2>4. CASE Head(s) \notin T
    BY <1>4, <1>5, <2>1, <2>2, <2>4
  <2> QED
    BY <2>3, <2>4
<1> QED
  BY <1>6 DEF I, J, Tally

\* The same for a single member.
LEMMA CountOfAppend ==
  ASSUME NEW S, NEW b \in Seq(S), NEW y \in S
  PROVE  \A x : Tally(Append(b, y), {x}) = Tally(b, {x}) + (IF y = x THEN 1 ELSE 0)
<1> SUFFICES ASSUME NEW x
             PROVE  Tally(Append(b, y), {x}) = Tally(b, {x}) + (IF y = x THEN 1 ELSE 0)
  OBVIOUS
<1> DEFINE T == {x}
<1>1. Tally(Append(b, y), T) = Tally(b, T) + (IF y \in T THEN 1 ELSE 0)
  BY TallyOfAppend
<1>2. y \in T <=> y = x
  OBVIOUS
<1> HIDE DEF T
<1>3. Tally(Append(b, y), T) = Tally(b, T) + (IF y = x THEN 1 ELSE 0)
  BY <1>1, <1>2
<1> QED
  BY <1>3 DEF T

\* The tally of one value after its head was taken.
LEMMA CountOfTail ==
  ASSUME NEW S, NEW b \in Seq(S), b # <<>>
  PROVE  \A x : Tally(Tail(b), {x}) = Tally(b, {x}) - (IF Head(b) = x THEN 1 ELSE 0)
<1> SUFFICES ASSUME NEW x
             PROVE  Tally(Tail(b), {x}) = Tally(b, {x}) - (IF Head(b) = x THEN 1 ELSE 0)
  OBVIOUS
<1> DEFINE T == {x}
<1>1. Tally(Tail(b), T) = Tally(b, T) - (IF Head(b) \in T THEN 1 ELSE 0)
  BY TallyOfTail
<1>2. Head(b) \in T <=> Head(b) = x
  OBVIOUS
<1> HIDE DEF T
<1>3. Tally(Tail(b), T) = Tally(b, T) - (IF Head(b) = x THEN 1 ELSE 0)
  BY <1>1, <1>2
<1> QED
  BY <1>3 DEF T

-----------------------------------------------------------------------------
(* The end of a sequence. *)

\* A sequence is its front and its last member.
LEMMA FrontAndLast ==
  ASSUME NEW S, NEW s \in Seq(S), s # <<>>
  PROVE  /\ Front(s) \in Seq(S) /\ Last(s) \in S
         /\ s = Append(Front(s), Last(s))
<1>1. Len(s) \in Nat \ {0} /\ DOMAIN s = 1 .. Len(s)
  BY EmptySeq
<1>2. Last(s) \in S
  BY <1>1, ElementOfSeq DEF Last
<1>3. /\ Front(s) \in Seq(S) /\ Len(Front(s)) = Len(s) - 1
      /\ \A i \in 1 .. Len(s) - 1 : Front(s)[i] = s[i]
  <2>1. \A i \in 1 .. Len(s) - 1 : s[i] \in S
    BY <1>1, ElementOfSeq
  <2> QED
    BY <1>1, <2>1, SubSeqProperties, Z3 DEF Front
<1>4. /\ Append(Front(s), Last(s)) \in Seq(S)
      /\ Len(Append(Front(s), Last(s))) = Len(s)
      /\ \A i \in 1 .. Len(s) : Append(Front(s), Last(s))[i] = s[i]
  <2> DEFINE t == Append(Front(s), Last(s))
  <2>1. /\ t \in Seq(S) /\ Len(t) = Len(Front(s)) + 1
        /\ \A i \in 1 .. Len(Front(s)) : t[i] = Front(s)[i]
        /\ t[Len(Front(s)) + 1] = Last(s)
    BY <1>2, <1>3, WhatAppendIs
  <2> HIDE DEF t
  <2>2. Len(t) = Len(s) /\ t[Len(s)] = s[Len(s)]
    BY <1>1, <1>3, <2>1 DEF Last
  <2>3. \A i \in 1 .. Len(s) - 1 : t[i] = s[i]
    BY <1>3, <2>1
  <2>4. ASSUME NEW i \in 1 .. Len(s)
        PROVE  t[i] = s[i]
    <3>1. Len(s) \in Int /\ i \in Int /\ i <= Len(s)
      BY <1>1
    <3>2. i = Len(s) \/ i \in 1 .. Len(s) - 1
      BY <3>1
    <3> QED
      BY <2>2, <2>3, <3>2
  <2> QED
    BY <2>1, <2>2, <2>4 DEF t
<1>5. s = Append(Front(s), Last(s))
  BY <1>4, SeqEqual
<1> QED
  BY <1>2, <1>3, <1>5

\* One less at the end.
LEMMA TallyOfFront ==
  ASSUME NEW S, NEW s \in Seq(S), s # <<>>, NEW T
  PROVE  Tally(Front(s), T) = Tally(s, T) - (IF Last(s) \in T THEN 1 ELSE 0)
<1>1. Tally(s, T) = Tally(Front(s), T) + (IF Last(s) \in T THEN 1 ELSE 0)
  <2>1. Front(s) \in Seq(S) /\ Last(s) \in S /\ s = Append(Front(s), Last(s))
    BY FrontAndLast
  <2>2. Tally(Append(Front(s), Last(s)), T)
          = Tally(Front(s), T) + (IF Last(s) \in T THEN 1 ELSE 0)
    BY <2>1, TallyOfAppend
  <2> QED
    BY <2>1, <2>2
<1>2. Tally(s, T) \in Nat /\ Tally(Front(s), T) \in Nat
  BY FrontAndLast, TallyIsNat
<1>3. CASE Last(s) \in T
  BY <1>1, <1>2, <1>3
<1>4. CASE Last(s) \notin T
  BY <1>1, <1>2, <1>4
<1> QED
  BY <1>3, <1>4

-----------------------------------------------------------------------------
(* The calls on the stack. *)

Calls == {c \in [at : {"filter", "handler", "emit"}, event : Event \cup {NULL}] :
              c.event = NULL <=> c.at = "emit"}

\* The dispatches in s, and the calls in s that hold event x.
Depth(s) == Tally(s, {c \in Calls : c.at # "emit"})
Inside(s, x) == Tally(s, {c \in Calls : c.event = x})

\* What is pushed on the stack is a call.
LEMMA CallIsCall ==
  ASSUME DispatcherAssumption
  PROVE  /\ \A x \in Event : Call("filter", x) \in Calls /\ Call("handler", x) \in Calls
         /\ Call("emit", NULL) \in Calls
BY DEF DispatcherAssumption, Call, Calls

\* The counts of calls are numbers.
LEMMA CallsAreCounted ==
  ASSUME NEW s \in Seq(Calls)
  PROVE  Depth(s) \in Nat /\ \A x : Inside(s, x) \in Nat
BY TallyIsNat DEF Depth, Inside

\* A call that begins.
LEMMA Pushing ==
  ASSUME NEW s \in Seq(Calls), NEW c \in Calls
  PROVE  /\ Append(s, c) \in Seq(Calls)
         /\ Depth(Append(s, c)) = Depth(s) + (IF c.at # "emit" THEN 1 ELSE 0)
         /\ \A x : Inside(Append(s, c), x) = Inside(s, x) + (IF c.event = x THEN 1 ELSE 0)
<1>1. Append(s, c) \in Seq(Calls)
  BY WhatAppendIs
<1>2. c \in {d \in Calls : d.at # "emit"} <=> c.at # "emit"
  OBVIOUS
<1>3. Depth(Append(s, c)) = Depth(s) + (IF c.at # "emit" THEN 1 ELSE 0)
  <2> DEFINE T == {d \in Calls : d.at # "emit"}
  <2>1. Tally(Append(s, c), T) = Tally(s, T) + (IF c \in T THEN 1 ELSE 0)
    BY TallyOfAppend
  <2> HIDE DEF T
  <2>2. Tally(Append(s, c), T) = Tally(s, T) + (IF c.at # "emit" THEN 1 ELSE 0)
    <3>1. c \in T <=> c.at # "emit"
      BY <1>2 DEF T
    <3> QED
      BY <2>1, <3>1
  <2> QED
    BY <2>2 DEF Depth, T
<1>4. ASSUME NEW x
      PROVE  Inside(Append(s, c), x) = Inside(s, x) + (IF c.event = x THEN 1 ELSE 0)
  <2> DEFINE T == {d \in Calls : d.event = x}
  <2>1. Tally(Append(s, c), T) = Tally(s, T) + (IF c \in T THEN 1 ELSE 0)
    BY TallyOfAppend
  <2>2. c \in T <=> c.event = x
    OBVIOUS
  <2> HIDE DEF T
  <2>3. Tally(Append(s, c), T) = Tally(s, T) + (IF c.event = x THEN 1 ELSE 0)
    BY <2>1, <2>2
  <2> QED
    BY <2>3 DEF Inside, T
<1> QED
  BY <1>1, <1>3, <1>4

\* A call that ends.
LEMMA Popping ==
  ASSUME NEW s \in Seq(Calls), s # <<>>
  PROVE  /\ Front(s) \in Seq(Calls) /\ Last(s) \in Calls
         /\ Depth(Front(s)) = Depth(s) - (IF Last(s).at # "emit" THEN 1 ELSE 0)
         /\ \A x : Inside(Front(s), x) = Inside(s, x) - (IF Last(s).event = x THEN 1 ELSE 0)
<1>1. Front(s) \in Seq(Calls) /\ Last(s) \in Calls
  BY FrontAndLast
<1>2. Last(s) \in {d \in Calls : d.at # "emit"} <=> Last(s).at # "emit"
  BY <1>1
<1>3. Depth(Front(s)) = Depth(s) - (IF Last(s).at # "emit" THEN 1 ELSE 0)
  BY <1>2, TallyOfFront, Zenon DEF Depth
<1>4. ASSUME NEW x
      PROVE  Inside(Front(s), x) = Inside(s, x) - (IF Last(s).event = x THEN 1 ELSE 0)
  <2>1. Last(s) \in {d \in Calls : d.event = x} <=> Last(s).event = x
    BY <1>1
  <2> QED
    BY <2>1, TallyOfFront, Zenon DEF Inside
<1> QED
  BY <1>1, <1>3, <1>4

-----------------------------------------------------------------------------
(* The inductive invariant. *)

Types ==
    /\ stack \in Seq(Calls) /\ count \in Int
    /\ buffed \in Seq(Event) /\ swallowed \in Seq(Event)
    /\ delayed \in Seq(Event) /\ emitted \in Seq(Event)
    /\ ref \in [Event -> Int] /\ owned \in [Event -> Int] /\ lost \in [Event -> Int]

\* An event is in the buffer as often as it was delayed and not emitted.
Waiting(x) == Tally(buffed, {x})

Balanced ==
    /\ count = Depth(stack) + Len(swallowed)
    /\ \A x \in Event :
        ref[x] = owned[x] + lost[x] + Inside(stack, x) + Waiting(x)
    /\ delayed = emitted \o buffed

\* At the start nobody has anything.
LEMMA InitBalanced ==
  ASSUME Init PROVE Types /\ Balanced
<1>1. stack \in Seq(Calls) /\ Types
  BY EmptySeq DEF Init, Types
<1>2. Depth(<<>>) = 0 /\ \A x : Inside(<<>>, x) = 0 /\ Tally(<<>>, {x}) = 0
  BY TallyOfEmpty DEF Depth, Inside
<1>3. <<>> \o <<>> = <<>> /\ Len(<<>>) = 0
  OBVIOUS
<1>4. count = Depth(stack) + Len(swallowed)
  BY <1>2, <1>3 DEF Init
<1>5. ASSUME NEW x \in Event
      PROVE  ref[x] = owned[x] + lost[x] + Inside(stack, x) + Waiting(x)
  <2>1. Inside(stack, x) = 0 /\ Waiting(x) = 0
    BY <1>2 DEF Init, Waiting
  <2>2. ref[x] = 1 /\ owned[x] = 1 /\ lost[x] = 0
    BY DEF Init
  <2> QED
    BY <2>1, <2>2
<1>6. delayed = emitted \o buffed
  BY <1>3 DEF Init
<1> QED
  BY <1>1, <1>4, <1>5, <1>6 DEF Balanced

-----------------------------------------------------------------------------
(* The buffer of delayed events. *)

\* Moving the first of b to the end of a leaves the whole as it is.
LEMMA HeadMoves ==
  ASSUME NEW S, NEW a \in Seq(S), NEW b \in Seq(S), b # <<>>
  PROVE  a \o b = Append(a, Head(b)) \o Tail(b)
<1>1. /\ Head(b) = b[1] /\ Head(b) \in S /\ Tail(b) \in Seq(S) /\ Len(Tail(b)) = Len(b) - 1
      /\ \A i \in 1 .. Len(b) - 1 : Tail(b)[i] = b[i + 1]
  BY HeadTailProperties
<1> DEFINE c == Append(a, Head(b))
<1>2. /\ c \in Seq(S) /\ Len(c) = Len(a) + 1
      /\ \A i \in 1 .. Len(a) : c[i] = a[i]
      /\ c[Len(a) + 1] = Head(b)
  BY <1>1, WhatAppendIs
<1> HIDE DEF c
<1>3. Len(a) \in Nat /\ Len(b) \in Nat \ {0}
  BY EmptySeq
<1>4. /\ a \o b \in Seq(S) /\ Len(a \o b) = Len(a) + Len(b)
      /\ \A i \in 1 .. Len(a) + Len(b) :
            (a \o b)[i] = IF i <= Len(a) THEN a[i] ELSE b[i - Len(a)]
  BY ConcatProperties
<1>5. /\ c \o Tail(b) \in Seq(S) /\ Len(c \o Tail(b)) = Len(c) + Len(Tail(b))
      /\ \A i \in 1 .. Len(c) + Len(Tail(b)) :
            (c \o Tail(b))[i] = IF i <= Len(c) THEN c[i] ELSE Tail(b)[i - Len(c)]
  BY <1>1, <1>2, ConcatProperties
<1>6. Len(a \o b) = Len(c \o Tail(b)) /\ Len(c) + Len(Tail(b)) = Len(a) + Len(b)
  BY <1>1, <1>2, <1>3, <1>4, <1>5
<1>7. ASSUME NEW i \in 1 .. Len(a) + Len(b)
      PROVE  (a \o b)[i] = (c \o Tail(b))[i]
  <2>1. CASE i <= Len(a)
    BY <1>2, <1>3, <1>4, <1>5, <1>6, <2>1
  <2>2. CASE i = Len(a) + 1
    BY <1>1, <1>2, <1>3, <1>4, <1>5, <1>6, <2>2
  <2>3. CASE i > Len(a) + 1
    <3>1. i - Len(a) - 1 \in 1 .. Len(b) - 1 /\ (i - Len(a) - 1) + 1 = i - Len(a)
      BY <1>3, <2>3
    <3>2. (c \o Tail(b))[i] = Tail(b)[i - Len(a) - 1]
      BY <1>2, <1>3, <1>5, <1>6, <2>3
    <3>3. Tail(b)[i - Len(a) - 1] = b[i - Len(a)]
      BY <1>1, <3>1
    <3>4. (a \o b)[i] = b[i - Len(a)]
      BY <1>3, <1>4, <2>3
    <3> QED
      BY <3>2, <3>3, <3>4
  <2>4. i \in Int /\ Len(a) \in Int
    BY <1>3
  <2>5. i <= Len(a) \/ i = Len(a) + 1 \/ i > Len(a) + 1
    BY <2>4
  <2> QED
    BY <2>1, <2>2, <2>3, <2>5
<1>8. a \o b = c \o Tail(b)
  BY <1>4, <1>5, <1>6, <1>7, SeqEqual
<1> QED
  BY <1>8 DEF c
-----------------------------------------------------------------------------
(* Steps. *)

\* The innermost call, and what the counts are without it.
LEMMA TopCall ==
  ASSUME DispatcherAssumption, Types, NEW w, Within(w)
  PROVE  /\ stack # <<>> /\ Top = Last(stack) /\ Top.at = w
         /\ Front(stack) \in Seq(Calls)
         /\ w \in {"filter", "handler"} => Top.event \in Event
         /\ w = "emit" => Top.event = NULL /\ NULL \notin Event
         /\ Depth(Front(stack)) = Depth(stack) - (IF w # "emit" THEN 1 ELSE 0)
         /\ \A x : Inside(Front(stack), x) = Inside(stack, x) - (IF Top.event = x THEN 1 ELSE 0)
<1>1. stack # <<>> /\ Top = Last(stack) /\ Top.at = w
  BY DEF Within, Top
<1>2. /\ Front(stack) \in Seq(Calls) /\ Last(stack) \in Calls
      /\ Depth(Front(stack)) = Depth(stack) - (IF Last(stack).at # "emit" THEN 1 ELSE 0)
      /\ \A x : Inside(Front(stack), x)
                  = Inside(stack, x) - (IF Last(stack).event = x THEN 1 ELSE 0)
  BY <1>1, Popping DEF Types
<1>3. w \in {"filter", "handler"} => Top.event \in Event
  BY <1>1, <1>2 DEF Calls
<1>4. w = "emit" => Top.event = NULL /\ NULL \notin Event
  BY <1>1, <1>2 DEF Calls, DispatcherAssumption
<1> QED
  BY <1>1, <1>2, <1>3, <1>4

\* What is a number stays one.
LEMMA Numbers ==
  ASSUME Types
  PROVE  /\ Depth(stack) \in Int /\ Len(swallowed) \in Int
         /\ \A x : Inside(stack, x) \in Int /\ Waiting(x) \in Int
         /\ \A x \in Event : ref[x] \in Int /\ owned[x] \in Int /\ lost[x] \in Int
<1>1. Depth(stack) \in Nat /\ \A x : Inside(stack, x) \in Nat
  BY CallsAreCounted DEF Types
<1>2. \A x : Waiting(x) \in Nat
  BY TallyIsNat DEF Types, Waiting
<1>3. Len(swallowed) \in Nat
  BY DEF Types
<1> QED
  BY <1>1, <1>2, <1>3 DEF Types

\* One account: the references of an event and who holds them.
Account(x) == ref[x] = owned[x] + lost[x] + Inside(stack, x) + Waiting(x)

\* dispatch_event takes the event and raises the count.
LEMMA DispatchStep ==
  ASSUME DispatcherAssumption, Types, Balanced, NEW y \in Event, dispatch_event(y)
  PROVE  Types' /\ Balanced'
<1>1. stack' = Append(stack, Call("filter", y)) /\ count' = count + 1
      /\ owned' = [owned EXCEPT ![y] = @ - 1]
  BY DEF dispatch_event
<1>2. UNCHANGED <<buffed, ref, swallowed, lost, delayed, emitted>>
  BY DEF dispatch_event, history
<1>3. Call("filter", y) \in Calls /\ Call("filter", y).at = "filter"
      /\ Call("filter", y).event = y
  BY CallIsCall DEF Call
<1>4. /\ stack' \in Seq(Calls) /\ Depth(stack') = Depth(stack) + 1
      /\ \A x : Inside(stack', x) = Inside(stack, x) + (IF y = x THEN 1 ELSE 0)
  BY <1>1, <1>3, Pushing DEF Types
<1>5. Types'
  BY <1>1, <1>2, <1>4 DEF Types
<1>6. count' = Depth(stack') + Len(swallowed')
  BY <1>1, <1>2, <1>4, Numbers DEF Balanced
<1>7. ASSUME NEW x \in Event PROVE Account(x)'
  <2>1. ref[x] = owned[x] + lost[x] + Inside(stack, x) + Waiting(x)
    BY DEF Balanced
  <2>2. /\ ref[x] \in Int /\ owned[x] \in Int /\ lost[x] \in Int
        /\ Inside(stack, x) \in Int /\ Waiting(x) \in Int
    BY Numbers
  <2>3. Waiting(x)' = Waiting(x)
    BY <1>2 DEF Waiting
  <2>4. CASE x = y
    BY <1>1, <1>2, <1>4, <2>1, <2>2, <2>3, <2>4 DEF Types, Account
  <2>5. CASE x # y
    BY <1>1, <1>2, <1>4, <2>1, <2>2, <2>3, <2>5 DEF Types, Account
  <2> QED
    BY <2>4, <2>5
<1>8. delayed' = emitted' \o buffed'
  BY <1>2 DEF Balanced
<1> QED
  BY <1>5, <1>6, <1>7, <1>8 DEF Balanced, Account

\* The filter lets the event pass on to the handler.
LEMMA FilterStep ==
  ASSUME DispatcherAssumption, Types, Balanced, Filter
  PROVE  Types' /\ Balanced'
<1>0. Within("filter")
  BY DEF Filter
<1>1. /\ Front(stack) \in Seq(Calls) /\ Top.event \in Event
      /\ Depth(Front(stack)) = Depth(stack) - 1
      /\ \A x : Inside(Front(stack), x) = Inside(stack, x) - (IF Top.event = x THEN 1 ELSE 0)
  BY <1>0, TopCall
<1>2. UNCHANGED <<count, buffed, ref, swallowed, lost, delayed, emitted>>
  BY DEF Filter, history
<1>3. PICK y \in Event :
        /\ stack' = Append(Front(stack), Call("handler", y))
        /\ owned' = [x \in Event |->
              owned[x] + (IF x = Top.event THEN 1 ELSE 0) - (IF x = y THEN 1 ELSE 0)]
  BY DEF Filter
<1>4. Call("handler", y) \in Calls /\ Call("handler", y).at = "handler"
      /\ Call("handler", y).event = y
  BY CallIsCall DEF Call
<1>5. /\ stack' \in Seq(Calls) /\ Depth(stack') = Depth(Front(stack)) + 1
      /\ \A x : Inside(stack', x) = Inside(Front(stack), x) + (IF y = x THEN 1 ELSE 0)
  BY <1>1, <1>3, <1>4, Pushing
<1>6. Types'
  <2>1. \A x \in Event : owned'[x] \in Int
    <3> SUFFICES ASSUME NEW x \in Event PROVE owned'[x] \in Int
      OBVIOUS
    <3>1. owned[x] \in Int
      BY DEF Types
    <3>2. CASE x = y
      BY <1>3, <3>1, <3>2
    <3>3. CASE x # y
      BY <1>3, <3>1, <3>3
    <3> QED
      BY <3>2, <3>3
  <2>2. owned' \in [Event -> Int]
    BY <1>3, <2>1
  <2> QED
    BY <1>2, <1>5, <2>2 DEF Types
<1>7. count' = Depth(stack') + Len(swallowed')
  BY <1>1, <1>2, <1>5, Numbers DEF Balanced
<1>8. ASSUME NEW x \in Event PROVE Account(x)'
  <2>1. ref[x] = owned[x] + lost[x] + Inside(stack, x) + Waiting(x)
    BY DEF Balanced
  <2>2. /\ ref[x] \in Int /\ owned[x] \in Int /\ lost[x] \in Int
        /\ Inside(stack, x) \in Int /\ Waiting(x) \in Int
    BY Numbers
  <2>3. ref'[x] = ref[x] /\ lost'[x] = lost[x] /\ Waiting(x)' = Waiting(x)
    BY <1>2 DEF Waiting
  <2>4. owned'[x] = owned[x] + (IF x = Top.event THEN 1 ELSE 0) - (IF x = y THEN 1 ELSE 0)
    BY <1>3
  <2>5. Inside(stack', x) = Inside(stack, x) - (IF Top.event = x THEN 1 ELSE 0)
                            + (IF y = x THEN 1 ELSE 0)
    BY <1>1, <1>5
  <2>6. owned'[x] + Inside(stack', x) = owned[x] + Inside(stack, x)
    BY <2>2, <2>4, <2>5
  <2>7. owned'[x] \in Int /\ Inside(stack', x) \in Int
    BY <2>2, <2>4, <2>5
  <2> QED
    BY <2>1, <2>2, <2>3, <2>6, <2>7 DEF Account
<1>9. delayed' = emitted' \o buffed'
  BY <1>2 DEF Balanced
<1> QED
  BY <1>6, <1>7, <1>8, <1>9 DEF Balanced, Account

\* The filter keeps the event; the count stays raised.
LEMMA SwallowStep ==
  ASSUME DispatcherAssumption, Types, Balanced, Swallow
  PROVE  Types' /\ Balanced'
<1>0. Within("filter")
  BY DEF Swallow
<1>1. /\ Front(stack) \in Seq(Calls) /\ Top.event \in Event
      /\ Depth(Front(stack)) = Depth(stack) - 1
      /\ \A x : Inside(Front(stack), x) = Inside(stack, x) - (IF Top.event = x THEN 1 ELSE 0)
  BY <1>0, TopCall
<1>2. UNCHANGED <<count, buffed, ref, lost, delayed, emitted>>
  BY DEF Swallow, SwallowCount
<1>3. stack' = Front(stack) /\ owned' = [owned EXCEPT ![Top.event] = @ + 1]
      /\ swallowed' = Append(swallowed, Top.event)
  BY DEF Swallow
<1>4. swallowed' \in Seq(Event) /\ Len(swallowed') = Len(swallowed) + 1
  BY <1>1, <1>3, WhatAppendIs DEF Types
<1>5. Types'
  BY <1>1, <1>2, <1>3, <1>4 DEF Types
<1>6. count' = Depth(stack') + Len(swallowed')
  BY <1>1, <1>2, <1>3, <1>4, Numbers DEF Balanced
<1>7. ASSUME NEW x \in Event PROVE Account(x)'
  <2>1. ref[x] = owned[x] + lost[x] + Inside(stack, x) + Waiting(x)
    BY DEF Balanced
  <2>2. /\ ref[x] \in Int /\ owned[x] \in Int /\ lost[x] \in Int
        /\ Inside(stack, x) \in Int /\ Waiting(x) \in Int
    BY Numbers
  <2>3. Waiting(x)' = Waiting(x)
    BY <1>2 DEF Waiting
  <2>4. CASE x = Top.event
    <3>1. owned'[x] = owned[x] + 1
      BY <1>1, <1>3, <2>4 DEF Types
    <3>2. Inside(stack', x) = Inside(stack, x) - 1
      BY <1>1, <1>3, <2>2, <2>4
    <3> QED
      BY <1>2, <2>1, <2>2, <2>3, <3>1, <3>2 DEF Account
  <2>5. CASE x # Top.event
    <3>1. owned'[x] = owned[x]
      BY <1>1, <1>3, <2>5 DEF Types
    <3>2. Inside(stack', x) = Inside(stack, x)
      BY <1>1, <1>3, <2>2, <2>5
    <3> QED
      BY <1>2, <2>1, <2>3, <3>1, <3>2 DEF Account
  <2> QED
    BY <2>4, <2>5
<1>8. delayed' = emitted' \o buffed'
  BY <1>2 DEF Balanced
<1> QED
  BY <1>5, <1>6, <1>7, <1>8 DEF Balanced, Account

\* The handler is done, and the event's reference is dropped.
LEMMA ReturnStep ==
  ASSUME DispatcherAssumption, Types, Balanced, Return
  PROVE  Types' /\ Balanced'
<1>0. Within("handler")
  BY DEF Return
<1>1. /\ Front(stack) \in Seq(Calls) /\ Top.event \in Event
      /\ Depth(Front(stack)) = Depth(stack) - 1
      /\ \A x : Inside(Front(stack), x) = Inside(stack, x) - (IF Top.event = x THEN 1 ELSE 0)
  BY <1>0, TopCall
<1>2. UNCHANGED <<buffed, owned, swallowed, lost, delayed, emitted>>
  BY DEF Return, history
<1>3. stack' = Front(stack) /\ ref' = [ref EXCEPT ![Top.event] = @ - 1] /\ count' = count - 1
  BY DEF Return, DropReference
<1>4. Types'
  BY <1>1, <1>2, <1>3 DEF Types
<1>5. count' = Depth(stack') + Len(swallowed')
  BY <1>1, <1>2, <1>3, Numbers DEF Balanced
<1>6. ASSUME NEW x \in Event PROVE Account(x)'
  <2>1. ref[x] = owned[x] + lost[x] + Inside(stack, x) + Waiting(x)
    BY DEF Balanced
  <2>2. /\ ref[x] \in Int /\ owned[x] \in Int /\ lost[x] \in Int
        /\ Inside(stack, x) \in Int /\ Waiting(x) \in Int
    BY Numbers
  <2>3. Waiting(x)' = Waiting(x)
    BY <1>2 DEF Waiting
  <2>4. CASE x = Top.event
    BY <1>1, <1>2, <1>3, <2>1, <2>2, <2>3, <2>4 DEF Types, Account
  <2>5. CASE x # Top.event
    BY <1>1, <1>2, <1>3, <2>1, <2>2, <2>3, <2>5 DEF Types, Account
  <2> QED
    BY <2>4, <2>5
<1>7. delayed' = emitted' \o buffed'
  BY <1>2 DEF Balanced
<1> QED
  BY <1>4, <1>5, <1>6, <1>7 DEF Balanced, Account

\* A handler takes a reference of its own.
LEMMA KeepStep ==
  ASSUME DispatcherAssumption, Types, Balanced, Keep
  PROVE  Types' /\ Balanced'
<1>0. Within("handler")
  BY DEF Keep
<1>1. /\ Front(stack) \in Seq(Calls) /\ Top.event \in Event
      /\ Depth(Front(stack)) = Depth(stack) - 1
      /\ \A x : Inside(Front(stack), x) = Inside(stack, x) - (IF Top.event = x THEN 1 ELSE 0)
  BY <1>0, TopCall
<1>2. UNCHANGED <<stack, count, buffed, swallowed, lost, delayed, emitted>>
  BY DEF Keep, history
<1>3. ref' = [ref EXCEPT ![Top.event] = @ + 1] /\ owned' = [owned EXCEPT ![Top.event] = @ + 1]
  BY DEF Keep
<1>4. Types'
  BY <1>1, <1>2, <1>3 DEF Types
<1>5. count' = Depth(stack') + Len(swallowed')
  BY <1>2 DEF Balanced
<1>6. ASSUME NEW x \in Event PROVE Account(x)'
  <2>1. ref[x] = owned[x] + lost[x] + Inside(stack, x) + Waiting(x)
    BY DEF Balanced
  <2>2. /\ ref[x] \in Int /\ owned[x] \in Int /\ lost[x] \in Int
        /\ Inside(stack, x) \in Int /\ Waiting(x) \in Int
    BY Numbers
  <2>3. Waiting(x)' = Waiting(x)
    BY <1>2 DEF Waiting
  <2>4. CASE x = Top.event
    BY <1>1, <1>2, <1>3, <2>1, <2>2, <2>3, <2>4 DEF Types, Account
  <2>5. CASE x # Top.event
    BY <1>1, <1>2, <1>3, <2>1, <2>2, <2>3, <2>5 DEF Types, Account
  <2> QED
    BY <2>4, <2>5
<1>7. delayed' = emitted' \o buffed'
  BY <1>2 DEF Balanced
<1> QED
  BY <1>4, <1>5, <1>6, <1>7 DEF Balanced, Account

\* An event added to the second of two sequences is added to the whole.
LEMMA AppendsInside ==
  \A a, b \in Seq(Event) : \A y \in Event : Append(a \o b, y) = a \o Append(b, y)
<1> SUFFICES ASSUME NEW a \in Seq(Event), NEW b \in Seq(Event), NEW y \in Event
             PROVE  Append(a \o b, y) = a \o Append(b, y)
  OBVIOUS
<1>1. /\ a \o b \in Seq(Event) /\ <<y>> \in Seq(Event)
      /\ Append(a \o b, y) = (a \o b) \o <<y>> /\ Append(b, y) = b \o <<y>>
  OBVIOUS
<1> QED
  BY <1>1, ConcatAssociative

\* A delayed event goes to the buffer, or is lost.
LEMMA DelayStep ==
  ASSUME DispatcherAssumption, Types, Balanced, NEW y \in Event, delay_dispatch_event(y)
  PROVE  Types' /\ Balanced'
<1>1. owned' = [owned EXCEPT ![y] = @ - 1]
  BY DEF delay_dispatch_event
<1>2. UNCHANGED <<stack, count, ref, swallowed, emitted>>
  BY DEF delay_dispatch_event
<1>3. CASE Room
  <2>1. buffed' = Append(buffed, y) /\ delayed' = Append(delayed, y) /\ lost' = lost
    BY <1>3 DEF delay_dispatch_event
  <2>2. buffed' \in Seq(Event) /\ delayed' \in Seq(Event)
    BY <2>1, WhatAppendIs DEF Types
  <2>3. Types'
    BY <1>1, <1>2, <2>1, <2>2 DEF Types
  <2>4. count' = Depth(stack') + Len(swallowed')
    BY <1>2 DEF Balanced
  <2>5. \A x : Waiting(x)' = Waiting(x) + (IF y = x THEN 1 ELSE 0)
    BY <2>1, CountOfAppend DEF Types, Waiting
  <2>6. ASSUME NEW x \in Event PROVE Account(x)'
    <3>1. ref[x] = owned[x] + lost[x] + Inside(stack, x) + Waiting(x)
      BY DEF Balanced
    <3>2. /\ ref[x] \in Int /\ owned[x] \in Int /\ lost[x] \in Int
          /\ Inside(stack, x) \in Int /\ Waiting(x) \in Int
      BY Numbers
    <3>3. CASE x = y
      BY <1>1, <1>2, <2>1, <2>5, <3>1, <3>2, <3>3 DEF Types, Account
    <3>4. CASE x # y
      BY <1>1, <1>2, <2>1, <2>5, <3>1, <3>2, <3>4 DEF Types, Account
    <3> QED
      BY <3>3, <3>4
  <2>7. delayed' = emitted' \o buffed'
    <3>1. Append(emitted \o buffed, y) = emitted \o Append(buffed, y)
      <4>1. emitted \in Seq(Event) /\ buffed \in Seq(Event)
        BY DEF Types
      <4> QED
        BY <4>1, AppendsInside, Zenon
    <3> QED
      BY <1>2, <2>1, <3>1 DEF Balanced
  <2> QED
    BY <2>3, <2>4, <2>6, <2>7 DEF Balanced, Account
<1>4. CASE ~Room
  <2>1. lost' = [lost EXCEPT ![y] = @ + 1] /\ buffed' = buffed /\ delayed' = delayed
    BY <1>4 DEF delay_dispatch_event
  <2>2. Types'
    BY <1>1, <1>2, <2>1 DEF Types
  <2>3. ASSUME NEW x \in Event PROVE Account(x)'
    <3>1. ref[x] = owned[x] + lost[x] + Inside(stack, x) + Waiting(x)
      BY DEF Balanced
    <3>2. /\ ref[x] \in Int /\ owned[x] \in Int /\ lost[x] \in Int
          /\ Inside(stack, x) \in Int /\ Waiting(x) \in Int
      BY Numbers
    <3>3. Waiting(x)' = Waiting(x)
      BY <2>1 DEF Waiting
    <3>4. CASE x = y
      BY <1>1, <1>2, <2>1, <3>1, <3>2, <3>3, <3>4 DEF Types, Account
    <3>5. CASE x # y
      BY <1>1, <1>2, <2>1, <3>1, <3>2, <3>3, <3>5 DEF Types, Account
    <3> QED
      BY <3>4, <3>5
  <2> QED
    BY <1>2, <2>1, <2>2, <2>3 DEF Balanced, Account
<1> QED
  BY <1>3, <1>4

\* emit_delayed_events begins.
LEMMA EmitStep ==
  ASSUME DispatcherAssumption, Types, Balanced, emit_delayed_events
  PROVE  Types' /\ Balanced'
<1>1. stack' = Append(stack, Call("emit", NULL)) /\ NULL \notin Event
  BY DEF emit_delayed_events, DispatcherAssumption
<1>2. UNCHANGED <<count, buffed, ref, owned, swallowed, lost, delayed, emitted>>
  BY DEF emit_delayed_events, history
<1>3. /\ stack' \in Seq(Calls) /\ Depth(stack') = Depth(stack) + 0
      /\ \A x : Inside(stack', x) = Inside(stack, x) + (IF NULL = x THEN 1 ELSE 0)
  <2>1. Call("emit", NULL) \in Calls /\ Call("emit", NULL).at = "emit"
        /\ Call("emit", NULL).event = NULL
    BY CallIsCall DEF Call
  <2> QED
    BY <1>1, <2>1, Pushing DEF Types
<1>4. Types'
  BY <1>2, <1>3 DEF Types
<1>5. count' = Depth(stack') + Len(swallowed')
  BY <1>2, <1>3, Numbers DEF Balanced
<1>6. ASSUME NEW x \in Event PROVE Account(x)'
  <2>1. ref[x] = owned[x] + lost[x] + Inside(stack, x) + Waiting(x)
    BY DEF Balanced
  <2>2. Waiting(x)' = Waiting(x)
    BY <1>2 DEF Waiting
  <2>3. Inside(stack', x) = Inside(stack, x)
    <3>1. x # NULL /\ Inside(stack, x) \in Int
      BY <1>1, Numbers
    <3> QED
      BY <1>1, <1>3, <3>1
  <2> QED
    BY <1>2, <2>1, <2>2, <2>3 DEF Account
<1>7. delayed' = emitted' \o buffed'
  BY <1>2 DEF Balanced
<1> QED
  BY <1>4, <1>5, <1>6, <1>7 DEF Balanced, Account

\* A delayed event is dispatched.
LEMMA EmitNextStep ==
  ASSUME DispatcherAssumption, Types, Balanced, EmitNext
  PROVE  Types' /\ Balanced'
<1>1. /\ buffed # <<>> /\ stack' = Append(stack, Call("filter", Head(buffed)))
      /\ count' = count + 1 /\ buffed' = Tail(buffed)
      /\ emitted' = Append(emitted, Head(buffed))
  BY DEF EmitNext, NextBuffed
<1>2. UNCHANGED <<ref, owned, swallowed, lost, delayed>>
  BY DEF EmitNext
<1>3. Head(buffed) \in Event /\ buffed' \in Seq(Event)
  BY <1>1, HeadTailProperties DEF Types
<1>4. emitted' \in Seq(Event)
  BY <1>1, <1>3, WhatAppendIs DEF Types
<1>5. /\ stack' \in Seq(Calls) /\ Depth(stack') = Depth(stack) + 1
      /\ \A x : Inside(stack', x) = Inside(stack, x) + (IF Head(buffed) = x THEN 1 ELSE 0)
  <2>1. Call("filter", Head(buffed)) \in Calls /\ Call("filter", Head(buffed)).at = "filter"
        /\ Call("filter", Head(buffed)).event = Head(buffed)
    BY <1>3, CallIsCall DEF Call
  <2> QED
    BY <1>1, <2>1, Pushing DEF Types
<1>6. \A x : Waiting(x)' = Waiting(x) - (IF Head(buffed) = x THEN 1 ELSE 0)
  BY <1>1, CountOfTail DEF Types, Waiting
<1>7. Types'
  BY <1>1, <1>2, <1>3, <1>4, <1>5 DEF Types
<1>8. count' = Depth(stack') + Len(swallowed')
  BY <1>1, <1>2, <1>5, Numbers DEF Balanced
<1>9. ASSUME NEW x \in Event PROVE Account(x)'
  <2>1. ref[x] = owned[x] + lost[x] + Inside(stack, x) + Waiting(x)
    BY DEF Balanced
  <2>2. Inside(stack, x) \in Int /\ Waiting(x) \in Int /\ owned[x] \in Int /\ lost[x] \in Int
    BY Numbers
  <2>3. Inside(stack', x) + Waiting(x)' = Inside(stack, x) + Waiting(x)
        /\ Inside(stack', x) \in Int /\ Waiting(x)' \in Int
    BY <1>5, <1>6, <2>2
  <2> QED
    BY <1>2, <2>1, <2>2, <2>3 DEF Account
<1>10. delayed' = emitted' \o buffed'
  BY <1>1, <1>2, HeadMoves DEF Balanced, Types
<1> QED
  BY <1>7, <1>8, <1>9, <1>10 DEF Balanced, Account

\* emit_delayed_events ends.
LEMMA EmitEndStep ==
  ASSUME DispatcherAssumption, Types, Balanced, EmitEnd
  PROVE  Types' /\ Balanced'
<1>0. Within("emit")
  BY DEF EmitEnd
<1>1. /\ Front(stack) \in Seq(Calls) /\ Top.event = NULL /\ NULL \notin Event
      /\ Depth(Front(stack)) = Depth(stack) - 0
      /\ \A x : Inside(Front(stack), x) = Inside(stack, x) - (IF Top.event = x THEN 1 ELSE 0)
  BY <1>0, TopCall
<1>2. UNCHANGED <<count, buffed, ref, owned, swallowed, lost, delayed, emitted>>
  BY DEF EmitEnd, history
<1>3. stack' = Front(stack)
  BY DEF EmitEnd
<1>4. Types'
  BY <1>1, <1>2, <1>3 DEF Types
<1>5. count' = Depth(stack') + Len(swallowed')
  BY <1>1, <1>2, <1>3, Numbers DEF Balanced
<1>6. ASSUME NEW x \in Event PROVE Account(x)'
  <2>1. ref[x] = owned[x] + lost[x] + Inside(stack, x) + Waiting(x)
    BY DEF Balanced
  <2>2. Waiting(x)' = Waiting(x)
    BY <1>2 DEF Waiting
  <2>3. Inside(stack', x) = Inside(stack, x)
    <3>1. x # NULL /\ Inside(stack, x) \in Int
      BY <1>1, Numbers
    <3> QED
      BY <1>1, <1>3, <3>1
  <2> QED
    BY <1>2, <2>1, <2>2, <2>3 DEF Account
<1>7. delayed' = emitted' \o buffed'
  BY <1>2 DEF Balanced
<1> QED
  BY <1>4, <1>5, <1>6, <1>7 DEF Balanced, Account

\* Every step keeps the accounts.
LEMMA BalancedStep ==
  ASSUME DispatcherAssumption, Types, Balanced, [Next]_vars
  PROVE  Types' /\ Balanced'
<1>1. CASE UNCHANGED vars
  BY <1>1 DEF Types, Balanced, Waiting, vars
<1> QED
  BY <1>1, DispatchStep, FilterStep, SwallowStep, ReturnStep, KeepStep, DelayStep,
     EmitStep, EmitNextStep, EmitEndStep DEF Next

-----------------------------------------------------------------------------
(* What has a limit. *)

\* Nobody gives away what he does not have, and the buffer keeps to its size.
Limits ==
    /\ owned \in [Event -> Nat] /\ lost \in [Event -> Nat]
    /\ Len(buffed) <= Capacity

\* Every step keeps to the limits.
LEMMA LimitsStep ==
  ASSUME DispatcherAssumption, Types, Limits, [Next]_vars
  PROVE  Limits'
<1>1. CASE UNCHANGED vars
  BY <1>1 DEF Limits, vars
<1>2. ASSUME NEW y \in Event, dispatch_event(y) PROVE Limits'
  BY <1>2 DEF Limits, dispatch_event, history
<1>3. ASSUME Filter PROVE Limits'
  <2>1. PICK e \in Event :
          /\ e = Top.event \/ owned[e] > 0
          /\ owned' = [x \in Event |->
                owned[x] + (IF x = Top.event THEN 1 ELSE 0) - (IF x = e THEN 1 ELSE 0)]
    BY <1>3 DEF Filter
  <2>2. ASSUME NEW x \in Event PROVE owned'[x] \in Nat
    <3>1. owned[x] \in Nat
      BY DEF Limits
    <3>2. CASE x = e
      BY <2>1, <3>1, <3>2
    <3>3. CASE x # e
      BY <2>1, <3>1, <3>3
    <3> QED
      BY <3>2, <3>3
  <2>3. owned' \in [Event -> Nat]
    BY <2>1, <2>2
  <2> QED
    BY <1>3, <2>3 DEF Limits, Filter, history
<1>4. ASSUME Swallow PROVE Limits'
  <2>1. owned' = [owned EXCEPT ![Top.event] = @ + 1] /\ UNCHANGED <<lost, buffed>>
    BY <1>4 DEF Swallow
  <2>2. Top.event \in Event
    BY <1>4, TopCall DEF Swallow
  <2>3. owned' \in [Event -> Nat]
    BY <2>1, <2>2 DEF Limits
  <2> QED
    BY <2>1, <2>3 DEF Limits
<1>5. ASSUME Return PROVE Limits'
  <2>1. UNCHANGED <<owned, lost, buffed>>
    BY <1>5 DEF Return, history
  <2> QED
    BY <2>1 DEF Limits
<1>6. ASSUME Keep PROVE Limits'
  <2>1. owned' = [owned EXCEPT ![Top.event] = @ + 1] /\ UNCHANGED <<lost, buffed>>
    BY <1>6 DEF Keep, history
  <2>2. Top.event \in Event
    BY <1>6, TopCall DEF Keep
  <2>3. owned' \in [Event -> Nat]
    BY <2>1, <2>2 DEF Limits
  <2> QED
    BY <2>1, <2>3 DEF Limits
<1>7. ASSUME NEW y \in Event, delay_dispatch_event(y) PROVE Limits'
  <2>1. owned' \in [Event -> Nat]
    BY <1>7 DEF Limits, delay_dispatch_event
  <2>2. CASE Room
    <3>1. buffed' = Append(buffed, y) /\ UNCHANGED lost
      BY <1>7, <2>2 DEF delay_dispatch_event
    <3>2. Len(buffed') = Len(buffed) + 1 /\ Len(buffed) \in Nat
      BY <3>1, WhatAppendIs DEF Types
    <3>3. Len(buffed) < Capacity /\ Capacity \in Nat
      BY <2>2 DEF Room, DispatcherAssumption
    <3> QED
      BY <2>1, <3>1, <3>2, <3>3 DEF Limits
  <2>3. CASE ~Room
    BY <1>7, <2>1, <2>3 DEF Limits, delay_dispatch_event
  <2> QED
    BY <2>2, <2>3
<1>8. ASSUME emit_delayed_events PROVE Limits'
  BY <1>8 DEF Limits, emit_delayed_events, history
<1>9. ASSUME EmitNext PROVE Limits'
  <2>1. buffed # <<>> /\ buffed' = Tail(buffed) /\ UNCHANGED <<owned, lost>>
    BY <1>9 DEF EmitNext
  <2>2. Len(buffed') = Len(buffed) - 1 /\ Len(buffed) \in Nat
    BY <2>1, HeadTailProperties DEF Types
  <2> QED
    BY <2>1, <2>2 DEF Limits, DispatcherAssumption
<1>10. ASSUME EmitEnd PROVE Limits'
  BY <1>10 DEF Limits, EmitEnd, history
<1> QED
  BY <1>1, <1>2, <1>3, <1>4, <1>5, <1>6, <1>7, <1>8, <1>9, <1>10 DEF Next

\* What is balanced and within its limits has its type.
LEMMA BalancedIsTyped ==
  ASSUME DispatcherAssumption, Types, Balanced, Limits
  PROVE  TypeOK
<1>1. \A i \in DOMAIN stack : stack[i] \in Calls
  BY ElementOfSeq, LenProperties DEF Types
<1> DEFINE Record == [at : {"filter", "handler", "emit"}, event : Event \cup {NULL}]
<1>2. stack \in Seq(Record)
  <2>1. Calls \subseteq Record
    BY DEF Calls
  <2> HIDE DEF Record
  <2> QED
    BY <2>1, LenProperties, ElementOfSeq, SeqDef DEF Types
<1>3. \A i \in DOMAIN stack : stack[i].event = NULL <=> stack[i].at = "emit"
  BY <1>1 DEF Calls
<1>4. count \in Nat
  <2>1. Depth(stack) \in Nat
    BY CallsAreCounted DEF Types
  <2>2. Len(swallowed) \in Nat
    BY LenProperties DEF Types
  <2> QED
    BY <2>1, <2>2 DEF Balanced
<1>5. ref \in [Event -> Nat]
  <2>1. ASSUME NEW x \in Event PROVE ref[x] \in Nat
    <3>1. owned[x] \in Nat /\ lost[x] \in Nat
      BY DEF Limits
    <3>2. Inside(stack, x) \in Nat
      BY CallsAreCounted DEF Types
    <3>3. Waiting(x) \in Nat
      BY TallyIsNat DEF Types, Waiting
    <3> QED
      BY <3>1, <3>2, <3>3 DEF Balanced
  <2> QED
    BY <2>1 DEF Types
<1> QED
  BY <1>2, <1>3, <1>4, <1>5, Zenon DEF TypeOK, Limits, Types

-----------------------------------------------------------------------------
(* Theorems. *)

\* However dispatches nest, and whatever the filter and the handlers do: every
\* variable keeps its type and the buffer its size; the reentrancy count is the dispatches under way and the events swallowed so far,
\* every reference has a holder or was lost at a full buffer, and delayed events
\* come out in the order they went in.
THEOREM AccountsAreRight ==
  ASSUME DispatcherAssumption
  PROVE  Spec => []AccountsBalance
<1>1. Init => Types /\ Balanced /\ Limits
  BY InitBalanced DEF Init, Limits, DispatcherAssumption
<1>2. Types /\ Balanced /\ Limits /\ [Next]_vars => (Types /\ Balanced /\ Limits)'
  BY BalancedStep, LimitsStep
<1>3. Types /\ Balanced /\ Limits => AccountsBalance
  <2> SUFFICES ASSUME Types, Balanced, Limits PROVE AccountsBalance
    OBVIOUS
  <2>1. \A i \in DOMAIN stack : stack[i] \in Calls
    BY ElementOfSeq, LenProperties DEF Types
  <2>2. Depth(stack) = Dispatches
    <3>1. {i \in DOMAIN stack : stack[i] \in {c \in Calls : c.at # "emit"}}
            = {i \in DOMAIN stack : stack[i].at # "emit"}
      BY <2>1
    <3> QED
      BY <3>1 DEF Depth, Tally, Dispatches
  <2>3. \A x : Inside(stack, x) = Cardinality({i \in DOMAIN stack : stack[i].event = x})
    <3>1. \A x : {i \in DOMAIN stack : stack[i] \in {c \in Calls : c.event = x}}
                   = {i \in DOMAIN stack : stack[i].event = x}
      BY <2>1
    <3> QED
      BY <3>1 DEF Inside, Tally
  <2>4. \A x : Waiting(x) = Cardinality({i \in DOMAIN buffed : buffed[i] = x})
    <3>1. \A x : {i \in DOMAIN buffed : buffed[i] \in {x}}
                   = {i \in DOMAIN buffed : buffed[i] = x}
      OBVIOUS
    <3> QED
      BY <3>1 DEF Waiting, Tally
  <2> QED
    BY BalancedIsTyped, <2>2, <2>3, <2>4 DEF Balanced, AccountsBalance, CountNeverForgets,
       ReferencesBalance, DelayedInOrder
<1> QED
  BY <1>1, <1>2, <1>3, PTL DEF Spec
=============================================================================
