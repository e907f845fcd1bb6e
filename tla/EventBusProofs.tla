--------------------------- MODULE EventBusProofs ---------------------------
(***************************************************************************)
(* Proofs about one event bus, for every set of queues, events and timers, *)
(* every timestamp and both modes.                                         *)
(***************************************************************************)
EXTENDS EventBus, SequenceTheorems, FiniteSetTheorems, WellFoundedInduction, TLAPS

-----------------------------------------------------------------------------
(* The heaps have a minimum. *)

\* A non-empty set of numbers has a smallest member.
LEMMA SmallestMember ==
  ASSUME NEW T \in SUBSET Nat, T # {}
  PROVE  \E x \in T : \A y \in T : x <= y
<1>1. \E x \in T : \A y \in T : ~ (<<y, x>> \in OpToRel(<, Nat))
  BY WFMin, NatLessThanWellFounded
<1>2. PICK x \in T : \A y \in T : ~ (<<y, x>> \in OpToRel(<, Nat))
  BY <1>1
<1>3. \A y \in T : ~(y < x)
  BY <1>2 DEF OpToRel
<1> QED
  BY <1>3

\* Among nodes with a first and a second key, one has the smallest first key
\* and among those the smallest second key.
LEMMA SmallestOfTwoKeys ==
  ASSUME NEW S, S # {}, NEW f \in [S -> Nat], NEW g \in [S -> Nat]
  PROVE  \E q \in S : \A p \in S :
            ~(f[p] < f[q] \/ (f[p] = f[q] /\ g[p] < g[q]))
<1> DEFINE F == {f[q] : q \in S}
<1>1. PICK x \in F : \A y \in F : x <= y
  <2>1. F \in SUBSET Nat /\ F # {}
    OBVIOUS
  <2> HIDE DEF F
  <2> QED
    BY <2>1, SmallestMember
<1> DEFINE G == {g[q] : q \in {p \in S : f[p] = x}}
<1>2. PICK z \in G : \A y \in G : z <= y
  <2>1. G \in SUBSET Nat /\ G # {}
    OBVIOUS
  <2> HIDE DEF G
  <2> QED
    BY <2>1, SmallestMember
<1>3. PICK q \in S : f[q] = x /\ g[q] = z
  BY <1>2
<1>4. ASSUME NEW p \in S
      PROVE  ~(f[p] < f[q] \/ (f[p] = f[q] /\ g[p] < g[q]))
  <2>1. x <= f[p]
    BY <1>1
  <2>2. f[p] = x => z <= g[p]
    BY <1>2
  <2>3. f[p] \in Nat /\ f[q] \in Nat /\ g[p] \in Nat /\ g[q] \in Nat
    OBVIOUS
  <2> QED
    BY <1>3, <2>1, <2>2, <2>3
<1> QED
  BY <1>4

\* A pipe with queues in it has a first queue: no queue of it is less.
LEMMA PipeMinIsFirst ==
  ASSUME TypeOK, HeapQueuesNonEmpty, NEW c, Pipe(c) # {}
  PROVE  /\ PipeMin(c) \in Pipe(c)
         /\ \A p \in Pipe(c) : ~queue_less_than(p, PipeMin(c))
<1> DEFINE f == [q \in Pipe(c) |-> timestamp[Head(content[q])]]
           g == [q \in Pipe(c) |-> start_id[q]]
<1>1. \A q \in Pipe(c) : q \in Queue /\ Head(content[q]) \in Event
  BY DEF TypeOK, Pipe, HeapQueuesNonEmpty
<1>2. f \in [Pipe(c) -> Nat] /\ g \in [Pipe(c) -> Nat]
  BY <1>1 DEF TypeOK
<1>3. \E q \in Pipe(c) : \A p \in Pipe(c) :
        ~(f[p] < f[q] \/ (f[p] = f[q] /\ g[p] < g[q]))
  <2> HIDE DEF f, g
  <2> QED
    BY <1>2, SmallestOfTwoKeys
<1>4. \E q \in Pipe(c) : \A p \in Pipe(c) : ~queue_less_than(p, q)
  BY <1>3 DEF queue_less_than
<1> QED
  BY <1>4 DEF PipeMin

\* A clock with timers has a first timer.
LEMMA TimerMinIsFirst ==
  ASSUME TypeOK, NEW k, TimersOn(k) # {}
  PROVE  /\ TimerMin(k) \in TimersOn(k)
         /\ \A t \in TimersOn(k) : ~timer_less_than(t, TimerMin(k))
<1> DEFINE f == [t \in TimersOn(k) |-> timeout[t]]
           g == [t \in TimersOn(k) |-> start_id[t]]
<1>1. f \in [TimersOn(k) -> Nat] /\ g \in [TimersOn(k) -> Nat]
  BY DEF TypeOK, TimersOn
<1>2. \E t \in TimersOn(k) : \A s \in TimersOn(k) :
        ~(f[s] < f[t] \/ (f[s] = f[t] /\ g[s] < g[t]))
  <2> HIDE DEF f, g
  <2> QED
    BY <1>1, SmallestOfTwoKeys
<1>3. \E t \in TimersOn(k) : \A s \in TimersOn(k) : ~timer_less_than(s, t)
  BY <1>2 DEF timer_less_than
<1> QED
  BY <1>3 DEF TimerMin
-----------------------------------------------------------------------------
(* Types. *)

\* The parts of the state that a queue's events, a heap node and a timer touch.
QueueTypes ==
    /\ content \in [Queue -> Seq(Event)]
    /\ owned \subseteq Queue /\ removed \subseteq owned /\ heap \subseteq owned
    /\ pending \in Seq(Queue) /\ passed \in [Queue -> SUBSET Queue]
IdTypes == start_id \in [Queue \cup Timer -> Nat] /\ counter \in Nat \ {0}
TimerTypes == timers \subseteq Timer /\ timeout \in [Timer -> Nat]

\* Taking an event out of a queue, with its queue put back or not.
LEMMA PopFromTypes ==
  ASSUME TypeOK, NEW q \in heap, content[q] # <<>>, PopFrom(q)
  PROVE  QueueTypes' /\ IdTypes'
<1>1. q \in Queue /\ Tail(content[q]) \in Seq(Event)
  BY DEF TypeOK
<1>2. content' \in [Queue -> Seq(Event)]
  BY <1>1 DEF PopFrom, TypeOK
<1>3. heap' \subseteq owned' /\ owned' = owned /\ removed' = removed
  BY DEF PopFrom, TypeOK
<1>4. passed' \in [Queue -> SUBSET Queue]
  <2>1. \A p \in Queue : passed[p] \in SUBSET Queue
    BY DEF TypeOK
  <2> QED
    BY <1>1, <2>1 DEF PopFrom
<1>5. IdTypes'
  <2>1. CASE Tail(content[q]) = <<>>
    BY <2>1 DEF PopFrom, TypeOK, IdTypes
  <2>2. CASE TakeId(q)
    BY <1>1, <2>2 DEF TakeId, TypeOK, IdTypes
  <2> QED
    BY <2>1, <2>2 DEF PopFrom
<1> QED
  BY <1>2, <1>3, <1>4, <1>5 DEF QueueTypes, PopFrom, TypeOK

\* Taking a timer out of its heap, put back for its next period or not.
LEMMA PopTimerTypes ==
  ASSUME TypeOK, NEW t \in timers, PopTimer(t)
  PROVE  TimerTypes' /\ IdTypes'
<1>1. t \in Timer /\ timeout[t] + Repeat[t] \in Nat
  BY TimerAssumption DEF TypeOK
<1> QED
  BY <1>1 DEF PopTimer, TakeId, TypeOK, TimerTypes, IdTypes

\* Putting a queue on the bus.
LEMMA AddToTypes ==
  ASSUME TypeOK, NEW q \in Queue, AddTo(q)
  PROVE  /\ IdTypes'
         /\ owned' \subseteq Queue /\ removed \subseteq owned' /\ heap' \subseteq owned'
         /\ passed' \in [Queue -> SUBSET Queue]
BY DEF AddTo, TakeId, TypeOK, IdTypes

\* The bus starts with values of the right types.
LEMMA InitTypes == Init => TypeOK
<1> SUFFICES ASSUME Init PROVE TypeOK
  OBVIOUS
<1>1. <<>> \in Seq(Event) /\ <<>> \in Seq(Queue) /\ <<>> \in Seq(Seq(Event))
  OBVIOUS
<1>2. timestamp \in [Event \cup Timer -> Nat]
  BY EventAssumption DEF Init
<1>3. /\ content \in [Queue -> Seq(Event)] /\ pushed \in [Queue -> Seq(Event)]
      /\ start_id \in [Queue \cup Timer -> Nat] /\ timeout \in [Timer -> Nat]
      /\ passed \in [Queue -> SUBSET Queue]
  BY <1>1 DEF Init
<1>4. time \in [Clocks -> Nat] /\ now \in Nat
  BY DEF Init, MIN_DATE_TIME
<1>5. /\ owned \subseteq Queue /\ removed \subseteq owned /\ heap \subseteq owned
      /\ timers \subseteq Timer /\ done \subseteq Event /\ dropped \subseteq Event
  BY DEF Init
<1>6. /\ pending \in Seq(Queue) /\ attached \in Seq(Seq(Event))
      /\ stopped \in BOOLEAN
  BY <1>1, Zenon DEF Init
<1>8. counter \in Nat \ {0}
  BY DEF Init
<1>7. /\ saved \in Event \cup {NULL} /\ returned \in Event \cup Timer \cup {NULL}
      /\ pc \in {"idle", "pending", "market", "select"}
  BY DEF Init
<1> QED
  BY <1>2, <1>3, <1>4, <1>5, <1>6, <1>7, <1>8, Zenon DEF TypeOK

\* Every step keeps the types.
LEMMA TypeStep == TypeOK /\ HeapMembership /\ [Next]_vars => TypeOK'
<1> SUFFICES ASSUME TypeOK, HeapMembership, [Next]_vars PROVE TypeOK'
  OBVIOUS
<1>0. HeapQueuesNonEmpty
  BY DEF HeapMembership
<1>a. \A c : Pipe(c) # {} =>
        LET q == PipeMin(c) IN
        /\ q \in heap /\ q \in Queue /\ content[q] # <<>>
        /\ Head(content[q]) \in Event
  <2> SUFFICES ASSUME NEW c, Pipe(c) # {}
               PROVE  /\ PipeMin(c) \in heap /\ PipeMin(c) \in Queue
                      /\ content[PipeMin(c)] # <<>>
                      /\ Head(content[PipeMin(c)]) \in Event
    OBVIOUS
  <2>1. PipeMin(c) \in heap
    BY <1>0, PipeMinIsFirst DEF Pipe
  <2> QED
    BY <2>1, <1>0 DEF TypeOK, HeapQueuesNonEmpty
<1>b. \A k : TimersOn(k) # {} => TimerMin(k) \in timers
  BY TimerMinIsFirst DEF TimersOn
<1>1. CASE UNCHANGED vars
  BY <1>1 DEF vars, TypeOK
<1>2. ASSUME NEW q \in Queue, NEW e \in Event, Push(q, e) PROVE TypeOK'
  <2>1. /\ Append(content[q], e) \in Seq(Event)
        /\ Append(pushed[q], e) \in Seq(Event)
        /\ Append(pending, q) \in Seq(Queue)
    BY DEF TypeOK
  <2> QED
    BY <1>2, <2>1 DEF Push, TypeOK, timerVars, clockVars
<1>3. ASSUME NEW q \in Queue, AddQueue(q) PROVE TypeOK'
  <2>1. AddTo(q)
    BY <1>3 DEF AddQueue
  <2> QED
    BY <1>3, <2>1, AddToTypes
    DEF AddQueue, TypeOK, IdTypes, timerVars, clockVars, historyVars
<1>4. ASSUME NEW q \in Queue, RemoveQueue(q) PROVE TypeOK'
  BY <1>4 DEF RemoveQueue, TypeOK, timerVars, clockVars, historyVars
<1>5. ASSUME NEW t \in Timer, NEW x \in Time, AddTimer(t, x) PROVE TypeOK'
  <2>1. x \in Nat
    BY BoundAssumption DEF Time
  <2> QED
    BY <1>5, <2>1
    DEF AddTimer, TakeId, TypeOK, queueVars, clockVars, historyVars
<1>6. ASSUME NEW t \in Timer, RemoveTimer(t) PROVE TypeOK'
  BY <1>6 DEF RemoveTimer, TypeOK, queueVars, clockVars, historyVars
<1>7. ASSUME NEW k \in Clocks, TimerDequeue(k) PROVE TypeOK'
  <2>1. TimerMin(k) \in timers /\ PopTimer(TimerMin(k))
    BY <1>7, <1>b DEF TimerDequeue
  <2>2. TimerTypes' /\ IdTypes'
    BY <2>1, PopTimerTypes
  <2> QED
    BY <1>7, <2>2
    DEF TimerDequeue, TypeOK, TimerTypes, IdTypes, queueVars, clockVars, historyVars
<1>8. ASSUME NEW k \in Clocks, SetTime(k) PROVE TypeOK'
  <2>1. timestamp[returned] \in Nat
    BY <1>8 DEF SetTime, TypeOK
  <2> QED
    BY <1>8, <2>1 DEF SetTime, TypeOK, queueVars, timerVars, historyVars
<1>9. CASE Tick
  BY <1>9 DEF Tick, TypeOK, queueVars, timerVars, historyVars
<1>10. CASE Attach
  <2>1. Append(attached, <<>>) \in Seq(Seq(Event))
    BY DEF TypeOK
  <2> QED
    BY <1>10, <2>1 DEF Attach, TypeOK, queueVars, timerVars, clockVars, historyVars
<1>11. CASE Dequeue \/ EndPending \/ NoMarket
  BY <1>11
  DEF Dequeue, EndPending, NoMarket, TypeOK, queueVars, timerVars, clockVars, historyVars
<1>12. CASE AddPending
  <2>1. Head(pending) \in Queue /\ Tail(pending) \in Seq(Queue) /\ AddTo(Head(pending))
    BY <1>12 DEF AddPending, TypeOK
  <2> QED
    BY <1>12, <2>1, AddToTypes
    DEF AddPending, TypeOK, IdTypes, timerVars, clockVars, historyVars
<1>13. CASE Discard
  <2> DEFINE q == PipeMin("market")
  <2>1. q \in heap /\ content[q] # <<>> /\ Head(content[q]) \in Event
    BY <1>13, <1>a DEF Discard, FetchesMarket
  <2>2. PopFrom(q)
    BY <1>13 DEF Discard
  <2>3. QueueTypes' /\ IdTypes'
    BY <2>1, <2>2, PopFromTypes
  <2>4. dropped' \subseteq Event /\ stopped' \in BOOLEAN
    BY <1>13, <2>1 DEF Discard, TypeOK
  <2> QED
    BY <1>13, <2>3, <2>4 DEF Discard, TypeOK, QueueTypes, IdTypes, timerVars, clockVars
<1>14. CASE Save
  <2> DEFINE q == PipeMin("market")
  <2>1. q \in heap /\ content[q] # <<>> /\ Head(content[q]) \in Event
    BY <1>14, <1>a DEF Save, FetchesMarket
  <2>2. PopFrom(q)
    BY <1>14 DEF Save
  <2>3. QueueTypes' /\ IdTypes'
    BY <2>1, <2>2, PopFromTypes
  <2>4. saved' \in Event
    BY <1>14, <2>1 DEF Save
  <2>5. timestamp' \in [Event \cup Timer -> Nat]
    BY <1>14 DEF Save, TypeOK, Clocks
  <2> QED
    BY <1>14, <2>3, <2>4, <2>5
    DEF Save, TypeOK, QueueTypes, IdTypes, timerVars, clockVars, historyVars
<1>15. ASSUME NEW k \in Clocks, ReturnTimer(k) PROVE TypeOK'
  <2>1. TimerMin(k) \in timers /\ PopTimer(TimerMin(k))
    BY <1>15, <1>b DEF ReturnTimer, TimerIsDue
  <2>2. TimerTypes' /\ IdTypes'
    BY <2>1, PopTimerTypes
  <2>3. returned' \in Timer
    BY <1>15, <2>1 DEF ReturnTimer, TypeOK
  <2> QED
    BY <1>15, <2>2, <2>3
    DEF ReturnTimer, TypeOK, TimerTypes, IdTypes, queueVars, clockVars, historyVars
<1>16. ASSUME NEW i \in 1 .. 3, ReturnPiped(i) PROVE TypeOK'
  <2> DEFINE q == PipeMin(PipeOrder[i])
  <2>1. q \in heap /\ content[q] # <<>> /\ Head(content[q]) \in Event
    BY <1>16, <1>a DEF ReturnPiped
  <2>2. PopFrom(q)
    BY <1>16 DEF ReturnPiped
  <2>3. QueueTypes' /\ IdTypes'
    BY <2>1, <2>2, PopFromTypes
  <2>4. returned' \in Event /\ done' \subseteq Event
    BY <1>16, <2>1 DEF ReturnPiped, TypeOK
  <2> QED
    BY <1>16, <2>3, <2>4 DEF ReturnPiped, TypeOK, QueueTypes, IdTypes, timerVars, clockVars
<1>17. CASE ReturnSaved
  <2>1. saved \in Event
    BY <1>17 DEF ReturnSaved, TypeOK
  <2>2. Forward(saved) \in Seq(Seq(Event))
    <3>1. \A i \in DOMAIN attached :
            attached[i] \in Seq(Event) /\ Append(attached[i], saved) \in Seq(Event)
      BY <2>1 DEF TypeOK
    <3>2. [i \in DOMAIN attached |->
             IF Len(attached[i]) < AttachCapacity THEN Append(attached[i], saved)
                                                  ELSE attached[i]]
            \in Seq(Seq(Event))
      <4>1. DOMAIN attached = 1 .. Len(attached) /\ Len(attached) \in Nat
        BY DEF TypeOK
      <4> QED
        BY <3>1, <4>1, IsASeq
    <3> QED
      BY <3>2 DEF Forward, TypeOK
  <2> QED
    BY <1>17, <2>1, <2>2 DEF ReturnSaved, TypeOK, queueVars, timerVars, clockVars
<1>18. CASE ReturnNothing
  BY <1>18 DEF ReturnNothing, TypeOK, queueVars, timerVars, clockVars, historyVars
<1> QED
  BY <1>1, <1>2, <1>3, <1>4, <1>5, <1>6, <1>7, <1>8, <1>9, <1>10, <1>11, <1>12,
     <1>13, <1>14, <1>15, <1>16, <1>17, <1>18
  DEF Next, BusStep
-----------------------------------------------------------------------------
(* The inductive invariant. *)

\* A queue that was taken out of the bus keeps the events it held.
RemovedHold == \A q \in removed : content[q] # <<>>

\* While q waits, the queues that were served have gone behind it.
ServedGoBehind ==
    /\ \A q \in Queue : \A p \in passed[q] : Category[p] = Category[q]
    /\ \A p, q \in heap : p \in passed[q] => start_id[q] < start_id[p]

\* A queue holds events of its own kind, and only market events are saved.
RightPipe ==
    \A q \in Queue : \A i \in DOMAIN content[q] :
        EventCategory[content[q][i]] = Category[q]

\* A timer is never due before the time it was first set to.
TimersDueLater ==
    /\ \A t \in timers : start_id[t] # 0 /\ timestamp[t] <= timeout[t]
    /\ returned \in Timer => start_id[returned] # 0

\* What the last bus_dequeue returned moves the clock at most to the saved
\* event.
NothingOvertakesSaved ==
    (Mode = "simulation" /\ saved # NULL /\ pc = "idle") =>
        /\ returned \in Event => EventCategory[returned] # "market"
        /\ returned \in Timer /\ ClockType[returned] = "local" =>
              timestamp[returned] <= timestamp[saved]

HeapInv == TypeOK /\ HeapMembership /\ RemovedHold
OrderInv == HeapInv /\ StartIdsUnique /\ ServedGoBehind
ClockInv ==
    OrderInv /\ RightPipe /\ TimersDueLater /\ NothingOvertakesSaved /\ SavedNotLate

\* The bus pops only from queues that are in a heap and have a head.
LEMMA ServedIsInHeap ==
  ASSUME TypeOK, HeapMembership, NEW c, Pipe(c) # {}
  PROVE  /\ PipeMin(c) \in heap /\ PipeMin(c) \in Queue
         /\ Category[PipeMin(c)] = c /\ content[PipeMin(c)] # <<>>
BY PipeMinIsFirst DEF HeapMembership, HeapQueuesNonEmpty, TypeOK, Pipe

\* A step either leaves the queues alone or is one of the four operations
\* below on one queue.
LEMMA QueueSteps ==
  ASSUME TypeOK, HeapMembership, [Next]_vars
  PROVE  \/ UNCHANGED queueVars
         \/ \E q \in Queue, e \in Event : Push(q, e)
         \/ \E q \in Queue : AddQueue(q) \/ RemoveQueue(q)
         \/ AddPending
         \/ \E c \in Categories : Pipe(c) # {} /\ PopFrom(PipeMin(c))
<1>1. CASE Discard \/ Save
  BY <1>1 DEF Discard, Save, FetchesMarket, Categories
<1>2. ASSUME NEW i \in 1 .. 3, ReturnPiped(i)
      PROVE  \E c \in Categories : Pipe(c) # {} /\ PopFrom(PipeMin(c))
  <2>1. PipeOrder[i] \in Categories
    BY DEF PipeOrder, Categories
  <2> QED
    BY <1>2, <2>1 DEF ReturnPiped
<1>3. CASE \/ UNCHANGED vars \/ Tick \/ Attach \/ Dequeue \/ EndPending
           \/ NoMarket \/ ReturnSaved \/ ReturnNothing
  BY <1>3 DEF vars, queueVars, Tick, Attach, Dequeue, EndPending, NoMarket,
              ReturnSaved, ReturnNothing
<1>4. CASE \E k \in Clocks : TimerDequeue(k) \/ SetTime(k) \/ ReturnTimer(k)
  BY <1>4 DEF TimerDequeue, SetTime, ReturnTimer
<1>5. CASE \E t \in Timer : (\E x \in Time : AddTimer(t, x)) \/ RemoveTimer(t)
  BY <1>5 DEF AddTimer, RemoveTimer
<1> QED
  BY <1>1, <1>2, <1>3, <1>4, <1>5 DEF Next, BusStep

\* Taking an event out of the queue that is served: an emptied queue leaves the
\* heap, any other stays in it (event_pop_form_pipe).
LEMMA PopFromHeap ==
  ASSUME HeapInv, NEW q \in heap, PopFrom(q)
  PROVE  HeapMembership' /\ RemovedHold'
<1>1. q \in Queue /\ content[q] # <<>> /\ q \notin removed
  BY DEF HeapInv, TypeOK, HeapMembership, HeapQueuesNonEmpty
<1>2. /\ content'[q] = Tail(content[q])
      /\ \A p \in Queue : p # q => content'[p] = content[p]
  BY <1>1 DEF PopFrom, HeapInv, TypeOK
<1>3. owned' = owned /\ removed' = removed /\ pending' = pending
  BY DEF PopFrom
<1>4. heap' = IF content'[q] = <<>> THEN heap \ {q} ELSE heap
  BY <1>2 DEF PopFrom
<1>5. owned \subseteq Queue /\ removed \subseteq Queue /\ heap \subseteq Queue
  BY DEF HeapInv, TypeOK
<1>6. NoStrandedQueue'
  BY <1>2, <1>3, <1>4, <1>5 DEF HeapInv, HeapMembership, NoStrandedQueue
<1>7. HeapQueuesNonEmpty'
  BY <1>2, <1>3, <1>4, <1>5 DEF HeapInv, HeapMembership, HeapQueuesNonEmpty
<1>8. PendingOnce'
  BY <1>2, <1>3, <1>4, <1>5 DEF HeapInv, HeapMembership, PendingOnce
<1>9. RemovedHold'
  BY <1>1, <1>2, <1>3, <1>5 DEF HeapInv, RemovedHold
<1> QED
  BY <1>6, <1>7, <1>8, <1>9 DEF HeapMembership

\* A push to an empty queue of the bus puts the queue in the pending queue; any
\* other push finds it in its heap or pending (event_queue_push).
LEMMA PushHeap ==
  ASSUME HeapInv, NEW q \in Queue, NEW e \in Event, Push(q, e)
  PROVE  HeapMembership' /\ RemovedHold'
<1>1. /\ content'[q] # <<>>
      /\ \A p \in Queue : p # q => content'[p] = content[p]
  <2>1. Append(content[q], e) # <<>>
    <3>1. content[q] \in Seq(Event)
      BY DEF HeapInv, TypeOK
    <3> QED
      BY <3>1, AppendProperties
  <2> QED
    BY <2>1 DEF Push, HeapInv, TypeOK
<1>2. owned' = owned /\ removed' = removed /\ heap' = heap
  BY DEF Push
<1>3. owned \subseteq Queue /\ removed \subseteq Queue /\ heap \subseteq Queue
  BY DEF HeapInv, TypeOK
<1>4. pending \in Seq(Queue)
  BY DEF HeapInv, TypeOK
<1>5. /\ \A i \in DOMAIN pending : i \in DOMAIN pending' /\ pending'[i] = pending[i]
      /\ \A i \in DOMAIN pending' :
            i \in DOMAIN pending \/ (Notifies(q) /\ pending'[i] = q)
      /\ Notifies(q) => q \in Range(pending')
      /\ \A i, j \in DOMAIN pending' :
            i \notin DOMAIN pending /\ j \notin DOMAIN pending => i = j
  BY <1>4 DEF Push, Range
<1>6. Notifies(q) =>
        q \in owned \ (heap \cup removed) /\ q \notin Range(pending)
  BY DEF Notifies, HeapInv, HeapMembership, HeapQueuesNonEmpty, PendingOnce,
         RemovedHold, Range
<1>7. NoStrandedQueue'
  <2> SUFFICES ASSUME NEW p \in owned \ removed, content'[p] # <<>>
               PROVE  p \in heap \/ p \in Range(pending')
    BY <1>2 DEF NoStrandedQueue
  <2>1. CASE content[p] # <<>>
    BY <2>1, <1>5 DEF HeapInv, HeapMembership, NoStrandedQueue, Range
  <2>2. CASE content[p] = <<>>
    BY <2>2, <1>1, <1>3, <1>5 DEF Notifies
  <2> QED
    BY <2>1, <2>2
<1>8. HeapQueuesNonEmpty'
  BY <1>1, <1>2, <1>3 DEF HeapInv, HeapMembership, HeapQueuesNonEmpty
<1>9. PendingOnce'
  <2>1. IsInjective(pending')
    BY <1>5, <1>6 DEF IsInjective, Range, HeapInv, HeapMembership, PendingOnce
  <2>2. \A i \in DOMAIN pending' :
           /\ pending'[i] \in owned \ (heap \cup removed)
           /\ content'[pending'[i]] # <<>>
    BY <1>1, <1>3, <1>5, <1>6 DEF HeapInv, HeapMembership, PendingOnce
  <2> QED
    BY <1>2, <2>1, <2>2 DEF PendingOnce
<1>10. RemovedHold'
  BY <1>1, <1>2, <1>3 DEF HeapInv, RemovedHold
<1> QED
  BY <1>7, <1>8, <1>9, <1>10 DEF HeapMembership

\* bus_add_queue by the caller keeps track of the queue.
LEMMA AddQueueHeap ==
  ASSUME HeapInv, NEW q \in Queue, AddQueue(q)
  PROVE  HeapMembership' /\ RemovedHold'
<1>1. /\ content' = content /\ pending' = pending
      /\ owned' = owned \cup {q} /\ removed' = removed \ {q}
      /\ heap' = IF content[q] = <<>> THEN heap ELSE heap \cup {q}
      /\ q \notin owned \/ q \in removed
  BY DEF AddQueue, AddTo
<1>2. NoStrandedQueue' /\ HeapQueuesNonEmpty'
  BY <1>1 DEF HeapInv, HeapMembership, NoStrandedQueue, HeapQueuesNonEmpty
<1>3. PendingOnce'
  BY <1>1 DEF HeapInv, HeapMembership, PendingOnce
<1>4. RemovedHold'
  BY <1>1 DEF HeapInv, RemovedHold
<1> QED
  BY <1>2, <1>3, <1>4 DEF HeapMembership

\* bus_remove_queue takes the queue out of the bus's care.
LEMMA RemoveQueueHeap ==
  ASSUME HeapInv, NEW q \in Queue, RemoveQueue(q)
  PROVE  HeapMembership' /\ RemovedHold'
<1>1. /\ content' = content /\ pending' = pending /\ owned' = owned
      /\ removed' = removed \cup {q} /\ heap' = heap \ {q} /\ q \in heap
  BY DEF RemoveQueue
<1>2. NoStrandedQueue' /\ HeapQueuesNonEmpty'
  BY <1>1 DEF HeapInv, HeapMembership, NoStrandedQueue, HeapQueuesNonEmpty
<1>3. PendingOnce'
  BY <1>1 DEF HeapInv, HeapMembership, PendingOnce
<1>4. RemovedHold'
  BY <1>1 DEF HeapInv, RemovedHold, HeapMembership, HeapQueuesNonEmpty
<1> QED
  BY <1>2, <1>3, <1>4 DEF HeapMembership

\* check_pending_queue moves a queue from the pending queue to its heap.
LEMMA AddPendingHeap ==
  ASSUME HeapInv, AddPending
  PROVE  HeapMembership' /\ RemovedHold'
<1> DEFINE q == Head(pending)
<1>1. pending \in Seq(Queue) /\ pending # <<>>
  BY DEF AddPending, HeapInv, TypeOK
<1>2. 1 \in DOMAIN pending /\ q = pending[1]
  BY <1>1
<1>3. /\ q \in owned /\ q \notin heap /\ q \notin removed
      /\ content[q] # <<>>
  BY <1>2 DEF HeapInv, HeapMembership, PendingOnce
<1>4. /\ content' = content /\ owned' = owned /\ removed' = removed
      /\ heap' = heap \cup {q} /\ pending' = Tail(pending)
  BY <1>3 DEF AddPending, AddTo
<1>5. /\ \A i \in DOMAIN pending' :
            i + 1 \in DOMAIN pending /\ pending'[i] = pending[i + 1] /\ i + 1 # 1
      /\ \A i \in DOMAIN pending : i # 1 => i - 1 \in DOMAIN pending'
                                         /\ pending[i] = pending'[i - 1]
      /\ DOMAIN pending' \subseteq Nat
  BY <1>1, <1>4
<1>6. NoStrandedQueue'
  BY <1>2, <1>4, <1>5 DEF HeapInv, HeapMembership, NoStrandedQueue, Range
<1>7. HeapQueuesNonEmpty'
  BY <1>3, <1>4 DEF HeapInv, HeapMembership, HeapQueuesNonEmpty
<1>8. PendingOnce'
  <2>1. \A i \in DOMAIN pending' : pending'[i] # q
    BY <1>2, <1>5 DEF HeapInv, HeapMembership, PendingOnce, IsInjective
  <2>2. IsInjective(pending')
    <3> SUFFICES ASSUME NEW i \in DOMAIN pending', NEW j \in DOMAIN pending',
                        pending'[i] = pending'[j]
                 PROVE  i = j
      BY DEF IsInjective
    <3>1. i + 1 = j + 1
      BY <1>5 DEF HeapInv, HeapMembership, PendingOnce, IsInjective
    <3> QED
      BY <1>5, <3>1
  <2>3. \A i \in DOMAIN pending' :
           /\ pending'[i] \in owned \ (heap \cup removed)
           /\ content[pending'[i]] # <<>>
    BY <1>5 DEF HeapInv, HeapMembership, PendingOnce
  <2> QED
    BY <1>4, <2>1, <2>2, <2>3 DEF PendingOnce
<1>9. RemovedHold'
  BY <1>4 DEF HeapInv, RemovedHold
<1> QED
  BY <1>6, <1>7, <1>8, <1>9 DEF HeapMembership

\* Every step keeps track of every queue.
LEMMA HeapStep == HeapInv /\ [Next]_vars => HeapInv'
<1> SUFFICES ASSUME HeapInv, [Next]_vars PROVE HeapMembership' /\ RemovedHold'
  BY TypeStep DEF HeapInv
<1>1. CASE UNCHANGED queueVars
  BY <1>1 DEF queueVars, HeapInv, HeapMembership, NoStrandedQueue,
              HeapQueuesNonEmpty, PendingOnce, RemovedHold
<1>2. CASE \E q \in Queue, e \in Event : Push(q, e)
  BY <1>2, PushHeap
<1>3. CASE \E q \in Queue : AddQueue(q) \/ RemoveQueue(q)
  BY <1>3, AddQueueHeap, RemoveQueueHeap
<1>4. CASE AddPending
  BY <1>4, AddPendingHeap
<1>5. CASE \E c \in Categories : Pipe(c) # {} /\ PopFrom(PipeMin(c))
  BY <1>5, ServedIsInHeap, PopFromHeap DEF HeapInv
<1> QED
  BY <1>1, <1>2, <1>3, <1>4, <1>5, QueueSteps DEF HeapInv

\* A new bus has no queues to keep track of.
LEMMA InitHeap == Init => HeapInv
<1> SUFFICES ASSUME Init PROVE HeapMembership /\ RemovedHold
  BY InitTypes DEF HeapInv
<1>1. owned = {} /\ removed = {} /\ heap = {} /\ DOMAIN pending = {}
  BY DEF Init
<1> QED
  BY <1>1 DEF HeapMembership, NoStrandedQueue, HeapQueuesNonEmpty, PendingOnce,
              RemovedHold, IsInjective

\* The bus always knows where each of its queues is.
THEOREM HeapInvariance == Spec => []HeapInv
<1> QED
  BY InitHeap, HeapStep, PTL DEF Spec
-----------------------------------------------------------------------------
(* Start ids and the order of service. *)

\* A node that enters a heap takes an id above all others; a step either does
\* that for one node or leaves the ids alone, and only that node may enter.
LEMMA IdSteps ==
  ASSUME HeapInv, [Next]_vars
  PROVE  \/ /\ UNCHANGED <<start_id, counter>>
            /\ heap' \subseteq heap /\ timers' \subseteq timers
         \/ \E x \in Queue \cup Timer :
              TakeId(x) /\ heap' \cup timers' \subseteq heap \cup timers \cup {x}
<1> DEFINE Kept == /\ UNCHANGED <<start_id, counter>>
                   /\ heap' \subseteq heap /\ timers' \subseteq timers
           Taken(x) == TakeId(x) /\ heap' \cup timers' \subseteq heap \cup timers \cup {x}
<1>1. ASSUME NEW q \in heap, PopFrom(q), UNCHANGED timerVars
      PROVE  Kept \/ Taken(q)
  BY <1>1 DEF PopFrom, timerVars
<1>2. CASE Discard \/ Save
  <2>1. Pipe("market") # {} /\ PopFrom(PipeMin("market")) /\ UNCHANGED timerVars
    BY <1>2 DEF Discard, Save, FetchesMarket
  <2>2. PipeMin("market") \in heap /\ PipeMin("market") \in Queue
    BY <2>1, ServedIsInHeap DEF HeapInv
  <2> QED
    BY <1>1, <2>1, <2>2
<1>3. ASSUME NEW i \in 1 .. 3, ReturnPiped(i)
      PROVE  Kept \/ \E x \in Queue \cup Timer : Taken(x)
  <2>1. /\ Pipe(PipeOrder[i]) # {} /\ PopFrom(PipeMin(PipeOrder[i]))
        /\ UNCHANGED timerVars
    BY <1>3 DEF ReturnPiped
  <2>2. PipeMin(PipeOrder[i]) \in heap /\ PipeMin(PipeOrder[i]) \in Queue
    BY <2>1, ServedIsInHeap DEF HeapInv
  <2> QED
    BY <1>1, <2>1, <2>2
<1>4. ASSUME NEW q \in Queue, AddTo(q), UNCHANGED timerVars
      PROVE  Taken(q)
  BY <1>4 DEF AddTo, timerVars
<1>5. CASE AddPending
  <2>1. Head(pending) \in Queue
    BY <1>5 DEF AddPending, HeapInv, TypeOK
  <2> QED
    BY <1>4, <1>5, <2>1 DEF AddPending
<1>6. CASE \E q \in Queue : AddQueue(q)
  BY <1>4, <1>6 DEF AddQueue
<1>7. ASSUME NEW k \in Clocks, TimersOn(k) # {}, PopTimer(TimerMin(k)),
             UNCHANGED queueVars
      PROVE  Kept \/ \E x \in Queue \cup Timer : Taken(x)
  <2>1. TimerMin(k) \in timers /\ TimerMin(k) \in Timer
    BY <1>7, TimerMinIsFirst DEF TimersOn, HeapInv, TypeOK
  <2> QED
    BY <1>7, <2>1 DEF PopTimer, queueVars
<1>8. CASE \E k \in Clocks : TimerDequeue(k) \/ ReturnTimer(k)
  BY <1>7, <1>8 DEF TimerDequeue, ReturnTimer, TimerIsDue
<1>9. CASE \E t \in Timer, x \in Time : AddTimer(t, x)
  BY <1>9 DEF AddTimer, queueVars
<1>10. CASE \/ \E q \in Queue, e \in Event : Push(q, e)
            \/ \E q \in Queue : RemoveQueue(q)
            \/ \E t \in Timer : RemoveTimer(t)
            \/ \E k \in Clocks : SetTime(k)
  BY <1>10 DEF Push, RemoveQueue, RemoveTimer, SetTime, queueVars, timerVars
<1>11. CASE \/ UNCHANGED vars \/ Tick \/ Attach \/ Dequeue \/ EndPending
            \/ NoMarket \/ ReturnSaved \/ ReturnNothing
  BY <1>11 DEF vars, queueVars, timerVars, Tick, Attach, Dequeue, EndPending,
               NoMarket, ReturnSaved, ReturnNothing
<1> QED
  BY <1>2, <1>3, <1>5, <1>6, <1>8, <1>9, <1>10, <1>11 DEF Next, BusStep

\* Every step keeps the ids in the heaps distinct and below the counter.
LEMMA IdsStayUnique ==
  ASSUME HeapInv, StartIdsUnique, [Next]_vars
  PROVE  StartIdsUnique'
<1>1. CASE /\ UNCHANGED <<start_id, counter>>
           /\ heap' \subseteq heap /\ timers' \subseteq timers
  BY <1>1 DEF StartIdsUnique
<1>2. ASSUME NEW z \in Queue \cup Timer, TakeId(z),
             heap' \cup timers' \subseteq heap \cup timers \cup {z}
      PROVE  StartIdsUnique'
  <2>1. /\ start_id'[z] = counter /\ counter' = counter + 1 /\ counter \in Nat
        /\ \A x \in Queue \cup Timer : x # z => start_id'[x] = start_id[x]
        /\ \A x \in Queue \cup Timer : start_id[x] \in Nat
        /\ heap \cup timers \subseteq Queue \cup Timer
    BY <1>2 DEF TakeId, HeapInv, TypeOK
  <2> SUFFICES ASSUME NEW x \in heap' \cup timers', NEW y \in heap' \cup timers'
               PROVE  /\ start_id'[x] < counter'
                      /\ start_id'[x] = start_id'[y] => x = y
    BY DEF StartIdsUnique
  <2>2. \A w \in heap' \cup timers' :
           w = z \/ (w # z /\ start_id'[w] = start_id[w] /\ start_id[w] < counter
                     /\ start_id[w] \in Nat)
    BY <1>2, <2>1 DEF StartIdsUnique
  <2>3. x # z /\ y # z => (start_id[x] = start_id[y] => x = y)
    BY <1>2 DEF StartIdsUnique
  <2> QED
    BY <2>1, <2>2, <2>3
<1> QED
  BY <1>1, <1>2, IdSteps

\* A queue that was served goes behind those that waited.
LEMMA PopFromOrder ==
  ASSUME OrderInv, NEW q \in heap, PopFrom(q)
  PROVE  ServedGoBehind'
<1> USE DEF OrderInv
<1>1. q \in Queue /\ heap \subseteq Queue
  BY DEF HeapInv, TypeOK
<1>2. heap' \subseteq heap
  BY DEF PopFrom
<1>3. \A r \in Queue :
        passed'[r] = CASE r = q -> {}
                       [] r \in Pipe(Category[q]) \ {q} -> passed[r] \cup {q}
                       [] OTHER -> passed[r]
  BY DEF PopFrom
<1>4. \/ start_id' = start_id /\ q \notin heap'
      \/ /\ start_id'[q] = counter
         /\ \A r \in Queue : r # q => start_id'[r] = start_id[r]
  BY <1>1 DEF PopFrom, TakeId, HeapInv, TypeOK
<1>5. \A r \in heap : start_id[r] < counter /\ start_id[r] \in Nat /\ counter \in Nat
  BY <1>1 DEF StartIdsUnique, HeapInv, TypeOK
<1>6. ASSUME NEW r \in Queue, NEW p \in passed'[r]
      PROVE  Category[p] = Category[r] /\ r # q /\ (p = q \/ p \in passed[r])
  <2>1. r # q
    BY <1>1, <1>3, <1>6
  <2>2. (p = q /\ r \in Pipe(Category[q])) \/ p \in passed[r]
    BY <1>3, <1>6, <2>1
  <2> QED
    BY <2>1, <2>2 DEF Pipe, ServedGoBehind
<1>7. ASSUME NEW r \in heap', NEW p \in heap', p \in passed'[r]
      PROVE  start_id'[r] < start_id'[p]
  <2>1. p \in heap /\ r \in heap /\ p \in Queue /\ r \in Queue
    BY <1>1, <1>2
  <2>2. r # q /\ (p = q \/ p \in passed[r])
    BY <1>6, <1>7, <2>1
  <2>3. start_id'[r] = start_id[r]
    BY <1>4, <2>1, <2>2
  <2>4. CASE p = q
    BY <1>4, <1>5, <2>1, <2>3, <2>4
  <2>5. CASE p # q
    <3>1. start_id'[p] = start_id[p]
      BY <1>4, <2>1, <2>5
    <3> QED
      BY <2>1, <2>2, <2>3, <2>5, <3>1 DEF ServedGoBehind
  <2> QED
    BY <2>4, <2>5
<1> QED
  BY <1>6, <1>7 DEF ServedGoBehind

\* A queue that is added goes behind those in the heap.
LEMMA AddToOrder ==
  ASSUME OrderInv, NEW q \in Queue, AddTo(q)
  PROVE  ServedGoBehind'
<1> USE DEF OrderInv
<1>1. /\ heap' \subseteq heap \cup {q} /\ heap \subseteq Queue
      /\ passed'[q] = {}
      /\ \A r \in Queue : r # q => passed'[r] = passed[r]
      /\ start_id'[q] = counter
      /\ \A r \in Queue : r # q => start_id'[r] = start_id[r]
  BY DEF AddTo, TakeId, HeapInv, TypeOK
<1>2. \A r \in heap : start_id[r] < counter /\ start_id[r] \in Nat /\ counter \in Nat
  BY <1>1 DEF StartIdsUnique, HeapInv, TypeOK
<1>3. ASSUME NEW r \in heap', NEW p \in heap', p \in passed'[r]
      PROVE  start_id'[r] < start_id'[p]
  <2>1. r # q /\ r \in heap /\ p \in passed[r] /\ r \in Queue
    BY <1>1, <1>3
  <2>2. CASE p = q
    BY <1>1, <1>2, <2>1, <2>2
  <2>3. CASE p # q
    <3>1. p \in heap /\ p \in Queue
      BY <1>1, <2>3
    <3> QED
      BY <1>1, <2>1, <2>3, <3>1 DEF ServedGoBehind
  <2> QED
    BY <2>2, <2>3
<1>4. \A r \in Queue : \A p \in passed'[r] : Category[p] = Category[r]
  BY <1>1 DEF ServedGoBehind
<1> QED
  BY <1>3, <1>4 DEF ServedGoBehind

\* A step that leaves the queues alone gives an id to a timer or to nothing.
LEMMA IdsOfTimers ==
  ASSUME HeapInv, [Next]_vars, UNCHANGED queueVars
  PROVE  UNCHANGED start_id \/ \E t \in Timer : TakeId(t)
<1>1. ASSUME NEW q \in Queue, content[q] # <<>>, PopFrom(q) PROVE FALSE
  <2>1. content[q] \in Seq(Event) /\ content'[q] = Tail(content[q])
    BY <1>1 DEF PopFrom, HeapInv, TypeOK
  <2>2. \A s \in Seq(Event) : s # <<>> => Tail(s) # s
    OBVIOUS
  <2>3. content' = content /\ content[q] \in Seq(Event)
    BY <2>1 DEF queueVars
  <2> QED
    BY <1>1, <2>1, <2>2, <2>3
<1>2. \A c : Pipe(c) # {} => ~PopFrom(PipeMin(c))
  BY <1>1, ServedIsInHeap DEF HeapInv
<1>3. ~(Discard \/ Save \/ \E i \in 1 .. 3 : ReturnPiped(i))
  BY <1>2 DEF Discard, Save, FetchesMarket, ReturnPiped
<1>4. ~AddPending
  <2>1. pending \in Seq(Queue) /\ pending # <<>> => Tail(pending) # pending
    OBVIOUS
  <2> QED
    BY <2>1 DEF AddPending, queueVars, HeapInv, TypeOK
<1>5. ASSUME NEW q \in Queue, AddQueue(q) PROVE FALSE
  BY <1>5 DEF AddQueue, AddTo, queueVars
<1>6. ASSUME NEW k \in Clocks, TimersOn(k) # {}, PopTimer(TimerMin(k))
      PROVE  UNCHANGED start_id \/ \E t \in Timer : TakeId(t)
  <2>1. TimerMin(k) \in Timer
    BY <1>6, TimerMinIsFirst DEF TimersOn, HeapInv, TypeOK
  <2> QED
    BY <1>6, <2>1 DEF PopTimer
<1>7. CASE \E k \in Clocks : TimerDequeue(k) \/ ReturnTimer(k)
  BY <1>6, <1>7 DEF TimerDequeue, ReturnTimer, TimerIsDue
<1>8. CASE \E t \in Timer, x \in Time : AddTimer(t, x)
  BY <1>8 DEF AddTimer
<1>9. CASE \/ \E q \in Queue, e \in Event : Push(q, e)
           \/ \E q \in Queue : RemoveQueue(q)
           \/ \E t \in Timer : RemoveTimer(t)
           \/ \E k \in Clocks : SetTime(k)
  BY <1>9 DEF Push, RemoveQueue, RemoveTimer, SetTime
<1>10. CASE \/ UNCHANGED vars \/ Tick \/ Attach \/ Dequeue \/ EndPending
            \/ NoMarket \/ ReturnSaved \/ ReturnNothing
  BY <1>10 DEF vars, Tick, Attach, Dequeue, EndPending,
               NoMarket, ReturnSaved, ReturnNothing
<1> QED
  BY <1>3, <1>4, <1>5, <1>7, <1>8, <1>9, <1>10 DEF Next, BusStep

\* Every step keeps the order of service.
LEMMA OrderStep == OrderInv /\ [Next]_vars => OrderInv'
<1> SUFFICES ASSUME OrderInv, [Next]_vars PROVE ServedGoBehind'
  BY HeapStep, IdsStayUnique DEF OrderInv
<1> USE DEF OrderInv
<1>0. HeapInv
  OBVIOUS
<1>1. CASE UNCHANGED queueVars
  <2>1. CASE UNCHANGED start_id
    BY <1>1, <2>1 DEF queueVars, ServedGoBehind
  <2>2. ASSUME NEW t \in Timer, TakeId(t) PROVE ServedGoBehind'
    <3>1. \A q \in heap : start_id'[q] = start_id[q]
      BY <2>2, PointerAssumption DEF TakeId, HeapInv, TypeOK
    <3> QED
      BY <1>1, <3>1 DEF queueVars, ServedGoBehind
  <2>3. UNCHANGED start_id \/ \E t \in Timer : TakeId(t)
    BY <1>0, <1>1, IdsOfTimers
  <2> QED
    BY <2>1, <2>2, <2>3
<1>2. CASE \E q \in Queue, e \in Event : Push(q, e)
  BY <1>2 DEF Push, ServedGoBehind
<1>3. ASSUME NEW q \in Queue, RemoveQueue(q) PROVE ServedGoBehind'
  BY <1>3 DEF RemoveQueue, ServedGoBehind
<1>4. CASE \E q \in Queue : AddQueue(q)
  BY <1>4, AddToOrder DEF AddQueue
<1>5. CASE AddPending
  <2>1. Head(pending) \in Queue /\ AddTo(Head(pending))
    BY <1>5 DEF AddPending, HeapInv, TypeOK
  <2> QED
    BY <2>1, AddToOrder
<1>6. CASE \E c \in Categories : Pipe(c) # {} /\ PopFrom(PipeMin(c))
  BY <1>6, ServedIsInHeap, PopFromOrder DEF HeapInv
<1> QED
  BY <1>1, <1>2, <1>3, <1>4, <1>5, <1>6, QueueSteps DEF HeapInv

\* A new bus has nothing in order.
LEMMA InitOrder == Init => OrderInv
BY InitHeap DEF OrderInv, Init, StartIdsUnique, ServedGoBehind

\* Ids are always distinct, and a queue that was served is always behind the
\* queues that waited for it.
THEOREM OrderInvariance == Spec => []OrderInv
<1> QED
  BY InitOrder, OrderStep, PTL DEF Spec
-----------------------------------------------------------------------------
(* The order in which queues of a pipe are served. *)

\* Only the first queue of a pipe is ever served.
LEMMA ServedIsFirst ==
  ASSUME HeapInv, [Next]_vars, NEW p \in heap, Served(p)
  PROVE  \A q \in Pipe(Category[p]) : ~queue_less_than(q, p)
<1> USE DEF HeapInv
<1>0. p \in Queue /\ content \in [Queue -> Seq(Event)]
  BY DEF TypeOK
<1>1. ~UNCHANGED queueVars
  BY DEF queueVars, Served
<1>2. ~\E q \in Queue, e \in Event : Push(q, e)
  <2> SUFFICES ASSUME NEW q \in Queue, NEW e \in Event, Push(q, e) PROVE FALSE
    OBVIOUS
  <2>1. Len(Append(content[p], e)) > Len(content[p])
    BY <1>0
  <2>2. content'[p] = content[p] \/ content'[p] = Append(content[p], e)
    BY <1>0 DEF Push
  <2>3. Len(content[p]) \in Nat /\ Len(Append(content[p], e)) \in Nat
    BY <1>0
  <2> QED
    BY <2>1, <2>2, <2>3 DEF Served
<1>3. ~((\E q \in Queue : AddQueue(q) \/ RemoveQueue(q)) \/ AddPending)
  BY DEF AddQueue, RemoveQueue, AddPending, Served
<1>4. PICK c \in Categories : Pipe(c) # {} /\ PopFrom(PipeMin(c))
  BY <1>1, <1>2, <1>3, QueueSteps
<1>5. p = PipeMin(c)
  BY <1>0, <1>4 DEF PopFrom, Served
<1>6. HeapQueuesNonEmpty
  BY DEF HeapMembership
<1>7. Category[p] = c /\ \A q \in Pipe(c) : ~queue_less_than(q, p)
  BY <1>4, <1>5, <1>6, PipeMinIsFirst, ServedIsInHeap
<1> QED
  BY <1>7

\* A queue that was served while another of its pipe was waiting is served
\* again before it only for a strictly earlier event (event_pop_form_pipe).
THEOREM ServedInTurn == Spec => RoundRobin
<1> DEFINE Turn == \A p, q \in heap :
              Served(p) /\ p \in passed[q] =>
                timestamp[Head(content[p])] < timestamp[Head(content[q])]
<1>1. OrderInv /\ [Next]_vars => Turn
  <2> SUFFICES ASSUME OrderInv, [Next]_vars, NEW p \in heap, NEW q \in heap,
                      Served(p), p \in passed[q]
               PROVE  timestamp[Head(content[p])] < timestamp[Head(content[q])]
    OBVIOUS
  <2>1. /\ p \in Queue /\ q \in Queue
        /\ Head(content[p]) \in Event /\ Head(content[q]) \in Event
    BY DEF OrderInv, HeapInv, TypeOK, HeapMembership, HeapQueuesNonEmpty
  <2>2. Category[p] = Category[q] /\ start_id[q] < start_id[p]
    BY <2>1 DEF OrderInv, ServedGoBehind
  <2>3. ~queue_less_than(q, p)
    BY <2>2, ServedIsFirst DEF OrderInv, Pipe
  <2>4. timestamp[Head(content[p])] \in Nat /\ timestamp[Head(content[q])] \in Nat
    BY <2>1 DEF OrderInv, HeapInv, TypeOK
  <2> QED
    BY <2>2, <2>3, <2>4 DEF queue_less_than
<1>2. [][Next]_vars /\ []OrderInv => RoundRobin
  BY <1>1, PTL DEF RoundRobin
<1> QED
  BY <1>2, OrderInvariance, PTL DEF Spec

-----------------------------------------------------------------------------
(* Timers come first. *)

\* A market event leaves the bus only after every timer that is due by then
\* (the timer branches of bus_simualtion_dequeue).
THEOREM TimersFirst == Spec => TimersBeforeMarket
<1> DEFINE First == /\ Mode = "simulation"
                    /\ saved # NULL /\ saved' = NULL
                    => \A t \in timers :
                         \/ ClockType[t] = "exchange" /\ EventType[saved] # "tick"
                         \/ timeout[t] > timestamp[saved]
<1>1. TypeOK /\ HeapMembership /\ [Next]_vars => First
  <2> SUFFICES ASSUME TypeOK, HeapMembership, [Next]_vars, Mode = "simulation",
                      saved # NULL, saved' = NULL, NEW t \in timers,
                      ~(ClockType[t] = "exchange" /\ EventType[saved] # "tick")
               PROVE  timeout[t] > timestamp[saved]
    OBVIOUS
  <2>1. ~Save
    <3>1. Save => saved' \in Event
      BY ServedIsInHeap DEF Save, FetchesMarket, TypeOK
    <3> QED
      BY <3>1, PointerAssumption
  <2>2. ReturnSaved
    BY <2>1
    DEF Next, BusStep, vars, Push, AddQueue, RemoveQueue, AddTimer, RemoveTimer,
        TimerDequeue, SetTime, Tick, Attach, Dequeue, AddPending, EndPending,
        Discard, NoMarket, ReturnTimer, ReturnPiped, ReturnNothing
  <2> DEFINE k == ClockType[t]
  <2>3. k \in Clocks /\ t \in TimersOn(k) /\ t \in Timer
    BY TimerAssumption DEF TimersOn, TypeOK
  <2>4. ~TimerIsDue(k)
    BY <2>2, <2>3 DEF ReturnSaved, NoTimerDue
  <2>5. ~(timeout[TimerMin(k)] <= timestamp[saved])
    BY <2>3, <2>4 DEF TimerIsDue, Clocks
  <2>6. TimerMin(k) \in Timer /\ ~timer_less_than(t, TimerMin(k))
    BY <2>3, TimerMinIsFirst DEF TimersOn, TypeOK
  <2>7. timeout[t] \in Nat /\ timeout[TimerMin(k)] \in Nat /\ timestamp[saved] \in Nat
    BY <2>3, <2>6 DEF TypeOK
  <2> QED
    BY <2>5, <2>6, <2>7 DEF timer_less_than
<1>2. [][Next]_vars /\ []HeapInv => TimersBeforeMarket
  BY <1>1, PTL DEF TimersBeforeMarket, HeapInv
<1> QED
  BY <1>2, HeapInvariance, PTL DEF Spec
-----------------------------------------------------------------------------
(* The clock of a simulation and the saved event. *)

\* Events stay in queues of their own kind.
LEMMA RightPipeStep ==
  ASSUME HeapInv, RightPipe, [Next]_vars
  PROVE  RightPipe'
<1> USE DEF HeapInv
<1>0. content \in [Queue -> Seq(Event)]
  BY DEF TypeOK
<1>1. CASE UNCHANGED content
  BY <1>1 DEF RightPipe
<1>2. ASSUME NEW q \in Queue, NEW e \in Event, Push(q, e) PROVE RightPipe'
  <2> SUFFICES ASSUME NEW p \in Queue, NEW i \in DOMAIN content'[p]
               PROVE  EventCategory[content'[p][i]] = Category[p]
    BY DEF RightPipe
  <2>1. CASE p # q
    BY <1>0, <1>2, <2>1 DEF Push, RightPipe
  <2>2. CASE p = q
    <3>1. content'[p] = Append(content[p], e) /\ EventCategory[e] = Category[p]
      BY <1>0, <1>2, <2>2 DEF Push
    <3>2. content[p] \in Seq(Event)
      BY <1>0
    <3>3. i \in DOMAIN content[p] \/ i = Len(content[p]) + 1
      BY <3>1, <3>2
    <3>4. content'[p][i] = e \/ (i \in DOMAIN content[p] /\ content'[p][i] = content[p][i])
      BY <3>1, <3>2, <3>3
    <3> QED
      BY <3>1, <3>4 DEF RightPipe
  <2> QED
    BY <2>1, <2>2
<1>3. ASSUME NEW q \in heap, PopFrom(q) PROVE RightPipe'
  <2> SUFFICES ASSUME NEW p \in Queue, NEW i \in DOMAIN content'[p]
               PROVE  EventCategory[content'[p][i]] = Category[p]
    BY DEF RightPipe
  <2>1. CASE p # q
    BY <1>0, <1>3, <2>1 DEF PopFrom, RightPipe
  <2>2. CASE p = q
    <3>1. content'[p] = Tail(content[p])
      BY <1>0, <1>3, <2>2 DEF PopFrom
    <3>2. content[p] \in Seq(Event) /\ content[p] # <<>>
      BY <1>0, <2>2 DEF HeapMembership, HeapQueuesNonEmpty
    <3>3. i + 1 \in DOMAIN content[p] /\ content'[p][i] = content[p][i + 1]
      BY <3>1, <3>2
    <3> QED
      BY <3>3 DEF RightPipe
  <2> QED
    BY <2>1, <2>2
<1>4. CASE (\E q \in Queue : AddQueue(q) \/ RemoveQueue(q)) \/ AddPending
  BY <1>1, <1>4 DEF AddQueue, RemoveQueue, AddPending
<1> QED
  BY <1>1, <1>2, <1>3, <1>4, QueueSteps, ServedIsInHeap DEF queueVars

\* A timer in the heap has an id and is due no earlier than it was first set.
LEMMA TimerStampStep ==
  ASSUME HeapInv, TimersDueLater, [Next]_vars
  PROVE  TimersDueLater'
<1> USE DEF HeapInv
<1>1. /\ Event \cap Timer = {} /\ Queue \cap Timer = {} /\ NULL \notin Timer
      /\ \A t \in Timer : Repeat[t] \in Nat /\ timeout[t] \in Nat
                          /\ timestamp[t] \in Nat /\ start_id[t] \in Nat
      /\ counter \in Nat \ {0} /\ timers \subseteq Timer
  BY PointerAssumption, TimerAssumption DEF TypeOK
<1>2. ASSUME NEW x \in Queue \cup Timer, TakeId(x)
      PROVE  /\ start_id'[x] # 0
             /\ \A y \in Queue \cup Timer : y # x => start_id'[y] = start_id[y]
  BY <1>1, <1>2 DEF TakeId, TypeOK
<1>3. \A t \in Timer : start_id[t] # 0 => start_id'[t] # 0
  <2>1. CASE UNCHANGED start_id
    BY <2>1
  <2>2. ASSUME NEW x \in Queue \cup Timer, TakeId(x)
        PROVE  \A t \in Timer : start_id[t] # 0 => start_id'[t] # 0
    BY <1>2, <2>2
  <2> QED
    BY <2>1, <2>2, IdSteps
<1>4. ASSUME NEW t \in timers, PopTimer(t), UNCHANGED timestamp
      PROVE  \A s \in timers' : start_id'[s] # 0 /\ timestamp'[s] <= timeout'[s]
  <2>1. timers' \subseteq timers
    BY <1>4 DEF PopTimer
  <2>2. \A s \in timers : timeout[s] <= timeout'[s] /\ timeout'[s] \in Nat
    <3> SUFFICES ASSUME NEW s \in timers
                 PROVE  timeout[s] <= timeout'[s] /\ timeout'[s] \in Nat
      OBVIOUS
    <3>1. s \in Timer /\ t \in Timer
      BY <1>1
    <3>2. timeout'[s] = timeout[s] \/ timeout'[s] = timeout[s] + Repeat[s]
      BY <1>4, <3>1 DEF PopTimer, TypeOK
    <3> QED
      BY <1>1, <3>1, <3>2
  <2> QED
    BY <1>1, <1>3, <1>4, <2>1, <2>2 DEF TimersDueLater
<1>5. ASSUME NEW k \in Clocks, TimersOn(k) # {}
      PROVE  TimerMin(k) \in timers
  BY <1>5, TimerMinIsFirst DEF TimersOn
<1>6. CASE \E k \in Clocks : TimerDequeue(k)
  BY <1>1, <1>3, <1>4, <1>5, <1>6 DEF TimerDequeue, TimersDueLater
<1>7. CASE \E k \in Clocks : ReturnTimer(k)
  <2>1. PICK k \in Clocks : ReturnTimer(k)
    BY <1>7
  <2>2. TimerMin(k) \in timers /\ PopTimer(TimerMin(k)) /\ returned' = TimerMin(k)
    BY <1>5, <2>1 DEF ReturnTimer, TimerIsDue
  <2>3. start_id[TimerMin(k)] # 0
    BY <2>2 DEF TimersDueLater
  <2> QED
    BY <1>1, <1>3, <1>4, <2>1, <2>2, <2>3 DEF ReturnTimer, TimersDueLater
<1>8. ASSUME NEW t \in Timer, NEW x \in Time, AddTimer(t, x)
      PROVE  TimersDueLater'
  <2>1. /\ timeout' = [timeout EXCEPT ![t] = x]
        /\ timestamp' = [timestamp EXCEPT ![t] = x]
        /\ TakeId(t) /\ timers' = timers \cup {t} /\ returned' = returned
    BY <1>8 DEF AddTimer
  <2>2. timeout'[t] = x /\ timestamp'[t] = x /\ start_id'[t] # 0 /\ x <= x
    BY <1>2, <2>1, BoundAssumption DEF TypeOK, Time
  <2>3. \A s \in timers : s # t =>
           timeout'[s] = timeout[s] /\ timestamp'[s] = timestamp[s]
    BY <1>1, <2>1 DEF TypeOK
  <2> QED
    BY <1>1, <1>3, <2>1, <2>2, <2>3 DEF TimersDueLater
<1>9. CASE Save
  <2>1. /\ Pipe("market") # {} /\ Head(content[PipeMin("market")]) \in Event
    BY <1>9, ServedIsInHeap DEF Save, FetchesMarket, TypeOK
  <2>2. \A t \in Timer : timestamp'[t] = timestamp[t]
    BY <1>1, <1>9, <2>1 DEF Save, TypeOK
  <2> QED
    BY <1>1, <1>3, <1>9, <2>2 DEF Save, timerVars, TimersDueLater
<1>10. CASE \E q \in Queue : AddQueue(q)
  BY <1>1, <1>3, <1>10 DEF AddQueue, timerVars, TimersDueLater
<1>11. CASE AddPending \/ Discard
  BY <1>1, <1>3, <1>11 DEF AddPending, Discard, timerVars, TimersDueLater
<1>12. ASSUME NEW i \in 1 .. 3, ReturnPiped(i) PROVE TimersDueLater'
  <2>1. returned' \in Event
    BY <1>12, ServedIsInHeap DEF ReturnPiped, TypeOK
  <2> QED
    BY <1>1, <1>3, <1>12, <2>1 DEF ReturnPiped, timerVars, TimersDueLater
<1>13. CASE \/ \E q \in Queue, e \in Event : Push(q, e)
            \/ \E q \in Queue : RemoveQueue(q)
            \/ \E t \in Timer : RemoveTimer(t)
            \/ \E k \in Clocks : SetTime(k)
  BY <1>1, <1>3, <1>13
  DEF Push, RemoveQueue, RemoveTimer, SetTime, timerVars, TimersDueLater
<1>14. CASE ReturnSaved \/ ReturnNothing
  <2>1. returned' \notin Timer
    BY <1>1, <1>14 DEF ReturnSaved, ReturnNothing, TypeOK
  <2> QED
    BY <1>1, <1>3, <1>14, <2>1
    DEF ReturnSaved, ReturnNothing, timerVars, TimersDueLater
<1>15. CASE UNCHANGED vars \/ Tick \/ Attach \/ Dequeue \/ EndPending \/ NoMarket
  BY <1>15 DEF vars, timerVars, Tick, Attach, Dequeue, EndPending, NoMarket,
               TimersDueLater
<1> QED
  BY <1>6, <1>7, <1>8, <1>9, <1>10, <1>11, <1>12, <1>13, <1>14, <1>15
  DEF Next, BusStep
\* Nothing the bus returns before the saved event moves the clock past it.
LEMMA ClockStep ==
  ASSUME ClockInv, [Next]_vars
  PROVE  NothingOvertakesSaved' /\ SavedNotLate'
<1> USE DEF ClockInv, OrderInv, HeapInv
<1>1. /\ Event \cap Timer = {} /\ NULL \notin Event /\ NULL \notin Timer
      /\ saved \in Event \cup {NULL} /\ returned \in Event \cup Timer \cup {NULL}
      /\ timestamp \in [Event \cup Timer -> Nat] /\ time \in [Clocks -> Nat]
      /\ "local" \in Clocks
  BY PointerAssumption DEF TypeOK, Clocks
<1>2. CASE Save
  <2> DEFINE e == Head(content[PipeMin("market")])
  <2>1. e \in Event
    BY <1>2, ServedIsInHeap DEF Save, FetchesMarket, TypeOK
  <2>2. saved' = e /\ time' = time /\ pc' = "select"
    BY <1>2 DEF Save, clockVars
  <2>3. Mode = "simulation" => timestamp'[e] >= time["local"]
    <3>1. CASE Mode = "simulation" /\ IsLate(e)
      <4>1. timestamp' = [timestamp EXCEPT ![e] = time["local"]]
        BY <1>2, <3>1 DEF Save
      <4>2. timestamp'[e] = time["local"] /\ time["local"] \in Nat
        BY <1>1, <2>1, <4>1
      <4> QED
        BY <4>2
    <3>2. CASE ~IsLate(e)
      <4>1. timestamp' = timestamp
        BY <1>2, <3>2 DEF Save
      <4>2. timestamp[e] \in Nat /\ time["local"] \in Nat
        BY <1>1, <2>1
      <4> QED
        BY <3>2, <4>1, <4>2 DEF IsLate
    <3> QED
      BY <3>1, <3>2
  <2> QED
    BY <2>2, <2>3 DEF NothingOvertakesSaved, SavedNotLate
<1>3. ASSUME NEW k \in Clocks, SetTime(k)
      PROVE  NothingOvertakesSaved' /\ SavedNotLate'
  <2>1. /\ pc = "idle" /\ UNCHANGED <<saved, returned, timestamp, pc>>
        /\ time' = [time EXCEPT ![k] = timestamp[returned]]
        /\ \/ returned \in Event /\ EventCategory[returned] = "market"
           \/ returned \in Timer /\ ClockType[returned] = k
    BY <1>3 DEF SetTime
  <2>2. NothingOvertakesSaved'
    BY <2>1 DEF NothingOvertakesSaved
  <2>3. CASE k = "local" /\ Mode = "simulation" /\ saved # NULL
    <3>1. returned \in Timer /\ timestamp[returned] <= timestamp[saved]
      BY <2>1, <2>3 DEF NothingOvertakesSaved
    <3>2. time'["local"] = timestamp[returned] /\ timestamp[returned] \in Nat
          /\ timestamp[saved] \in Nat
      BY <1>1, <2>1, <2>3, <3>1
    <3> QED
      BY <2>1, <2>2, <3>1, <3>2 DEF SavedNotLate
  <2>4. CASE ~(k = "local" /\ Mode = "simulation" /\ saved # NULL)
    <3>1. k # "local" => time'["local"] = time["local"]
      BY <1>1, <2>1
    <3> QED
      BY <2>1, <2>2, <2>4, <3>1 DEF SavedNotLate
  <2> QED
    BY <2>3, <2>4
<1>4. ASSUME NEW k \in Clocks, ReturnTimer(k)
      PROVE  NothingOvertakesSaved' /\ SavedNotLate'
  <2> DEFINE t == TimerMin(k)
  <2>1. t \in timers /\ t \in Timer /\ ClockType[t] = k
    BY <1>4, TimerMinIsFirst DEF ReturnTimer, TimerIsDue, TimersOn, TypeOK
  <2>2. returned' = t /\ UNCHANGED <<saved, timestamp, time>>
    BY <1>4 DEF ReturnTimer, clockVars
  <2>3. Mode = "simulation" => timeout[t] <= timestamp[saved] /\ saved # NULL
    BY <1>4 DEF ReturnTimer, TimerIsDue
  <2>4. timestamp[t] <= timeout[t] /\ timeout[t] \in Nat /\ timestamp[t] \in Nat
    BY <1>1, <2>1 DEF TimersDueLater, TypeOK
  <2>5. Mode = "simulation" => timestamp[t] <= timestamp[saved]
    <3>1. Mode = "simulation" => timestamp[saved] \in Nat
      BY <1>1, <2>3
    <3> QED
      BY <2>3, <2>4, <3>1
  <2> QED
    BY <1>1, <2>1, <2>2, <2>5 DEF NothingOvertakesSaved, SavedNotLate
<1>5. ASSUME NEW i \in 1 .. 3, ReturnPiped(i)
      PROVE  NothingOvertakesSaved' /\ SavedNotLate'
  <2> DEFINE q == PipeMin(PipeOrder[i])
  <2>1. Pipe(PipeOrder[i]) # {}
    BY <1>5 DEF ReturnPiped
  <2>2. q \in Queue /\ Category[q] = PipeOrder[i] /\ content[q] # <<>>
    BY <2>1, ServedIsInHeap
  <2>3. content[q] \in Seq(Event) /\ 1 \in DOMAIN content[q]
        /\ Head(content[q]) = content[q][1] /\ content[q][1] \in Event
    BY <2>2 DEF TypeOK
  <2>4. EventCategory[Head(content[q])] # "market"
    BY <2>2, <2>3 DEF RightPipe, PipeOrder
  <2>5. returned' = Head(content[q]) /\ UNCHANGED <<saved, timestamp, time>>
    BY <1>5 DEF ReturnPiped, clockVars
  <2> QED
    BY <1>1, <2>3, <2>4, <2>5 DEF NothingOvertakesSaved, SavedNotLate
<1>6. ASSUME NEW t \in Timer, NEW x \in Time, AddTimer(t, x)
      PROVE  NothingOvertakesSaved' /\ SavedNotLate'
  <2>1. returned # t
    BY <1>6 DEF AddTimer, TimersDueLater
  <2>2. \A y \in Event \cup Timer : y # t => timestamp'[y] = timestamp[y]
    BY <1>1, <1>6 DEF AddTimer
  <2>3. UNCHANGED <<saved, returned, pc, time>>
    BY <1>6 DEF AddTimer, clockVars
  <2> QED
    BY <1>1, <2>1, <2>2, <2>3 DEF NothingOvertakesSaved, SavedNotLate
<1>7. CASE ReturnSaved \/ ReturnNothing
  BY <1>7 DEF ReturnSaved, ReturnNothing, NothingOvertakesSaved, SavedNotLate
<1>8. CASE Dequeue
  BY <1>8 DEF Dequeue, clockVars, NothingOvertakesSaved, SavedNotLate
<1>9. CASE AddPending \/ EndPending \/ Discard \/ NoMarket
  BY <1>9 DEF AddPending, EndPending, Discard, NoMarket, clockVars,
              NothingOvertakesSaved, SavedNotLate
<1>10. CASE \/ \E q \in Queue, e \in Event : Push(q, e)
            \/ \E q \in Queue : AddQueue(q) \/ RemoveQueue(q)
            \/ \E t \in Timer : RemoveTimer(t)
            \/ \E k \in Clocks : TimerDequeue(k)
            \/ Attach \/ UNCHANGED vars
  BY <1>10 DEF Push, AddQueue, RemoveQueue, RemoveTimer, TimerDequeue, Attach,
               vars, clockVars, NothingOvertakesSaved, SavedNotLate
<1>11. CASE Tick
  BY <1>11 DEF Tick, NothingOvertakesSaved, SavedNotLate
<1> QED
  BY <1>2, <1>3, <1>4, <1>5, <1>6, <1>7, <1>8, <1>9, <1>10, <1>11
  DEF Next, BusStep

\* A new bus has saved nothing.
LEMMA InitClock == Init => ClockInv
<1> SUFFICES ASSUME Init
             PROVE  RightPipe /\ TimersDueLater /\ NothingOvertakesSaved /\ SavedNotLate
  BY InitOrder DEF ClockInv
<1>1. NULL \notin Timer
  BY PointerAssumption
<1> QED
  BY <1>1 DEF Init, RightPipe, TimersDueLater, NothingOvertakesSaved, SavedNotLate

\* The bus always saves only what the clock has not passed.
THEOREM ClockInvariance == Spec => []ClockInv
<1>1. ClockInv /\ [Next]_vars => ClockInv'
  BY OrderStep, RightPipeStep, TimerStampStep, ClockStep DEF ClockInv, OrderInv
<1> QED
  BY <1>1, InitClock, PTL DEF Spec

-----------------------------------------------------------------------------
(* The invariants the runs check. *)

\* Every variable keeps its type.
THEOREM TypeCorrect == Spec => []TypeOK
<1>1. HeapInv => TypeOK
  BY DEF HeapInv
<1> QED
  BY <1>1, HeapInvariance, PTL

\* A queue of the bus that holds events is in its heap or waits once in the
\* pending queue, and the heaps hold no other queues (bus_add_queue,
\* event_pop_form_pipe, check_pending_queue and event_queue_push).
THEOREM QueuesAccountedFor == Spec => []HeapMembership
<1>1. HeapInv => HeapMembership
  BY DEF HeapInv
<1> QED
  BY <1>1, HeapInvariance, PTL

\* No two nodes of the heaps have the same start_id, so the comparators are
\* total orders.
THEOREM IdsUnique == Spec => []StartIdsUnique
<1>1. OrderInv => StartIdsUnique
  BY DEF OrderInv
<1> QED
  BY <1>1, OrderInvariance, PTL

\* The saved event of a simulation is never older than the clock, although it
\* is compared with the clock only when it is saved.
THEOREM SavedStaysDue == Spec => []SavedNotLate
<1>1. ClockInv => SavedNotLate
  BY DEF ClockInv
<1> QED
  BY <1>1, ClockInvariance, PTL
-----------------------------------------------------------------------------
(* Where every event is. *)

\* How many events have been taken out of queue q.
Taken(q) == Len(pushed[q]) - Len(content[q])

\* What a queue holds is the end of what was pushed to it.
HoldsTheLast ==
    \A q \in Queue :
        /\ Taken(q) >= 0
        /\ \A i \in 1 .. Len(content[q]) : content[q][i] = pushed[q][Taken(q) + i]

\* No event is pushed a second time.
PushedOnce ==
    \A p, q \in Queue : \A i \in 1 .. Len(pushed[p]), j \in 1 .. Len(pushed[q]) :
        pushed[p][i] = pushed[q][j] => p = q /\ i = j

\* The events the bus has taken out of their queues.
Out == done \cup dropped \cup {saved}

\* What was taken out is known to the bus, and what was not is not.
TakenAreOut ==
    \A q \in Queue : \A i \in 1 .. Len(pushed[q]) :
        pushed[q][i] \in Out <=> i <= Taken(q)

\* An event the bus has taken out is returned, discarded or saved, never two
\* of these, and was pushed before.
OutOnce ==
    /\ done \cap dropped = {} /\ saved \notin done \cup dropped
    /\ \A e \in Out \ {NULL} : \E q \in Queue : e \in Range(pushed[q])

Ledger == HoldsTheLast /\ PushedOnce /\ TakenAreOut /\ OutOnce

\* The bus takes in event e: returned, discarded or saved.
Takes(e) ==
    \/ done' = done \cup {e} /\ UNCHANGED <<dropped, saved>>
    \/ dropped' = dropped \cup {e} /\ UNCHANGED <<done, saved>>
    \/ saved = NULL /\ saved' = e /\ UNCHANGED <<done, dropped>>

\* A step pushes an event, takes the head of the queue that is served, returns
\* the saved event, or moves no event.
LEMMA EventSteps ==
  ASSUME TypeOK, HeapMembership, [Next]_vars
  PROVE  \/ UNCHANGED <<content, pushed, done, dropped, saved>>
         \/ \E q \in Queue, e \in Event : Push(q, e)
         \/ \E q \in Queue :
               /\ content[q] # <<>>
               /\ content' = [content EXCEPT ![q] = Tail(@)]
               /\ pushed' = pushed
               /\ Takes(Head(content[q]))
         \/ /\ saved # NULL /\ saved' = NULL /\ done' = done \cup {saved}
            /\ UNCHANGED <<content, pushed, dropped>>
<1> DEFINE Taking == \E q \in Queue :
               /\ content[q] # <<>>
               /\ content' = [content EXCEPT ![q] = Tail(@)]
               /\ pushed' = pushed
               /\ Takes(Head(content[q]))
<1>1. CASE Discard \/ Save
  <2>1. /\ PipeMin("market") \in Queue /\ content[PipeMin("market")] # <<>>
    BY <1>1, ServedIsInHeap DEF Discard, Save, FetchesMarket
  <2>2. /\ content' = [content EXCEPT ![PipeMin("market")] = Tail(@)]
        /\ pushed' = pushed
    BY <1>1 DEF Discard, Save, PopFrom, historyVars
  <2>3. Takes(Head(content[PipeMin("market")]))
    BY <1>1 DEF Discard, Save, FetchesMarket, Takes, historyVars
  <2> QED
    BY <2>1, <2>2, <2>3
<1>2. ASSUME NEW i \in 1 .. 3, ReturnPiped(i) PROVE Taking
  <2>1. PipeMin(PipeOrder[i]) \in Queue /\ content[PipeMin(PipeOrder[i])] # <<>>
    BY <1>2, ServedIsInHeap DEF ReturnPiped
  <2>2. /\ content' = [content EXCEPT ![PipeMin(PipeOrder[i])] = Tail(@)]
        /\ pushed' = pushed
    BY <1>2 DEF ReturnPiped, PopFrom
  <2>3. Takes(Head(content[PipeMin(PipeOrder[i])]))
    BY <1>2 DEF ReturnPiped, Takes
  <2> QED
    BY <2>1, <2>2, <2>3
<1>3. CASE ReturnSaved
  BY <1>3 DEF ReturnSaved, queueVars
<1>4. CASE \/ UNCHANGED vars \/ Tick \/ Attach \/ Dequeue \/ EndPending
           \/ NoMarket \/ ReturnNothing \/ AddPending
  BY <1>4 DEF vars, queueVars, historyVars, Tick, Attach, Dequeue, EndPending,
              NoMarket, ReturnNothing, AddPending
<1>5. CASE \E k \in Clocks : TimerDequeue(k) \/ SetTime(k) \/ ReturnTimer(k)
  BY <1>5 DEF TimerDequeue, SetTime, ReturnTimer, queueVars, historyVars
<1>6. CASE \E t \in Timer : (\E x \in Time : AddTimer(t, x)) \/ RemoveTimer(t)
  BY <1>6 DEF AddTimer, RemoveTimer, queueVars, historyVars
<1>7. CASE \E q \in Queue : AddQueue(q) \/ RemoveQueue(q)
  BY <1>7 DEF AddQueue, RemoveQueue, historyVars
<1> QED
  BY <1>1, <1>2, <1>3, <1>4, <1>5, <1>6, <1>7 DEF Next, BusStep

\* A new event is pushed behind the others of its queue (event_queue_push).
LEMMA PushKeepsLedger ==
  ASSUME TypeOK, Ledger, NEW q \in Queue, NEW e \in Event, Push(q, e)
  PROVE  Ledger'
<1> USE DEF Ledger
<1>1. /\ content' = [content EXCEPT ![q] = Append(@, e)]
      /\ pushed' = [pushed EXCEPT ![q] = Append(@, e)]
      /\ UNCHANGED <<done, dropped, saved>>
  BY DEF Push
<1>2. \A p \in Queue : content[p] \in Seq(Event) /\ pushed[p] \in Seq(Event)
  BY DEF TypeOK
<1>3. \A p \in Queue : \A i \in 1 .. Len(pushed[p]) : pushed[p][i] # e
  BY <1>2 DEF Push, Range
<1>4. /\ Len(content'[q]) = Len(content[q]) + 1
      /\ Len(pushed'[q]) = Len(pushed[q]) + 1
      /\ content'[q][Len(content[q]) + 1] = e
      /\ pushed'[q][Len(pushed[q]) + 1] = e
      /\ \A i \in 1 .. Len(content[q]) : content'[q][i] = content[q][i]
      /\ \A i \in 1 .. Len(pushed[q]) : pushed'[q][i] = pushed[q][i]
  BY <1>1, <1>2 DEF TypeOK
<1>5. \A p \in Queue \ {q} : content'[p] = content[p] /\ pushed'[p] = pushed[p]
  BY <1>1 DEF TypeOK
<1>6. \A p \in Queue : Len(content[p]) \in Nat /\ Len(pushed[p]) \in Nat
  BY <1>2
<1> DEFINE c == Len(content[q])
           n == Len(pushed[q])
           k == Taken(q)
<1>a. c \in Nat /\ n \in Nat /\ k \in Nat /\ n = k + c
  <2>1. k >= 0 /\ k = n - c
    BY DEF HoldsTheLast, Taken
  <2>2. c \in Nat /\ n \in Nat
    BY <1>6
  <2> HIDE DEF c, n, k
  <2> QED
    BY <2>1, <2>2
<1>7. \A p \in Queue : Taken(p)' = Taken(p)
  <2>1. Taken(q)' = (n + 1) - (c + 1)
    BY <1>4 DEF Taken
  <2>2. (n + 1) - (c + 1) = k
    <3> HIDE DEF c, n, k
    <3> QED
      BY <1>a
  <2> QED
    BY <2>1, <2>2, <1>5 DEF Taken
<1>8. HoldsTheLast'
  <2>1. ASSUME NEW i \in 1 .. Len(content'[q])
        PROVE  content'[q][i] = pushed'[q][k + i]
    <3>1. i \in 1 .. c + 1
      BY <1>4
    <3>2. \/ i = c + 1 /\ k + i = n + 1
          \/ i \in 1 .. c /\ k + i \in 1 .. n
      <4> HIDE DEF c, n, k
      <4> QED
        BY <3>1, <1>a
    <3> QED
      BY <3>2, <1>4 DEF HoldsTheLast
  <2>2. k >= 0
    BY DEF HoldsTheLast
  <2> QED
    BY <2>1, <2>2, <1>5, <1>7 DEF HoldsTheLast
<1>9. PushedOnce'
  <2>1. ASSUME NEW p \in Queue, NEW i \in 1 .. Len(pushed'[p])
        PROVE  \/ i \in 1 .. Len(pushed[p]) /\ pushed'[p][i] = pushed[p][i]
                  /\ pushed'[p][i] # e
               \/ p = q /\ i = Len(pushed[q]) + 1 /\ pushed'[p][i] = e
    BY <1>3, <1>4, <1>5, <1>6
  <2> QED
    BY <2>1 DEF PushedOnce
<1>10. e \notin Out
  <2>1. e # NULL
    BY PointerAssumption
  <2> QED
    BY <2>1, <1>2, <1>3 DEF OutOnce, Range
<1>11. TakenAreOut'
  <2>1. Out' = Out
    BY <1>1 DEF Out
  <2>2. ASSUME NEW i \in 1 .. Len(pushed'[q])
        PROVE  pushed'[q][i] \in Out <=> i <= Taken(q)
    <3>1. i \in 1 .. n + 1
      BY <1>4
    <3>2. (i = n + 1 /\ ~(i <= k)) \/ i \in 1 .. n
      <4> HIDE DEF c, n, k
      <4> QED
        BY <3>1, <1>a
    <3> QED
      BY <3>2, <1>4, <1>10 DEF TakenAreOut
  <2> QED
    BY <2>1, <2>2, <1>5, <1>7 DEF TakenAreOut
<1>12. OutOnce'
  <2>1. ASSUME NEW x, NEW p \in Queue, x \in Range(pushed[p])
        PROVE  x \in Range(pushed'[p])
    <3>1. PICK i \in 1 .. Len(pushed[p]) : pushed[p][i] = x
      BY <2>1, <1>2 DEF Range
    <3>2. pushed'[p] \in Seq(Event)
      BY <1>1, <1>2 DEF TypeOK
    <3>3. i \in 1 .. Len(pushed'[p]) /\ pushed'[p][i] = x
      BY <3>1, <1>4, <1>5, <1>6
    <3> QED
      BY <3>2, <3>3 DEF Range
  <2>2. Out' = Out
    BY <1>1 DEF Out
  <2> QED
    BY <1>1, <2>1, <2>2 DEF OutOnce
<1> QED
  BY <1>8, <1>9, <1>11, <1>12

\* What waits in a queue has not been taken.
LEMMA HeadIsNotOut ==
  ASSUME TypeOK, Ledger, NEW q \in Queue, content[q] # <<>>
  PROVE  Head(content[q]) \notin Out
<1> DEFINE c == Len(content[q])
           n == Len(pushed[q])
           k == Taken(q)
<1>1. content[q] \in Seq(Event) /\ pushed[q] \in Seq(Event)
  BY DEF TypeOK
<1>2. c \in Nat /\ n \in Nat /\ 1 \in 1 .. c /\ Head(content[q]) = content[q][1]
  BY <1>1
<1>3. k >= 0 /\ k = n - c
  BY DEF Ledger, HoldsTheLast, Taken
<1>4. k + 1 \in 1 .. n /\ ~(k + 1 <= k)
  <2> HIDE DEF c, n, k
  <2> QED
    BY <1>2, <1>3
<1>5. pushed[q][k + 1] = Head(content[q])
  BY <1>2 DEF Ledger, HoldsTheLast
<1> QED
  BY <1>4, <1>5 DEF Ledger, TakenAreOut

\* The bus takes the head of a queue (event_pop_form_pipe).
LEMMA TakeKeepsLedger ==
  ASSUME TypeOK, Ledger, NEW q \in Queue, content[q] # <<>>,
         content' = [content EXCEPT ![q] = Tail(@)], pushed' = pushed,
         Takes(Head(content[q]))
  PROVE  Ledger'
<1> USE DEF Ledger
<1> DEFINE c == Len(content[q])
           n == Len(pushed[q])
           k == Taken(q)
           h == Head(content[q])
<1>1. \A p \in Queue : content[p] \in Seq(Event) /\ pushed[p] \in Seq(Event)
  BY DEF TypeOK
<1>2. \A p \in Queue \ {q} : content'[p] = content[p]
  BY DEF TypeOK
<1>3. content'[q] = Tail(content[q])
  BY DEF TypeOK
<1>4. /\ Len(content'[q]) = c - 1
      /\ \A i \in 1 .. c - 1 : content'[q][i] = content[q][i + 1]
      /\ h = content[q][1] /\ 1 \in 1 .. c
  <2>1. content[q] \in Seq(Event) /\ content[q] # <<>>
    BY <1>1
  <2>2. Len(Tail(content[q])) = c - 1 /\ h = content[q][1] /\ 1 \in 1 .. c
    BY <2>1
  <2>3. \A i \in 1 .. c - 1 : Tail(content[q])[i] = content[q][i + 1]
    BY <2>1
  <2> QED
    BY <2>2, <2>3, <1>3
<1>5. c \in Nat /\ n \in Nat /\ k \in Nat /\ n = k + c /\ c >= 1
  <2>1. k >= 0 /\ k = n - c
    BY DEF HoldsTheLast, Taken
  <2>2. c \in Nat /\ n \in Nat
    BY <1>1
  <2>3. 1 \in 1 .. c
    BY <1>4
  <2> HIDE DEF c, n, k
  <2> QED
    BY <2>1, <2>2, <2>3
<1>6. Taken(q)' = k + 1
  <2>1. Taken(q)' = n - (c - 1)
    BY <1>4 DEF Taken
  <2>2. n - (c - 1) = k + 1
    <3> HIDE DEF c, n, k
    <3> QED
      BY <1>5
  <2> QED
    BY <2>1, <2>2
<1>7. \A p \in Queue \ {q} : Taken(p)' = Taken(p)
  BY <1>2 DEF Taken
<1>8. HoldsTheLast'
  <2>1. ASSUME NEW i \in 1 .. c - 1
        PROVE  content'[q][i] = pushed[q][(k + 1) + i]
    <3>1. i + 1 \in 1 .. c /\ (k + 1) + i = k + (i + 1)
      <4> HIDE DEF c, n, k
      <4> QED
        BY <1>5
    <3> QED
      BY <3>1, <1>4 DEF HoldsTheLast
  <2>2. k + 1 >= 0
    <3> HIDE DEF k
    <3> QED
      BY <1>5
  <2> QED
    BY <2>1, <2>2, <1>2, <1>4, <1>6, <1>7 DEF HoldsTheLast
<1>9. PushedOnce'
  BY DEF PushedOnce
<1>10. k + 1 \in 1 .. n /\ pushed[q][k + 1] = h
  <2>1. k + 1 \in 1 .. n
    <3> HIDE DEF c, n, k
    <3> QED
      BY <1>5
  <2> QED
    BY <2>1, <1>4 DEF HoldsTheLast
<1>11. h \in Event /\ h # NULL /\ h \in Range(pushed[q])
  <2>1. h \in Event
    BY <1>1
  <2>2. DOMAIN pushed[q] = 1 .. n
    BY <1>1
  <2> HIDE DEF c, n, k, h
  <2> QED
    BY <2>1, <2>2, <1>10, PointerAssumption DEF Range
<1>12. h \notin Out
  BY HeadIsNotOut DEF Ledger
<1>13. /\ \A e \in Event : e \in Out' <=> e \in Out \/ e = h
       /\ Out' \subseteq Out \cup {h}
  <2> HIDE DEF c, n, k, h
  <2>1. CASE done' = done \cup {h} /\ UNCHANGED <<dropped, saved>>
    BY <2>1 DEF Out
  <2>2. CASE dropped' = dropped \cup {h} /\ UNCHANGED <<done, saved>>
    BY <2>2 DEF Out
  <2>3. CASE saved = NULL /\ saved' = h /\ UNCHANGED <<done, dropped>>
    BY <2>3, PointerAssumption DEF Out
  <2>4. Takes(h)
    BY DEF h
  <2> QED
    BY <2>1, <2>2, <2>3, <2>4 DEF Takes
<1>14. TakenAreOut'
  <2>1. ASSUME NEW p \in Queue, NEW i \in 1 .. Len(pushed[p])
        PROVE  pushed[p][i] \in Out' <=> i <= Taken(p)'
    <3>1. pushed[p][i] \in Event
      BY <1>1
    <3>2. pushed[p][i] = h <=> p = q /\ i = k + 1
      BY <1>10 DEF PushedOnce
    <3>3. pushed[p][i] \in Out <=> i <= Taken(p)
      BY DEF TakenAreOut
    <3>4. i <= k + 1 <=> i <= k \/ i = k + 1
      <4>1. i \in Nat
        OBVIOUS
      <4> HIDE DEF c, n, k
      <4> QED
        BY <4>1, <1>5
    <3> QED
      BY <3>1, <3>2, <3>3, <3>4, <1>6, <1>7, <1>13
  <2> QED
    BY <2>1 DEF TakenAreOut
<1>15. OutOnce'
  <2> HIDE DEF c, n, k, h
  <2>1. done' \cap dropped' = {} /\ saved' \notin done' \cup dropped'
    <3>1. CASE done' = done \cup {h} /\ UNCHANGED <<dropped, saved>>
      BY <3>1, <1>12 DEF Out, OutOnce
    <3>2. CASE dropped' = dropped \cup {h} /\ UNCHANGED <<done, saved>>
      BY <3>2, <1>12 DEF Out, OutOnce
    <3>3. CASE saved = NULL /\ saved' = h /\ UNCHANGED <<done, dropped>>
      BY <3>3, <1>12 DEF Out, OutOnce
    <3>4. Takes(h)
      BY DEF h
    <3> QED
      BY <3>1, <3>2, <3>3, <3>4 DEF Takes
  <2>2. \A e \in Out' \ {NULL} : \E p \in Queue : e \in Range(pushed[p])
    BY <1>11, <1>13 DEF OutOnce
  <2> QED
    BY <2>1, <2>2 DEF OutOnce
<1> QED
  BY <1>8, <1>9, <1>14, <1>15

\* The account of all events is kept by every step.
LEMMA LedgerStep ==
  TypeOK /\ HeapMembership /\ Ledger /\ [Next]_vars => Ledger'
<1> SUFFICES ASSUME TypeOK, HeapMembership, Ledger, [Next]_vars PROVE Ledger'
  OBVIOUS
<1>1. CASE UNCHANGED <<content, pushed, done, dropped, saved>>
  <2>1. HoldsTheLast' /\ PushedOnce'
    BY <1>1 DEF Ledger, HoldsTheLast, PushedOnce, Taken
  <2>2. TakenAreOut' /\ OutOnce'
    BY <1>1 DEF Ledger, TakenAreOut, OutOnce, Out, Taken
  <2> QED
    BY <2>1, <2>2 DEF Ledger
<1>2. CASE /\ saved # NULL /\ saved' = NULL /\ done' = done \cup {saved}
           /\ UNCHANGED <<content, pushed, dropped>>
  <2>1. saved \in Event
    BY <1>2 DEF TypeOK
  <2>2. Out' = Out \cup {NULL}
    BY <1>2 DEF Out
  <2>3. \A e \in Event : e \in Out' <=> e \in Out
    BY <2>2, PointerAssumption
  <2>4. TakenAreOut'
    <3>1. \A p \in Queue : \A i \in 1 .. Len(pushed[p]) : pushed[p][i] \in Event
      BY DEF TypeOK
    <3> QED
      BY <1>2, <2>3, <3>1 DEF Ledger, TakenAreOut, Taken
  <2>5. OutOnce'
    <3>1. NULL \notin dropped /\ NULL \notin done'
      BY <1>2, <2>1, PointerAssumption DEF TypeOK
    <3> QED
      BY <1>2, <2>2, <3>1 DEF Ledger, OutOnce
  <2> QED
    BY <1>2, <2>4, <2>5 DEF Ledger, HoldsTheLast, PushedOnce, Taken
<1> QED
  BY <1>1, <1>2, EventSteps, PushKeepsLedger, TakeKeepsLedger

\* A new bus has taken in nothing.
LEMMA InitLedger == Init => Ledger
<1> SUFFICES ASSUME Init PROVE Ledger
  OBVIOUS
<1>1. \A q \in Queue :
         /\ Taken(q) >= 0
         /\ 1 .. Len(content[q]) = {} /\ 1 .. Len(pushed[q]) = {}
  BY DEF Init, Taken
<1>2. done = {} /\ dropped = {} /\ saved = NULL
  BY DEF Init
<1> QED
  BY <1>1, <1>2
  DEF Ledger, HoldsTheLast, PushedOnce, TakenAreOut, OutOnce, Out

\* A sequence that agrees with the end of another is its subsequence.
LEMMA EndIsSubSeq ==
  ASSUME NEW S, NEW s \in Seq(S), NEW t \in Seq(S), NEW k \in Nat,
         Len(t) - k = Len(s), \A i \in 1 .. Len(s) : s[i] = t[k + i]
  PROVE  s = SubSeq(t, k + 1, Len(t))
<1> DEFINE c == Len(s)
           l == Len(t)
           u == SubSeq(t, k + 1, l)
<1>1. c \in Nat /\ l \in Nat
  OBVIOUS
<1>2. /\ k + 1 \in Int /\ l \in Int
      /\ \A i \in k + 1 .. l : i \in 1 .. l
      /\ l - (k + 1) + 1 = c /\ (k + 1 <= l <=> c # 0)
      /\ \A i \in 1 .. c : (k + 1) + i - 1 = k + i
  <2> HIDE DEF c, l
  <2>1. l - k = c
    BY DEF c, l
  <2> QED
    BY <1>1, <2>1
<1>3. \A i \in k + 1 .. l : t[i] \in S
  BY <1>2
<1>4. /\ u \in Seq(S)
      /\ Len(u) = IF k + 1 <= l THEN l - (k + 1) + 1 ELSE 0
      /\ \A i \in 1 .. l - (k + 1) + 1 : u[i] = t[(k + 1) + i - 1]
  <2> HIDE DEF l
  <2> QED
    BY <1>2, <1>3, SubSeqProperties
<1>5. Len(u) = c /\ \A i \in 1 .. c : u[i] = t[k + i]
  <2> HIDE DEF c, l, u
  <2> QED
    BY <1>2, <1>4
<1>6. \A i \in 1 .. Len(u) : u[i] = s[i]
  BY <1>5
<1> HIDE DEF l, u
<1> QED
  BY <1>4, <1>5, <1>6, SeqEqual DEF l, u

\* The account says where each event is and in which order it left its queue.
LEMMA LedgerConserves == TypeOK /\ Ledger => FifoConservation
<1> SUFFICES ASSUME TypeOK, Ledger, NEW q \in Queue
             PROVE  \E n \in 0 .. Len(pushed[q]) :
        /\ content[q] = SubSeq(pushed[q], n + 1, Len(pushed[q]))
        /\ \A i \in DOMAIN pushed[q] :
              LET e == pushed[q][i]
                  places == {p \in {"done", "dropped", "saved"} :
                                \/ p = "done" /\ e \in done
                                \/ p = "dropped" /\ e \in dropped
                                \/ p = "saved" /\ e = saved}
              IN  Cardinality(places) = IF i <= n THEN 1 ELSE 0
  BY DEF FifoConservation
<1> DEFINE c == Len(content[q])
           l == Len(pushed[q])
           k == Taken(q)
           Places(e) == {p \in {"done", "dropped", "saved"} :
                            \/ p = "done" /\ e \in done
                            \/ p = "dropped" /\ e \in dropped
                            \/ p = "saved" /\ e = saved}
<1>1. content[q] \in Seq(Event) /\ pushed[q] \in Seq(Event)
  BY DEF TypeOK
<1>2. c \in Nat /\ l \in Nat /\ k \in 0 .. l /\ l - k = c
  <2>1. k >= 0 /\ k = l - c
    BY DEF Ledger, HoldsTheLast, Taken
  <2>2. c \in Nat /\ l \in Nat
    BY <1>1
  <2> HIDE DEF c, l, k
  <2> QED
    BY <2>1, <2>2
<1>3. content[q] = SubSeq(pushed[q], k + 1, l)
  <2>1. \A i \in 1 .. c : content[q][i] = pushed[q][k + i]
    BY DEF Ledger, HoldsTheLast
  <2> HIDE DEF k
  <2> QED
    BY <1>1, <1>2, <2>1, EndIsSubSeq
<1>4. ASSUME NEW i \in 1 .. l
      PROVE  Cardinality(Places(pushed[q][i])) = IF i <= k THEN 1 ELSE 0
  <2> DEFINE e == pushed[q][i]
  <2>1. e \in Out <=> i <= k
    BY DEF Ledger, TakenAreOut
  <2>2. CASE e \notin Out
    <3>1. Places(e) = {}
      BY <2>2 DEF Out
    <3> QED
      BY <2>1, <2>2, <3>1, FS_EmptySet
  <2>3. CASE e \in Out
    <3>1. \E p \in {"done", "dropped", "saved"} : Places(e) = {p}
      BY <2>3 DEF Out, Ledger, OutOnce
    <3> QED
      BY <2>1, <2>3, <3>1, FS_Singleton
  <2> QED
    BY <2>2, <2>3
<1>5. DOMAIN pushed[q] = 1 .. l
  BY <1>1
<1> QED
  BY <1>2, <1>3, <1>4, <1>5

\* An event stays discarded for the reason it was discarded for: the clock does
\* not go back (bus_set_time), and only an event that is saved gets another
\* timestamp (bus_simualtion_dequeue).
LEMMA DroppedStep ==
  ASSUME TypeOK, HeapMembership, RightPipe, Ledger, DroppedOnlyLate, [Next]_vars
  PROVE  DroppedOnlyLate'
<1>1. dropped \subseteq Event /\ timestamp \in [Event \cup Timer -> Nat]
      /\ time \in [Clocks -> Nat] /\ "local" \in Clocks
  BY DEF TypeOK, Clocks
<1>2. CASE UNCHANGED <<dropped, timestamp, time>>
  BY <1>2 DEF DroppedOnlyLate
<1>3. CASE Discard
  <2> DEFINE q == PipeMin("market")
  <2>1. q \in Queue /\ Category[q] = "market" /\ content[q] # <<>>
    BY <1>3, ServedIsInHeap DEF Discard, FetchesMarket
  <2>2. /\ 1 \in DOMAIN content[q] /\ Head(content[q]) = content[q][1]
    BY <2>1 DEF TypeOK
  <2>3. EventCategory[Head(content[q])] = "market"
    BY <2>1, <2>2 DEF RightPipe
  <2>4. /\ Discarded(Head(content[q])) /\ dropped' = dropped \cup {Head(content[q])}
        /\ UNCHANGED <<timestamp, time>>
    BY <1>3 DEF Discard, clockVars
  <2> QED
    BY <2>3, <2>4 DEF DroppedOnlyLate, Discarded, IsLate, KeptWhenLate
<1>4. CASE Save
  <2> DEFINE q == PipeMin("market")
  <2>1. q \in Queue /\ content[q] # <<>>
    BY <1>4, ServedIsInHeap DEF Save, FetchesMarket
  <2>2. Head(content[q]) \notin dropped
    BY <2>1, HeadIsNotOut DEF Out
  <2>3. \A e \in dropped : timestamp'[e] = timestamp[e]
    BY <1>1, <1>4, <2>2 DEF Save
  <2>4. UNCHANGED <<dropped, time>>
    BY <1>4 DEF Save, historyVars, clockVars
  <2> QED
    BY <2>3, <2>4 DEF DroppedOnlyLate
<1>5. ASSUME NEW k \in Clocks, SetTime(k) PROVE DroppedOnlyLate'
  <2>1. UNCHANGED <<dropped, timestamp>>
    BY <1>5 DEF SetTime, historyVars
  <2>2. time'["local"] >= time["local"] /\ time'["local"] \in Nat
    <3>1. returned \in Event \cup Timer
      BY <1>5 DEF SetTime
    <3>2. timestamp[returned] \in Nat
      BY <1>1, <3>1
    <3> QED
      BY <1>1, <1>5, <3>2 DEF SetTime
  <2>3. \A e \in dropped :
          timestamp[e] < time["local"] => timestamp[e] < time'["local"]
    <3>1. \A e \in dropped : timestamp[e] \in Nat
      BY <1>1
    <3>2. time["local"] \in Nat
      BY <1>1
    <3> QED
      BY <2>2, <3>1, <3>2
  <2> QED
    BY <2>1, <2>3 DEF DroppedOnlyLate
<1>6. ASSUME NEW t \in Timer, NEW x \in Time, AddTimer(t, x) PROVE DroppedOnlyLate'
  <2>1. \A e \in dropped : timestamp'[e] = timestamp[e]
    BY <1>1, <1>6, PointerAssumption DEF AddTimer
  <2>2. UNCHANGED <<dropped, time>>
    BY <1>6 DEF AddTimer, historyVars, clockVars
  <2> QED
    BY <2>1, <2>2 DEF DroppedOnlyLate
<1>7. CASE \/ \E q \in Queue, e \in Event : Push(q, e)
           \/ \E q \in Queue : AddQueue(q) \/ RemoveQueue(q)
           \/ \E t \in Timer : RemoveTimer(t)
           \/ \E k \in Clocks : TimerDequeue(k) \/ ReturnTimer(k)
           \/ Tick \/ Attach
  BY <1>2, <1>7
  DEF Push, AddQueue, RemoveQueue, RemoveTimer, TimerDequeue, ReturnTimer, Tick,
      Attach, clockVars, historyVars
<1>8. CASE \/ Dequeue \/ AddPending \/ EndPending \/ NoMarket
           \/ \E i \in 1 .. 3 : ReturnPiped(i)
           \/ ReturnSaved \/ ReturnNothing
  BY <1>2, <1>8
  DEF Dequeue, AddPending, EndPending, NoMarket, ReturnPiped, ReturnSaved,
      ReturnNothing, clockVars, historyVars
<1>9. CASE UNCHANGED vars
  BY <1>2, <1>9 DEF vars
<1> QED
  BY <1>3, <1>4, <1>5, <1>6, <1>7, <1>8, <1>9 DEF Next, BusStep

\* Every event that was pushed is returned, discarded, saved or still in its
\* queue, one of these, its queue gives its events away in the order of pushes
\* and nothing is discarded but stop events and late ones (event_queue_push,
\* event_pop_form_pipe, bus_simualtion_dequeue and bus_realtime_dequeue).
THEOREM NothingIsLost == Spec => []Conserved
<1>1. Init => Ledger /\ DroppedOnlyLate
  BY InitLedger DEF Init, DroppedOnlyLate
<1>2. ClockInv => TypeOK /\ HeapMembership /\ RightPipe
  BY DEF ClockInv, OrderInv, HeapInv
<1>3. Ledger /\ DroppedOnlyLate /\ ClockInv /\ [Next]_vars
        => Ledger' /\ DroppedOnlyLate'
  BY <1>2, LedgerStep, DroppedStep
<1>4. TypeOK /\ Ledger /\ DroppedOnlyLate => Conserved
  BY LedgerConserves DEF Conserved
<1>5. Spec => [](Ledger /\ DroppedOnlyLate)
  BY <1>1, <1>3, ClockInvariance, PTL DEF Spec
<1> QED
  BY <1>2, <1>4, <1>5, ClockInvariance, PTL

-----------------------------------------------------------------------------
(* What is forwarded to attached queues. *)

\* The event that is put aside came from a market queue.
SavedIsMarket == saved # NULL => EventCategory[saved] = "market"

\* Sequence t ends with sequence s.
EndsWith(t, s) ==
    /\ Len(s) <= Len(t)
    /\ \A m \in 1 .. Len(s) : s[m] = t[(Len(t) - Len(s)) + m]

\* An attached queue holds events that were returned, each once, in the order
\* of any queue attached before it that never was full.
ForwardInv ==
    \A i \in 1 .. Len(attached) :
        /\ \A m, n \in 1 .. Len(attached[i]) :
              attached[i][m] = attached[i][n] => m = n
        /\ \A m \in 1 .. Len(attached[i]) :
              /\ attached[i][m] \in done
              /\ EventCategory[attached[i][m]] = "market"
              /\ EventType[attached[i][m]] # "queue"
        /\ \A j \in 1 .. i - 1 :
              Len(attached[j]) < AttachCapacity => EndsWith(attached[j], attached[i])

\* Two sequences that are both extended still end alike.
LEMMA BothExtended ==
  ASSUME NEW S, NEW s \in Seq(S), NEW t \in Seq(S), NEW e \in S, EndsWith(t, s)
  PROVE  EndsWith(Append(t, e), Append(s, e))
<1> DEFINE a == Len(s)
           b == Len(t)
<1>1. a \in Nat /\ b \in Nat /\ a <= b
  BY DEF EndsWith
<1>2. /\ Len(Append(s, e)) = a + 1 /\ Append(s, e)[a + 1] = e
      /\ Len(Append(t, e)) = b + 1 /\ Append(t, e)[b + 1] = e
      /\ \A m \in 1 .. a : Append(s, e)[m] = s[m]
      /\ \A m \in 1 .. b : Append(t, e)[m] = t[m]
  OBVIOUS
<1>3. ASSUME NEW m \in 1 .. a + 1
      PROVE  Append(s, e)[m] = Append(t, e)[((b + 1) - (a + 1)) + m]
  <2>1. /\ (b + 1) - (a + 1) = b - a
        /\ \/ m = a + 1 /\ (b - a) + m = b + 1
           \/ m \in 1 .. a /\ (b - a) + m \in 1 .. b
    <3> HIDE DEF a, b
    <3> QED
      BY <1>1
  <2> QED
    BY <1>2, <2>1 DEF EndsWith
<1>4. a + 1 <= b + 1
  <2> HIDE DEF a, b
  <2> QED
    BY <1>1
<1> QED
  BY <1>2, <1>3, <1>4 DEF EndsWith

\* The saved event is put behind what an attached queue holds, if there is room
\* (bus_simualtion_dequeue).
LEMMA ForwardStep ==
  ASSUME TypeOK, Ledger, SavedIsMarket, ForwardInv, ReturnSaved
  PROVE  ForwardInv'
<1>1. saved \in Event /\ saved \notin done /\ EventCategory[saved] = "market"
      /\ done' = done \cup {saved}
  BY DEF ReturnSaved, TypeOK, SavedIsMarket, Ledger, OutOnce
<1>2. CASE attached' = attached
  BY <1>1, <1>2 DEF ForwardInv
<1>3. ASSUME EventType[saved] # "queue",
             attached' = [i \in DOMAIN attached |->
                IF Len(attached[i]) < AttachCapacity THEN Append(attached[i], saved)
                                                     ELSE attached[i]]
      PROVE  ForwardInv'
  <2>1. DOMAIN attached = 1 .. Len(attached) /\ Len(attached) \in Nat
    BY DEF TypeOK
  <2>2. Len(attached') = Len(attached)
    BY <1>3, <2>1
  <2>3. \A i \in 1 .. Len(attached) :
          /\ attached[i] \in Seq(Event) /\ Len(attached[i]) \in Nat
          /\ attached'[i] = IF Len(attached[i]) < AttachCapacity
                            THEN Append(attached[i], saved) ELSE attached[i]
    BY <1>3, <2>1 DEF TypeOK
  <2>4. ASSUME NEW i \in 1 .. Len(attached), NEW m \in 1 .. Len(attached'[i])
        PROVE  \/ /\ m \in 1 .. Len(attached[i]) /\ attached'[i][m] = attached[i][m]
                  /\ attached'[i][m] # saved
               \/ m = Len(attached[i]) + 1 /\ attached'[i][m] = saved
    <3>1. \A n \in 1 .. Len(attached[i]) : attached[i][n] # saved
      BY <1>1 DEF ForwardInv
    <3>2. CASE attached'[i] = attached[i]
      BY <3>1, <3>2
    <3>3. CASE attached'[i] = Append(attached[i], saved)
      <4>1. Len(attached'[i]) = Len(attached[i]) + 1
        BY <3>3, <2>3
      <4>2. m \in 1 .. Len(attached[i]) \/ m = Len(attached[i]) + 1
        BY <4>1, <2>3
      <4> QED
        BY <3>1, <3>3, <4>2, <2>3
    <3> QED
      BY <3>2, <3>3, <2>3
  <2>5. ASSUME NEW i \in 1 .. Len(attached),
               NEW m \in 1 .. Len(attached'[i]), NEW n \in 1 .. Len(attached'[i]),
               attached'[i][m] = attached'[i][n]
        PROVE  m = n
    BY <2>4, <2>5 DEF ForwardInv
  <2>6. ASSUME NEW i \in 1 .. Len(attached), NEW m \in 1 .. Len(attached'[i])
        PROVE  /\ attached'[i][m] \in done'
               /\ EventCategory[attached'[i][m]] = "market"
               /\ EventType[attached'[i][m]] # "queue"
    BY <1>1, <1>3, <2>4 DEF ForwardInv
  <2>7. ASSUME NEW i \in 1 .. Len(attached), NEW j \in 1 .. i - 1,
               Len(attached'[j]) < AttachCapacity
        PROVE  EndsWith(attached'[j], attached'[i])
    <3>1. j \in 1 .. Len(attached) /\ AttachCapacity \in Nat
      BY <2>1, BoundAssumption
    <3>2. Len(attached[j]) < AttachCapacity
      BY <2>3, <2>7, <3>1
    <3>3. EndsWith(attached[j], attached[i])
      BY <3>2 DEF ForwardInv
    <3>4. Len(attached[i]) < AttachCapacity
      <4>1. Len(attached[i]) <= Len(attached[j])
        BY <3>3 DEF EndsWith
      <4>2. Len(attached[i]) \in Nat /\ Len(attached[j]) \in Nat
        BY <2>3, <3>1
      <4> QED
        BY <4>1, <4>2, <3>1, <3>2
    <3>5. attached'[i] = Append(attached[i], saved)
          /\ attached'[j] = Append(attached[j], saved)
      BY <2>3, <3>1, <3>2, <3>4
    <3> QED
      BY <1>1, <2>3, <3>1, <3>3, <3>5, BothExtended
  <2> QED
    BY <2>2, <2>5, <2>6, <2>7 DEF ForwardInv
<1> QED
  BY <1>2, <1>3 DEF ReturnSaved, Forward

\* A queue that is attached later starts empty (bus_attach).
LEMMA AttachStep ==
  ASSUME TypeOK, ForwardInv, Attach
  PROVE  ForwardInv'
<1> DEFINE l == Len(attached)
<1>1. l \in Nat /\ \A i \in 1 .. l : attached[i] \in Seq(Event)
  BY DEF TypeOK
<1>2. /\ Len(attached') = l + 1 /\ attached'[l + 1] = <<>>
      /\ \A i \in 1 .. l : attached'[i] = attached[i]
      /\ done' = done
  BY DEF Attach, TypeOK, historyVars
<1>3. ASSUME NEW i \in 1 .. l + 1
      PROVE  \/ i \in 1 .. l /\ \A j \in 1 .. i - 1 : j \in 1 .. l
             \/ i = l + 1 /\ \A j \in 1 .. i - 1 : j \in 1 .. l
  <2> HIDE DEF l
  <2> QED
    BY <1>1
<1>4. \A j \in 1 .. l : EndsWith(attached'[j], <<>>)
  BY <1>1, <1>2 DEF EndsWith
<1>5. \A m \in 1 .. Len(<<>>) : FALSE
  OBVIOUS
<1> QED
  BY <1>2, <1>3, <1>4, <1>5 DEF ForwardInv

\* No other step touches the attached queues.
LEMMA ForwardInvStep ==
  ASSUME TypeOK, HeapMembership, Ledger, SavedIsMarket, ForwardInv, [Next]_vars
  PROVE  ForwardInv'
<1>1. ASSUME attached' = attached, done \subseteq done' PROVE ForwardInv'
  BY <1>1 DEF ForwardInv
<1>2. CASE \/ \E q \in Queue, e \in Event : Push(q, e)
           \/ \E q \in Queue : AddQueue(q) \/ RemoveQueue(q)
           \/ \E t \in Timer : (\E x \in Time : AddTimer(t, x)) \/ RemoveTimer(t)
           \/ \E k \in Clocks : TimerDequeue(k) \/ ReturnTimer(k) \/ SetTime(k)
           \/ Tick \/ UNCHANGED vars
  BY <1>1, <1>2
  DEF Push, AddQueue, RemoveQueue, AddTimer, RemoveTimer, TimerDequeue, ReturnTimer,
      SetTime, Tick, vars, historyVars
<1>3. CASE \/ Dequeue \/ AddPending \/ EndPending \/ NoMarket \/ Discard \/ Save
           \/ \E i \in 1 .. 3 : ReturnPiped(i)
           \/ ReturnNothing
  BY <1>1, <1>3
  DEF Dequeue, AddPending, EndPending, NoMarket, Discard, Save, ReturnPiped,
      ReturnNothing, historyVars
<1> QED
  BY <1>2, <1>3, AttachStep, ForwardStep DEF Next, BusStep

\* Only events of market queues are put aside.
LEMMA SavedIsMarketStep ==
  ASSUME TypeOK, HeapMembership, RightPipe, SavedIsMarket, [Next]_vars
  PROVE  SavedIsMarket'
<1>1. CASE UNCHANGED saved
  BY <1>1 DEF SavedIsMarket
<1>2. CASE Save
  <2> DEFINE q == PipeMin("market")
  <2>1. q \in Queue /\ Category[q] = "market" /\ content[q] # <<>>
    BY <1>2, ServedIsInHeap DEF Save, FetchesMarket
  <2>2. 1 \in DOMAIN content[q] /\ Head(content[q]) = content[q][1]
    BY <2>1 DEF TypeOK
  <2>3. EventCategory[Head(content[q])] = "market"
    BY <2>1, <2>2 DEF RightPipe
  <2>4. saved' = Head(content[q])
    BY <1>2 DEF Save
  <2> QED
    BY <2>3, <2>4 DEF SavedIsMarket
<1>3. CASE ReturnSaved
  BY <1>3 DEF ReturnSaved, SavedIsMarket
<1>4. CASE \/ \E q \in Queue, e \in Event : Push(q, e)
           \/ \E q \in Queue : AddQueue(q) \/ RemoveQueue(q)
           \/ \E t \in Timer : (\E x \in Time : AddTimer(t, x)) \/ RemoveTimer(t)
           \/ \E k \in Clocks : TimerDequeue(k) \/ ReturnTimer(k) \/ SetTime(k)
           \/ Tick \/ Attach \/ UNCHANGED vars
  BY <1>1, <1>4
  DEF Push, AddQueue, RemoveQueue, AddTimer, RemoveTimer, TimerDequeue, ReturnTimer,
      SetTime, Tick, Attach, vars
<1>5. CASE \/ Dequeue \/ AddPending \/ EndPending \/ NoMarket \/ Discard
           \/ \E i \in 1 .. 3 : ReturnPiped(i)
           \/ ReturnNothing
  BY <1>1, <1>5
  DEF Dequeue, AddPending, EndPending, NoMarket, Discard, ReturnPiped, ReturnNothing
<1> QED
  BY <1>2, <1>3, <1>4, <1>5 DEF Next, BusStep

\* What an attached queue ends with is a subsequence.
LEMMA ForwardInvSuffices == TypeOK /\ ForwardInv => ForwardedOnce
<1>0. TypeOK => DOMAIN attached = 1 .. Len(attached)
  BY DEF TypeOK
<1> SUFFICES ASSUME TypeOK, ForwardInv, NEW i \in 1 .. Len(attached)
             PROVE
        /\ \A m, n \in DOMAIN attached[i] : attached[i][m] = attached[i][n] => m = n
        /\ \A e \in Range(attached[i]) :
              e \in done /\ EventCategory[e] = "market" /\ EventType[e] # "queue"
        /\ \A j \in 1 .. i - 1 :
              LET n == Len(attached[j]) IN
              n < AttachCapacity =>
                /\ Len(attached[i]) <= n
                /\ attached[i] = SubSeq(attached[j], n - Len(attached[i]) + 1, n)
  BY <1>0, Zenon DEF ForwardedOnce
<1>1. attached[i] \in Seq(Event) /\ DOMAIN attached[i] = 1 .. Len(attached[i])
  BY DEF TypeOK
<1>2. \A m, n \in DOMAIN attached[i] : attached[i][m] = attached[i][n] => m = n
  BY <1>1 DEF ForwardInv
<1>3. \A e \in Range(attached[i]) :
        e \in done /\ EventCategory[e] = "market" /\ EventType[e] # "queue"
  BY <1>1 DEF ForwardInv, Range
<1>4. ASSUME NEW j \in 1 .. i - 1, Len(attached[j]) < AttachCapacity
      PROVE  /\ Len(attached[i]) <= Len(attached[j])
             /\ attached[i]
                  = SubSeq(attached[j], Len(attached[j]) - Len(attached[i]) + 1,
                           Len(attached[j]))
  <2> DEFINE k == Len(attached[j]) - Len(attached[i])
  <2>1. j \in 1 .. Len(attached)
    BY DEF TypeOK
  <2>2. attached[j] \in Seq(Event)
    BY <2>1 DEF TypeOK
  <2>3. EndsWith(attached[j], attached[i])
    BY <1>4 DEF ForwardInv
  <2>4. Len(attached[i]) \in Nat /\ Len(attached[j]) \in Nat
    BY <1>1, <2>2
  <2>5. k \in Nat /\ Len(attached[j]) - k = Len(attached[i])
    <3>1. ASSUME NEW a \in Nat, NEW b \in Nat, a <= b
          PROVE  b - a \in Nat /\ b - (b - a) = a
      BY <3>1
    <3>2. Len(attached[i]) <= Len(attached[j])
      BY <2>3 DEF EndsWith
    <3> QED
      BY <2>4, <3>1, <3>2
  <2>6. \A m \in 1 .. Len(attached[i]) : attached[i][m] = attached[j][k + m]
    BY <2>3 DEF EndsWith
  <2>7. attached[i] = SubSeq(attached[j], k + 1, Len(attached[j]))
    <3> HIDE DEF k
    <3> QED
      BY <1>1, <2>2, <2>5, <2>6, EndIsSubSeq
  <2> QED
    BY <2>3, <2>7 DEF EndsWith
<1> QED
  BY <1>2, <1>3, <1>4

\* An attached queue gets every event the bus returns from the market at most
\* once, never a queue's opening or closing, and two attached queues get the
\* same events in the same order as long as the first has room
\* (bus_simualtion_dequeue).
THEOREM ForwardedAtMostOnce == Spec => []ForwardedOnce
<1>1. Init => Ledger /\ SavedIsMarket /\ ForwardInv
  <2>1. Init => SavedIsMarket
    BY DEF Init, SavedIsMarket
  <2>2. ASSUME Init PROVE ForwardInv
    <3>1. 1 .. Len(attached) = {}
      BY <2>2 DEF Init
    <3> QED
      BY <3>1 DEF ForwardInv
  <2> QED
    BY <2>1, <2>2, InitLedger
<1>2. ClockInv => TypeOK /\ HeapMembership /\ RightPipe
  BY DEF ClockInv, OrderInv, HeapInv
<1>3. Ledger /\ SavedIsMarket /\ ForwardInv /\ ClockInv /\ [Next]_vars
        => Ledger' /\ SavedIsMarket' /\ ForwardInv'
  BY <1>2, LedgerStep, SavedIsMarketStep, ForwardInvStep
<1>4. Spec => [](Ledger /\ SavedIsMarket /\ ForwardInv)
  BY <1>1, <1>3, ClockInvariance, PTL DEF Spec
<1>5. TypeOK /\ ForwardInv => ForwardedOnce
  BY ForwardInvSuffices
<1> QED
  BY <1>2, <1>4, <1>5, ClockInvariance, PTL
=============================================================================
