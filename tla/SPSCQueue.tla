----------------------------- MODULE SPSCQueue -----------------------------
(***************************************************************************)
(* The lock-free ring buffer of base/spscq.c: one producer thread and one  *)
(* consumer thread, one action per access to a shared location.  A         *)
(* position is written by one thread only, so that thread's own load of it *)
(* commutes with everything the other does and is part of the step that    *)
(* loads the other thread's position; this also makes the unspecified      *)
(* order of the two loads in is_empty, is_full and size immaterial.        *)
(***************************************************************************)
EXTENDS Integers, Sequences

CONSTANTS Capacity,  \* number of slots, one of which always stays empty
          Value,     \* the pointers that are pushed
          NoValue    \* NULL

ASSUME CapacityAssumption == Capacity \in Nat /\ Capacity >= 2
ASSUME ValueAssumption == NoValue \notin Value

VARIABLES
    read_pos,   \* next slot to read: written by the consumer
    write_pos,  \* next slot to write: written by the producer
    records,    \* the slots
    ppc,        \* where the producer is inside spscq_push
    pw,         \* the producer's currentWrite
    pv,         \* the pointer being pushed
    cpc,        \* where the consumer is inside spscq_pop or spscq_peek
    cr,         \* the consumer's currentRead
    push_ret,   \* what the last push returned
    pop_ret,    \* what the last pop returned
    pview,      \* history: the producer knows that size <= pview
    cview,      \* history: the consumer knows that size >= cview
    peeked      \* history: the pointer peeked and not popped since

producerVars == <<write_pos, records, ppc, pw, pv, push_ret, pview>>
consumerVars == <<read_pos, cpc, cr, pop_ret, cview, peeked>>
vars == <<read_pos, write_pos, records, ppc, pw, pv, cpc, cr,
          push_ret, pop_ret, pview, cview, peeked>>

Slot == 0 .. Capacity - 1

\* The next position, wrapping round at the capacity.
NextRecord(i) == IF i + 1 = Capacity THEN 0 ELSE i + 1

IsEmpty(r, w) == r = w

IsFull(r, w) == NextRecord(w) = r

\* Mutant: the negative difference is not corrected.
SizeUncorrected(r, w) == w - r

Size(r, w) == IF w - r < 0 THEN w - r + Capacity ELSE w - r

\* spscq_init; the slots are uninitialised memory.
Init ==
    /\ read_pos = 0
    /\ write_pos = 0
    /\ records \in [Slot -> Value \cup {NoValue}]
    /\ ppc = "idle" /\ pw = 0 /\ pv = NoValue
    /\ cpc = "idle" /\ cr = 0
    /\ push_ret = 0
    /\ pop_ret = NoValue
    /\ pview = 0 /\ cview = 0
    /\ peeked = NoValue

-----------------------------------------------------------------------------
(* The producer. *)

\* Mutant: the ring is never full.
RoomAlways(w, r) == TRUE

\* The producer's load of the read position found room for one more.
RoomFor(w, r) == NextRecord(w) # r

PushBegin(v) ==
    /\ ppc = "idle"
    /\ RoomFor(write_pos, read_pos)
    /\ pw' = write_pos
    /\ pv' = v
    /\ ppc' = "store"
    /\ UNCHANGED <<write_pos, records, push_ret, pview>>
    /\ UNCHANGED consumerVars

PushFull ==
    /\ ppc = "idle"
    /\ ~RoomFor(write_pos, read_pos)
    /\ push_ret' = -1
    /\ UNCHANGED <<write_pos, records, ppc, pw, pv, pview>>
    /\ UNCHANGED consumerVars

PushStore ==
    /\ ppc = "store"
    /\ records' = [records EXCEPT ![pw] = pv]
    /\ ppc' = "publish"
    /\ UNCHANGED <<write_pos, pw, pv, push_ret, pview>>
    /\ UNCHANGED consumerVars

PushPublish ==
    /\ ppc = "publish"
    /\ write_pos' = NextRecord(pw)
    /\ push_ret' = 0
    /\ pview' = IF pview < Capacity - 1 THEN pview + 1 ELSE pview
    /\ ppc' = "idle"
    /\ UNCHANGED <<records, pw, pv>>
    /\ UNCHANGED consumerVars

ProducerIsEmpty ==
    /\ ppc = "idle"
    /\ IsEmpty(read_pos, write_pos)
    /\ pview' = 0
    /\ UNCHANGED <<write_pos, records, ppc, pw, pv, push_ret>>
    /\ UNCHANGED consumerVars

ProducerIsNotFull ==
    /\ ppc = "idle"
    /\ ~IsFull(read_pos, write_pos)
    /\ pview' = IF pview < Capacity - 2 THEN pview ELSE Capacity - 2
    /\ UNCHANGED <<write_pos, records, ppc, pw, pv, push_ret>>
    /\ UNCHANGED consumerVars

ProducerSize ==
    /\ ppc = "idle"
    /\ pview' = Size(read_pos, write_pos)
    /\ UNCHANGED <<write_pos, records, ppc, pw, pv, push_ret>>
    /\ UNCHANGED consumerVars

-----------------------------------------------------------------------------
(* The consumer. *)

PopBegin ==
    /\ cpc = "idle"
    /\ ~IsEmpty(read_pos, write_pos)
    /\ cr' = read_pos
    /\ cpc' = "publish"
    /\ UNCHANGED <<read_pos, pop_ret, cview, peeked>>
    /\ UNCHANGED producerVars

PopEmpty ==
    /\ cpc = "idle"
    /\ IsEmpty(read_pos, write_pos)
    /\ pop_ret' = NoValue
    /\ UNCHANGED <<read_pos, cpc, cr, cview, peeked>>
    /\ UNCHANGED producerVars

\* The slot is given back to the producer before it is read.
PopPublish ==
    /\ cpc = "publish"
    /\ read_pos' = NextRecord(cr)
    /\ cview' = IF cview > 0 THEN cview - 1 ELSE cview
    /\ peeked' = NoValue
    /\ cpc' = "load"
    /\ UNCHANGED <<cr, pop_ret>>
    /\ UNCHANGED producerVars

\* Mutant: the position is read again after it has moved on.
PopLoadNext ==
    /\ cpc = "load"
    /\ pop_ret' = records[read_pos]
    /\ cpc' = "idle"
    /\ UNCHANGED <<read_pos, cr, cview, peeked>>
    /\ UNCHANGED producerVars

PopLoad ==
    /\ cpc = "load"
    /\ pop_ret' = records[cr]
    /\ cpc' = "idle"
    /\ UNCHANGED <<read_pos, cr, cview, peeked>>
    /\ UNCHANGED producerVars

PeekBegin ==
    /\ cpc = "idle"
    /\ ~IsEmpty(read_pos, write_pos)
    /\ cr' = read_pos
    /\ cpc' = "peek"
    /\ UNCHANGED <<read_pos, pop_ret, cview, peeked>>
    /\ UNCHANGED producerVars

PeekLoad ==
    /\ cpc = "peek"
    /\ peeked' = records[cr]
    /\ cpc' = "idle"
    /\ UNCHANGED <<read_pos, cr, pop_ret, cview>>
    /\ UNCHANGED producerVars

ConsumerIsNotEmpty ==
    /\ cpc = "idle"
    /\ ~IsEmpty(read_pos, write_pos)
    /\ cview' = IF cview > 1 THEN cview ELSE 1
    /\ UNCHANGED <<read_pos, cpc, cr, pop_ret, peeked>>
    /\ UNCHANGED producerVars

ConsumerIsFull ==
    /\ cpc = "idle"
    /\ IsFull(read_pos, write_pos)
    /\ cview' = Capacity - 1
    /\ UNCHANGED <<read_pos, cpc, cr, pop_ret, peeked>>
    /\ UNCHANGED producerVars

ConsumerSize ==
    /\ cpc = "idle"
    /\ cview' = Size(read_pos, write_pos)
    /\ UNCHANGED <<read_pos, cpc, cr, pop_ret, peeked>>
    /\ UNCHANGED producerVars

-----------------------------------------------------------------------------
Producer ==
    \/ \E v \in Value : PushBegin(v)
    \/ PushFull \/ PushStore \/ PushPublish
    \/ ProducerIsEmpty \/ ProducerIsNotFull \/ ProducerSize

Consumer ==
    \/ PopBegin \/ PopEmpty \/ PopPublish \/ PopLoad
    \/ PeekBegin \/ PeekLoad
    \/ ConsumerIsNotEmpty \/ ConsumerIsFull \/ ConsumerSize

Next == Producer \/ Consumer

Spec == Init /\ [][Next]_vars

-----------------------------------------------------------------------------
(* Properties. *)

\* The values every variable takes.
TypeOK ==
    /\ read_pos \in Slot /\ write_pos \in Slot
    /\ records \in [Slot -> Value \cup {NoValue}]
    /\ ppc \in {"idle", "store", "publish"}
    /\ pw \in Slot /\ pv \in Value \cup {NoValue}
    /\ ppc # "idle" => pv \in Value
    /\ cpc \in {"idle", "publish", "load", "peek"}
    /\ cr \in Slot
    /\ push_ret \in {0, -1}
    /\ pop_ret \in Value \cup {NoValue}
    /\ pview \in Slot /\ cview \in Slot
    /\ peeked \in Value \cup {NoValue}

\* spscq_pop hands the slot back before it reads it, and spscq_peek reads a
\* slot it does not own exclusively: still, the producer never writes the
\* slot the consumer is reading.
NoSlotRace ==
    ppc = "store" /\ cpc \in {"load", "peek"} => pw # cr

\* An answer of is_empty, is_full or size that a thread acts upon later is
\* still good then: to the producer the queue only gets emptier, to the
\* consumer only fuller.  event_queue_push (ASSERT(ret == 0) after an empty
\* queue) and the bus (ASSERT(e != NULL) after a non-empty one) rely on it.
ViewsBracketSize ==
    /\ cview <= Size(read_pos, write_pos)
    /\ Size(read_pos, write_pos) <= pview

\* The bus orders queues by the event it peeked at; pushes never change what
\* the next pop returns.
PeekedIsHead ==
    peeked # NoValue =>
        /\ ~IsEmpty(read_pos, write_pos)
        /\ records[read_pos] = peeked

\* The slot of the i-th oldest pointer.
SlotOf(r, i) == IF r + i - 1 < Capacity THEN r + i - 1 ELSE r + i - 1 - Capacity

\* The pointers in the queue, oldest first.
Contents == [i \in 1 .. Size(read_pos, write_pos) |-> records[SlotOf(read_pos, i)]]

Handed == IF cpc = "load" THEN records[cr] ELSE NoValue

FIFO == INSTANCE BoundedFIFO
            WITH Limit <- Capacity - 1, queue <- Contents, handed <- Handed

\* The ring buffer is a first-in first-out queue of Capacity - 1 pointers:
\* nothing is lost, duplicated or reordered, a push is refused only when the
\* queue is full and a pop finds nothing only when it is empty.
ImplementsFIFO == FIFO!FIFOSpec
=============================================================================
