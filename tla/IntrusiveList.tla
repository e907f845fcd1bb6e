--------------------------- MODULE IntrusiveList ----------------------------
(***************************************************************************)
(* The circular doubly linked lists of base/queue.h: heads and elements    *)
(* are nodes with a next and a prev field, and every operation is          *)
(* a handful of assignments to fields of fields.  The fields of a node     *)
(* that is in no list keep what they had.  QUEUE_FOREACH walks a list      *)
(* while its body may take out the element it stands on.                   *)
(***************************************************************************)
EXTENDS Integers, Sequences, SequencesExt, FiniteSets, Memory

CONSTANTS
    Heads,      \* nodes used as heads
    Elem        \* nodes used as elements

QueueNode == Heads \cup Elem

ListAssumption == Heads \cap Elem = {} /\ NULL \notin QueueNode

VARIABLES
    next, prev, \* the two words of a QUEUE
    seqOf,      \* history: the elements each head should have; none if it is not a list
    walk,       \* QUEUE_FOREACH: the head and the element it stands on
    seen        \* history: what the walk has met and has to meet

listVars == <<next, prev, seqOf, walk, seen>>
links == [next |-> next, prev |-> prev]

NoWalk == [head |-> NULL, at |-> NULL]

\* Memory that has not been initialised, and no list.
ListInit ==
    /\ next = [n \in QueueNode |-> NULL] /\ prev = [n \in QueueNode |-> NULL]
    /\ seqOf = <<>> /\ walk = NoWalk /\ seen = [met |-> <<>>, all |-> <<>>]

\* One assignment: a field of the node that an expression has found.
Next_(l, n, v) == [l EXCEPT !.next[n] = v]
Prev_(l, n, v) == [l EXCEPT !.prev[n] = v]

\* QUEUE_INIT
Inited(l, q) == Prev_(Next_(l, q, q), q, q)

\* QUEUE_INSERT_HEAD
InsertedHead(l, h, q) ==
    LET l1 == Prev_(Next_(l, q, l.next[h]), q, h)
    IN  Next_(Prev_(l1, l1.next[q], q), h, q)

\* QUEUE_INSERT_TAIL
InsertedTail(l, h, q) ==
    LET l1 == Prev_(Next_(l, q, h), q, l.prev[h])
    IN  Prev_(Next_(l1, l1.prev[q], q), h, q)

\* QUEUE_REMOVE: the node's own fields stay.
Removed(l, q) ==
    LET l1 == Next_(l, l.prev[q], l.next[q])
    IN  Prev_(l1, l1.next[q], l1.prev[q])

\* Mutant: the two last assignments change places.
AddedSwapped(l, h, n) ==
    LET l1 == Next_(l, l.prev[h], l.next[n])
        l2 == Prev_(l1, l1.next[n], l1.prev[h])
        l3 == Next_(l2, l2.prev[h], h)
    IN  Prev_(l3, h, l3.prev[n])

\* QUEUE_ADD: the elements of n at the end of h; n itself is a list no more.
Added(l, h, n) ==
    LET l1 == Next_(l, l.prev[h], l.next[n])
        l2 == Prev_(l1, l1.next[n], l1.prev[h])
        l3 == Prev_(l2, h, l2.prev[n])
    IN  Next_(l3, l3.prev[h], h)

\* QUEUE_SPLIT: what begins at q goes from h to n.
Split(l, h, q, n) ==
    LET l1 == Prev_(l, n, l.prev[h])
        l2 == Next_(l1, l1.prev[n], n)
        l3 == Next_(l2, n, q)
        l4 == Prev_(l3, h, l3.prev[q])
        l5 == Next_(l4, l4.prev[h], h)
    IN  Prev_(l5, q, n)

\* QUEUE_EMPTY, QUEUE_MOVE
Empty(l, h) == l.next[h] = h
Moved(l, h, n) == IF Empty(l, h) THEN Inited(l, n) ELSE Split(l, h, l.next[h], n)

-----------------------------------------------------------------------------
(* The operations, as their callers may use them.                          *)

Becomes(l) == next' = l.next /\ prev' = l.prev

IsList(h) == h \in DOMAIN seqOf
Listed == UNION {ToSet(seqOf[h]) : h \in DOMAIN seqOf}
ListsBecome(f) ==         \* the lists of the heads that f names, the others as they were
    seqOf' = [h \in DOMAIN seqOf \cup DOMAIN f |->
                IF h \in DOMAIN f THEN f[h] ELSE seqOf[h]]
One(h, s) == [x \in {h} |-> s]
Both(h, s, n, t) == [x \in {h, n} |-> IF x = h THEN s ELSE t]

\* "mutating the list while QUEUE_FOREACH is iterating over its elements
\* results in undefined behavior": other lists may change.
Still(h) == walk.head # h
Walking == UNCHANGED <<walk, seen>>

QUEUE_INIT(h) ==
    /\ Still(h)
    /\ IsList(h) => seqOf[h] = <<>>
    /\ Becomes(Inited(links, h)) /\ ListsBecome(One(h, <<>>)) /\ Walking

\* An element the walk stands on after it was removed is not inserted yet.
QUEUE_INSERT_HEAD(h, q) ==
    /\ IsList(h) /\ Still(h) /\ q \notin Listed /\ q # walk.at
    /\ Becomes(InsertedHead(links, h, q)) /\ ListsBecome(One(h, <<q>> \o seqOf[h])) /\ Walking

QUEUE_INSERT_TAIL(h, q) ==
    /\ IsList(h) /\ Still(h) /\ q \notin Listed /\ q # walk.at
    /\ Becomes(InsertedTail(links, h, q)) /\ ListsBecome(One(h, Append(seqOf[h], q))) /\ Walking

\* The i-th element; in a walk only the one it stands on.
QUEUE_REMOVE(h, i) ==
    /\ IsList(h) /\ i \in 1 .. Len(seqOf[h]) /\ (Still(h) \/ seqOf[h][i] = walk.at)
    /\ Becomes(Removed(links, seqOf[h][i]))
    /\ ListsBecome(One(h, RemoveAt(seqOf[h], i))) /\ Walking

QUEUE_ADD(h, n) ==
    /\ IsList(h) /\ IsList(n) /\ h # n /\ Still(h) /\ Still(n)
    /\ Becomes(Added(links, h, n))
    /\ seqOf' = [x \in DOMAIN seqOf \ {n} |->
                    IF x = h THEN seqOf[h] \o seqOf[n] ELSE seqOf[x]]
    /\ Walking

QUEUE_SPLIT(h, i, n) ==
    /\ IsList(h) /\ i \in 1 .. Len(seqOf[h]) /\ h # n /\ Still(h) /\ Still(n)
    /\ IsList(n) => seqOf[n] = <<>>
    /\ Becomes(Split(links, h, seqOf[h][i], n))
    /\ ListsBecome(Both(h, SubSeq(seqOf[h], 1, i - 1), n, SubSeq(seqOf[h], i, Len(seqOf[h]))))
    /\ Walking

QUEUE_MOVE(h, n) ==
    /\ IsList(h) /\ h # n /\ Still(h) /\ Still(n)
    /\ IsList(n) => seqOf[n] = <<>>
    /\ Becomes(Moved(links, h, n))
    /\ ListsBecome(IF seqOf[h] = <<>> THEN One(n, <<>>) ELSE Both(h, <<>>, n, seqOf[h]))
    /\ Walking

\* QUEUE_FOREACH: the first step and the following ones; it ends at the head.
Step(h, from) ==
    /\ walk' = IF next[from] = h THEN NoWalk ELSE [head |-> h, at |-> next[from]]
    /\ seen' = IF next[from] = h THEN seen ELSE [seen EXCEPT !.met = Append(@, next[from])]
    /\ UNCHANGED <<next, prev, seqOf>>

ForeachBegin(h) ==
    /\ walk = NoWalk /\ IsList(h) /\ next[h] # h
    /\ walk' = [head |-> h, at |-> next[h]]
    /\ seen' = [met |-> <<next[h]>>, all |-> seqOf[h]]
    /\ UNCHANGED <<next, prev, seqOf>>

ForeachNext == walk # NoWalk /\ Step(walk.head, walk.at)

ListNext ==
    \/ \E h \in Heads :
        \/ QUEUE_INIT(h) \/ ForeachBegin(h)
        \/ \E q \in Elem : QUEUE_INSERT_HEAD(h, q) \/ QUEUE_INSERT_TAIL(h, q)
        \/ \E i \in 1 .. Cardinality(Elem) : QUEUE_REMOVE(h, i)
        \/ \E n \in Heads : QUEUE_ADD(h, n) \/ QUEUE_MOVE(h, n)
                            \/ \E i \in 1 .. Cardinality(Elem) : QUEUE_SPLIT(h, i, n)
    \/ ForeachNext

ListSpec == ListInit /\ [][ListNext]_listVars

-----------------------------------------------------------------------------
(* Properties.                                                             *)

ListTypeOK ==
    /\ next \in [QueueNode -> QueueNode \cup {NULL}] /\ prev \in [QueueNode -> QueueNode \cup {NULL}]
    /\ \A n \in QueueNode : next[n] = NULL <=> prev[n] = NULL
    /\ DOMAIN seqOf \subseteq Heads
    /\ \A h \in DOMAIN seqOf : IsInjective(seqOf[h])
    /\ walk.at \in Elem \cup {NULL} /\ walk.head \in Heads \cup {NULL}

\* Through next the head leads through exactly its elements, in order, and back;
\* through prev through the same in reverse: whatever lists were split, moved
\* or joined, and whatever the fields of unused nodes still hold.
RingsAreTheLists ==
    \A h \in DOMAIN seqOf :
        LET ring == <<h>> \o seqOf[h] \o <<h>>
        IN  \A i \in 1 .. Len(ring) - 1 :
                next[ring[i]] = ring[i + 1] /\ prev[ring[i + 1]] = ring[i]

\* A walk whose body takes out elements it stands on meets every element once,
\* in order, for a node that was removed still points into the list.
WalkMeetsAll ==
    /\ IsPrefix(seen.met, seen.all)
    /\ walk = NoWalk => seen.met = seen.all

\* Lists and walks alike.
ListsHold == RingsAreTheLists /\ WalkMeetsAll
=============================================================================
