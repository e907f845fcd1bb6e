-------------------------------- MODULE Heap --------------------------------
(***************************************************************************)
(* The pointer heap of base/heap-inl.h: a binary tree whose nodes are      *)
(* embedded in queues and timers.  The i-th node counted row by row hangs  *)
(* below the (i \div 2)-th, left if i is even; the code follows the bits   *)
(* of i down from the root, At follows them up from i.                     *)
(***************************************************************************)
EXTENDS Integers, FiniteSets, Memory

CONSTANTS
    Node,   \* struct heap_node
    Key     \* Key[x]: what less_than compares

HeapAssumption ==
    /\ IsFiniteSet(Node) /\ {NULL, Junk} \cap Node = {} /\ NULL # Junk
    /\ Key \in [Node -> Int]

VARIABLE heap  \* [min, nelts] of the heap; left, right and parent of the nodes

Size == Cardinality(Node)

less_than(x, y) == Key[x] < Key[y]

\* heap_init
HeapInit ==
    LET none == [x \in Node |-> Junk]
    IN  heap = [min |-> NULL, nelts |-> 0,
                left |-> none, right |-> none, parent |-> none]

\* The slot of the i-th node: where the paths of insert and remove lead.
At(h, i) ==
    LET at[n \in 1 .. Size + 1] ==
            IF n = 1 THEN h.min
            ELSE IF n % 2 = 0 THEN h.left[at[n \div 2]]
            ELSE h.right[at[n \div 2]]
    IN  at[i]

\* Write x to the slot of the i-th node.
PutAt(h, i, x) ==
    IF i = 1 THEN [h EXCEPT !.min = x]
    ELSE IF i % 2 = 0 THEN [h EXCEPT !.left[At(h, i \div 2)] = x]
    ELSE [h EXCEPT !.right[At(h, i \div 2)] = x]

Children(h, x) == {h.left[x], h.right[x]} \ {NULL}

\* Mutant: the grandchildren keep their parent.
SwapKeepingParents(h, p, c) ==
    LET up == h.parent[p]
        onLeft == h.left[p] = c
    IN  [min |-> IF up = NULL THEN c ELSE h.min,
         nelts |-> h.nelts,
         left |-> [x \in Node |->
            CASE x = p -> h.left[c]
              [] x = c -> IF onLeft THEN p ELSE h.left[p]
              [] OTHER -> IF x = up /\ h.left[x] = p THEN c ELSE h.left[x]],
         right |-> [x \in Node |->
            CASE x = p -> h.right[c]
              [] x = c -> IF onLeft THEN h.right[p] ELSE p
              [] OTHER -> IF x = up /\ h.left[x] # p THEN c ELSE h.right[x]],
         parent |-> [x \in Node |->
            CASE x = p -> c
              [] x = c -> up
              [] OTHER -> IF x \in Children(h, p) THEN c ELSE h.parent[x]]]

\* heap_node_swap: child c moves up to the place of its parent p.
Swap(h, p, c) ==
    [SwapKeepingParents(h, p, c) EXCEPT
        !.parent = [x \in Node |-> IF x \in Children(h, c) THEN p ELSE @[x]]]

\* While x is less than its parent the two change places.
Rise(h, x) ==
    LET up[k \in 0 .. Size] ==
            IF k = 0 THEN h
            ELSE LET g == up[k - 1]
                 IN  IF g.parent[x] # NULL /\ less_than(x, g.parent[x])
                     THEN Swap(g, g.parent[x], x)
                     ELSE g
    IN  up[Size]

Smallest(h, x) ==
    LET l == h.left[x]
        r == h.right[x]
        s == IF l # NULL /\ less_than(l, x) THEN l ELSE x
    IN  IF r # NULL /\ less_than(r, s) THEN r ELSE s

\* While a child is less than x the smallest one takes its place.
Sink(h, x) ==
    LET down[k \in 0 .. Size] ==
            IF k = 0 THEN h
            ELSE LET g == down[k - 1]
                     s == Smallest(g, x)
                 IN  IF s = x THEN g ELSE Swap(g, x, s)
    IN  down[Size]

\* heap_insert
heap_insert(h, x) ==
    LET i == h.nelts + 1
        reset == [h EXCEPT !.left[x] = NULL, !.right[x] = NULL]
        below == IF i = 1 THEN h.min ELSE At(reset, i \div 2)
    IN  Rise([PutAt(reset, i, x) EXCEPT !.parent[x] = below, !.nelts = i], x)

\* c has the links of x and x's children below it, but nobody above knows.
TakeLinks(h, x, c) ==
    LET g == [h EXCEPT !.left[c] = h.left[x], !.right[c] = h.right[x],
                       !.parent[c] = h.parent[x]]
    IN  [g EXCEPT !.parent =
            [y \in Node |-> IF y \in Children(h, x) THEN c ELSE g.parent[y]]]

\* Node c takes the place of node x.
TakePlace(h, x, c) ==
    LET up == h.parent[x]
        g == TakeLinks(h, x, c)
    IN  IF up = NULL THEN [g EXCEPT !.min = c]
        ELSE IF g.left[up] = x THEN [g EXCEPT !.left[up] = c]
        ELSE [g EXCEPT !.right[up] = c]

\* Mutant: the node that fills the gap only moves down.
SettleDown(h, c) == Sink(h, c)

\* The last node of the bottom row came from anywhere: it may have to sink,
\* or, coming from another branch, to rise.
Settle(h, c) == Rise(Sink(h, c), c)

\* What the links of a node that has left say matters to nobody.
Forget(h, x) == [h EXCEPT !.left[x] = Junk, !.right[x] = Junk, !.parent[x] = Junk]

\* heap_remove
heap_remove(h, x) ==
    IF h.nelts = 0 THEN h
    ELSE LET i == h.nelts
             last == At(h, i)
             g == [PutAt(h, i, NULL) EXCEPT !.nelts = i - 1]
         IN  Forget(IF last = x THEN g ELSE Settle(TakePlace(g, x, last), last), x)

Members == {At(heap, i) : i \in 1 .. heap.nelts}

\* heap_dequeue, which does nothing to an empty heap.
DequeueNode == heap' = heap_remove(heap, heap.min)

InsertNode(x) == x \notin Members /\ heap' = heap_insert(heap, x)
RemoveNode(x) == x \in Members /\ heap' = heap_remove(heap, x)

HeapNext == DequeueNode \/ \E x \in Node : InsertNode(x) \/ RemoveNode(x)

HeapSpec == HeapInit /\ [][HeapNext]_heap

-----------------------------------------------------------------------------
(* Properties. *)

\* The nodes fill the tree row by row: every one of the first nelts slots
\* holds a node of its own and the slots below them hold none.
Complete ==
    /\ Cardinality(Members) = heap.nelts
    /\ NULL \notin Members
    /\ \A x \in Members : Children(heap, x) \subseteq Members
    /\ heap.nelts = 0 => heap.min = NULL

\* The way up is the way down: insert and remove climb by parent links what
\* they reach by child links, and a removal writes through the parent link.
ParentsMatch ==
    \A i \in 1 .. heap.nelts :
        heap.parent[At(heap, i)] =
            IF i = 1 THEN NULL ELSE At(heap, i \div 2)

\* No node is less than its parent, the node that a removal moves across the
\* tree included.
HeapOrder ==
    \A i \in 2 .. heap.nelts : ~less_than(At(heap, i), At(heap, i \div 2))

\* A whole heap; nothing else says what the links may hold.
WholeHeap == Complete /\ ParentsMatch /\ HeapOrder

Abstract == INSTANCE MinSet WITH members <- Members, least <- heap.min

\* Every insertion and removal changes exactly the node it is about and
\* leaves a least node at the root.
ImplementsMinSet == Abstract!Spec
=============================================================================
