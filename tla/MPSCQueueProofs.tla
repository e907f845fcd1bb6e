-------------------------- MODULE MPSCQueueProofs ---------------------------
(***************************************************************************)
(* Proofs about the lock-free list, for every set of producers and of      *)
(* nodes: however the exchanges and the links of the pushes interleave     *)
(* with a pop, the list stays whole and its nodes come out in order.       *)
(***************************************************************************)
EXTENDS MPSCQueue, SequenceTheorems, TLAPS

-----------------------------------------------------------------------------
(* The list as a sequence without repetition. *)

\* a is in the list s.
In(s, a) == \E i \in 1 .. Len(s) : s[i] = a

\* b stands just behind a in the list s.
Behind(s, a, b) == \E i \in 1 .. Len(s) - 1 : s[i] = a /\ s[i + 1] = b

\* A list has a node, and none twice.
Lists == {s \in Seq(AllNodes) :
            Len(s) > 0 /\ \A i, j \in 1 .. Len(s) : s[i] = s[j] => i = j}

First(s) == s[1]
LastOf(s) == s[Len(s)]

\* In a list a node stands behind one other node, and one stands behind it.
LEMMA PlacesInList ==
  ASSUME NEW s \in Lists
  PROVE  /\ Len(s) \in Nat \ {0} /\ s \in Seq(AllNodes) /\ s # <<>>
         /\ First(s) \in AllNodes /\ In(s, First(s))
         /\ LastOf(s) \in AllNodes /\ In(s, LastOf(s))
         /\ \A a : In(s, a) => a \in AllNodes
         /\ \A a, b : Behind(s, a, b) =>
              a # b /\ In(s, a) /\ In(s, b) /\ a # LastOf(s) /\ b # First(s)
         /\ \A a, b, c : Behind(s, a, b) /\ Behind(s, a, c) => b = c
         /\ \A a, b, c : Behind(s, a, c) /\ Behind(s, b, c) => a = b
         /\ First(s) = LastOf(s) => \A a : In(s, a) => a = First(s)
         /\ First(s) # LastOf(s) => Len(s) >= 2 /\ Behind(s, First(s), s[2])
<1> DEFINE L == Len(s)
<1>1. /\ L \in Nat \ {0} /\ s # <<>>
      /\ \A i \in 1 .. L : s[i] \in AllNodes
      /\ \A i, j \in 1 .. L : s[i] = s[j] => i = j
  <2>1. s \in Seq(AllNodes) /\ L > 0 /\ \A i, j \in 1 .. L : s[i] = s[j] => i = j
    BY DEF Lists
  <2>2. L \in Nat /\ \A i \in 1 .. L : s[i] \in AllNodes
    BY <2>1, LenProperties, ElementOfSeq
  <2>3. s # <<>>
    BY <2>1
  <2> QED
    BY <2>1, <2>2, <2>3
<1> HIDE DEF L
<1>2. 1 \in 1 .. L /\ L \in 1 .. L
  BY <1>1
<1>3. /\ First(s) \in AllNodes /\ In(s, First(s))
      /\ LastOf(s) \in AllNodes /\ In(s, LastOf(s))
      /\ \A a : In(s, a) => a \in AllNodes
  BY <1>1, <1>2 DEF In, First, LastOf, L
<1>4. ASSUME NEW a, NEW b, Behind(s, a, b)
      PROVE  a # b /\ In(s, a) /\ In(s, b) /\ a # LastOf(s) /\ b # First(s)
  <2>1. PICK i \in 1 .. L - 1 : s[i] = a /\ s[i + 1] = b
    BY <1>4 DEF Behind, L
  <2>2. i \in 1 .. L /\ i + 1 \in 1 .. L /\ i # i + 1 /\ i # L /\ i + 1 # 1
    BY <1>1, <2>1
  <2> QED
    BY <1>1, <1>2, <2>1, <2>2 DEF In, First, LastOf, L
<1>5. ASSUME NEW a, NEW b, NEW c, Behind(s, a, b), Behind(s, a, c) PROVE b = c
  <2>1. PICK i \in 1 .. L - 1 : s[i] = a /\ s[i + 1] = b
    BY <1>5 DEF Behind, L
  <2>2. PICK j \in 1 .. L - 1 : s[j] = a /\ s[j + 1] = c
    BY <1>5 DEF Behind, L
  <2>3. i \in 1 .. L /\ j \in 1 .. L
    BY <1>1
  <2>4. i = j
    BY <1>1, <2>1, <2>2, <2>3
  <2> QED
    BY <2>1, <2>2, <2>4
<1>6. ASSUME NEW a, NEW b, NEW c, Behind(s, a, c), Behind(s, b, c) PROVE a = b
  <2>1. PICK i \in 1 .. L - 1 : s[i] = a /\ s[i + 1] = c
    BY <1>6 DEF Behind, L
  <2>2. PICK j \in 1 .. L - 1 : s[j] = b /\ s[j + 1] = c
    BY <1>6 DEF Behind, L
  <2>3. i + 1 \in 1 .. L /\ j + 1 \in 1 .. L
    BY <1>1
  <2>4. i + 1 = j + 1
    BY <1>1, <2>1, <2>2, <2>3
  <2>5. i = j
    BY <1>1, <2>4
  <2> QED
    BY <2>1, <2>2, <2>5
<1>7. First(s) = LastOf(s) => \A a : In(s, a) => a = First(s)
  <2> SUFFICES ASSUME First(s) = LastOf(s), NEW a, In(s, a) PROVE a = First(s)
    OBVIOUS
  <2>1. L = 1
    BY <1>1, <1>2 DEF First, LastOf, L
  <2>2. PICK i \in 1 .. L : s[i] = a
    BY DEF In, L
  <2>3. i = 1
    BY <2>1
  <2> QED
    BY <2>2, <2>3 DEF First
<1>8. ASSUME First(s) # LastOf(s) PROVE L >= 2 /\ Behind(s, First(s), s[2])
  <2>1. L # 1
    BY <1>8 DEF First, LastOf, L
  <2>2. L >= 2 /\ 1 \in 1 .. L - 1 /\ 1 + 1 = 2
    BY <1>1, <2>1
  <2> QED
    BY <2>2 DEF Behind, First, L
<1> QED
  BY <1>1, <1>3, <1>4, <1>5, <1>6, <1>7, <1>8 DEF L, Lists

\* A new node at the end of a list.
LEMMA ListOfAppend ==
  ASSUME NEW s \in Lists, NEW n \in AllNodes, ~In(s, n)
  PROVE  /\ Append(s, n) \in Lists
         /\ First(Append(s, n)) = First(s) /\ LastOf(Append(s, n)) = n
         /\ \A a : In(Append(s, n), a) <=> In(s, a) \/ a = n
         /\ \A a, b : Behind(Append(s, n), a, b) <=>
              Behind(s, a, b) \/ (a = LastOf(s) /\ b = n)
<1> DEFINE L == Len(s)
           t == Append(s, n)
           K == Len(t)
<1>1. /\ t \in Seq(AllNodes) /\ K = L + 1 /\ L \in Nat \ {0}
      /\ \A i \in 1 .. L : t[i] = s[i]
      /\ t[L + 1] = n
      /\ \A i, j \in 1 .. L : s[i] = s[j] => i = j
      /\ \A i \in 1 .. L : s[i] # n
  BY PlacesInList DEF Lists, In
<1> HIDE DEF L, t, K
<1>2. t \in Lists
  <2>1. ASSUME NEW i \in 1 .. K, NEW j \in 1 .. K, t[i] = t[j] PROVE i = j
    <3>1. (i \in 1 .. L \/ i = L + 1) /\ (j \in 1 .. L \/ j = L + 1)
      BY <1>1
    <3> QED
      BY <1>1, <2>1, <3>1
  <2>2. K > 0
    BY <1>1
  <2> QED
    BY <1>1, <2>1, <2>2 DEF Lists, K
<1>3. First(t) = First(s) /\ LastOf(t) = n
  <2>1. 1 \in 1 .. L
    BY <1>1
  <2> QED
    BY <1>1, <2>1 DEF First, LastOf, K
<1>4. ASSUME NEW a PROVE In(t, a) <=> In(s, a) \/ a = n
  <2>1. \A i : i \in 1 .. K <=> i \in 1 .. L \/ i = L + 1
    BY <1>1
  <2> QED
    BY <1>1, <2>1 DEF In, K, L
<1>5. ASSUME NEW a, NEW b
      PROVE  Behind(t, a, b) <=> Behind(s, a, b) \/ (a = LastOf(s) /\ b = n)
  <2>1. \A i : i \in 1 .. K - 1 <=> i \in 1 .. L - 1 \/ i = L
    BY <1>1
  <2>2. \A i \in 1 .. L - 1 : i \in 1 .. L /\ i + 1 \in 1 .. L
    BY <1>1
  <2>3. L \in 1 .. L
    BY <1>1
  <2> QED
    BY <1>1, <2>1, <2>2, <2>3 DEF Behind, K, L, LastOf
<1> QED
  BY <1>2, <1>3, <1>4, <1>5 DEF t

\* A list without its first node.
LEMMA ListOfTail ==
  ASSUME NEW s \in Lists, First(s) # LastOf(s)
  PROVE  LET t == SubSeq(s, 2, Len(s))
         IN  /\ t \in Lists /\ t = Tail(s)
             /\ First(t) = s[2] /\ LastOf(t) = LastOf(s)
             /\ \A a : In(t, a) <=> In(s, a) /\ a # First(s)
             /\ \A a, b : Behind(t, a, b) <=> Behind(s, a, b) /\ a # First(s)
<1> DEFINE L == Len(s)
           t == SubSeq(s, 2, Len(s))
           K == Len(t)
<1>1. /\ t = Tail(s) /\ t \in Seq(AllNodes) /\ L \in Nat /\ L >= 2 /\ K = L - 1
      /\ \A i \in 1 .. L - 1 : t[i] = s[i + 1]
      /\ \A i, j \in 1 .. L : s[i] = s[j] => i = j
  <2>1. s # <<>> /\ s \in Seq(AllNodes) /\ Len(s) \in Nat /\ Len(s) >= 2
    BY PlacesInList
  <2>2. t = Tail(s)
    BY <2>1, TailIsSubSeq
  <2>3. /\ Tail(s) \in Seq(AllNodes) /\ Len(Tail(s)) = Len(s) - 1
        /\ \A i \in 1 .. Len(Tail(s)) : Tail(s)[i] = s[i + 1]
    BY <2>1, HeadTailProperties
  <2> HIDE DEF t
  <2> QED
    BY <2>1, <2>2, <2>3 DEF Lists
<1> HIDE DEF L, t, K
<1>2. t \in Lists
  <2>1. ASSUME NEW i \in 1 .. K, NEW j \in 1 .. K, t[i] = t[j] PROVE i = j
    <3>1. i + 1 \in 1 .. L /\ j + 1 \in 1 .. L /\ i \in 1 .. L - 1 /\ j \in 1 .. L - 1
      BY <1>1
    <3>2. i + 1 = j + 1
      BY <1>1, <2>1, <3>1
    <3> QED
      BY <1>1, <3>2
  <2>2. K > 0
    BY <1>1
  <2> QED
    BY <1>1, <2>1, <2>2 DEF Lists, K
<1>3. First(t) = s[2] /\ LastOf(t) = LastOf(s)
  <2>1. 1 \in 1 .. L - 1 /\ K \in 1 .. L - 1 /\ K + 1 = L /\ 1 + 1 = 2
    BY <1>1
  <2>2. t[1] = s[2] /\ t[K] = s[L]
    BY <1>1, <2>1
  <2> QED
    BY <2>2 DEF First, LastOf, K, L
<1>4. ASSUME NEW a PROVE In(t, a) <=> In(s, a) /\ a # First(s)
  <2>1. ASSUME In(t, a) PROVE In(s, a) /\ a # First(s)
    <3>1. PICK i \in 1 .. K : t[i] = a
      BY <2>1 DEF In, K
    <3>2. i \in 1 .. L - 1 /\ i + 1 \in 1 .. L /\ 1 \in 1 .. L /\ i + 1 # 1
      BY <1>1
    <3>3. s[i + 1] = a
      BY <1>1, <3>1, <3>2
    <3> QED
      BY <1>1, <3>2, <3>3 DEF In, First, L
  <2>2. ASSUME In(s, a), a # First(s) PROVE In(t, a)
    <3>1. PICK i \in 1 .. L : s[i] = a
      BY <2>2 DEF In, L
    <3>2. i # 1
      BY <2>2, <3>1 DEF First
    <3>3. i - 1 \in 1 .. L - 1 /\ (i - 1) + 1 = i
      BY <1>1, <3>2
    <3>4. t[i - 1] = a /\ i - 1 \in 1 .. K
      BY <1>1, <3>1, <3>3
    <3> QED
      BY <3>4 DEF In, K
  <2> QED
    BY <2>1, <2>2
<1>5. ASSUME NEW a, NEW b
      PROVE  Behind(t, a, b) <=> Behind(s, a, b) /\ a # First(s)
  <2>1. ASSUME Behind(t, a, b) PROVE Behind(s, a, b) /\ a # First(s)
    <3>1. PICK i \in 1 .. K - 1 : t[i] = a /\ t[i + 1] = b
      BY <2>1 DEF Behind, K
    <3>2. /\ i \in 1 .. L - 1 /\ i + 1 \in 1 .. L - 1
          /\ i + 1 \in 1 .. L /\ 1 \in 1 .. L /\ i + 1 # 1
      BY <1>1
    <3>3. s[i + 1] = a /\ s[(i + 1) + 1] = b
      BY <1>1, <3>1, <3>2
    <3> QED
      BY <1>1, <3>2, <3>3 DEF Behind, First, L
  <2>2. ASSUME Behind(s, a, b), a # First(s) PROVE Behind(t, a, b)
    <3>1. PICK i \in 1 .. L - 1 : s[i] = a /\ s[i + 1] = b
      BY <2>2 DEF Behind, L
    <3>2. i # 1
      BY <2>2, <3>1 DEF First
    <3> DEFINE j == i - 1
    <3>3. j \in 1 .. L - 1 /\ j \in 1 .. K - 1 /\ j + 1 = i
      BY <1>1, <3>2
    <3> HIDE DEF j
    <3>4. t[j] = a /\ t[j + 1] = b
      BY <1>1, <3>1, <3>3
    <3> QED
      BY <3>3, <3>4 DEF Behind, K
  <2> QED
    BY <2>1, <2>2
<1> QED
  BY <1>1, <1>2, <1>3, <1>4, <1>5 DEF t

-----------------------------------------------------------------------------
(* The inductive invariant. *)

\* The consumer's end and the producers' end are the two ends of the list, which
\* holds exactly the nodes that are not with their owners.
Ends ==
    /\ chain \in Lists
    /\ tail = First(chain) /\ head = LastOf(chain)
    /\ next[head] = NULL
    /\ \A n \in Node : n \in free <=> ~In(chain, n)

\* Somebody is about to write the link from a to b.
Awaited(a, b) ==
    \/ \E p \in Producer : Linking(p) /\ pprev[p] = a /\ pnode[p] = b
    \/ cpc = "link" /\ cprev = a /\ Sentinel = b

\* A link is there, or on its way.
Links ==
    \A a, b \in AllNodes :
        Behind(chain, a, b) => next[a] = b \/ (next[a] = NULL /\ Awaited(a, b))

\* A link on its way belongs into the list, and is not there yet.
Pushes ==
    /\ \A p \in Producer :
        Linking(p) => Behind(chain, pprev[p], pnode[p]) /\ next[pprev[p]] = NULL
    /\ cpc = "link" => Behind(chain, cprev, Sentinel) /\ next[cprev] = NULL
    /\ \A p, q \in Producer : Linking(p) /\ Linking(q) /\ pnode[p] = pnode[q] => p = q

\* Inside a pop the first node is one of the owners'; the sentinel is pushed when
\* it is not in the list.
Phase ==
    /\ cpc # "idle" => tail # Sentinel
    /\ cpc = "swap" => ~In(chain, Sentinel)

IInv == TypeOK /\ Ends /\ Links /\ Pushes /\ Phase

\* At the start the list is the sentinel.
LEMMA InitIInv ==
  ASSUME NodeAssumption, Init PROVE IInv
<1> DEFINE s == <<Sentinel>>
<1>1. /\ s \in Seq(AllNodes) /\ Len(s) = 1 /\ s[1] = Sentinel
  BY DEF AllNodes
<1> HIDE DEF s
<1>2. s \in Lists
  <2>1. ASSUME NEW i \in 1 .. Len(s), NEW j \in 1 .. Len(s) PROVE i = j
    BY <1>1
  <2>2. Len(s) > 0
    BY <1>1
  <2> QED
    BY <1>1, <2>1, <2>2, Zenon DEF Lists
<1>3. First(s) = Sentinel /\ LastOf(s) = Sentinel
  BY <1>1 DEF First, LastOf
<1>4. \A a : In(s, a) <=> a = Sentinel
  BY <1>1 DEF In
<1>5. \A a, b : ~Behind(s, a, b)
  BY <1>1 DEF Behind
<1>6. chain = s
  BY DEF Init, s
<1>7. TypeOK
  BY <1>1, <1>6 DEF Init, TypeOK, AllNodes
<1>8. Ends
  BY <1>2, <1>3, <1>4, <1>6 DEF Init, Ends, NodeAssumption
<1>9. Links /\ Pushes /\ Phase
  BY <1>5, <1>6 DEF Init, Links, Pushes, Phase, Linking
<1> QED
  BY <1>7, <1>8, <1>9 DEF IInv

\* The first node has a next when a second one is in the list and linked.
LEMMA NextOfFirst ==
  ASSUME NodeAssumption, IInv, next[tail] # NULL
  PROVE  /\ First(chain) # LastOf(chain) /\ tail = First(chain)
         /\ next[tail] = chain[2] /\ Behind(chain, tail, chain[2])
<1>1. chain \in Lists /\ tail = First(chain) /\ head = LastOf(chain) /\ next[head] = NULL
  BY DEF IInv, Ends
<1>2. First(chain) # LastOf(chain)
  BY <1>1
<1>3. Behind(chain, tail, chain[2]) /\ tail \in AllNodes /\ chain[2] \in AllNodes
  BY <1>1, <1>2, PlacesInList
<1>4. next[tail] = chain[2]
  BY <1>3 DEF IInv, Links
<1> QED
  BY <1>1, <1>2, <1>3, <1>4

-----------------------------------------------------------------------------
(* Steps of the producers. *)

\* The exchange of a push puts a node of its owner's behind the last one.
LEMMA PushSwapStep ==
  ASSUME NodeAssumption, IInv, NEW p \in Producer, NEW n \in Node, PushSwap(p, n)
  PROVE  IInv'
<1> USE DEF consumerVars
<1>1. /\ chain \in Lists /\ n \in AllNodes /\ ~In(chain, n) /\ n # Sentinel
      /\ head = LastOf(chain) /\ tail = First(chain) /\ head # n /\ next[head] = NULL
  BY PlacesInList DEF IInv, Ends, PushSwap, AllNodes, NodeAssumption
<1>2. chain' = Append(chain, n)
  BY DEF PushSwap
<1>3. /\ chain' \in Lists
      /\ First(chain') = First(chain) /\ LastOf(chain') = n
      /\ \A a : In(chain', a) <=> In(chain, a) \/ a = n
      /\ \A a, b : Behind(chain', a, b) <=>
           Behind(chain, a, b) \/ (a = head /\ b = n)
  BY <1>1, <1>2, ListOfAppend
<1>4. /\ \A a \in AllNodes : next'[a] = IF a = n THEN NULL ELSE next[a]
      /\ \A a, b : Behind(chain, a, b) => a \in AllNodes /\ a # n /\ b # n /\ a # head
  BY <1>1, PlacesInList DEF IInv, TypeOK, PushSwap
<1>5. TypeOK'
  <2>1. chain' \in Seq(AllNodes)
    BY <1>3 DEF Lists
  <2> QED
    BY <1>1, <2>1 DEF IInv, TypeOK, PushSwap, AllNodes, NodeAssumption
<1>6. Ends'
  BY <1>1, <1>3, <1>4 DEF IInv, Ends, PushSwap
<1>7. /\ \A q \in Producer : q # p =>
           ppc'[q] = ppc[q] /\ pprev'[q] = pprev[q] /\ pnode'[q] = pnode[q]
      /\ ppc'[p] = "link" /\ pprev'[p] = head /\ pnode'[p] = n /\ ppc[p] = "idle"
      /\ cpc' = cpc /\ cprev' = cprev
  BY DEF IInv, TypeOK, PushSwap
<1>8. Links'
  <2> SUFFICES ASSUME NEW a \in AllNodes, NEW b \in AllNodes, Behind(chain', a, b)
               PROVE  next'[a] = b \/ (next'[a] = NULL /\ Awaited(a, b)')
    BY DEF Links
  <2>1. CASE Behind(chain, a, b)
    <3>1. next'[a] = next[a]
      BY <1>4, <2>1
    <3>2. Awaited(a, b) => Awaited(a, b)'
      BY <1>7 DEF Awaited, Linking
    <3> QED
      BY <2>1, <3>1, <3>2 DEF IInv, Links
  <2>2. CASE a = head /\ b = n
    <3>1. next'[a] = NULL
      BY <1>1, <1>4, <2>2
    <3>2. Awaited(a, b)'
      BY <1>7, <2>2 DEF Awaited, Linking
    <3> QED
      BY <3>1, <3>2
  <2> QED
    BY <1>3, <2>1, <2>2
<1>9. Pushes'
  <2>1. ASSUME NEW q \in Producer, Linking(q)'
        PROVE  Behind(chain', pprev'[q], pnode'[q]) /\ next'[pprev'[q]] = NULL
    <3>1. CASE q = p
      BY <1>1, <1>3, <1>4, <1>7, <3>1, PlacesInList
    <3>2. CASE q # p
      BY <1>3, <1>4, <1>7, <2>1, <3>2 DEF IInv, Pushes, Linking
    <3> QED
      BY <3>1, <3>2
  <2>2. ASSUME cpc' = "link" PROVE Behind(chain', cprev', Sentinel) /\ next'[cprev'] = NULL
    BY <1>3, <1>4, <1>7, <2>2 DEF IInv, Pushes
  <2>3. ASSUME NEW q \in Producer, Linking(q), q # p PROVE pnode[q] # n
    BY <1>4, <2>3 DEF IInv, Pushes
  <2>4. ASSUME NEW q \in Producer, NEW r \in Producer,
               Linking(q)', Linking(r)', pnode'[q] = pnode'[r]
        PROVE  q = r
    BY <1>7, <2>3, <2>4 DEF IInv, Pushes, Linking
  <2> QED
    BY <2>1, <2>2, <2>4 DEF Pushes
<1>10. Phase'
  BY <1>1, <1>3, <1>7 DEF IInv, Phase, PushSwap
<1> QED
  BY <1>5, <1>6, <1>8, <1>9, <1>10 DEF IInv

\* The second half of a push writes the link that was missing.
LEMMA PushLinkStep ==
  ASSUME NodeAssumption, IInv, NEW p \in Producer, PushLink(p)
  PROVE  IInv'
<1> USE DEF consumerVars
<1> DEFINE a1 == pprev[p]
           b1 == pnode[p]
<1>1. /\ chain \in Lists /\ Behind(chain, a1, b1) /\ next[a1] = NULL
      /\ a1 \in AllNodes /\ b1 \in Node /\ a1 # head /\ b1 # Sentinel /\ Linking(p)
  BY PlacesInList DEF IInv, TypeOK, Ends, Pushes, PushLink, NodeAssumption, Linking
<1>2. /\ \A a \in AllNodes : next'[a] = IF a = a1 THEN b1 ELSE next[a]
      /\ chain' = chain /\ head' = head /\ tail' = tail /\ free' = free
      /\ pprev' = pprev /\ pnode' = pnode /\ cpc' = cpc /\ cprev' = cprev
      /\ \A q \in Producer : Linking(q)' <=> Linking(q) /\ q # p
  BY DEF IInv, TypeOK, PushLink, Linking
<1>3. TypeOK'
  BY <1>1 DEF IInv, TypeOK, PushLink, AllNodes
<1> HIDE DEF a1, b1
<1>4. Ends'
  BY <1>1, <1>2 DEF IInv, TypeOK, Ends
<1>5. Links'
  <2> SUFFICES ASSUME NEW a \in AllNodes, NEW b \in AllNodes, Behind(chain, a, b)
               PROVE  next'[a] = b \/ (next'[a] = NULL /\ Awaited(a, b)')
    BY <1>2 DEF Links
  <2>1. CASE a = a1
    BY <1>1, <1>2, <2>1, PlacesInList
  <2>2. CASE a # a1
    <3>1. Awaited(a, b) => Awaited(a, b)'
      BY <1>2, <2>2 DEF Awaited, a1
    <3> QED
      BY <1>2, <2>2, <3>1 DEF IInv, Links
  <2> QED
    BY <2>1, <2>2
<1>6. Pushes'
  <2>1. ASSUME NEW q \in Producer, Linking(q), q # p
        PROVE  Behind(chain, pprev[q], pnode[q]) /\ next'[pprev[q]] = NULL
    <3>1. Behind(chain, pprev[q], pnode[q]) /\ next[pprev[q]] = NULL /\ pnode[q] # b1
      BY <1>1, <2>1 DEF IInv, Pushes, b1
    <3>2. pprev[q] \in AllNodes /\ pprev[q] # a1
      BY <1>1, <3>1, PlacesInList
    <3> QED
      BY <1>2, <3>1, <3>2
  <2>2. ASSUME cpc = "link" PROVE Behind(chain, cprev, Sentinel) /\ next'[cprev] = NULL
    <3>1. Behind(chain, cprev, Sentinel) /\ next[cprev] = NULL
      BY <2>2 DEF IInv, Pushes
    <3>2. cprev \in AllNodes /\ cprev # a1
      BY <1>1, <3>1, PlacesInList
    <3> QED
      BY <1>2, <3>1, <3>2
  <2> QED
    BY <1>2, <2>1, <2>2 DEF IInv, Pushes
<1>7. Phase'
  BY <1>2 DEF IInv, Phase
<1> QED
  BY <1>3, <1>4, <1>5, <1>6, <1>7 DEF IInv

-----------------------------------------------------------------------------
(* Steps of the consumer. *)

\* The first node leaves a list whose second node is linked.
LEMMA LeaveStep ==
  ASSUME NodeAssumption, IInv, next[tail] # NULL, LeaveFirst,
         UNCHANGED <<head, next, cprev>>, UNCHANGED producerVars,
         cpc # "link", cpc' \in {"idle", "first"},
         free' = free \cup (Node \cap {tail}),
         answer' \in Node \cup {"empty", "retry"},
         cpc' = "first" => tail = Sentinel
  PROVE  IInv' /\ chain' = Tail(chain) /\ tail = Head(chain) /\ chain # <<>>
<1> USE DEF producerVars
<1>1. /\ chain \in Lists /\ First(chain) # LastOf(chain) /\ tail = First(chain)
      /\ head = LastOf(chain) /\ next[tail] = chain[2] /\ Behind(chain, tail, chain[2])
      /\ chain[2] # tail /\ chain[2] \in AllNodes
  BY NextOfFirst, PlacesInList DEF IInv, Ends
<1>2. /\ chain' \in Lists /\ chain' = Tail(chain)
      /\ First(chain') = chain[2] /\ LastOf(chain') = head
      /\ \A a : In(chain', a) <=> In(chain, a) /\ a # tail
      /\ \A a, b : Behind(chain', a, b) <=> Behind(chain, a, b) /\ a # tail
  BY <1>1, ListOfTail DEF LeaveFirst
<1>3. tail' = chain[2]
  BY <1>1 DEF LeaveFirst
<1>4. TypeOK'
  <2>1. chain' \in Seq(AllNodes)
    BY <1>2 DEF Lists
  <2> QED
    BY <1>1, <1>3, <2>1 DEF IInv, TypeOK, AllNodes
<1>5. Ends'
  BY <1>1, <1>2, <1>3 DEF IInv, Ends
<1>6. Links'
  <2> SUFFICES ASSUME NEW a \in AllNodes, NEW b \in AllNodes, Behind(chain, a, b)
               PROVE  next[a] = b \/ (next[a] = NULL /\ Awaited(a, b)')
    BY <1>2 DEF Links
  <2>1. Awaited(a, b) => Awaited(a, b)'
    BY DEF Awaited, Linking
  <2> QED
    BY <2>1 DEF IInv, Links
<1>7. Pushes'
  BY <1>2 DEF IInv, Pushes, Linking
<1>8. Phase'
  BY <1>1, <1>3 DEF Phase
<1>9. tail = Head(chain) /\ chain # <<>>
  BY <1>1, PlacesInList DEF First
<1> QED
  BY <1>2, <1>4, <1>5, <1>6, <1>7, <1>8, <1>9 DEF IInv

\* The first node goes back to its owner, who did not have it.
LEMMA TakeStep ==
  ASSUME NodeAssumption, IInv, next[tail] # NULL, Take,
         UNCHANGED <<head, next>>, UNCHANGED producerVars,
         AtFirst \/ cpc = "last"
  PROVE  IInv' /\ chain' = Tail(chain) /\ tail = Head(chain) /\ chain # <<>>
<1>1. tail # Sentinel /\ cpc # "link" /\ cpc' = "idle"
  BY DEF IInv, Phase, AtFirst, Take
<1>2. tail \in Node
  BY <1>1 DEF IInv, TypeOK, AllNodes
<1> QED
  BY <1>1, <1>2, LeaveStep DEF Take

\* The consumer goes on without a change to the list.
LEMMA StayStep ==
  ASSUME NodeAssumption, IInv,
         UNCHANGED <<head, next, tail, free, chain>>, UNCHANGED producerVars,
         cpc # "link", cpc' # "link", cprev' = cprev,
         cpc' \in {"idle", "first", "head", "swap", "link", "last"},
         answer' \in Node \cup {"empty", "retry"},
         cpc' # "idle" => tail # Sentinel,
         cpc' = "swap" => ~In(chain, Sentinel)
  PROVE  IInv'
<1> USE DEF producerVars
<1>1. TypeOK'
  BY DEF IInv, TypeOK
<1>2. Ends'
  BY DEF IInv, Ends
<1>3. Links'
  BY DEF IInv, Links, Awaited, Linking
<1>4. Pushes'
  BY DEF IInv, Pushes, Linking
<1>5. Phase'
  BY DEF Phase
<1> QED
  BY <1>1, <1>2, <1>3, <1>4, <1>5 DEF IInv

\* The consumer's own push of the sentinel: the exchange.
LEMMA SwapSentinelStep ==
  ASSUME NodeAssumption, IInv, SwapSentinel
  PROVE  IInv'
<1> USE DEF producerVars
<1>1. /\ chain \in Lists /\ Sentinel \in AllNodes /\ ~In(chain, Sentinel)
      /\ head = LastOf(chain) /\ tail = First(chain) /\ head # Sentinel
      /\ next[head] = NULL /\ tail # Sentinel /\ head \in AllNodes
  BY PlacesInList DEF IInv, Ends, Phase, SwapSentinel, AllNodes
<1>2. chain' = Append(chain, Sentinel)
  BY DEF SwapSentinel
<1>3. /\ chain' \in Lists
      /\ First(chain') = First(chain) /\ LastOf(chain') = Sentinel
      /\ \A a : In(chain', a) <=> In(chain, a) \/ a = Sentinel
      /\ \A a, b : Behind(chain', a, b) <=>
           Behind(chain, a, b) \/ (a = head /\ b = Sentinel)
  BY <1>1, <1>2, ListOfAppend
<1>4. /\ \A a \in AllNodes : next'[a] = IF a = Sentinel THEN NULL ELSE next[a]
      /\ \A a, b : Behind(chain, a, b) =>
           a \in AllNodes /\ a # Sentinel /\ b # Sentinel /\ a # head
      /\ cpc = "swap" /\ cpc' = "link" /\ cprev' = head
  BY <1>1, PlacesInList DEF IInv, TypeOK, SwapSentinel
<1>5. TypeOK'
  <2>1. chain' \in Seq(AllNodes)
    BY <1>3 DEF Lists
  <2> QED
    BY <1>1, <2>1 DEF IInv, TypeOK, SwapSentinel, AllNodes
<1>6. Ends'
  BY <1>1, <1>3, <1>4 DEF IInv, Ends, SwapSentinel, NodeAssumption
<1>7. Links'
  <2> SUFFICES ASSUME NEW a \in AllNodes, NEW b \in AllNodes, Behind(chain', a, b)
               PROVE  next'[a] = b \/ (next'[a] = NULL /\ Awaited(a, b)')
    BY DEF Links
  <2>1. CASE Behind(chain, a, b)
    <3>1. next'[a] = next[a]
      BY <1>4, <2>1
    <3>2. Awaited(a, b) => Awaited(a, b)'
      BY <1>4 DEF Awaited, Linking, SwapSentinel
    <3> QED
      BY <2>1, <3>1, <3>2 DEF IInv, Links
  <2>2. CASE a = head /\ b = Sentinel
    BY <1>1, <1>4, <2>2 DEF Awaited
  <2> QED
    BY <1>3, <2>1, <2>2
<1>8. Pushes'
  <2>1. ASSUME NEW q \in Producer, Linking(q)
        PROVE  Behind(chain', pprev[q], pnode[q]) /\ next'[pprev[q]] = NULL
    BY <1>3, <1>4, <2>1 DEF IInv, Pushes
  <2>2. Behind(chain', head, Sentinel) /\ next'[head] = NULL
    BY <1>1, <1>3, <1>4
  <2> QED
    BY <1>4, <2>1, <2>2 DEF IInv, Pushes, Linking, SwapSentinel
<1>9. Phase'
  BY <1>1, <1>4 DEF Phase, SwapSentinel
<1> QED
  BY <1>5, <1>6, <1>7, <1>8, <1>9 DEF IInv

\* The link to the sentinel.
LEMMA LinkSentinelStep ==
  ASSUME NodeAssumption, IInv, LinkSentinel
  PROVE  IInv'
<1> USE DEF producerVars
<1>1. /\ chain \in Lists /\ Behind(chain, cprev, Sentinel) /\ next[cprev] = NULL
      /\ cprev \in AllNodes /\ cprev # head /\ Sentinel \in AllNodes
      /\ cpc = "link" /\ cpc' = "last"
  BY PlacesInList DEF IInv, Ends, Pushes, LinkSentinel, AllNodes
<1>2. \A a \in AllNodes : next'[a] = IF a = cprev THEN Sentinel ELSE next[a]
  BY DEF IInv, TypeOK, LinkSentinel
<1>3. TypeOK'
  BY <1>1 DEF IInv, TypeOK, LinkSentinel
<1>4. Ends'
  BY <1>1, <1>2 DEF IInv, TypeOK, Ends, LinkSentinel
<1>5. Links'
  <2> SUFFICES ASSUME NEW a \in AllNodes, NEW b \in AllNodes, Behind(chain, a, b)
               PROVE  next'[a] = b \/ (next'[a] = NULL /\ Awaited(a, b)')
    BY DEF Links, LinkSentinel
  <2>1. CASE a = cprev
    BY <1>1, <1>2, <2>1, PlacesInList
  <2>2. CASE a # cprev
    <3>1. Awaited(a, b) => Awaited(a, b)'
      BY <2>2 DEF Awaited, Linking, LinkSentinel
    <3> QED
      BY <1>2, <2>2, <3>1 DEF IInv, Links
  <2> QED
    BY <2>1, <2>2
<1>6. Pushes'
  <2>1. ASSUME NEW q \in Producer, Linking(q)
        PROVE  Behind(chain, pprev[q], pnode[q]) /\ next'[pprev[q]] = NULL
    <3>1. /\ Behind(chain, pprev[q], pnode[q]) /\ next[pprev[q]] = NULL
          /\ pnode[q] # Sentinel
      BY <2>1 DEF IInv, TypeOK, Pushes, Linking, NodeAssumption
    <3>2. pprev[q] \in AllNodes /\ pprev[q] # cprev
      BY <1>1, <3>1, PlacesInList
    <3> QED
      BY <1>2, <3>1, <3>2
  <2> QED
    BY <1>1, <2>1 DEF IInv, Pushes, Linking, LinkSentinel
<1>7. Phase'
  BY <1>1 DEF IInv, Phase, LinkSentinel
<1> QED
  BY <1>3, <1>4, <1>5, <1>6, <1>7 DEF IInv

\* Every step keeps the list whole; the steps of a pop leave alone what the
\* producers wrote, and the list changes at one end.
LEMMA IInvStep ==
  ASSUME NodeAssumption, IInv, [Next]_vars
  PROVE  IInv'
<1> USE DEF producerVars
<1>1. CASE UNCHANGED vars
  BY <1>1 DEF vars, producerVars, consumerVars, IInv, TypeOK, Ends, Links, Awaited,
              Pushes, Phase, Linking
<1>2. CASE \E p \in Producer : (\E n \in Node : PushSwap(p, n)) \/ PushLink(p)
  BY <1>2, PushSwapStep, PushLinkStep
<1>3. CASE PopEmpty \/ PopRetry \/ SeesNoNext \/ SeesLastNode
  <2>1. /\ UNCHANGED <<head, next, tail, free, chain>> /\ UNCHANGED producerVars
        /\ cpc # "link" /\ cpc' \in {"idle", "head", "swap"} /\ cprev' = cprev
        /\ answer' \in Node \cup {"empty", "retry"}
    BY <1>3 DEF PopEmpty, PopRetry, SeesNoNext, SeesLastNode, Give, AtFirst, IInv, TypeOK
  <2>2. cpc' # "idle" => tail # Sentinel
    BY <1>3 DEF PopEmpty, PopRetry, SeesNoNext, SeesLastNode, Give, AtFirst, IInv, Phase
  <2>3. cpc' = "swap" => ~In(chain, Sentinel)
    <3>1. cpc' = "swap" => tail = head
      BY <1>3 DEF PopEmpty, PopRetry, SeesNoNext, SeesLastNode, Give, OthersAreComing
    <3> QED
      BY <2>2, <3>1, PlacesInList DEF IInv, Ends
  <2> QED
    BY <2>1, <2>2, <2>3, StayStep
<1>4. CASE PopSentinel
  <2>1. next[tail] # NULL /\ LeaveFirst /\ cpc = "idle" /\ cpc' = "first" /\ tail = Sentinel
    BY <1>4 DEF PopSentinel
  <2>2. free' = free \cup (Node \cap {tail}) /\ answer' \in Node \cup {"empty", "retry"}
    BY <1>4, <2>1 DEF PopSentinel, IInv, TypeOK, NodeAssumption
  <2> QED
    BY <1>4, <2>1, <2>2, LeaveStep DEF PopSentinel
<1>5. CASE PopFirst \/ (PopLast /\ next[tail] # NULL)
  BY <1>5, TakeStep DEF PopFirst, PopLast
<1>6. CASE PopLast /\ next[tail] = NULL
  BY <1>6, StayStep DEF PopLast, Give
<1>7. CASE SwapSentinel \/ LinkSentinel
  BY <1>7, SwapSentinelStep, LinkSentinelStep
<1> QED
  BY <1>1, <1>2, <1>3, <1>4, <1>5, <1>6, <1>7 DEF Next, Pop

\* The invariant holds in every state.
LEMMA IInvAlways == Spec => []IInv
<1>1. Init => IInv
  BY NodeAssumption, InitIInv
<1>2. IInv /\ [Next]_vars => IInv'
  BY NodeAssumption, IInvStep
<1> QED
  BY <1>1, <1>2, PTL DEF Spec

-----------------------------------------------------------------------------
(* What users of the list rely on. *)

\* The range of a sequence is what is in it.
LEMMA RangeIsIn ==
  ASSUME NEW s \in Lists PROVE \A a : a \in Range(s) <=> In(s, a)
<1>1. DOMAIN s = 1 .. Len(s)
  BY PlacesInList, LenProperties
<1> QED
  BY <1>1 DEF Range, In

\* The inductive invariant says that the list is whole.
LEMMA WholeFromIInv ==
  ASSUME NodeAssumption, IInv PROVE ListIsWhole
<1>1. /\ chain \in Lists /\ tail = First(chain) /\ head = LastOf(chain)
      /\ In(chain, tail) /\ In(chain, head) /\ tail \in AllNodes
      /\ \A n \in Node : n \in free <=> ~In(chain, n)
      /\ \A a : a \in Range(chain) <=> In(chain, a)
      /\ \A a : In(chain, a) => a \in AllNodes
  BY PlacesInList, RangeIsIn DEF IInv, Ends
<1>2. TypeOK
  BY DEF IInv
<1>3. HandedOutIsFree
  <2> SUFFICES ASSUME NEW n \in free
               PROVE  /\ n # head /\ n # tail
                      /\ \A p \in Producer : Linking(p) => n # pprev[p] /\ n # pnode[p]
                      /\ cpc = "link" => n # cprev
                      /\ \A m \in {tail} \cup Range(chain) : next[m] # n
    BY DEF HandedOutIsFree
  <2>1. n \in Node /\ ~In(chain, n) /\ n # NULL
    BY <1>1 DEF IInv, TypeOK, NodeAssumption
  <2>2. \A a, b : Behind(chain, a, b) => n # a /\ n # b
    BY <1>1, <2>1, PlacesInList
  <2>3. ASSUME NEW m, In(chain, m) PROVE next[m] # n
    <3>1. CASE m = head
      BY <2>1, <3>1 DEF IInv, Ends
    <3>2. CASE m # head
      <4>1. PICK b \in AllNodes : Behind(chain, m, b)
        <5>1. PICK i \in 1 .. Len(chain) : chain[i] = m
          BY <2>3 DEF In
        <5>2. Len(chain) \in Nat \ {0} /\ i # Len(chain)
          BY <1>1, <3>2, <5>1, PlacesInList DEF LastOf
        <5>3. i \in 1 .. Len(chain) - 1
          BY <5>1, <5>2
        <5>4. Behind(chain, m, chain[i + 1])
          BY <5>1, <5>3 DEF Behind
        <5> QED
          BY <1>1, <5>4, PlacesInList
      <4>2. next[m] = b \/ next[m] = NULL
        BY <1>1, <2>3, <4>1 DEF IInv, Links
      <4> QED
        BY <2>1, <2>2, <4>1, <4>2
    <3> QED
      BY <3>1, <3>2
  <2> QED
    BY <1>1, <2>1, <2>2, <2>3 DEF IInv, Pushes
<1>4. SentinelOnce
  <2> SUFFICES ASSUME cpc = "swap"
               PROVE  /\ head # Sentinel /\ tail # Sentinel
                      /\ \A p \in Producer : Linking(p) => pprev[p] # Sentinel
    BY DEF SentinelOnce
  <2>1. ~In(chain, Sentinel)
    BY DEF IInv, Phase
  <2> QED
    BY <1>1, <2>1, PlacesInList DEF IInv, Pushes
<1>5. EmptyIsTrue
  <2> SUFFICES ASSUME cpc = "idle", IsEmpty
               PROVE  \/ Range(chain) \cap Node = {}
                      \/ \E p \in Producer : Linking(p) /\ pnode[p] = chain[2]
    BY DEF EmptyIsTrue
  <2>1. CASE tail = head
    <3>1. \A a : In(chain, a) => a = Sentinel
      BY <1>1, <2>1, PlacesInList DEF IsEmpty
    <3> QED
      BY <1>1, <3>1 DEF NodeAssumption
  <2>2. CASE tail # head
    <3>1. Behind(chain, tail, chain[2]) /\ chain[2] \in AllNodes
      BY <1>1, <2>2, PlacesInList
    <3>2. next[tail] = NULL /\ chain[2] # NULL
      BY <3>1 DEF IsEmpty, AllNodes, NodeAssumption
    <3>3. Awaited(tail, chain[2])
      BY <1>1, <3>1, <3>2 DEF IInv, Links
    <3> QED
      BY <3>3 DEF Awaited
  <2> QED
    BY <2>1, <2>2
<1>6. DestroyAsserts
  <2> SUFFICES ASSUME Range(chain) \cap Node = {} PROVE head = Sentinel /\ tail = Sentinel
    BY DEF DestroyAsserts
  <2> QED
    BY <1>1 DEF AllNodes
<1> QED
  BY <1>2, <1>3, <1>4, <1>5, <1>6 DEF ListIsWhole

\* Each step changes the list at one end, and hands out only its first node.
LEMMA OrderStep ==
  ASSUME NodeAssumption, IInv, [Next]_vars
  PROVE  /\ \A n \in free' \ free : chain # <<>> /\ n = Head(chain) /\ answer' = n
         /\ chain' # chain =>
              \/ \E n \in AllNodes : chain' = Append(chain, n)
              \/ chain # <<>> /\ chain' = Tail(chain)
                 /\ Head(chain) \in {Sentinel} \cup free'
<1> USE DEF producerVars
<1>1. CASE UNCHANGED vars
  BY <1>1 DEF vars
<1>2. CASE \E p \in Producer : \E n \in Node : PushSwap(p, n)
  BY <1>2 DEF PushSwap, AllNodes
<1>3. CASE SwapSentinel
  BY <1>3 DEF SwapSentinel, AllNodes
<1>4. CASE (\E p \in Producer : PushLink(p)) \/ LinkSentinel \/ PopEmpty \/ PopRetry
           \/ SeesNoNext \/ SeesLastNode \/ (PopLast /\ next[tail] = NULL)
  BY <1>4 DEF PushLink, LinkSentinel, PopEmpty, PopRetry, SeesNoNext, SeesLastNode,
              PopLast, Give
<1>5. CASE PopSentinel
  <2>1. next[tail] # NULL /\ LeaveFirst /\ cpc = "idle" /\ cpc' = "first" /\ tail = Sentinel
    BY <1>5 DEF PopSentinel
  <2>2. free' = free \cup (Node \cap {tail}) /\ answer' \in Node \cup {"empty", "retry"}
    BY <1>5, <2>1 DEF PopSentinel, IInv, TypeOK, NodeAssumption
  <2>3. chain' = Tail(chain) /\ tail = Head(chain) /\ chain # <<>>
    BY <1>5, <2>1, <2>2, LeaveStep DEF PopSentinel
  <2> QED
    BY <1>5, <2>1, <2>3 DEF PopSentinel
<1>6. CASE PopFirst \/ (PopLast /\ next[tail] # NULL)
  <2>1. /\ chain' = Tail(chain) /\ tail = Head(chain) /\ chain # <<>>
        /\ free' = free \cup {tail} /\ answer' = tail
    BY <1>6, TakeStep DEF PopFirst, PopLast, Take
  <2> QED
    BY <2>1
<1> QED
  BY <1>1, <1>2, <1>3, <1>4, <1>5, <1>6 DEF Next, Pop

-----------------------------------------------------------------------------
(* The theorems. *)

\* With pushes cut off anywhere: what is handed out is nobody's, the sentinel is in
\* the list once, "empty" is wrong only for pushes under way, and the assertions
\* of mpscq_destroy hold when all is done.
THEOREM ListStaysWhole == Spec => []ListIsWhole
<1>1. IInv => ListIsWhole
  BY NodeAssumption, WholeFromIInv
<1> QED
  BY <1>1, IInvAlways, PTL

\* The list changes only at its ends: mpscq_pop hands out the node whose exchange
\* on the head came first, and every node that leaves is handed out.
THEOREM NodesComeOutInOrder == Spec => PopsInOrder
<1> DEFINE Order ==
      /\ \A n \in free' \ free : chain # <<>> /\ n = Head(chain) /\ answer' = n
      /\ chain' # chain =>
           \/ \E n \in AllNodes : chain' = Append(chain, n)
           \/ chain # <<>> /\ chain' = Tail(chain)
              /\ Head(chain) \in {Sentinel} \cup free'
<1>1. IInv /\ [Next]_vars => [Order]_vars
  BY NodeAssumption, OrderStep
<1>2. Spec => [][Order]_vars
  BY <1>1, IInvAlways, PTL DEF Spec
<1> QED
  BY <1>2 DEF PopsInOrder
=============================================================================
