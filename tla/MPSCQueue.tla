----------------------------- MODULE MPSCQueue -----------------------------
(***************************************************************************)
(* The intrusive lock-free list of base/mpscq.c: any thread pushes, one    *)
(* thread pops.  It carries the queues that ask a bus to add them and the  *)
(* callbacks posted to a context.  One action per access to a shared       *)
(* location; the store of NULL to a node's next is part of the exchange    *)
(* that makes the node visible.                                            *)
(***************************************************************************)
EXTENDS Naturals, Sequences, Functions

CONSTANTS Producer,   \* threads that push
          Node,       \* nodes they push, again and again
          Sentinel,   \* the node inside the queue itself
          NULL

ASSUME NodeAssumption == Sentinel \notin Node /\ NULL \notin Node \cup {Sentinel}

VARIABLES
    head,     \* last node of the list, where producers append
    tail,     \* first node of the list, seen by the consumer only
    next,     \* next[n]: the node behind n
    ppc,      \* where each producer is in mpscq_push
    pnode,    \* the node it pushes
    pprev,    \* the node it links to: its local prev
    cpc,      \* where the consumer is in mpscq_pop_and_check_end
    cprev,    \* prev of the consumer's own push of the sentinel
    answer,   \* the last answer: a node, "empty" or "retry"
    free,     \* history: nodes that are in nobody's hands but their owner's
    chain     \* history: the list, with the sentinel, in the order of the exchanges

producerVars == <<ppc, pnode, pprev>>
consumerVars == <<tail, cpc, cprev, answer>>
vars == <<head, tail, next, ppc, pnode, pprev, cpc, cprev, answer, free, chain>>

\* mpscq_init
Init ==
    /\ head = Sentinel /\ tail = Sentinel
    /\ next = [n \in Node \cup {Sentinel} |-> NULL]
    /\ ppc = [p \in Producer |-> "idle"]
    /\ pnode = [p \in Producer |-> NULL]
    /\ pprev = [p \in Producer |-> NULL]
    /\ cpc = "idle" /\ cprev = NULL /\ answer = "empty"
    /\ free = Node /\ chain = <<Sentinel>>

-----------------------------------------------------------------------------
(* mpscq_push by producer p. *)

PushSwap(p, n) ==
    /\ ppc[p] = "idle" /\ n \in free
    /\ next' = [next EXCEPT ![n] = NULL]
    /\ head' = n
    /\ pprev' = [pprev EXCEPT ![p] = head]
    /\ pnode' = [pnode EXCEPT ![p] = n]
    /\ ppc' = [ppc EXCEPT ![p] = "link"]
    /\ free' = free \ {n}
    /\ chain' = Append(chain, n)
    /\ UNCHANGED consumerVars

PushLink(p) ==
    /\ ppc[p] = "link"
    /\ next' = [next EXCEPT ![pprev[p]] = pnode[p]]
    /\ ppc' = [ppc EXCEPT ![p] = "idle"]
    /\ UNCHANGED <<head, pnode, pprev, free, chain>> /\ UNCHANGED consumerVars

-----------------------------------------------------------------------------
(* mpscq_pop by the consumer. *)

\* What was first in the list is no longer in it.
LeaveFirst ==
    /\ tail' = next[tail]
    /\ chain' = SubSeq(chain, 2, Len(chain))

\* The first node leaves the list and goes back to its owner.
Take ==
    /\ LeaveFirst
    /\ answer' = tail
    /\ free' = free \cup {tail}
    /\ cpc' = "idle"
    /\ UNCHANGED cprev

Give(a) ==
    /\ answer' = a
    /\ cpc' = "idle"
    /\ UNCHANGED <<tail, cprev, free, chain>>

\* mpscq_is_empty: only the sentinel is in the list, for all the consumer sees.
IsEmpty == tail = Sentinel /\ next[Sentinel] = NULL

PopEmpty ==
    /\ cpc = "idle" /\ IsEmpty
    /\ Give("empty")
    /\ UNCHANGED <<head, next>> /\ UNCHANGED producerVars

\* The sentinel is taken out of the list.
PopSentinel ==
    /\ cpc = "idle" /\ tail = Sentinel /\ next[Sentinel] # NULL
    /\ LeaveFirst
    /\ cpc' = "first"
    /\ UNCHANGED <<head, next, cprev, answer, free>> /\ UNCHANGED producerVars

AtFirst == cpc = "first" \/ (cpc = "idle" /\ tail # Sentinel)

PopFirst ==
    /\ AtFirst /\ next[tail] # NULL
    /\ Take
    /\ UNCHANGED <<head, next>> /\ UNCHANGED producerVars

SeesNoNext ==
    /\ AtFirst /\ next[tail] = NULL
    /\ cpc' = "head"
    /\ UNCHANGED <<head, next, tail, cprev, answer, free, chain>>
    /\ UNCHANGED producerVars

\* Mutant: the sentinel is pushed without a look at the head.
OthersAreComingNever == FALSE

\* There is a node behind the first one that is not linked yet.
OthersAreComing == tail # head

PopRetry ==
    /\ cpc = "head" /\ OthersAreComing
    /\ Give("retry")
    /\ UNCHANGED <<head, next>> /\ UNCHANGED producerVars

SeesLastNode ==
    /\ cpc = "head" /\ ~OthersAreComing
    /\ cpc' = "swap"
    /\ UNCHANGED <<head, next, tail, cprev, answer, free, chain>>
    /\ UNCHANGED producerVars

\* mpscq_push of the sentinel, so that the last node can leave the list.
SwapSentinel ==
    /\ cpc = "swap"
    /\ next' = [next EXCEPT ![Sentinel] = NULL]
    /\ head' = Sentinel
    /\ cprev' = head
    /\ cpc' = "link"
    /\ chain' = Append(chain, Sentinel)
    /\ UNCHANGED <<tail, answer, free>> /\ UNCHANGED producerVars

\* Mutant: the sentinel is linked to the node the consumer is about to take.
LinkSentinelToTail ==
    /\ cpc = "link"
    /\ next' = [next EXCEPT ![tail] = Sentinel]
    /\ cpc' = "last"
    /\ UNCHANGED <<head, tail, cprev, answer, free, chain>> /\ UNCHANGED producerVars

LinkSentinel ==
    /\ cpc = "link"
    /\ next' = [next EXCEPT ![cprev] = Sentinel]
    /\ cpc' = "last"
    /\ UNCHANGED <<head, tail, cprev, answer, free, chain>> /\ UNCHANGED producerVars

PopLast ==
    /\ cpc = "last"
    /\ IF next[tail] # NULL THEN Take ELSE Give("retry")
    /\ UNCHANGED <<head, next>> /\ UNCHANGED producerVars

Pop ==
    \/ PopEmpty \/ PopSentinel \/ PopFirst \/ SeesNoNext
    \/ PopRetry \/ SeesLastNode \/ SwapSentinel \/ LinkSentinel \/ PopLast

Next ==
    \/ \E p \in Producer : (\E n \in Node : PushSwap(p, n)) \/ PushLink(p)
    \/ Pop

Spec == Init /\ [][Next]_vars

\* A producer inside mpscq_push finishes, and the consumer keeps popping.
FairSpec ==
    /\ Spec
    /\ \A p \in Producer : WF_vars(PushLink(p))
    /\ WF_vars(Pop)

-----------------------------------------------------------------------------
(* Properties. *)

AllNodes == Node \cup {Sentinel}

\* The values every variable takes.
TypeOK ==
    /\ head \in AllNodes /\ tail \in AllNodes
    /\ next \in [AllNodes -> AllNodes \cup {NULL}]
    /\ ppc \in [Producer -> {"idle", "link"}]
    /\ pnode \in [Producer -> Node \cup {NULL}]
    /\ pprev \in [Producer -> AllNodes \cup {NULL}]
    /\ \A p \in Producer : ppc[p] = "link" => pnode[p] # NULL /\ pprev[p] # NULL
    /\ cpc \in {"idle", "first", "head", "swap", "link", "last"}
    /\ cprev \in AllNodes \cup {NULL}
    /\ answer \in Node \cup {"empty", "retry"}
    /\ free \subseteq Node /\ chain \in Seq(AllNodes)

Linking(p) == ppc[p] = "link"

\* Nodes come out in the order in which their pushes took effect, each once:
\* notices reach the bus and callbacks run in the order they were posted.
PopsInOrder ==
    [][ /\ \A n \in free' \ free : chain # <<>> /\ n = Head(chain) /\ answer' = n
        /\ chain' # chain =>
             \/ \E n \in AllNodes : chain' = Append(chain, n)
             \/ chain # <<>> /\ chain' = Tail(chain)
                /\ Head(chain) \in {Sentinel} \cup free' ]_vars

\* A node that was handed out is referred to by nobody: its owner may free it
\* or push it again at once.
HandedOutIsFree ==
    \A n \in free :
        /\ n # head /\ n # tail
        /\ \A p \in Producer : Linking(p) => n # pprev[p] /\ n # pnode[p]
        /\ cpc = "link" => n # cprev
        /\ \A m \in {tail} \cup Range(chain) : next[m] # n

\* The sentinel is pushed only while it is out of the list.
SentinelOnce ==
    cpc = "swap" =>
        /\ head # Sentinel /\ tail # Sentinel
        /\ \A p \in Producer : Linking(p) => pprev[p] # Sentinel

\* The answer "empty" is wrong only for pushes that have not returned: the
\* node behind the sentinel is not linked yet.
EmptyIsTrue ==
    cpc = "idle" /\ IsEmpty =>
        \/ Range(chain) \cap Node = {}
        \/ \E p \in Producer : Linking(p) /\ pnode[p] = chain[2]

\* mpscq_destroy asserts that head and tail are the sentinel: so they are
\* whenever every push has returned and every node has been popped.
DestroyAsserts ==
    (Range(chain) \cap Node = {} /\ cpc = "idle" /\ \A p \in Producer : ~Linking(p)) =>
        head = Sentinel /\ tail = Sentinel

\* At every step, with pushes cut off half-way by others: what is handed out is
\* nobody's, the sentinel is in the list once, "empty" is wrong only for pushes
\* under way, and when all is done the list is as mpscq_destroy asserts.
ListIsWhole ==
    TypeOK /\ HandedOutIsFree /\ SentinelOnce /\ EmptyIsTrue /\ DestroyAsserts

\* A node that was pushed is popped in the end, although single pops may
\* answer that the queue is empty or that they should be tried again.
EventuallyPopped == \A n \in Node : n \notin free ~> n \in free
=============================================================================
