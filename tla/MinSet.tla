------------------------------- MODULE MinSet -------------------------------
(***************************************************************************)
(* What a heap promises: a set of nodes that can be put in and taken out   *)
(* in any order, and one of its least nodes at hand.                       *)
(***************************************************************************)
EXTENDS Integers

CONSTANTS Node, Key, NULL

VARIABLES members, least

Least(S) ==
    IF S = {} THEN {NULL} ELSE {x \in S : \A y \in S : Key[x] <= Key[y]}

Init == members = {} /\ least = NULL

Insert(x) ==
    /\ x \notin members
    /\ members' = members \cup {x}
    /\ least' \in Least(members')

Remove(x) ==
    /\ x \in members
    /\ members' = members \ {x}
    /\ least' \in Least(members')

Next == \E x \in Node : Insert(x) \/ Remove(x)

Spec == Init /\ [][Next]_<<members, least>>
=============================================================================
