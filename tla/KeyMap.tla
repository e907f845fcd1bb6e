------------------------------- MODULE KeyMap -------------------------------
(***************************************************************************)
(* What a hash table promises: a map from keys to values.                  *)
(***************************************************************************)
EXTENDS Functions

CONSTANTS Key, Value

VARIABLE map

Init == map = <<>>

\* k is given any value; no other key is touched.
Set(k) ==
    /\ k \in DOMAIN map' /\ map'[k] \in Value
    /\ map' = [j \in DOMAIN map \cup {k} |-> IF j = k THEN map'[k] ELSE map[j]]

Remove(k) == map' = Restrict(map, DOMAIN map \ {k})
Clear == map' = <<>>

Next == Clear \/ \E k \in Key : Set(k) \/ Remove(k)

Spec == Init /\ [][Next]_map
=============================================================================
