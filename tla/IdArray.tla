------------------------------ MODULE IdArray -------------------------------
(***************************************************************************)
(* The array from ids to pointers of base/idarray.h, "fit for inc count    *)
(* from zero": an id beyond the end makes it grow to the next power of two *)
(* and 0 is what an id that was never set is mapped to.                    *)
(***************************************************************************)
EXTENDS Integers, FiniteSets, Memory

CONSTANTS
    Id,         \* the ids that are tried
    Value,      \* the pointers that are stored
    MinSize     \* IDARRAY_MIN_SIZE

IdArrayAssumption ==
    /\ Id \subseteq 0 .. 1023 /\ 0 \notin Value /\ Junk \notin Value \cup {0}
    /\ MinSize \in {1, 2, 4, 8, 16}

VARIABLES
    ida_m,      \* the size
    ida_a,      \* the memory, indexed from 0
    stored,     \* history: what was last set, by id
    gaps        \* history: ids that a growth jumped over

vars == <<ida_m, ida_a, stored, gaps>>

\* ida_init
Init == ida_m = 0 /\ ida_a = <<>> /\ stored = <<>> /\ gaps = {}

\* roundup32
RoundUp(n) ==
    CHOOSE p \in {1, 2, 4, 8, 16, 32, 64, 128, 256, 512, 1024} :
        p >= n /\ p < 2 * n

\* Mutant: an id at the end does not make the array grow.
SizeBelow(i) == RoundUp(IF i < MinSize THEN MinSize ELSE i)

SizeFor(i) == RoundUp(IF i + 1 < MinSize THEN MinSize ELSE i + 1)

\* memset begins at the id that is set, not at the old end.
ClearedFrom(i) == i

ida_get(i) == IF i >= ida_m THEN 0 ELSE ida_a[i]

\* ida_set
ida_set(i, x) ==
    /\ IF i < ida_m
       THEN /\ ida_a' = [ida_a EXCEPT ![i] = x]
            /\ UNCHANGED <<ida_m, gaps>>
       ELSE /\ ida_m' = SizeFor(i)
            /\ ida_a' = [j \in 0 .. ida_m' - 1 |->
                        CASE j = i -> x
                          [] j # i /\ j < ida_m -> ida_a[j]
                          [] OTHER -> IF j < ClearedFrom(i) THEN Junk ELSE 0]
            /\ gaps' = gaps \cup (ida_m .. i - 1)
    /\ stored' = [j \in DOMAIN stored \cup {i} |-> IF j = i THEN x ELSE stored[j]]

\* ida_clear
ida_clear == ida_m' = 0 /\ ida_a' = <<>> /\ stored' = <<>> /\ gaps' = {}

Next == ida_clear \/ \E i \in Id, x \in Value : ida_set(i, x)

Spec == Init /\ [][Next]_vars
-----------------------------------------------------------------------------
(* Properties. *)

TypeOK ==
    /\ ida_m \in {0} \cup {RoundUp(n) : n \in 1 .. 1024}
    /\ ida_a = <<>> \/ ida_a \in [0 .. ida_m - 1 -> Value \cup {0, Junk}]
    /\ gaps \subseteq Nat

\* Growing keeps what was stored, and an id that was never set is 0 unless a
\* growth jumped over it: then it is whatever was in the memory.
GetsWhatWasSet ==
    \A i \in Id :
        ida_get(i) = IF i \in DOMAIN stored THEN stored[i]
                     ELSE IF i \in gaps THEN Junk ELSE 0

\* Ids that count up from zero, in any order within what is there, never meet
\* memory that was not cleared.
CountingIsClean ==
    (\A i \in DOMAIN stored : \A j \in 0 .. i : j \in DOMAIN stored) =>
        \A i \in Id : ida_get(i) # Junk
=============================================================================
