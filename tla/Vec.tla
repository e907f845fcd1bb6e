-------------------------------- MODULE Vec ---------------------------------
(***************************************************************************)
(* The growing array of base/vec.c and the macros of base/vec.h: memory of *)
(* capacity elements, the first length of which count, for sequences that  *)
(* are pushed, popped, inserted into, spliced, swapped and reversed.  The  *)
(* allocator may refuse to grow.  The caller keeps the preconditions the   *)
(* code leaves to him: no pop of an empty vector, indices that exist.      *)
(***************************************************************************)
EXTENDS Integers, Sequences, SequencesExt, Memory

CONSTANTS
    Item,       \* elements
    MaxLength   \* bound on the lengths that are reached

VecAssumption == Junk \notin Item /\ MaxLength \in Nat

VARIABLES
    vec,        \* [data, length]; Len(data) is the capacity, 0 if data is NULL
    list,       \* history: the sequence the calls so far should have made
    denied      \* history: vec_insert has gone on without memory

vecVars == <<vec, list, denied>>

\* vec_init
VecInit ==
    /\ vec = [data |-> <<>>, length |-> 0]
    /\ list = <<>> /\ denied = FALSE

Capacity(v) == Len(v.data)
Content(v) == SubSeq(v.data, 1, v.length)
IsNull(v) == v.data = <<>>

\* memmove(data + to, data + from, count), with indices from 0.
Move(d, to, from, count) ==
    [i \in DOMAIN d |->
        IF i \in to + 1 .. to + count THEN d[i - to + from] ELSE d[i]]

\* ats_realloc to n elements; it keeps what fits.
Resized(v, n) ==
    [v EXCEPT !.data = [i \in 1 .. n |-> IF i <= Capacity(v) THEN v.data[i] ELSE Junk]]

\* vec_reserve_: the vector with room for n elements, or as it was.
vec_reserve_(v, n) ==
    IF n <= Capacity(v) THEN {[ok |-> TRUE, v |-> v]}
    ELSE {[ok |-> TRUE, v |-> Resized(v, n)], [ok |-> FALSE, v |-> v]}

\* Doubled until it is large enough, which takes at most n rounds.
PowerOf2(n) ==
    LET size[k \in 0 .. n] ==
            IF k = 0 THEN 1 ELSE IF size[k - 1] < n THEN 2 * size[k - 1] ELSE size[k - 1]
    IN  size[n]

vec_reserve_po2_(v, n) ==
    IF n = 0 THEN {[ok |-> TRUE, v |-> v]} ELSE vec_reserve_(v, PowerOf2(n))

\* vec_expand_ doubles.
vec_expand_(v) ==
    IF v.length + 1 > Capacity(v)
    THEN vec_reserve_(v, IF IsNull(v) THEN 1 ELSE 2 * Capacity(v))
    ELSE {[ok |-> TRUE, v |-> v]}

Stores(v, i, x) == [v EXCEPT !.data[i + 1] = x]

\* vec_push answers 0 also when there was no memory, and then does nothing.
vec_push(x) ==
    /\ vec.length < MaxLength
    /\ \E r \in vec_expand_(vec) :
        IF r.ok
        THEN /\ vec' = [Stores(r.v, vec.length, x) EXCEPT !.length = @ + 1]
             /\ list' = Append(list, x)
        ELSE UNCHANGED <<vec, list>>
    /\ UNCHANGED denied

vec_pop ==
    /\ vec.length > 0
    /\ vec' = [vec EXCEPT !.length = @ - 1]
    /\ list' = Front(list)
    /\ UNCHANGED denied

\* Mutant: the elements behind move over the one that is inserted.
MoveShort(v, i) == Move(v.data, i + 1, i, v.length - i - 1)

MoveUp(v, i) == Move(v.data, i + 1, i, v.length - i)

\* vec_insert counts the element even when there was no memory for it.
vec_insert(i, x) ==
    /\ vec.length < MaxLength /\ i <= vec.length
    /\ \E r \in vec_expand_(vec) :
        IF r.ok
        THEN /\ vec' = [Stores([r.v EXCEPT !.data = MoveUp(r.v, i)], i, x)
                            EXCEPT !.length = @ + 1]
             /\ list' = InsertAt(list, i + 1, x)
             /\ UNCHANGED denied
        ELSE /\ vec' = [vec EXCEPT !.length = @ + 1]
             /\ denied' = TRUE /\ UNCHANGED list

Spliced(v, start, count) ==
    [data |-> Move(v.data, start, start + count, v.length - start - count),
     length |-> v.length - count]

ListSpliced(s, start, count) ==
    SubSeq(s, 1, start) \o SubSeq(s, start + count + 1, Len(s))

vec_splice(start, count) ==
    /\ start + count <= vec.length
    /\ vec' = Spliced(vec, start, count)
    /\ list' = ListSpliced(list, start, count)
    /\ UNCHANGED denied

\* Mutant: the elements come from the end of the memory.
SwapFromCapacity(v, start, count) == Capacity(v) - count

SwapSource(v, start, count) == v.length - count

\* vec_swapsplice fills the gap with as many elements from the end.
vec_swapsplice(start, count) ==
    /\ start + count <= vec.length
    /\ vec' = [data |-> Move(vec.data, start, SwapSource(vec, start, count), count),
               length |-> vec.length - count]
    /\ list' = Content(vec')
    /\ UNCHANGED denied

Swapped(s, i, j) == [s EXCEPT ![i] = s[j], ![j] = s[i]]

vec_swap(i, j) ==
    /\ {i, j} \subseteq 0 .. vec.length - 1
    /\ vec' = [vec EXCEPT !.data = Swapped(@, i + 1, j + 1)]
    /\ list' = Swapped(list, i + 1, j + 1)
    /\ UNCHANGED denied

\* vec_truncate; vec_clear is the truncation to 0.
vec_truncate(n) ==
    /\ vec' = [vec EXCEPT !.length = IF n < @ THEN n ELSE @]
    /\ list' = SubSeq(list, 1, vec'.length)
    /\ UNCHANGED denied

vec_reserve(n) ==
    /\ \E r \in vec_reserve_(vec, n) : vec' = r.v
    /\ UNCHANGED <<list, denied>>

\* vec_compact gives memory back, all of it if the vector is empty.
vec_compact ==
    /\ \/ vec' = Resized(vec, vec.length)
       \/ vec.length > 0 /\ UNCHANGED vec
    /\ UNCHANGED <<list, denied>>

\* vec_pusharr; with no memory it does nothing.  vec_extend is the same with
\* the elements of another vector, or of this one.
vec_pusharr(s) ==
    /\ vec.length + Len(s) <= MaxLength
    /\ \E r \in vec_reserve_po2_(vec, vec.length + Len(s)) :
        IF r.ok
        THEN /\ vec' = [data |-> [i \in DOMAIN r.v.data |->
                            IF i \in vec.length + 1 .. vec.length + Len(s)
                            THEN s[i - vec.length] ELSE r.v.data[i]],
                        length |-> vec.length + Len(s)]
             /\ list' = list \o s
        ELSE UNCHANGED <<vec, list>>
    /\ UNCHANGED denied

\* vec_find, -1 if there is none.
vec_find(v, x) ==
    IF \E i \in 0 .. v.length - 1 : v.data[i + 1] = x
    THEN CHOOSE i \in 0 .. v.length - 1 :
            v.data[i + 1] = x /\ \A j \in 1 .. i : v.data[j] # x
    ELSE -1

vec_remove(x) ==
    /\ vec' = IF vec_find(vec, x) = -1 THEN vec ELSE Spliced(vec, vec_find(vec, x), 1)
    /\ list' = IF x \in ToSet(list) THEN RemoveFirst(list, x) ELSE list
    /\ UNCHANGED denied

\* The swaps of vec_reverse, from the middle to the ends.
Mirror(v) ==
    LET half == v.length \div 2
        data[k \in 0 .. half] ==
            IF k = 0 THEN v.data
            ELSE Swapped(data[k - 1], half - k + 1, v.length - (half - k))
    IN  data[half]

vec_reverse ==
    /\ vec' = [vec EXCEPT !.data = Mirror(vec)]
    /\ list' = Reverse(list)
    /\ UNCHANGED denied

Indices == 0 .. MaxLength

\* Nothing is modelled of a vector that counts elements it has no memory for.
VecNext ==
    /\ ~denied
    /\ \/ vec_pop \/ vec_compact \/ vec_reverse
       \/ vec_pusharr(Content(vec)) \/ vec_pusharr(<<>>)
       \/ \E x \in Item : vec_push(x) \/ vec_remove(x)
       \/ \E i \in Indices, x \in Item : vec_insert(i, x)
       \/ \E i, j \in Indices : vec_splice(i, j) \/ vec_swapsplice(i, j) \/ vec_swap(i, j)
       \/ \E n \in Indices : vec_truncate(n) \/ vec_reserve(n)

VecSpec == VecInit /\ [][VecNext]_vecVars
-----------------------------------------------------------------------------
(* Properties. *)

VecTypeOK ==
    /\ vec.data \in Seq(Item \cup {Junk}) /\ vec.length \in Nat
    /\ list \in Seq(Item)
    /\ denied \in BOOLEAN

\* Whatever mixture of growing, moving and giving memory back: the elements
\* that count are the sequence the calls describe, never fresh memory, also
\* after calls that were refused memory, but for vec_insert.
IsTheList == ~denied => vec.length <= Capacity(vec) /\ Content(vec) = list

\* vec_swapsplice removes the elements it is told to and no others, if there
\* are none behind them or at least as many; else it loses some of those
\* behind and keeps some it should remove.
SwapSpliceKeepsTheRest ==
    [][\A start, count \in Indices :
        vec_swapsplice(start, count) /\ IsInjective(Content(vec)) =>
            LET behind == vec.length - start - count
            IN  (ToSet(Content(vec')) = ToSet(ListSpliced(Content(vec), start, count)))
                    <=> (behind = 0 \/ behind >= count)]_vecVars
=============================================================================
