------------------------------- MODULE KHash --------------------------------
(***************************************************************************)
(* The open-addressing hash table of base/khash.h with the wrappers of     *)
(* base/hash.c, in a build without assertions.  A table of void * is set,  *)
(* deleted from, resized and cleared; a table of list heads (of_lists)     *)
(* only creates them: a head is stored in the bucket by value and          *)
(* QUEUE_INIT makes it point at itself, so that what matters of it is the  *)
(* place it was initialised at.                                            *)
(***************************************************************************)
EXTENDS Integers, FiniteSets, Functions, Memory

CONSTANTS
    HashKey,    \* the keys of a table of void *; a key is its own hash (kh_int_hash_func)
    HashValue,  \* the values of int_hash_set
    ListKey,    \* the keys of a table of list heads
    ResizeTo,   \* the sizes kh_resize is called with
    MaxBuckets  \* bound on the table's size

\* The powers of two, up to what a khint_t is rounded up to without wrapping.
TwoTo[j \in 0 .. 30] == IF j = 0 THEN 1 ELSE 2 * TwoTo[j - 1]

HashAssumption ==
    /\ HashKey \subseteq Nat /\ ListKey \subseteq Nat
    /\ ResizeTo \subseteq 0 .. TwoTo[30]
    /\ MaxBuckets \in 0 .. TwoTo[29]

VARIABLES
    of_lists,   \* whether it is a table of list heads
    table,      \* n_buckets, size, n_occupied, flags, keys, vals
    block,      \* where the memory of vals is
    ret         \* what the last kh_put returned, by the wrapper

hashVars == <<of_lists, table, block, ret>>

kroundup32(n) ==
    CHOOSE p \in {TwoTo[j] : j \in 0 .. 30} : p >= n /\ (p = 1 \/ p < 2 * n)

\* Mutant: the table is never more than half full.
UpperHalf(n) == n \div 2

\* upper_bound: 0.77 of the buckets, rounded.
UpperBound(n) == (77 * n + 50) \div 100

\* The n-th bucket tried for a key: the steps grow by one.
Probe(k, n, buckets) == (k + (n * (n + 1)) \div 2) % buckets

\* How many steps it takes to a bucket of the set; as many as there are
\* buckets if there is none.
Steps(k, buckets, stop) ==
    LET found == {n \in 0 .. buckets - 1 : Probe(k, n, buckets) \in stop}
    IN  IF found = {} THEN buckets ELSE CHOOSE n \in found : \A o \in found : n <= o

With(t, state) == {i \in DOMAIN t.flags : t.flags[i] = state}
Holding(t, k) == {i \in With(t, "live") : t.keys[i] = k}

\* Where the walk for a key ends.
Stops(t, k) == Holding(t, k) \cup With(t, "empty")

\* kh_get; n_buckets when there is no such key
kh_get(t, k) ==
    LET b == t.n_buckets
        n == Steps(k, b, Stops(t, k))
    IN  IF n < b /\ t.flags[Probe(k, n, b)] = "live" THEN Probe(k, n, b) ELSE b

\* kh_init
HashInit ==
    /\ table = [n_buckets |-> 0, size |-> 0, n_occupied |-> 0,
                flags |-> <<>>, keys |-> <<>>, vals |-> <<>>]
    /\ of_lists \in BOOLEAN /\ block = 0 /\ ret = 1

-----------------------------------------------------------------------------
(* kh_resize.  The buckets of the table before and after share one memory;  *)
(* what is on its way between them is w: the next old bucket to look at and, *)
(* while it is busy, a key and a value that are in neither.                  *)

Unmoved(t, new) ==
    LET memory(f) == [i \in 0 .. (IF t.n_buckets < new THEN new ELSE t.n_buckets) - 1 |->
                        IF i < t.n_buckets THEN f[i] ELSE Junk]
    IN  [next |-> 0, busy |-> FALSE, key |-> Junk, val |-> Junk,
         flags |-> t.flags, fresh |-> [i \in 0 .. new - 1 |-> "empty"],
         keys |-> memory(t.keys), vals |-> memory(t.vals)]

\* A live bucket is marked as deleted.
Marked(flags, i) ==
    [j \in DOMAIN flags |-> IF j = i /\ flags[j] = "live" THEN "deleted" ELSE flags[j]]

\* for (j = 0; j != h->n_buckets; ++j)
TakeUp(w) ==
    IF w.flags[w.next] # "live" THEN [w EXCEPT !.next = @ + 1]
    ELSE [w EXCEPT !.next = @ + 1, !.busy = TRUE, !.flags = Marked(@, w.next),
                   !.key = w.keys[w.next], !.val = w.vals[w.next]]

NewBucket(w, new) ==
    Probe(w.key, Steps(w.key, new, {j \in DOMAIN w.fresh : w.fresh[j] = "empty"}), new)

\* Mutant: an element that is in the way is overwritten.
PutDownOver(w, new) ==
    LET i == NewBucket(w, new)
    IN  [w EXCEPT !.fresh[i] = "live", !.keys[i] = w.key, !.vals[i] = w.val,
                  !.flags = Marked(@, i), !.busy = FALSE]

\* while (1): an element is written to its new bucket; one that is there still,
\* and has yet to move, is kicked out and takes its turn.
PutDown(w, new) ==
    LET i == NewBucket(w, new)
        written == [w EXCEPT !.fresh[i] = "live", !.keys[i] = w.key, !.vals[i] = w.val,
                             !.flags = Marked(@, i)]
    IN  IF i \in With(w, "live")
        THEN [written EXCEPT !.key = w.keys[i], !.val = w.vals[i]]
        ELSE [written EXCEPT !.busy = FALSE]

TakeTurn(w, new) ==
    IF w.busy THEN PutDown(w, new)
    ELSE IF w.next \in DOMAIN w.flags THEN TakeUp(w)
    ELSE w

\* Every bucket is taken up once and everything that was in one put down once.
AllMoved(t, new) ==
    LET moving[n \in 0 .. 2 * t.n_buckets] ==
            IF n = 0 THEN Unmoved(t, new) ELSE TakeTurn(moving[n - 1], new)
    IN  moving[2 * t.n_buckets]

Rehashed(t, new) ==
    LET w == AllMoved(t, new)
        cut(f) == [i \in 0 .. new - 1 |-> f[i]]
    IN  [n_buckets |-> new, size |-> t.size, n_occupied |-> t.size,
         flags |-> w.fresh, keys |-> cut(w.keys), vals |-> cut(w.vals)]

NewSize(n) == IF n <= 4 THEN 4 ELSE kroundup32(n)
TooSmall(t, n) == t.size >= UpperBound(NewSize(n))

\* A size that is too small for the elements is refused silently.
OfSize(t, n) == IF TooSmall(t, n) THEN t ELSE Rehashed(t, NewSize(n))

\* realloc may move the values when their number changes; nothing but a list
\* head has a place to keep.
MayMove(t, u) ==
    block' \in (IF of_lists /\ t.n_buckets # u.n_buckets THEN {block, block + 1} ELSE {block})

-----------------------------------------------------------------------------
(* kh_put and kh_del.                                                      *)

\* A table at its bound is rehashed in place if more than half of it is free
\* of live elements, and doubled if not - even for a key that is in it.
Full(t) == t.n_occupied >= UpperBound(t.n_buckets)
Room(t) ==
    IF ~Full(t) THEN t
    ELSE OfSize(t, IF t.n_buckets > 2 * t.size THEN t.n_buckets - 1 ELSE t.n_buckets + 1)

\* The bucket kh_put chooses: the key's own, or else the last deleted one on
\* the way to an empty one.
BucketFor(t, k) ==
    LET b == t.n_buckets
        end == Steps(k, b, Stops(t, k))
        passed == {n \in 0 .. end - 1 : Probe(k, n, b) \in With(t, "deleted")}
    IN  IF passed = {} \/ (end < b /\ Probe(k, end, b) \in With(t, "live"))
        THEN Probe(k, end, b)
        ELSE Probe(k, CHOOSE n \in passed : \A o \in passed : o <= n, b)

\* The table with a value for k, put into a table that has room.
WithValue(t, k, v) ==
    LET x == BucketFor(t, k)
    IN  [t EXCEPT !.size = IF t.flags[x] = "live" THEN @ ELSE @ + 1,
                  !.n_occupied = IF t.flags[x] = "empty" THEN @ + 1 ELSE @,
                  !.flags[x] = "live", !.keys[x] = k, !.vals[x] = v]

Result(t, k) ==
    CASE t.flags[BucketFor(t, k)] = "empty" -> 1
      [] t.flags[BucketFor(t, k)] = "deleted" -> 2
      [] OTHER -> 0

Fits(t) == t.n_buckets <= MaxBuckets

\* kh_put found no memory and returns -1: the table is as it was.  Without
\* assertions the wrapper then writes behind the table: the end of this model.
Fails == Full(table) /\ ret' = -1 /\ UNCHANGED <<table, block>>

Works == ret # -1

\* int_hash_set: the value of a key that is there is replaced.
int_hash_set(k, v) ==
    /\ Works /\ ~of_lists
    /\ LET t == Room(table)
       IN  \/ /\ Fits(t) /\ MayMove(table, t)
              /\ table' = WithValue(t, k, v) /\ ret' = Result(t, k)
           \/ Fails

\* int_hash_get_or_create_list, of a key that has no list
int_hash_get_or_create_list(k) ==
    /\ Works /\ of_lists /\ kh_get(table, k) = table.n_buckets
    /\ LET t == Room(table)
       IN  \/ /\ Fits(t) /\ MayMove(table, t)
              /\ table' = WithValue(t, k, <<block', BucketFor(t, k)>>) /\ ret' = Result(t, k)
           \/ Fails

\* kh_del of what kh_get found
kh_del(k) ==
    /\ Works /\ ~of_lists /\ kh_get(table, k) # table.n_buckets
    /\ table' = [table EXCEPT !.flags[kh_get(table, k)] = "deleted", !.size = @ - 1]
    /\ UNCHANGED <<block, ret>>

kh_resize(n) ==
    /\ Works /\ ~of_lists /\ Fits(OfSize(table, n))
    /\ table' = OfSize(table, n) /\ MayMove(table, table')
    /\ UNCHANGED ret

kh_clear ==
    /\ Works /\ ~of_lists
    /\ table' = [table EXCEPT !.flags = [i \in DOMAIN table.flags |-> "empty"],
                              !.size = 0, !.n_occupied = 0]
    /\ UNCHANGED <<block, ret>>

HashNext ==
    /\ \/ \E k \in HashKey : kh_del(k) \/ \E v \in HashValue : int_hash_set(k, v)
       \/ \E k \in ListKey : int_hash_get_or_create_list(k)
       \/ \E n \in ResizeTo : kh_resize(n)
       \/ kh_clear
    /\ UNCHANGED of_lists

HashSpec == HashInit /\ [][HashNext]_hashVars

-----------------------------------------------------------------------------
(* Properties.                                                             *)

HashTypeOK ==
    /\ of_lists \in BOOLEAN
    /\ table.n_buckets \in {0} \cup {TwoTo[j] : j \in 2 .. 29} /\ Fits(table)
    /\ table.flags \in [0 .. table.n_buckets - 1 -> {"empty", "live", "deleted"}]
    /\ DOMAIN table.keys = DOMAIN table.flags /\ DOMAIN table.vals = DOMAIN table.flags
    /\ \A i \in With(table, "live") : table.keys[i] \in IF of_lists THEN ListKey ELSE HashKey
    /\ table.size = Cardinality(With(table, "live"))
    /\ table.n_occupied = Cardinality(DOMAIN table.flags \ With(table, "empty"))
    /\ block \in 0 .. table.n_buckets /\ ret \in {-1, 0, 1, 2}

\* The walks of kh_get, kh_put and kh_resize stop only at a bucket that is
\* empty or holds the key, and a key must be met before an empty bucket:
\* deleting, reusing deleted buckets and rehashing in place keep it so, and
\* keep every key in one bucket only.
EveryKeyIsMet ==
    /\ table.n_buckets # 0 => With(table, "empty") # {}
    /\ \A i \in With(table, "live") : kh_get(table, table.keys[i]) = i

HashContent(t) ==
    [k \in {t.keys[i] : i \in With(t, "live")} |->
        t.vals[CHOOSE i \in With(t, "live") : t.keys[i] = k]]

\* Whatever is deleted, rehashed or cannot be allocated: a table is the map its
\* calls describe.  The values of a table of list heads are the places they
\* were initialised at.
Map ==
    INSTANCE KeyMap WITH
        Key <- HashKey \cup ListKey,
        Value <- HashValue \cup (0 .. MaxBuckets) \X (0 .. MaxBuckets),
        map <- HashContent(table)
ImplementsMap == Map!Spec

\* A head that has been handed out stays where it is, and empty, while there
\* are no more than three: the fourth key makes the first table grow, and every
\* head that moves still points at its old place.
FirstThreeStay ==
    of_lists /\ table.size <= 3 =>
        \A i \in With(table, "live") : table.vals[i] = <<block, i>>
=============================================================================
