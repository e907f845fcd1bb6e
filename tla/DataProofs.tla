----------------------------- MODULE DataProofs ------------------------------
(***************************************************************************)
(* Proofs about the data below the engine, for every set of nodes, elements*)
(* and ids: the array from ids to pointers, in whatever order ids are set  *)
(* and whatever fresh memory holds; the arithmetic of dates, for every day *)
(* of every year up to 9999; the heap, which implements the set its caller *)
(* thinks of and stays a tree; the vector, which is the sequence its calls *)
(* describe; the intrusive lists, which stay rings however they are split, *)
(* joined and walked; and the hash table, which is the map its calls       *)
(* describe however it is rehashed.                                        *)
(***************************************************************************)
EXTENDS IdArray, DateTime, Heap, Vec, IntrusiveList, KHash,
        FiniteSetTheorems, SequenceTheorems, WellFoundedInduction, TLAPS

-----------------------------------------------------------------------------
(* Numbers and sequences. *)

\* A non-empty set of numbers has a smallest member.
LEMMA SmallestMember ==
  ASSUME NEW T \in SUBSET Nat, T # {}
  PROVE  \E x \in T : \A y \in T : x <= y
<1>1. PICK x \in T : \A y \in T : ~ (<<y, x>> \in OpToRel(<, Nat))
  BY WFMin, NatLessThanWellFounded
<1>2. \A y \in T : ~(y < x)
  BY <1>1 DEF OpToRel
<1> QED
  BY <1>2

\* A part of a sequence.
LEMMA PartOf ==
  ASSUME NEW S, NEW s \in Seq(S), NEW a \in 1 .. Len(s) + 1, NEW b \in a - 1 .. Len(s)
  PROVE  /\ SubSeq(s, a, b) \in Seq(S) /\ Len(SubSeq(s, a, b)) = b - a + 1
         /\ \A i \in 1 .. b - a + 1 : SubSeq(s, a, b)[i] = s[a + i - 1]
<1>1. Len(s) \in Nat /\ a \in Int /\ b \in Int
  BY LenProperties
<1>2. CASE a <= b
  BY <1>1, <1>2, SubSeqProperties
<1>3. CASE a > b
  BY <1>1, <1>3, SubSeqProperties
<1> QED
  BY <1>1, <1>2, <1>3

\* A sequence without its i-th element.
LEMMA Without ==
  ASSUME NEW S, NEW s \in Seq(S), NEW i \in 1 .. Len(s)
  PROVE  /\ RemoveAt(s, i) \in Seq(S) /\ Len(RemoveAt(s, i)) = Len(s) - 1
         /\ \A j \in 1 .. Len(s) - 1 :
                RemoveAt(s, i)[j] = IF j < i THEN s[j] ELSE s[j + 1]
<1> DEFINE a == SubSeq(s, 1, i - 1)
           b == SubSeq(s, i + 1, Len(s))
<1>1. Len(s) \in Nat /\ i \in Nat /\ i >= 1 /\ i <= Len(s)
  BY LenProperties
<1>2. /\ a \in Seq(S) /\ Len(a) = i - 1 /\ \A j \in 1 .. i - 1 : a[j] = s[j]
  BY <1>1, SubSeqProperties
<1>3. /\ b \in Seq(S) /\ Len(b) = Len(s) - i
      /\ \A j \in 1 .. Len(s) - i : b[j] = s[(i + 1) + j - 1]
  BY <1>1, SubSeqProperties
<1> HIDE DEF a, b
<1>4. /\ a \o b \in Seq(S) /\ Len(a \o b) = Len(a) + Len(b)
      /\ \A j \in 1 .. Len(a) + Len(b) : (a \o b)[j] = IF j <= Len(a) THEN a[j] ELSE b[j - Len(a)]
  BY <1>2, <1>3, ConcatProperties
<1>5. RemoveAt(s, i) = a \o b
  BY DEF RemoveAt, a, b
<1>6. ASSUME NEW j \in 1 .. Len(s) - 1
      PROVE  (a \o b)[j] = IF j < i THEN s[j] ELSE s[j + 1]
  <2>1. CASE j < i
    BY <1>1, <1>2, <1>3, <1>4, <2>1
  <2>2. CASE j >= i
    <3>1. (a \o b)[j] = b[j - (i - 1)]
      BY <1>1, <1>2, <1>3, <1>4, <2>2
    <3>2. j - (i - 1) \in 1 .. Len(s) - i /\ (i + 1) + (j - (i - 1)) - 1 = j + 1
      BY <1>1, <2>2
    <3>3. b[j - (i - 1)] = s[(i + 1) + (j - (i - 1)) - 1]
      BY <1>3, <3>2
    <3> QED
      BY <1>1, <2>2, <3>1, <3>2, <3>3
  <2>3. j < i \/ j >= i
    BY <1>1
  <2> QED
    BY <2>1, <2>2, <2>3
<1>7. Len(a \o b) = Len(s) - 1
  BY <1>1, <1>2, <1>3, <1>4
<1> QED
  BY <1>4, <1>5, <1>6, <1>7

-----------------------------------------------------------------------------
(* The id array: how it grows. *)


\* The next power of two is large enough.
LEMMA RoundUpFits ==
  ASSUME NEW n \in 1 .. 1024
  PROVE  RoundUp(n) \in Nat /\ RoundUp(n) >= n
<1> DEFINE P == {1, 2, 4, 8, 16, 32, 64, 128, 256, 512, 1024}
<1>1. \E p \in P : p >= n /\ p < 2 * n
  OBVIOUS
<1>2. RoundUp(n) \in P /\ RoundUp(n) >= n
  BY <1>1 DEF RoundUp
<1> QED
  BY <1>2

\* There is room for the id that made the array grow.
LEMMA SizeFits ==
  ASSUME IdArrayAssumption, NEW i \in Id
  PROVE  i \in Nat /\ SizeFor(i) \in Nat /\ i < SizeFor(i)
<1>1. i \in 0 .. 1023 /\ MinSize \in 1 .. 16
  BY DEF IdArrayAssumption
<1> DEFINE n == IF i + 1 < MinSize THEN MinSize ELSE i + 1
<1>2. n \in 1 .. 1024 /\ i < n
  BY <1>1
<1>3. RoundUp(n) \in Nat /\ RoundUp(n) >= n
  <2> HIDE DEF n
  <2> QED
    BY <1>2, RoundUpFits
<1> QED
  BY <1>1, <1>2, <1>3 DEF SizeFor

-----------------------------------------------------------------------------
(* The id array: what every cell holds. *)

\* What a cell holds: what was stored, rubbish, or nothing.
Holds(j) == IF j \in DOMAIN stored THEN stored[j] ELSE IF j \in gaps THEN Junk ELSE 0

\* The memory has ida_m cells, nothing is known of ids beyond it, and every cell
\* holds what its id was last set to.
CellsHold ==
    /\ ida_m \in Nat /\ DOMAIN ida_a = 0 .. ida_m - 1
    /\ DOMAIN stored \subseteq 0 .. ida_m - 1 /\ gaps \subseteq 0 .. ida_m - 1
    /\ \A j \in 0 .. ida_m - 1 : ida_a[j] = Holds(j)

\* The array without memory.
LEMMA EmptyMemory ==
  ASSUME ida_m = 0, ida_a = <<>>, stored = <<>>, gaps = {}
  PROVE  CellsHold
<1>1. DOMAIN ida_a = {} /\ DOMAIN stored = {} /\ 0 .. ida_m - 1 = {}
  OBVIOUS
<1> QED
  BY <1>1 DEF CellsHold

\* Setting an id inside the array.
LEMMA SetInside ==
  ASSUME IdArrayAssumption, CellsHold, NEW i \in Id, NEW x \in Value, ida_set(i, x), i < ida_m
  PROVE  CellsHold'
<1>1. i \in 0 .. ida_m - 1
  BY SizeFits DEF CellsHold
<1>2. ida_a' = [ida_a EXCEPT ![i] = x] /\ ida_m' = ida_m /\ gaps' = gaps
  BY DEF ida_set
<1>3. stored' = [j \in DOMAIN stored \cup {i} |-> IF j = i THEN x ELSE stored[j]]
  BY DEF ida_set
<1> QED
  BY <1>1, <1>2, <1>3 DEF CellsHold, Holds

\* Setting an id beyond the end: the old cells are copied, the id's own is set,
\* those in front of it are gaps and those behind it are cleared.
LEMMA SetBeyond ==
  ASSUME IdArrayAssumption, CellsHold, NEW i \in Id, NEW x \in Value, ida_set(i, x), ~(i < ida_m)
  PROVE  CellsHold'
<1>1. i \in Nat /\ ida_m' \in Nat /\ i < ida_m' /\ ida_m \in Nat /\ ida_m <= i
  BY SizeFits DEF ida_set, CellsHold
<1>2. ida_a' = [j \in 0 .. ida_m' - 1 |->
              CASE j = i -> x
                [] j # i /\ j < ida_m -> ida_a[j]
                [] OTHER -> IF j < i THEN Junk ELSE 0]
      /\ gaps' = gaps \cup (ida_m .. i - 1)
  BY DEF ida_set, ClearedFrom
<1>3. stored' = [j \in DOMAIN stored \cup {i} |-> IF j = i THEN x ELSE stored[j]]
  BY DEF ida_set
<1>4. ASSUME NEW j \in 0 .. ida_m' - 1
      PROVE  ida_a'[j] = Holds(j)'
  <2>1. CASE j = i
    BY <1>2, <1>3, <2>1 DEF Holds
  <2>2. CASE j # i /\ j < ida_m
    <3>1. ida_a'[j] = Holds(j)
      BY <1>1, <1>2, <2>2 DEF CellsHold
    <3> QED
      BY <1>1, <1>2, <1>3, <2>2, <3>1 DEF Holds
  <2>3. CASE j # i /\ ~(j < ida_m)
    <3>1. ida_a'[j] = (IF j < i THEN Junk ELSE 0) /\ j \notin DOMAIN stored'
      BY <1>1, <1>2, <1>3, <2>3 DEF CellsHold
    <3>2. j \in gaps' <=> j < i
      BY <1>1, <1>2, <2>3 DEF CellsHold
    <3> QED
      BY <3>1, <3>2 DEF Holds
  <2> QED
    BY <2>1, <2>2, <2>3
<1>5. DOMAIN ida_a' = 0 .. ida_m' - 1
  BY <1>2
<1>6. DOMAIN stored' \subseteq 0 .. ida_m' - 1 /\ gaps' \subseteq 0 .. ida_m' - 1
  BY <1>1, <1>2, <1>3 DEF CellsHold
<1> QED
  BY <1>1, <1>4, <1>5, <1>6 DEF CellsHold

\* Setting, growing, clearing and giving memory back keep the memory as described.
LEMMA MemoryStep ==
  ASSUME IdArrayAssumption, CellsHold, [Next]_vars
  PROVE  CellsHold'
<1>1. ASSUME ida_clear PROVE CellsHold'
  <2>1. DOMAIN ida_a' = {} /\ DOMAIN stored' = {} /\ ida_m' = 0 /\ gaps' = {} /\ 0 .. ida_m' - 1 = {}
    BY <1>1 DEF ida_clear
  <2> QED
    BY <2>1 DEF CellsHold
<1>2. ASSUME NEW i \in Id, NEW x \in Value, ida_set(i, x)
      PROVE  CellsHold'
  BY <1>2, SetInside, SetBeyond
<1>3. CASE UNCHANGED vars
  BY <1>3 DEF CellsHold, Holds, vars
<1> QED
  BY <1>1, <1>2, <1>3 DEF Next

\* ida_get gives what ida_set stored, however often the array grew in between;
\* an id that was never set reads as 0, or as rubbish if a growth jumped over it.
THEOREM ReadsBack ==
  ASSUME IdArrayAssumption
  PROVE  Spec => []GetsWhatWasSet
<1>1. Init => CellsHold
  BY EmptyMemory DEF Init
<1>2. CellsHold /\ [Next]_vars => CellsHold'
  BY MemoryStep
<1>3. CellsHold => GetsWhatWasSet
  <2> SUFFICES ASSUME CellsHold, NEW i \in Id
               PROVE  ida_get(i) = Holds(i)
    BY DEF GetsWhatWasSet, Holds
  <2>1. CASE i >= ida_m
    BY SizeFits, <2>1 DEF CellsHold, ida_get, Holds
  <2>2. CASE ~(i >= ida_m)
    BY SizeFits, <2>2 DEF CellsHold, ida_get
  <2> QED
    BY <2>1, <2>2
<1> QED
  BY <1>1, <1>2, <1>3, PTL DEF Spec

-----------------------------------------------------------------------------
(* The calendar: months and years as sums of days. *)

\* One if y is a leap year.
LeapDay(y) == IF leap_year(y) THEN 1 ELSE 0

\* The days before year y, as the code computes them.
YearStart(y) == yd_to_rdn(y, 0)

\* The days of year y before month mo, from the code's tables.
Preceding(y, mo) ==
    days_preceding_month[IF leap_year(y) THEN "leap" ELSE "plain"][mo]

\* The tables in numbers.
LEMMA PrecedingIs ==
  ASSUME NEW y \in Nat
  PROVE  /\ Preceding(y, 1) = 0 /\ Preceding(y, 2) = 31
         /\ Preceding(y, 3) = 59 + LeapDay(y) /\ Preceding(y, 4) = 90 + LeapDay(y)
         /\ Preceding(y, 5) = 120 + LeapDay(y) /\ Preceding(y, 6) = 151 + LeapDay(y)
         /\ Preceding(y, 7) = 181 + LeapDay(y) /\ Preceding(y, 8) = 212 + LeapDay(y)
         /\ Preceding(y, 9) = 243 + LeapDay(y) /\ Preceding(y, 10) = 273 + LeapDay(y)
         /\ Preceding(y, 11) = 304 + LeapDay(y) /\ Preceding(y, 12) = 334 + LeapDay(y)
<1>1. CASE leap_year(y)
  BY <1>1 DEF Preceding, LeapDay, days_preceding_month
<1>2. CASE ~leap_year(y)
  BY <1>2 DEF Preceding, LeapDay, days_preceding_month
<1> QED
  BY <1>1, <1>2

\* The rule for leap years, said in two ways.
LEMMA LeapYears ==
  ASSUME NEW y \in Nat, y <= 9999
  PROVE  IsLeap(y) <=> leap_year(y)
<1>1. (\E c \in 0 .. 99 : y = 100 * c) <=> (y % 100) = 0
  <2>1. ASSUME (y % 100) = 0 PROVE \E c \in 0 .. 99 : y = 100 * c
    <3>1. y = 100 * (y \div 100) /\ y \div 100 \in 0 .. 99
      BY <2>1
    <3> QED
      BY <3>1
  <2> QED
    BY <2>1
<1>2. (y % 400) = 0 => (y % 4) = 0
  <2> SUFFICES ASSUME (y % 400) = 0 PROVE (y % 4) = 0
    OBVIOUS
  <2> DEFINE k == y \div 400
  <2>1. k \in Nat /\ y = 400 * k
    OBVIOUS
  <2> HIDE DEF k
  <2>2. y = 4 * (100 * k)
    BY <2>1
  <2> QED
    BY <2>1, <2>2
<1> QED
  BY <1>1, <1>2 DEF IsLeap, leap_year

\* The numbers of days before a year, one year after another.
LEMMA YearStartNext ==
  ASSUME NEW y \in Nat \ {0}
  PROVE  /\ YearStart(y) \in Nat /\ LeapDay(y) \in {0, 1}
         /\ YearStart(y + 1) = YearStart(y) + 365 + LeapDay(y)
<1>1. y - 1 \in Nat
  OBVIOUS
<1> DEFINE c == y - 1
<1>2. c \in Nat /\ y = c + 1
  OBVIOUS
<1> HIDE DEF c
<1>3. (c + 1) \div 4 = (c \div 4) + (IF (y % 4) = 0 THEN 1 ELSE 0)
  BY <1>2
<1>4. (c + 1) \div 100 = (c \div 100) + (IF (y % 100) = 0 THEN 1 ELSE 0)
  BY <1>2
<1>5. (c + 1) \div 400 = (c \div 400) + (IF (y % 400) = 0 THEN 1 ELSE 0)
  BY <1>2
<1>6. (y % 400) = 0 => (y % 100) = 0
  BY <1>2
<1>6a. (y % 100) = 0 => (y % 4) = 0
  BY <1>2
<1>7. LeapDay(y) = (IF (y % 4) = 0 THEN 1 ELSE 0) - (IF (y % 100) = 0 THEN 1 ELSE 0)
                     + (IF (y % 400) = 0 THEN 1 ELSE 0)
  BY <1>6, <1>6a DEF LeapDay, leap_year
<1>8. /\ YearStart(y) = 365 * c + c \div 4 - c \div 100 + c \div 400
      /\ YearStart(y + 1) = 365 * (c + 1) + (c + 1) \div 4 - (c + 1) \div 100 + (c + 1) \div 400
  <2>1. (y + 1) - 1 = c + 1 /\ y - 1 = c
    BY <1>2
  <2> QED
    BY <1>2, <2>1 DEF YearStart, yd_to_rdn
<1>9. YearStart(y) \in Nat
  BY <1>2, <1>8
<1>10. LeapDay(y) \in {0, 1}
  BY DEF LeapDay
<1> QED
  BY <1>2, <1>3, <1>4, <1>5, <1>7, <1>8, <1>9, <1>10

\* Counting the leap years gives the number of days the code computes.
LeapsBefore(y) == {x \in 1 .. y - 1 : IsLeap(x)}

RightCount(y) ==
    IsFiniteSet(LeapsBefore(y)) /\ DaysBefore(y) = YearStart(y)

\* No leap year lies before the first year.
LEMMA FirstYear == RightCount(1)
<1>1. LeapsBefore(1) = {}
  BY DEF LeapsBefore
<1>2. IsFiniteSet(LeapsBefore(1)) /\ Cardinality(LeapsBefore(1)) = 0
  BY <1>1, FS_EmptySet
<1>3. DaysBefore(1) = 0
  BY <1>2 DEF DaysBefore, LeapsBefore
<1>4. YearStart(1) = 0
  BY DEF YearStart, yd_to_rdn
<1> QED
  BY <1>2, <1>3, <1>4 DEF RightCount

\* Another year, another 365 or 366 days.
LEMMA NextYear ==
  ASSUME NEW k \in Nat \ {0}, k <= 9999, RightCount(k) PROVE RightCount(k + 1)
<1> DEFINE s == LeapsBefore(k)
           t == LeapsBefore(k + 1)
<1>1. t = s \cup (IF leap_year(k) THEN {k} ELSE {}) /\ k \notin s
  <2>1. \A x : x \in 1 .. (k + 1) - 1 <=> x \in 1 .. k - 1 \/ x = k
    OBVIOUS
  <2>2. IsLeap(k) <=> leap_year(k)
    BY LeapYears
  <2> QED
    BY <2>1, <2>2 DEF LeapsBefore
<1>2. /\ DaysBefore(k) = 365 * (k - 1) + Cardinality(s)
      /\ DaysBefore(k + 1) = 365 * ((k + 1) - 1) + Cardinality(t)
  BY DEF DaysBefore, LeapsBefore
<1> HIDE DEF s, t
<1>3. IsFiniteSet(s) /\ DaysBefore(k) = YearStart(k)
  BY DEF RightCount, s
<1>4. Cardinality(s) \in Nat
  BY <1>3, FS_CardinalityType
<1>5. IsFiniteSet(t) /\ Cardinality(t) = Cardinality(s) + LeapDay(k)
  <2>1. CASE leap_year(k)
    BY <1>1, <1>3, <2>1, FS_AddElement DEF LeapDay
  <2>2. CASE ~leap_year(k)
    BY <1>1, <1>3, <1>4, <2>2 DEF LeapDay
  <2> QED
    BY <2>1, <2>2
<1>6. YearStart(k) \in Nat /\ YearStart(k + 1) = YearStart(k) + 365 + LeapDay(k) /\ LeapDay(k) \in {0, 1}
  BY YearStartNext
<1>7. DaysBefore(k + 1) = YearStart(k + 1)
  BY <1>2, <1>3, <1>4, <1>5, <1>6
<1> QED
  BY <1>5, <1>7 DEF RightCount, t

\* Counting the leap years gives the number of days the code computes.
LEMMA DaysAreCounted ==
  ASSUME NEW y \in Nat \ {0}, y <= 9999 PROVE DaysBefore(y) = YearStart(y)
<1> DEFINE Wrong == {n \in Nat \ {0} : n <= 9999 /\ ~RightCount(n)}
<1>1. ASSUME Wrong # {} PROVE FALSE
  <2>1. PICK n \in Wrong : \A k \in Wrong : n <= k
    <3>1. Wrong \in SUBSET Nat
      OBVIOUS
    <3> HIDE DEF Wrong
    <3> QED
      BY <1>1, <3>1, SmallestMember
  <2>2. n \in Nat \ {0} /\ n <= 9999 /\ ~RightCount(n) /\ n # 1
    BY FirstYear
  <2> DEFINE k == n - 1
  <2>3. k \in Nat \ {0} /\ k <= 9999 /\ n = k + 1 /\ ~(n <= k)
    BY <2>2
  <2>4. RightCount(k)
    BY <2>1, <2>3
  <2> HIDE DEF k
  <2> QED
    BY <2>2, <2>3, <2>4, NextYear
<1>2. y \notin Wrong
  <2> HIDE DEF Wrong
  <2> QED
    BY <1>1
<1> QED
  BY <1>2 DEF RightCount

-----------------------------------------------------------------------------
(* Day numbers and dates. *)

\* The last day of month mo of year y.
LastDay(y, mo) ==
    IF mo = 2 THEN 28 + LeapDay(y) ELSE IF mo \in Thirty THEN 30 ELSE 31

\* A date is one of the calendar's.
IsDate(y, mo, d) ==
    y \in Nat \ {0} /\ mo \in 1 .. 12 /\ d \in Nat \ {0} /\ d <= LastDay(y, mo)

\* The number of a date.
Number(y, mo, d) == YearStart(y) + Preceding(y, mo) + d - 1

\* The three divisions of rdn_to_ymd: the year that began in March, the day of
\* it, and its month.
MarchYear(Z) ==
    LET H == 100 * Z - 25
        A == H \div 3652425
        B == A - A \div 4
    IN  (100 * B + H) \div 36525

MarchDay(Z) ==
    LET H == 100 * Z - 25
        A == H \div 3652425
        B == A - A \div 4
    IN  B + Z - (1461 * MarchYear(Z)) \div 4

MarchMonth(e) == (535 * e + 48950) \div 16384

\* Day e of year y, both counted from March: the centuries, the years and the days
\* come out of the divisions of Baum's algorithm.
LEMMA MarchYears ==
  ASSUME NEW y \in Nat, NEW e \in Nat \ {0}, e <= 366, e = 366 => leap_year(y + 1),
         NEW Z \in Int, Z = YearStart(y + 1) + e
  PROVE  MarchYear(Z) = y /\ MarchDay(Z) = e
<1>1. PICK c \in Nat, r \in 0 .. 99 : y = 100 * c + r
  <2>1. y \div 100 \in Nat /\ (y % 100) \in 0 .. 99 /\ y = 100 * (y \div 100) + (y % 100)
    OBVIOUS
  <2> QED
    BY <2>1
<1>2. PICK q \in Nat, s \in 0 .. 3 : c = 4 * q + s
  <2>1. c \div 4 \in Nat /\ (c % 4) \in 0 .. 3 /\ c = 4 * (c \div 4) + (c % 4)
    OBVIOUS
  <2> QED
    BY <2>1
<1>3. PICK t \in 0 .. 24, u \in 0 .. 3 : r = 4 * t + u
  <2>1. r \div 4 \in 0 .. 24 /\ (r % 4) \in 0 .. 3 /\ r = 4 * (r \div 4) + (r % 4)
    OBVIOUS
  <2> QED
    BY <2>1
<1>4. y \div 100 = c /\ y \div 4 = 25 * c + t /\ y \div 400 = q /\ c \div 4 = q
  BY <1>1, <1>2, <1>3
<1>5. e = 366 => u = 3 /\ (r = 99 => s = 3)
  BY <1>1, <1>2, <1>3 DEF leap_year
<1>6. Z = 365 * y + (25 * c + t) - c + q + e
  <2>1. (y + 1) - 1 = y
    OBVIOUS
  <2>2. Z = 365 * y + y \div 4 - y \div 100 + y \div 400 + e
    BY <2>1 DEF YearStart, yd_to_rdn
  <2> QED
    BY <1>4, <2>2
<1> DEFINE H == 100 * Z - 25
           A == H \div 3652425
           B == A - A \div 4
<1>0. /\ MarchYear(Z) = (100 * B + H) \div 36525
      /\ MarchDay(Z) = B + Z - (1461 * MarchYear(Z)) \div 4
  BY DEF MarchYear, MarchDay
<1>7. A = c
  BY <1>1, <1>2, <1>3, <1>5, <1>6
<1> HIDE DEF A
<1>8. B = c - q
  BY <1>4, <1>7
<1> HIDE DEF B
<1>9. (100 * (c - q) + H) \div 36525 = y
  BY <1>1, <1>2, <1>3, <1>5, <1>6
<1>10. (1461 * y) \div 4 = 365 * y + 25 * c + t
  BY <1>1, <1>3
<1>11. c - q + Z - (1461 * y) \div 4 = e
  BY <1>6, <1>10
<1> HIDE DEF H
<1> QED
  BY <1>0, <1>8, <1>9, <1>11

\* The month of a day counted from March, January and February being the
\* thirteenth and fourteenth; o is the number of days before it.
LEMMA MarchMonths ==
  ASSUME NEW n \in Nat, NEW o \in Nat, NEW d \in Nat \ {0},
         \/ n = 3 /\ o = 0 /\ d <= 31
         \/ n = 4 /\ o = 31 /\ d <= 30
         \/ n = 5 /\ o = 61 /\ d <= 31
         \/ n = 6 /\ o = 92 /\ d <= 30
         \/ n = 7 /\ o = 122 /\ d <= 31
         \/ n = 8 /\ o = 153 /\ d <= 31
         \/ n = 9 /\ o = 184 /\ d <= 30
         \/ n = 10 /\ o = 214 /\ d <= 31
         \/ n = 11 /\ o = 245 /\ d <= 30
         \/ n = 12 /\ o = 275 /\ d <= 31
         \/ n = 13 /\ o = 306 /\ d <= 31
         \/ n = 14 /\ o = 337 /\ d <= 29
  PROVE  MarchMonth(o + d) = n
BY DEF MarchMonth

\* A month begins where the one before it ends.
LEMMA MonthsJoin ==
  ASSUME NEW y \in Nat \ {0}, NEW mo \in 1 .. 12
  PROVE  /\ LeapDay(y) \in {0, 1} /\ LastDay(y, mo) \in 28 .. 31
         /\ Preceding(y, mo) \in 0 .. 335
         /\ mo < 12 => Preceding(y, mo + 1) = Preceding(y, mo) + LastDay(y, mo)
         /\ mo = 12 => Preceding(y, mo) + LastDay(y, mo) = 365 + LeapDay(y)
<1>1. LeapDay(y) \in {0, 1}
  BY DEF LeapDay
<1>2. mo \in {1, 2, 3, 4, 5, 6, 7, 8, 9, 10, 11, 12}
  OBVIOUS
<1>3. /\ LastDay(y, 1) = 31 /\ LastDay(y, 2) = 28 + LeapDay(y) /\ LastDay(y, 3) = 31
      /\ LastDay(y, 4) = 30 /\ LastDay(y, 5) = 31 /\ LastDay(y, 6) = 30
      /\ LastDay(y, 7) = 31 /\ LastDay(y, 8) = 31 /\ LastDay(y, 9) = 30
      /\ LastDay(y, 10) = 31 /\ LastDay(y, 11) = 30 /\ LastDay(y, 12) = 31
  BY DEF LastDay, Thirty
<1> QED
  BY <1>1, <1>2, <1>3, PrecedingIs

\* rdn_to_ymd finds the date and the day of the year.
LEMMA DateOfNumber ==
  ASSUME NEW y, NEW mo, NEW d, IsDate(y, mo, d)
  PROVE  rdn_to_ymd(Number(y, mo, d)) =
           [year |-> y, month |-> mo, day |-> d, yday |-> Preceding(y, mo) + d]
<1> DEFINE x == Number(y, mo, d)
           Z == FromMarch(x)
           z == MarchYear(Z)
           e == MarchDay(Z)
           n == MarchMonth(e)
<1>1. /\ y \in Nat \ {0} /\ mo \in 1 .. 12 /\ d \in Nat \ {0} /\ d <= LastDay(y, mo)
      /\ LeapDay(y) \in {0, 1} /\ YearStart(y) \in Nat
      /\ YearStart(y + 1) = YearStart(y) + 365 + LeapDay(y)
  BY YearStartNext DEF IsDate
<1>2. rdn_to_ymd(x) =
        IF n > 12
        THEN [year |-> z + 1, month |-> n - 12, day |-> e - DayOffset[n - 12],
              yday |-> e - 306]
        ELSE [year |-> z, month |-> n, day |-> e - DayOffset[n],
              yday |-> e + 59 + (IF leap_year(z) THEN 1 ELSE 0)]
  BY DEF rdn_to_ymd, MarchYear, MarchDay, MarchMonth
<1>3. /\ DayOffset[1] = 306 /\ DayOffset[2] = 337 /\ DayOffset[3] = 0 /\ DayOffset[4] = 31
      /\ DayOffset[5] = 61 /\ DayOffset[6] = 92 /\ DayOffset[7] = 122 /\ DayOffset[8] = 153
      /\ DayOffset[9] = 184 /\ DayOffset[10] = 214 /\ DayOffset[11] = 245
      /\ DayOffset[12] = 275
  BY DEF DayOffset
<1> DEFINE o == DayOffset[mo]
<1>4. mo \in {1, 2, 3, 4, 5, 6, 7, 8, 9, 10, 11, 12}
  BY <1>1
<1>5. Z = YearStart(y) + Preceding(y, mo) + d + 306
  <2>1. Preceding(y, mo) \in 0 .. 335
    BY <1>1, MonthsJoin
  <2> QED
    BY <1>1, <2>1 DEF FromMarch, Number
<1> HIDE DEF Z
<1>6. CASE mo >= 3
  <2>1. Preceding(y, mo) = o + 59 + LeapDay(y) /\ o \in 0 .. 275 /\ o + d \in 1 .. 366
        /\ o + d # 366
    <3>1. d <= 31
      BY <1>1, MonthsJoin
    <3> QED
      BY <1>1, <1>3, <1>4, <1>6, <3>1, PrecedingIs
  <2>2. Z \in Int /\ Z = YearStart(y + 1) + (o + d)
    <3> HIDE DEF o
    <3> QED
      BY <1>1, <1>5, <2>1
  <2>3. z = y /\ e = o + d
    <3> DEFINE march == o + d
    <3>1. march \in Nat \ {0} /\ march < 366 /\ Z = YearStart(y + 1) + march
      BY <2>1, <2>2
    <3> HIDE DEF march
    <3>2. z = y /\ e = march
      BY <1>1, <2>2, <3>1, MarchYears
    <3> QED
      BY <3>2 DEF march
  <2>4. n = mo
    <3>1. d <= (IF mo \in Thirty THEN 30 ELSE 31)
      BY <1>1, <1>6 DEF LastDay
    <3>2. \/ mo = 3 /\ o = 0 /\ d <= 31
          \/ mo = 4 /\ o = 31 /\ d <= 30
          \/ mo = 5 /\ o = 61 /\ d <= 31
          \/ mo = 6 /\ o = 92 /\ d <= 30
          \/ mo = 7 /\ o = 122 /\ d <= 31
          \/ mo = 8 /\ o = 153 /\ d <= 31
          \/ mo = 9 /\ o = 184 /\ d <= 30
          \/ mo = 10 /\ o = 214 /\ d <= 31
          \/ mo = 11 /\ o = 245 /\ d <= 30
          \/ mo = 12 /\ o = 275 /\ d <= 31
      BY <1>1, <1>3, <1>4, <1>6, <3>1 DEF Thirty
    <3>3. MarchMonth(o + d) = mo
      <4>1. mo \in Nat /\ o \in Nat /\ d \in Nat \ {0}
        BY <1>1, <1>6, <2>1
      <4> HIDE DEF o
      <4> QED
        BY <4>1, <3>2, MarchMonths
    <3> HIDE DEF e, o
    <3> QED
      BY <2>3, <3>3
  <2> HIDE DEF n, e, z, o
  <2>5. ~(n > 12) /\ DayOffset[n] = o
    BY <1>1, <2>4 DEF o
  <2>6. e - o = d /\ e + 59 + LeapDay(y) = Preceding(y, mo) + d
    BY <1>1, <2>1, <2>3
  <2> QED
    BY <1>2, <2>3, <2>4, <2>5, <2>6 DEF LeapDay
<1>7. CASE mo < 3
  <2> DEFINE w == y - 1
  <2>1. /\ Preceding(y, mo) = o - 306 /\ o \in 306 .. 337 /\ o + d \in 1 .. 366
        /\ o + d = 366 => leap_year(y)
        /\ \/ mo = 1 /\ o = 306 /\ d <= 31
           \/ mo = 2 /\ o = 337 /\ d <= 29
    <3>1. \/ mo = 1 /\ o = 306 /\ d <= 31
          \/ mo = 2 /\ o = 337 /\ d <= 28 + LeapDay(y)
      BY <1>1, <1>3, <1>7 DEF LastDay, Thirty
    <3> QED
      BY <1>1, <1>7, <3>1, PrecedingIs DEF LeapDay
  <2>2. w \in Nat /\ y = w + 1 /\ Z \in Int /\ Z = YearStart(w + 1) + (o + d)
    BY <1>1, <1>5, <2>1
  <2>3. z = w /\ e = o + d
    <3> HIDE DEF w
    <3> DEFINE march == o + d
    <3>1. /\ march \in Nat \ {0} /\ march <= 366 /\ Z = YearStart(w + 1) + march
          /\ march = 366 => leap_year(w + 1)
      BY <2>1, <2>2
    <3> HIDE DEF march
    <3>2. w \in Nat /\ Z \in Int
      BY <2>2
    <3>3. z = w /\ e = march
      BY <3>1, <3>2, MarchYears
    <3> QED
      BY <3>3 DEF march
  <2>4. n = mo + 12
    <3>1. MarchMonth(o + d) = mo + 12
      <4>1. mo + 12 \in Nat /\ o \in Nat /\ d \in Nat \ {0}
        BY <1>1, <1>7, <2>1
      <4> HIDE DEF o
      <4>2. \/ mo + 12 = 13 /\ o = 306 /\ d <= 31
            \/ mo + 12 = 14 /\ o = 337 /\ d <= 29
        BY <2>1
      <4> QED
        BY <4>1, <4>2, MarchMonths
    <3> HIDE DEF e, o
    <3> QED
      BY <2>3, <3>1
  <2> HIDE DEF n, e, z, o, w
  <2>5. n > 12 /\ n - 12 = mo /\ DayOffset[n - 12] = o
    BY <1>1, <2>4 DEF o
  <2>6. e - o = d /\ e - 306 = Preceding(y, mo) + d /\ z + 1 = y
    BY <1>1, <2>1, <2>2, <2>3
  <2> QED
    BY <1>2, <2>3, <2>4, <2>5, <2>6
<1> QED
  BY <1>1, <1>6, <1>7

-----------------------------------------------------------------------------
(* Every day of the calendar. *)

\* Counting arrives at the date, the number and the day of the week the
\* formulas give.
Counted ==
    /\ year \in Years /\ year <= 9999 /\ IsDate(year, month, day)
    /\ yday = Preceding(year, month) + day
    /\ rdn = Number(year, month, day)
    /\ wday = (1 + rdn) % 7

\* The years that are counted.
LEMMA YearsAre ==
  ASSUME DateTimeAssumption, NEW y \in Years
  PROVE  y \in Nat \ {0} /\ y <= 9999
BY SMT DEF DateTimeAssumption

\* A date's number, in a form for arithmetic.
LEMMA NumberIs ==
  ASSUME NEW y, NEW mo, NEW d, IsDate(y, mo, d)
  PROVE  /\ y \in Nat \ {0} /\ mo \in 1 .. 12 /\ d \in 1 .. 31 /\ d <= LastDay(y, mo)
         /\ YearStart(y) \in Nat /\ Preceding(y, mo) \in 0 .. 335 /\ LeapDay(y) \in {0, 1}
         /\ Preceding(y, mo) + d <= 365 + LeapDay(y)
         /\ Number(y, mo, d) \in Nat
         /\ Number(y, mo, d) = YearStart(y) + Preceding(y, mo) + d - 1
         /\ Number(y, mo, d) < YearStart(y + 1)
<1>1. y \in Nat \ {0} /\ mo \in 1 .. 12 /\ d \in Nat \ {0} /\ d <= LastDay(y, mo)
  BY DEF IsDate
<1>2. /\ LeapDay(y) \in {0, 1} /\ LastDay(y, mo) \in 28 .. 31
      /\ Preceding(y, mo) \in 0 .. 335
  BY <1>1, MonthsJoin
<1>3. YearStart(y) \in Nat /\ YearStart(y + 1) = YearStart(y) + 365 + LeapDay(y)
  BY <1>1, YearStartNext
<1>4. Preceding(y, mo) + d <= 365 + LeapDay(y)
  <2>1. mo \in {1, 2, 3, 4, 5, 6, 7, 8, 9, 10, 11, 12}
    BY <1>1
  <2>2. d <= 31
    BY <1>1, <1>2
  <2>3. mo # 12 => Preceding(y, mo) <= 304 + LeapDay(y)
    BY <1>1, <1>2, <2>1, PrecedingIs
  <2>4. mo = 12 => Preceding(y, mo) = 334 + LeapDay(y)
    BY <1>1, PrecedingIs
  <2> QED
    BY <1>1, <1>2, <2>2, <2>3, <2>4
<1> QED
  BY <1>1, <1>2, <1>3, <1>4 DEF Number

\* The first of January.
LEMMA NewYear ==
  ASSUME NEW y \in Nat \ {0}
  PROVE  IsDate(y, 1, 1) /\ Preceding(y, 1) = 0 /\ Number(y, 1, 1) = YearStart(y)
<1>1. LastDay(y, 1) = 31
  BY DEF LastDay, Thirty
<1>2. Preceding(y, 1) = 0 /\ YearStart(y) \in Nat
  BY PrecedingIs, YearStartNext
<1> QED
  BY <1>1, <1>2 DEF IsDate, Number

\* The calendar's months end where the code's tables say.
LEMMA MonthsEnd ==
  ASSUME Counted PROVE LastOfMonth = LastDay(year, month)
<1>1. year \in Nat /\ year <= 9999
  BY DEF Counted, IsDate
<1> QED
  BY <1>1, LeapYears DEF LastOfMonth, LastDay, LeapDay

\* The first day of any year.
LEMMA CountingBegins ==
  ASSUME DateTimeAssumption, FirstDay PROVE Counted
<1>1. year \in Years /\ month = 1 /\ day = 1 /\ yday = 1 /\ wday = (1 + rdn) % 7
  BY DEF FirstDay
<1>2. year \in Nat \ {0} /\ year <= 9999
  BY <1>1, YearsAre
<1>3. rdn = YearStart(year)
  BY <1>2, DaysAreCounted DEF FirstDay
<1> QED
  BY <1>1, <1>2, <1>3, NewYear DEF Counted

\* The day after day n of a week that began with day 0.
LEMMA WeekDays ==
  ASSUME NEW n \in Nat PROVE (((1 + n) % 7) + 1) % 7 = (1 + (n + 1)) % 7
<1>1. PICK q \in Nat, w \in 0 .. 6 : 1 + n = 7 * q + w
  <2>1. (1 + n) \div 7 \in Nat /\ ((1 + n) % 7) \in 0 .. 6
        /\ 1 + n = 7 * ((1 + n) \div 7) + ((1 + n) % 7)
    OBVIOUS
  <2> QED
    BY <2>1
<1>2. ((1 + n) % 7) = w
  BY <1>1
<1>3. ((7 * q + (w + 1)) % 7) = ((w + 1) % 7)
  <2>1. CASE w < 6
    BY <1>1, <2>1
  <2>2. CASE w = 6
    BY <1>1, <2>2
  <2> QED
    BY <1>1, <2>1, <2>2
<1> QED
  BY <1>1, <1>2, <1>3

\* The next day: in the month, in the next month, or in the next year.
LEMMA CountingGoesOn ==
  ASSUME DateTimeAssumption, Counted, NextDay PROVE Counted'
<1>1. /\ year \in Years /\ year <= 9999 /\ IsDate(year, month, day)
      /\ yday = Preceding(year, month) + day /\ rdn = Number(year, month, day)
      /\ wday = (1 + rdn) % 7
  BY DEF Counted
<1>2. /\ year \in Nat \ {0} /\ month \in 1 .. 12 /\ day \in 1 .. 31
      /\ day <= LastDay(year, month)
      /\ YearStart(year) \in Nat /\ Preceding(year, month) \in 0 .. 335
      /\ rdn \in Nat /\ rdn = YearStart(year) + Preceding(year, month) + day - 1
  BY <1>1, NumberIs
<1>3. rdn' = rdn + 1 /\ wday' = (wday + 1) % 7
  BY DEF NextDay
<1>4. wday' = (1 + rdn') % 7
  <2>1. rdn \in Nat
    BY <1>2
  <2>2. (((1 + rdn) % 7) + 1) % 7 = (1 + (rdn + 1)) % 7
    BY <2>1, WeekDays
  <2>3. wday = (1 + rdn) % 7
    BY <1>1
  <2> QED
    BY <1>3, <2>2, <2>3
<1>5. LastDay(year, month) \in 28 .. 31
  BY <1>2, MonthsJoin
<1>6. CASE day < LastOfMonth
  <2>1. day' = day + 1 /\ yday' = yday + 1 /\ year' = year /\ month' = month
    BY <1>6 DEF NextDay
  <2>2. day + 1 <= LastDay(year, month)
    BY <1>2, <1>5, <1>6, MonthsEnd
  <2>3. IsDate(year', month', day')
    BY <1>2, <2>1, <2>2 DEF IsDate
  <2>4. yday' = Preceding(year', month') + day' /\ rdn' = Number(year', month', day')
    BY <1>1, <1>2, <1>3, <2>1 DEF Number
  <2> QED
    BY <1>1, <1>4, <2>1, <2>3, <2>4 DEF Counted
<1>7. CASE ~(day < LastOfMonth) /\ month < 12
  <2>1. day' = 1 /\ yday' = yday + 1 /\ year' = year /\ month' = month + 1
    BY <1>7 DEF NextDay
  <2>2. day = LastDay(year, month)
    BY <1>2, <1>5, <1>7, MonthsEnd
  <2>3. Preceding(year, month + 1) = Preceding(year, month) + day
    BY <1>2, <1>7, <2>2, MonthsJoin
  <2>4. month + 1 \in 1 .. 12 /\ LastDay(year, month + 1) \in 28 .. 31
    BY <1>2, <1>7, MonthsJoin
  <2>5. IsDate(year', month', day')
    BY <1>2, <2>1, <2>4 DEF IsDate
  <2>6. yday' = Preceding(year', month') + day' /\ rdn' = Number(year', month', day')
    BY <1>1, <1>2, <1>3, <2>1, <2>3 DEF Number
  <2> QED
    BY <1>1, <1>4, <2>1, <2>5, <2>6 DEF Counted
<1>8. CASE ~(day < LastOfMonth) /\ ~(month < 12)
  <2>1. day' = 1 /\ yday' = 1 /\ year' = year + 1 /\ year' \in Years /\ month' = 1
    BY <1>8 DEF NextDay
  <2>2. day = LastDay(year, month) /\ month = 12
    BY <1>2, <1>5, <1>8, MonthsEnd
  <2>3. rdn + 1 = YearStart(year + 1)
    <3>1. Preceding(year, 12) + LastDay(year, 12) = 365 + LeapDay(year)
      BY <1>2, MonthsJoin
    <3>2. YearStart(year + 1) = YearStart(year) + 365 + LeapDay(year)
          /\ LeapDay(year) \in {0, 1}
      BY <1>2, YearStartNext
    <3> QED
      BY <1>2, <2>2, <3>1, <3>2
  <2>4. year + 1 \in Nat \ {0} /\ year + 1 <= 9999
    BY <2>1, YearsAre
  <2>5. /\ IsDate(year + 1, 1, 1) /\ Preceding(year + 1, 1) = 0
        /\ Number(year + 1, 1, 1) = YearStart(year + 1)
    BY <2>4, NewYear
  <2> QED
    BY <1>3, <1>4, <2>1, <2>3, <2>4, <2>5 DEF Counted
<1> QED
  BY <1>6, <1>7, <1>8

\* Or the same day again.
LEMMA CountingStep ==
  ASSUME DateTimeAssumption, Counted, [NextDay]_today PROVE Counted'
<1>1. ASSUME UNCHANGED today PROVE Counted'
  BY <1>1 DEF Counted, today, IsDate, LastDay
<1> QED
  BY <1>1, CountingGoesOn

-----------------------------------------------------------------------------
(* The conversions, on every counted day. *)

\* Years do not begin before earlier ones.
LEMMA YearsInOrder ==
  ASSUME NEW y \in Nat \ {0}, NEW z \in Nat \ {0}, y <= z
  PROVE  YearStart(y) <= YearStart(z)
<1> DEFINE c == y - 1
           e == z - 1
<1>1. c \in Nat /\ e \in Nat /\ c <= e
  OBVIOUS
<1>2. /\ YearStart(y) = 365 * c + c \div 4 - c \div 100 + c \div 400
      /\ YearStart(z) = 365 * e + e \div 4 - e \div 100 + e \div 400
  BY DEF YearStart, yd_to_rdn
<1> HIDE DEF c, e
<1>3. c \div 4 <= e \div 4
  BY <1>1
<1>4. c \div 400 <= e \div 400
  BY <1>1
<1>5. e \div 100 <= c \div 100 + (e - c)
  BY <1>1
<1> QED
  BY <1>1, <1>2, <1>3, <1>4, <1>5

\* The day number of the epoch.
LEMMA TheEpoch ==
  /\ EPOCH_DATE_TIME = <<YearStart(1970), 0, 0>> /\ YearStart(1970) \in Nat
  /\ IsDate(1970, 1, 1) /\ Number(1970, 1, 1) = YearStart(1970)
<1>1. EPOCH_DATE_TIME = <<YearStart(1970), 0, 0>> /\ YearStart(1970) \in Nat
  BY SMT DEF EPOCH_DATE_TIME, YearStart, yd_to_rdn
<1>2. 1970 \in Nat \ {0}
  OBVIOUS
<1> QED
  BY <1>1, <1>2, NewYear

\* rdn_to_ymd on a counted day.
LEMMA Decodes == ASSUME Counted PROVE DecodesDays
BY DateOfNumber DEF Counted, DecodesDays

\* Months of an earlier year carry over.
LEMMA Carries ==
  ASSUME NEW y \in Nat, NEW mo \in 1 .. 12, NEW k \in 0 .. 2
  PROVE  Carry(y - k, mo + 12 * k) = [year |-> y, month |-> mo]
<1>1. CASE k = 0
  BY <1>1 DEF Carry
<1>2. CASE k = 1
  <2>1. mo + 12 \notin 1 .. 12
    OBVIOUS
  <2>2. CASE mo = 12
    BY <1>2, <2>1, <2>2 DEF Carry
  <2>3. CASE mo # 12
    <3>1. ((mo + 12) % 12) = mo /\ (mo + 12) \div 12 = 1
      BY <2>3
    <3> QED
      BY <1>2, <2>1, <3>1 DEF Carry
  <2> QED
    BY <2>2, <2>3
<1>3. CASE k = 2
  <2>1. mo + 24 \notin 1 .. 12
    OBVIOUS
  <2>2. CASE mo = 12
    BY <1>3, <2>1, <2>2 DEF Carry
  <2>3. CASE mo # 12
    <3>1. ((mo + 24) % 12) = mo /\ (mo + 24) \div 12 = 2
      BY <2>3
    <3> QED
      BY <1>3, <2>1, <3>1 DEF Carry
  <2> QED
    BY <2>2, <2>3
<1> QED
  BY <1>1, <1>2, <1>3

\* ymd_to_rdn gives the number of a date.
LEMMA NumberOfDate ==
  ASSUME NEW y, NEW mo, NEW d, IsDate(y, mo, d), NEW k \in 0 .. 2
  PROVE  ymd_to_rdn(y - k, mo + 12 * k, d) = Number(y, mo, d)
<1>1. /\ y \in Nat \ {0} /\ mo \in 1 .. 12 /\ d \in 1 .. 31 /\ YearStart(y) \in Nat
      /\ Preceding(y, mo) \in 0 .. 335
      /\ Number(y, mo, d) = YearStart(y) + Preceding(y, mo) + d - 1
  BY NumberIs
<1>2. Carry(y - k, mo + 12 * k) = [year |-> y, month |-> mo]
  BY <1>1, Carries
<1>3. ymd_to_rdn(y - k, mo + 12 * k, d) = yd_to_rdn(y, Preceding(y, mo) + d - 1)
  BY <1>2 DEF ymd_to_rdn, Preceding
<1>4. yd_to_rdn(y, Preceding(y, mo) + d - 1) = YearStart(y) + (Preceding(y, mo) + d - 1)
  BY <1>1 DEF yd_to_rdn, YearStart
<1> QED
  BY <1>1, <1>3, <1>4

\* ymd_to_rdn on a counted day.
LEMMA Encodes == ASSUME Counted PROVE EncodesDays
BY NumberOfDate DEF Counted, EncodesDays

\* Hours, minutes and seconds of a second of the day.
LEMMA ClockTimes ==
  ASSUME DateTimeAssumption, NEW sec \in Seconds
  PROVE  /\ Hour(sec) * 3600 + Minute(sec) * 60 + Second(sec) = sec
         /\ Hour(sec) < 24 /\ Minute(sec) < 60 /\ Second(sec) < 60
<1>1. sec \in Nat /\ sec < 86400
  BY SMT DEF DateTimeAssumption
<1>2. PICK u \in Nat, s \in 0 .. 59 : sec = 60 * u + s
  <2>1. sec \div 60 \in Nat /\ (sec % 60) \in 0 .. 59 /\ sec = 60 * (sec \div 60) + (sec % 60)
    BY SMT, <1>1
  <2> QED
    BY <2>1
<1>3. PICK h \in Nat, n \in 0 .. 59 : u = 60 * h + n
  <2>1. u \div 60 \in Nat /\ (u % 60) \in 0 .. 59 /\ u = 60 * (u \div 60) + (u % 60)
    OBVIOUS
  <2> QED
    BY <2>1
<1>4. sec \div 60 = u /\ (sec % 60) = s /\ (u % 60) = n
  BY SMT, <1>2, <1>3
<1>5. sec \div 3600 = h
  BY SMT, <1>2, <1>3
<1>6. h < 24
  BY SMT, <1>1, <1>2, <1>3
<1> QED
  BY <1>2, <1>3, <1>4, <1>5, <1>6 DEF Hour, Minute, Second

\* The same, as the parser needs it.
LEMMA ClockParts ==
  ASSUME DateTimeAssumption, NEW sec \in Seconds
  PROVE  /\ Hour(sec) * 3600 + Minute(sec) * 60 + Second(sec) = sec
         /\ Hour(sec) <= 23 /\ Minute(sec) <= 59 /\ Second(sec) <= 59
         /\ (sec \div 86400) = 0 /\ (sec % 86400) = sec
<1>1. sec \in Nat /\ sec < 86400
  BY SMT DEF DateTimeAssumption
<1>2. (sec \div 86400) = 0 /\ (sec % 86400) = sec
  BY SMT, <1>1
<1>3. Hour(sec) \in Int /\ Minute(sec) \in Int /\ Second(sec) \in Int
  BY SMT, <1>1 DEF Hour, Minute, Second
<1> QED
  BY SMT, <1>2, <1>3, ClockTimes

\* datetime_to_tm on a counted day.
LEMMA Breaks == ASSUME DateTimeAssumption, Counted PROVE BreaksDown
<1>1. /\ IsDate(year, month, day) /\ rdn = Number(year, month, day)
      /\ wday = (1 + rdn) % 7
  BY DEF Counted
<1>2. /\ year \in Nat \ {0} /\ rdn \in Nat /\ YearStart(year) <= rdn
      /\ rdn < YearStart(year + 1)
  <2>1. /\ year \in Nat \ {0} /\ day \in 1 .. 31 /\ YearStart(year) \in Nat
        /\ Preceding(year, month) \in 0 .. 335 /\ rdn \in Nat
        /\ rdn = YearStart(year) + Preceding(year, month) + day - 1
        /\ rdn < YearStart(year + 1)
    BY <1>1, NumberIs
  <2> QED
    BY <2>1
<1>3. rdn < YearStart(1970) <=> year < 1970
  <2>1. ASSUME year < 1970 PROVE rdn < YearStart(1970)
    <3>1. YearStart(year + 1) <= YearStart(1970) /\ YearStart(year + 1) \in Nat
      BY <1>2, <2>1, YearsInOrder, YearStartNext
    <3> QED
      BY <1>2, <3>1, TheEpoch
  <2>2. ASSUME ~(year < 1970) PROVE ~(rdn < YearStart(1970))
    <3>1. YearStart(1970) <= YearStart(year) /\ YearStart(year) \in Nat
      BY <1>2, <2>2, YearsInOrder, YearStartNext
    <3> QED
      BY <1>2, <3>1, TheEpoch
  <2> QED
    BY <2>1, <2>2
<1>4. rdn = YearStart(1970) <=> year = 1970 /\ month = 1 /\ day = 1
  <2>1. ASSUME rdn = YearStart(1970) PROVE year = 1970 /\ month = 1 /\ day = 1
    <3>1. [year |-> year, month |-> month, day |-> day, yday |-> Preceding(year, month) + day]
          = [year |-> 1970, month |-> 1, day |-> 1, yday |-> Preceding(1970, 1) + 1]
      <4>1. rdn_to_ymd(rdn) =
              [year |-> year, month |-> month, day |-> day, yday |-> Preceding(year, month) + day]
        BY <1>1, DateOfNumber
      <4>2. rdn_to_ymd(Number(1970, 1, 1)) =
              [year |-> 1970, month |-> 1, day |-> 1, yday |-> Preceding(1970, 1) + 1]
        BY TheEpoch, DateOfNumber
      <4> QED
        BY <2>1, <4>1, <4>2, TheEpoch
    <3> QED
      BY <3>1
  <2>2. year = 1970 /\ month = 1 /\ day = 1 => rdn = YearStart(1970)
    BY <1>1, TheEpoch
  <2> QED
    BY <2>1, <2>2
<1>5. (rdn % 7) = ((wday + 6) % 7)
  BY <1>1, <1>2
<1>6. rdn_to_ymd(rdn) = [year |-> year, month |-> month, day |-> day, yday |-> yday]
  BY Decodes DEF DecodesDays
<1>7. SUFFICES ASSUME NEW sec \in Seconds
               PROVE  LET t == <<rdn, sec, 0>>
                          tm == datetime_to_tm(t)
                      IN  /\ BeforeEpoch(t) <=> year < 1970
                          /\ <<tm.tm_year, tm.tm_mon, tm.tm_mday, tm.tm_yday>> =
                             <<year - 1900, month - 1, day, yday - 1>>
                          /\ tm.tm_wday = (wday + 6) % 7
                          /\ tm.tm_hour * 3600 + tm.tm_min * 60 + tm.tm_sec = sec
                          /\ tm.tm_hour < 24 /\ tm.tm_min < 60 /\ tm.tm_sec < 60
                          /\ (datetime_from_timeval(0, 0) = t)
                                <=> (<<year, month, day, sec>> = <<1970, 1, 1, 0>>)
  BY DEF BreaksDown
<1> DEFINE t == <<rdn, sec, 0>>
           tm == datetime_to_tm(t)
<1>9. /\ tm.tm_year = year - 1900 /\ tm.tm_mon = month - 1 /\ tm.tm_mday = day
      /\ tm.tm_yday = yday - 1 /\ tm.tm_wday = rdn % 7
      /\ tm.tm_hour = Hour(sec) /\ tm.tm_min = Minute(sec) /\ tm.tm_sec = Second(sec)
  BY <1>6 DEF datetime_to_tm
<1>10. /\ Hour(sec) * 3600 + Minute(sec) * 60 + Second(sec) = sec
       /\ Hour(sec) < 24 /\ Minute(sec) < 60 /\ Second(sec) < 60
  BY ClockTimes
<1>11. BeforeEpoch(t) <=> year < 1970
  BY <1>3, TheEpoch DEF BeforeEpoch
<1>12. (datetime_from_timeval(0, 0) = t) <=> (rdn = YearStart(1970) /\ sec = 0)
  <2>1. datetime_from_timeval(0, 0) = <<YearStart(1970), 0, 0>>
    BY TheEpoch DEF datetime_from_timeval, Instant
  <2> QED
    BY <2>1
<1> HIDE DEF t, tm
<1>13. (datetime_from_timeval(0, 0) = t)
         <=> (<<year, month, day, sec>> = <<1970, 1, 1, 0>>)
  BY <1>4, <1>12
<1>14. <<tm.tm_year, tm.tm_mon, tm.tm_mday, tm.tm_yday>> =
       <<year - 1900, month - 1, day, yday - 1>>
  BY <1>9
<1>15. tm.tm_wday = (wday + 6) % 7
  BY <1>5, <1>9
<1> QED
  BY <1>9, <1>10, <1>11, <1>13, <1>14, <1>15 DEF t, tm

\* The table of the parser has the calendar's months.
LEMMA MonthDays ==
  ASSUME NEW y \in Nat, NEW mo \in 1 .. 12
  PROVE  month_days(y, mo) = LastDay(y, mo)
<1>1. mo \in {1, 2, 3, 4, 5, 6, 7, 8, 9, 10, 11, 12}
  OBVIOUS
<1> QED
  BY <1>1 DEF month_days, LastDay, LeapDay, Thirty

\* datetime_from_iso8601 on a counted day.
LEMMA Parses == ASSUME Counted PROVE ParsesRealDates
<1>1. /\ IsDate(year, month, day) /\ rdn = Number(year, month, day)
      /\ LastOfMonth = LastDay(year, month)
  BY MonthsEnd DEF Counted
<1>2. /\ year \in Nat \ {0} /\ month \in 1 .. 12 /\ day \in 1 .. 31
      /\ day <= LastDay(year, month) /\ rdn \in Nat /\ LastDay(year, month) \in 28 .. 31
      /\ month_days(year, month) = LastDay(year, month)
  BY <1>1, NumberIs, MonthsJoin, MonthDays
<1> DEFINE s(d) == [year |-> year, month |-> month, day |-> d, hour |-> 0, min |-> 0,
                    sec |-> 0, digits |-> 0, frac |-> 0,
                    zone |-> [sign |-> 1, hour |-> 0, min |-> 0]]
<1>3. WellFormed(s(day))
  BY <1>2 DEF WellFormed
<1>4. day = LastOfMonth => ~WellFormed(s(day + 1))
  BY <1>1, <1>2 DEF WellFormed
<1>5. datetime_from_iso8601(s(day)) = <<rdn, 0, 0>>
  <2>1. ymd_to_rdn(year, month, day) = rdn
    <3>1. year - 0 = year /\ month + 12 * 0 = month
      BY <1>2
    <3> QED
      BY <1>1, <3>1, NumberOfDate
  <2>2. 0 * Pow10(9 - 0) = 0
    BY DEF Pow10
  <2>3. datetime_from(year, month, day, 0, 0, 0, 0 \div 1000) = <<rdn, 0, 0>>
    BY <1>2, <2>1 DEF datetime_from, Instant
  <2>4. Instant(rdn, 0 - 60 * 0, 0) = <<rdn, 0, 0>>
    BY <1>2 DEF Instant
  <2> QED
    BY <2>2, <2>3, <2>4 DEF datetime_from_iso8601
<1> QED
  BY <1>3, <1>4, <1>5 DEF ParsesRealDates

\* Day numbers, dates, broken down times and parsed dates agree with counting,
\* on every day of every year up to 9999, whichever year the counting begins with.
THEOREM EveryDayAgrees ==
  ASSUME DateTimeAssumption
  PROVE  DayByDay => []CalendarIsRight
<1>1. FirstDay => Counted
  BY CountingBegins
<1>2. Counted /\ [NextDay]_today => Counted'
  BY CountingStep
<1>3. Counted => CalendarIsRight
  BY Decodes, Encodes, Breaks, Parses DEF CalendarIsRight
<1> QED
  BY <1>1, <1>2, <1>3, PTL DEF DayByDay
-----------------------------------------------------------------------------
(* Times as text, on every counted day. *)

\* The powers of ten that are used.
LEMMA Powers == Pow10(0) = 1 /\ Pow10(3) = 1000 /\ Pow10(9) \in Nat
BY SMT DEF Pow10

\* The digits that are written, and what reading them as nanoseconds gives.
LEMMA Fractions ==
  ASSUME DateTimeAssumption, NEW usec \in Usecs
  PROVE  /\ usec \in Nat /\ Precision(usec) \in {0, 6, 9}
         /\ ((IF Precision(usec) = 0 THEN 0 ELSE usec \div Pow10(9 - Precision(usec)))
               * Pow10(9 - Precision(usec))) \div 1000 = usec \div 1000
<1>1. usec \in Nat /\ usec < 1000000
  BY SMT DEF DateTimeAssumption
<1>2. Precision(usec) = IF usec = 0 THEN 0 ELSE IF (usec % 1000) = 0 THEN 6 ELSE 9
  BY SMT, <1>1 DEF Precision
<1>3. CASE usec = 0
  BY SMT, <1>1, <1>2, <1>3, Powers
<1>4. CASE usec # 0 /\ (usec % 1000) = 0
  <2>1. Precision(usec) = 6 /\ Pow10(9 - Precision(usec)) = 1000
    BY <1>2, <1>4, Powers
  <2>2. (usec \div 1000) * 1000 = usec
    BY SMT, <1>1, <1>4
  <2> QED
    BY SMT, <1>1, <2>1, <2>2
<1>5. CASE usec # 0 /\ (usec % 1000) # 0
  <2>1. Precision(usec) = 9 /\ Pow10(9 - Precision(usec)) = 1
    BY <1>2, <1>5, Powers
  <2>2. (usec \div 1) * 1 = usec
    BY SMT, <1>1
  <2> QED
    BY SMT, <1>1, <2>1, <2>2
<1> QED
  BY <1>3, <1>4, <1>5

\* The zone that is written has the offset's hours and minutes.
LEMMA Zones ==
  ASSUME DateTimeAssumption, NEW offset \in Offsets
  PROVE  LET v == IF offset < 0 THEN -offset ELSE offset
         IN  /\ v \div 60 <= 23 /\ (v % 60) <= 59
             /\ (IF offset < 0 THEN -1 ELSE 1) * ((v \div 60) * 60 + (v % 60)) = offset
<1>1. offset \in Int /\ -1440 < offset /\ offset < 1440
  BY SMT DEF DateTimeAssumption
<1> DEFINE v == IF offset < 0 THEN -offset ELSE offset
<1>2. v \in Nat /\ v < 1440 /\ (IF offset < 0 THEN -1 ELSE 1) * v = offset
  BY SMT, <1>1
<1> HIDE DEF v
<1>3. v \div 60 <= 23 /\ (v % 60) <= 59 /\ (v \div 60) * 60 + (v % 60) = v
  BY SMT, <1>2
<1> QED
  BY <1>2, <1>3 DEF v

\* What is written is read as the time with a thousandth of its fraction, moved
\* by the offset.
LEMMA ReadsWhatIsWritten ==
  ASSUME DateTimeAssumption, Counted,
         NEW sec \in Seconds, NEW usec \in Usecs, NEW offset \in Offsets
  PROVE  LET text == datetime_format(<<rdn, sec, usec>>, offset)
         IN  /\ WellFormed(text)
             /\ datetime_from_iso8601(text) =
                  Instant(rdn, sec - 60 * offset, usec \div 1000)
<1>1. IsDate(year, month, day) /\ rdn = Number(year, month, day)
  BY DEF Counted
<1>2. /\ year \in Nat \ {0} /\ month \in 1 .. 12 /\ day \in 1 .. 31
      /\ day <= LastDay(year, month) /\ rdn \in Nat
      /\ month_days(year, month) = LastDay(year, month)
  BY <1>1, NumberIs, MonthDays
<1>3. rdn_to_ymd(rdn) = [year |-> year, month |-> month, day |-> day, yday |-> yday]
  BY Decodes DEF DecodesDays
<1> DEFINE text == datetime_format(<<rdn, sec, usec>>, offset)
           digits == Precision(usec)
           frac == IF digits = 0 THEN 0 ELSE usec \div Pow10(9 - digits)
           v == IF offset < 0 THEN -offset ELSE offset
           sign == IF offset < 0 THEN -1 ELSE 1
<1>4. text = [year |-> year, month |-> month, day |-> day,
              hour |-> Hour(sec), min |-> Minute(sec), sec |-> Second(sec),
              digits |-> digits, frac |-> frac,
              zone |-> [sign |-> sign, hour |-> v \div 60, min |-> v % 60]]
  BY <1>3 DEF datetime_format, datetime_decode
<1>5. /\ digits \in {0, 6, 9}
      /\ (frac * Pow10(9 - digits)) \div 1000 = usec \div 1000
  BY Fractions
<1>6. v \div 60 <= 23 /\ (v % 60) <= 59 /\ sign * ((v \div 60) * 60 + (v % 60)) = offset
  BY Zones
<1> HIDE DEF text, digits, frac, v, sign
<1>7. /\ Hour(sec) * 3600 + Minute(sec) * 60 + Second(sec) = sec
      /\ Hour(sec) <= 23 /\ Minute(sec) <= 59 /\ Second(sec) <= 59
      /\ (sec \div 86400) = 0 /\ (sec % 86400) = sec
  BY ClockParts
<1>8. WellFormed(text)
  BY <1>2, <1>4, <1>5, <1>6, <1>7 DEF WellFormed
<1>9. ymd_to_rdn(year, month, day) = rdn
  <2>1. year - 0 = year /\ month + 12 * 0 = month
    BY <1>2
  <2> QED
    BY <1>1, <2>1, NumberOfDate
<1>10. datetime_from(year, month, day, Hour(sec), Minute(sec), Second(sec), usec \div 1000)
         = <<rdn, sec, usec \div 1000>>
  BY <1>2, <1>7, <1>9 DEF datetime_from, Instant
<1>11. datetime_from_iso8601(text) = Instant(rdn, sec - 60 * offset, usec \div 1000)
  BY <1>4, <1>5, <1>6, <1>10 DEF datetime_from_iso8601
<1> QED
  BY <1>8, <1>11 DEF text

\* The length that is announced is the length that is written, or five short.
LEMMA Lengths == ASSUME DateTimeAssumption PROVE LengthIsRight
<1> SUFFICES ASSUME NEW usec \in Usecs, NEW offset \in Offsets
             PROVE  WrittenLength(<<rdn, 0, usec>>, offset) =
                      FormattedLength(<<rdn, 0, usec>>) + (IF offset = 0 THEN 0 ELSE 5)
  BY DEF LengthIsRight
<1>1. datetime_format(<<rdn, 0, usec>>, offset).digits = Precision(usec)
  BY DEF datetime_format
<1>2. Fraction(Precision(usec)) \in Nat
  BY Fractions DEF Fraction
<1> QED
  BY <1>1, <1>2 DEF WrittenLength, FormattedLength

\* Every time of every counted day is written so that it is parsed, to the time
\* the property names, and in as many characters as are announced for UTC.
THEOREM EveryTextIsRead ==
  ASSUME DateTimeAssumption
  PROVE  DayByDay => []TextComesBack
<1>1. FirstDay => Counted
  BY CountingBegins
<1>2. Counted /\ [NextDay]_today => Counted'
  BY CountingStep
<1>3. Counted => TextComesBack
  BY ReadsWhatIsWritten, Lengths DEF TextComesBack, RoundTrip
<1> QED
  BY <1>1, <1>2, <1>3, PTL DEF DayByDay

-----------------------------------------------------------------------------
(* The heap: a row of nodes, and the links that it stands for. *)

Links == Node \cup {NULL, Junk}

Heaps ==
    [min : Node \cup {NULL}, nelts : Nat,
     left : [Node -> Links], right : [Node -> Links], parent : [Node -> Links]]

\* The i-th of the first n nodes, if there is one.
Slot(s, n, i) == IF i \in 1 .. n THEN s[i] ELSE NULL

\* Slot i hangs below slot a.
Below(a, i) == i = 2 * a \/ i = 2 * a + 1

\* The links of h are those of the n different nodes of s, row by row; what the
\* links of other nodes are does not matter.
Laid(h, s, n) ==
    /\ h \in Heaps /\ n \in Nat /\ h.nelts = n
    /\ s \in [1 .. n -> Node]
    /\ \A i, j \in 1 .. n : s[i] = s[j] => i = j
    /\ h.min = Slot(s, n, 1)
    /\ \A i \in 1 .. n :
          h.left[s[i]] = Slot(s, n, 2 * i) /\ h.right[s[i]] = Slot(s, n, 2 * i + 1)
    /\ n # 0 => h.parent[s[1]] = NULL
    /\ \A a, i \in 1 .. n : Below(a, i) => h.parent[s[i]] = s[a]

\* The nodes of a row.
Row(s, n) == {s[i] : i \in 1 .. n}

\* Every slot but the first hangs below one.
LEMMA Half ==
  ASSUME NEW i \in Nat, i >= 2
  PROVE  /\ i \div 2 \in Nat /\ 1 <= i \div 2 /\ i \div 2 < i
         /\ Below(i \div 2, i) /\ ~(i % 2 = 0 /\ i = 2 * (i \div 2) + 1)
         /\ ~(i % 2 # 0 /\ i = 2 * (i \div 2))
BY DEF Below

\* Different nodes are no more than all nodes.
LEMMA RoomForAll ==
  ASSUME HeapAssumption, NEW n \in Nat, NEW s \in [1 .. n -> Node],
         \A i, j \in 1 .. n : s[i] = s[j] => i = j
  PROVE  /\ n <= Size /\ Size \in Nat
         /\ Cardinality(Row(s, n)) = n
         /\ \A x \in Node : x \notin Row(s, n) => n + 1 <= Size
<1>1. IsFiniteSet(Node)
  BY DEF HeapAssumption
<1>2. Row(s, n) \subseteq Node
  BY DEF Row
<1>3. IsFiniteSet(Row(s, n)) /\ Cardinality(Row(s, n)) <= Size /\ Size \in Nat
  BY <1>1, <1>2, FS_Subset, FS_CardinalityType DEF Size
<1>4. Cardinality(Row(s, n)) = n
  <2>1. s \in Bijection(1 .. n, Row(s, n))
    BY DEF Bijection, Injection, Surjection, IsInjective, Row
  <2>2. IsFiniteSet(1 .. n) /\ Cardinality(1 .. n) = n
    BY FS_Interval
  <2> QED
    BY <2>1, <2>2, FS_Bijection DEF ExistsBijection
<1>5. ASSUME NEW x \in Node, x \notin Row(s, n) PROVE n + 1 <= Size
  <2>1. Row(s, n) \cup {x} \subseteq Node
    BY <1>2
  <2>2. Cardinality(Row(s, n) \cup {x}) = n + 1
    BY <1>3, <1>4, <1>5, FS_AddElement
  <2> QED
    BY <1>1, <2>1, <2>2, FS_Subset DEF Size
<1> QED
  BY <1>3, <1>4, <1>5

-----------------------------------------------------------------------------
(* The heap: the path to a slot. *)

\* What At looks up on its way, for the slots up to n.
Path(h, n, f) ==
    f = [i \in 1 .. n |->
            IF i = 1 THEN h.min
            ELSE IF i % 2 = 0 THEN h.left[f[i \div 2]]
            ELSE h.right[f[i \div 2]]]

\* There is a path to every slot.
LEMMA PathsExist ==
  ASSUME NEW h, NEW n \in Nat
  PROVE  \E f : Path(h, n, f)
<1> DEFINE P(k) == \E f : Path(h, k, f)
           Bad == {k \in Nat : ~P(k)}
<1>1. P(0)
  <2>1. Path(h, 0, [i \in 1 .. 0 |-> h])
    BY DEF Path
  <2> QED
    BY <2>1
<1>2. ASSUME NEW k \in Nat, P(k) PROVE P(k + 1)
  <2>1. PICK f : Path(h, k, f)
    BY <1>2
  <2> DEFINE g == [i \in 1 .. k + 1 |->
                     IF i = 1 THEN h.min
                     ELSE IF i % 2 = 0 THEN h.left[f[i \div 2]]
                     ELSE h.right[f[i \div 2]]]
  <2>2. ASSUME NEW i \in 1 .. k PROVE g[i] = f[i]
    <3>1. f[i] = (IF i = 1 THEN h.min
                  ELSE IF i % 2 = 0 THEN h.left[f[i \div 2]]
                  ELSE h.right[f[i \div 2]])
      BY <2>1, Zenon DEF Path
    <3>2. i \in 1 .. k + 1
      OBVIOUS
    <3> QED
      BY <3>1, <3>2, Zenon
  <2>3. ASSUME NEW i \in 1 .. k + 1, i # 1 PROVE g[i \div 2] = f[i \div 2]
    <3>1. i \div 2 \in 1 .. k
      BY <2>3
    <3> QED
      BY <2>2, <3>1
  <2>4. Path(h, k + 1, g)
    BY <2>3 DEF Path
  <2> QED
    BY <2>4
<1>3. Bad = {}
  <2> SUFFICES ASSUME Bad # {} PROVE FALSE
    OBVIOUS
  <2> HIDE DEF P
  <2>1. PICK k \in Bad : \A j \in Bad : k <= j
    BY SmallestMember
  <2>2. CASE k = 0
    BY <1>1, <2>2
  <2>3. CASE k # 0
    <3>1. k - 1 \in Nat /\ k - 1 \notin Bad /\ k = (k - 1) + 1
      BY <2>1, <2>3
    <3> QED
      BY <1>2, <3>1
  <2> QED
    BY <2>2, <2>3
<1> QED
  BY <1>3

\* At(h, i) is the end of such a path.
LEMMA AtIs ==
  ASSUME HeapAssumption, NEW h, Size \in Nat
  PROVE  \E f : Path(h, Size + 1, f) /\ \A i : At(h, i) = f[i]
<1> DEFINE Q(f) ==
        f = [n \in 1 .. Size + 1 |->
                IF n = 1 THEN h.min
                ELSE IF n % 2 = 0 THEN h.left[f[n \div 2]]
                ELSE h.right[f[n \div 2]]]
<1>1. \E f : Q(f)
  <2>1. Size + 1 \in Nat
    OBVIOUS
  <2>2. \E f : Path(h, Size + 1, f)
    BY <2>1, PathsExist
  <2> QED
    BY <2>2, Zenon DEF Path
<1>2. Q(CHOOSE f : Q(f))
  BY <1>1
<1>3. \A i : At(h, i) = (CHOOSE f : Q(f))[i]
  BY DEF At
<1> QED
  BY <1>2, <1>3 DEF Path

\* The i-th slot holds the i-th node of the row.
LEMMA AtRow ==
  ASSUME HeapAssumption, NEW h, NEW s, NEW n \in Nat, Laid(h, s, n)
  PROVE  \A i \in 1 .. n : At(h, i) = s[i]
<1>1. n <= Size /\ Size \in Nat
  BY RoomForAll DEF Laid
<1>2. PICK f : Path(h, Size + 1, f) /\ \A i : At(h, i) = f[i]
  BY <1>1, AtIs
<1> DEFINE Bad == {i \in Nat : i \in 1 .. n /\ f[i] # s[i]}
<1>3. Bad = {}
  <2> SUFFICES ASSUME Bad # {} PROVE FALSE
    OBVIOUS
  <2>1. PICK k \in Bad : \A j \in Bad : k <= j
    BY SmallestMember
  <2>2. k \in 1 .. n /\ f[k] # s[k] /\ k \in 1 .. Size + 1
    BY <1>1
  <2>3. f[k] = (IF k = 1 THEN h.min
                ELSE IF k % 2 = 0 THEN h.left[f[k \div 2]]
                ELSE h.right[f[k \div 2]])
    BY <1>2, <2>2 DEF Path
  <2>4. CASE k = 1
    BY <2>2, <2>3, <2>4 DEF Laid, Slot
  <2>5. CASE k # 1
    <3> DEFINE a == k \div 2
    <3>1. a \in 1 .. n /\ a < k /\ Below(a, k)
          /\ ~(k % 2 = 0 /\ k = 2 * a + 1) /\ ~(k % 2 # 0 /\ k = 2 * a)
      BY <2>2, <2>5, Half
    <3>2. f[a] = s[a]
      <4> HIDE DEF a
      <4> QED
        BY <2>1, <3>1
    <3>3. f[k] = IF k % 2 = 0 THEN h.left[s[a]] ELSE h.right[s[a]]
      BY <2>3, <2>5, <3>2
    <3> HIDE DEF a
    <3>4. CASE k = 2 * a
      <4>1. h.left[s[a]] = Slot(s, n, k)
        BY <3>1, <3>4 DEF Laid
      <4> QED
        BY <2>2, <3>1, <3>3, <3>4, <4>1 DEF Slot
    <3>5. CASE k = 2 * a + 1
      <4>1. h.right[s[a]] = Slot(s, n, k)
        BY <3>1, <3>5 DEF Laid
      <4> QED
        BY <2>2, <3>1, <3>3, <3>5, <4>1 DEF Slot
    <3> QED
      BY <3>1, <3>4, <3>5 DEF Below
  <2> QED
    BY <2>4, <2>5
<1> QED
  BY <1>2, <1>3

-----------------------------------------------------------------------------
(* The heap: two neighbours change places. *)

\* The row with two of its nodes exchanged.
Exchanged(s, a, b) == [s EXCEPT ![a] = s[b], ![b] = s[a]]

\* What heap_node_swap leaves in every field.
LEMMA SwapFields ==
  ASSUME HeapAssumption, NEW h \in Heaps, NEW p \in Node, NEW c \in Node, p # c
  PROVE  LET up == h.parent[p]
             new == Swap(h, p, c)
         IN  /\ new \in [min : {new.min}, nelts : {new.nelts}, left : {new.left},
                         right : {new.right}, parent : {new.parent}]
             /\ new.nelts = h.nelts
             /\ new.min = IF up = NULL THEN c ELSE h.min
             /\ DOMAIN new.left = Node /\ DOMAIN new.right = Node
             /\ DOMAIN new.parent = Node
             /\ new.left[p] = h.left[c] /\ new.right[p] = h.right[c]
             /\ new.left[c] = (IF h.left[p] = c THEN p ELSE h.left[p])
             /\ new.right[c] = (IF h.left[p] = c THEN h.right[p] ELSE p)
             /\ new.parent[p] = IF p \in Children(h, c) THEN p ELSE c
             /\ new.parent[c] = IF c \in Children(h, c) THEN p ELSE up
             /\ \A x \in Node \ {p, c} :
                   /\ new.left[x] =
                        IF x = up /\ h.left[x] = p THEN c ELSE h.left[x]
                   /\ new.right[x] =
                        IF x = up /\ h.left[x] # p THEN c ELSE h.right[x]
                   /\ new.parent[x] = IF x \in Children(h, c) THEN p
                                      ELSE IF x \in Children(h, p) THEN c
                                      ELSE h.parent[x]
BY DEF Swap, SwapKeepingParents, Heaps

LEMMA SwapIsHeap ==
  ASSUME NEW h \in Heaps, NEW p \in Node, NEW c \in Node
  PROVE  Swap(h, p, c) \in Heaps
<1> DEFINE k == SwapKeepingParents(h, p, c)
<1>1. /\ h.left \in [Node -> Links] /\ h.right \in [Node -> Links]
      /\ h.parent \in [Node -> Links] /\ h.min \in Node \cup {NULL} /\ h.nelts \in Nat
      /\ p \in Links /\ c \in Links
  BY DEF Heaps, Links
<1>2. k \in Heaps
  <2>1. k.left \in [Node -> Links]
    BY <1>1 DEF SwapKeepingParents
  <2>2. k.right \in [Node -> Links]
    BY <1>1 DEF SwapKeepingParents
  <2>3. k.parent \in [Node -> Links]
    BY <1>1 DEF SwapKeepingParents
  <2>4. k.min \in Node \cup {NULL} /\ k.nelts \in Nat
    BY <1>1 DEF SwapKeepingParents
  <2>5. k = [min |-> k.min, nelts |-> k.nelts, left |-> k.left, right |-> k.right,
             parent |-> k.parent]
    BY DEF SwapKeepingParents
  <2> HIDE DEF k
  <2> QED
    BY <2>1, <2>2, <2>3, <2>4, <2>5 DEF Heaps
<1>3. Swap(h, p, c) = [k EXCEPT !.parent = [x \in Node |->
                           IF x \in Children(h, c) THEN p ELSE @[x]]]
  BY DEF Swap
<1> HIDE DEF k
<1> QED
  BY <1>1, <1>2, <1>3 DEF Heaps

\* heap_node_swap exchanges the nodes of a slot and of a slot below it.
LEMMA SwapIsExchange ==
  ASSUME HeapAssumption, NEW h, NEW s, NEW n \in Nat, Laid(h, s, n),
         NEW a \in 1 .. n, NEW b \in 1 .. n, Below(a, b)
  PROVE  /\ Laid(Swap(h, s[a], s[b]), Exchanged(s, a, b), n)
         /\ Row(Exchanged(s, a, b), n) = Row(s, n)
<1> DEFINE p == s[a]
           c == s[b]
           up == h.parent[p]
           new == Swap(h, p, c)
           t == Exchanged(s, a, b)
<1>1. /\ p \in Node /\ c \in Node /\ p # c /\ h \in Heaps
      /\ s \in [1 .. n -> Node] /\ h.nelts = n
      /\ \A i, j \in 1 .. n : s[i] = s[j] => i = j
      /\ a < b /\ b # 1 /\ NULL \notin Node
  <2>1. /\ s \in [1 .. n -> Node] /\ h \in Heaps /\ h.nelts = n /\ NULL \notin Node
        /\ \A i, j \in 1 .. n : s[i] = s[j] => i = j
    BY DEF Laid, HeapAssumption
  <2>2. a < b /\ b # 1
    BY DEF Below
  <2> QED
    BY <2>1, <2>2
<1>2. /\ t \in [1 .. n -> Node] /\ t[a] = c /\ t[b] = p
      /\ \A i \in 1 .. n : i # a /\ i # b => t[i] = s[i] /\ s[i] # p /\ s[i] # c
  BY <1>1 DEF Exchanged
<1>3. /\ h.min = s[1] /\ h.parent[s[1]] = NULL
      /\ \A i \in 1 .. n :
           h.left[s[i]] = Slot(s, n, 2 * i) /\ h.right[s[i]] = Slot(s, n, 2 * i + 1)
      /\ \A d, i \in 1 .. n : Below(d, i) => h.parent[s[i]] = s[d]
  <2>1. h.min = Slot(s, n, 1) /\ n # 0
    BY DEF Laid
  <2>2. h.min = s[1]
    BY <2>1 DEF Slot
  <2>3. h.parent[s[1]] = NULL
    BY <2>1 DEF Laid
  <2>4. \A i \in 1 .. n :
           h.left[s[i]] = Slot(s, n, 2 * i) /\ h.right[s[i]] = Slot(s, n, 2 * i + 1)
    BY DEF Laid
  <2>5. \A d, i \in 1 .. n : Below(d, i) => h.parent[s[i]] = s[d]
    BY DEF Laid
  <2> QED
    BY <2>2, <2>3, <2>4, <2>5
<1>4. \A i \in Nat : i # a /\ i # b => Slot(t, n, i) = Slot(s, n, i)
  BY <1>2 DEF Slot
<1>5. up = IF a = 1 THEN NULL ELSE s[a \div 2]
  <2>1. CASE a = 1
    BY <1>3, <2>1
  <2>2. CASE a # 1
    <3>1. a \div 2 \in 1 .. n /\ Below(a \div 2, a)
      BY <2>2, Half
    <3> QED
      BY <1>3, <2>2, <3>1
  <2> QED
    BY <2>1, <2>2
<1>6. /\ \A i \in 1 .. n : s[i] \in Children(h, p) <=> Below(a, i)
      /\ \A i \in 1 .. n : s[i] \in Children(h, c) <=> Below(b, i)
  <2>1. ASSUME NEW d \in 1 .. n, NEW i \in 1 .. n
        PROVE  s[i] \in Children(h, s[d]) <=> Below(d, i)
    <3>1. s[i] # NULL
      BY <1>1
    <3>2. s[i] = Slot(s, n, 2 * d) <=> i = 2 * d
      BY <1>1, <3>1 DEF Slot
    <3>3. s[i] = Slot(s, n, 2 * d + 1) <=> i = 2 * d + 1
      BY <1>1, <3>1 DEF Slot
    <3>4. s[i] \in Children(h, s[d]) <=>
            s[i] \in {Slot(s, n, 2 * d), Slot(s, n, 2 * d + 1)}
      BY <1>3, <3>1 DEF Children
    <3> QED
      BY <3>2, <3>3, <3>4 DEF Below
  <2> QED
    BY <2>1
<1>7. h.left[p] = c <=> b = 2 * a
  <2>1. h.left[s[a]] = Slot(s, n, 2 * a) /\ c # NULL
    BY <1>1, <1>3
  <2>2. Slot(s, n, 2 * a) = s[b] <=> b = 2 * a
    BY <1>1, <2>1 DEF Slot
  <2> QED
    BY <2>1, <2>2
<1>8. /\ new.left[p] = h.left[c] /\ new.right[p] = h.right[c]
      /\ new.left[c] = (IF h.left[p] = c THEN p ELSE h.left[p])
      /\ new.right[c] = (IF h.left[p] = c THEN h.right[p] ELSE p)
      /\ new.parent[p] = (IF p \in Children(h, c) THEN p ELSE c)
      /\ new.parent[c] = (IF c \in Children(h, c) THEN p ELSE up)
      /\ new.nelts = h.nelts
      /\ new.min = IF up = NULL THEN c ELSE h.min
  BY <1>1, SwapFields
<1>9. \A x \in Node \ {p, c} :
        /\ new.left[x] = IF x = up /\ h.left[x] = p THEN c ELSE h.left[x]
        /\ new.right[x] = IF x = up /\ h.left[x] # p THEN c ELSE h.right[x]
        /\ new.parent[x] = IF x \in Children(h, c) THEN p
                           ELSE IF x \in Children(h, p) THEN c
                           ELSE h.parent[x]
  BY <1>1, SwapFields
<1>10. new \in Heaps
  BY <1>1, SwapIsHeap
<1> HIDE DEF p, c, up, new, t
<1>11. new.min = Slot(t, n, 1)
  <2>1. CASE a = 1
    BY <1>2, <1>5, <1>8, <2>1 DEF Slot
  <2>2. CASE a # 1
    <3>1. up \in Node
      <4>1. a \div 2 \in 1 .. n
        BY <2>2, Half
      <4> QED
        BY <1>1, <1>5, <2>2, <4>1
    <3>2. t[1] = s[1]
      BY <1>1, <1>2, <2>2
    <3> QED
      BY <1>1, <1>3, <1>8, <3>1, <3>2 DEF Slot
  <2> QED
    BY <2>1, <2>2
<1>12. ASSUME NEW i \in 1 .. n
       PROVE  new.left[t[i]] = Slot(t, n, 2 * i) /\ new.right[t[i]] = Slot(t, n, 2 * i + 1)
  <2>1. CASE i = a
    <3>1. h.left[p] = Slot(s, n, 2 * a) /\ h.right[p] = Slot(s, n, 2 * a + 1)
      BY <1>3 DEF p
    <3>2. CASE b = 2 * a
      <4>1. Slot(t, n, 2 * a) = p /\ Slot(t, n, 2 * a + 1) = Slot(s, n, 2 * a + 1)
        BY <1>2, <1>4, <3>2 DEF Slot
      <4> QED
        BY <1>2, <1>7, <1>8, <2>1, <3>1, <3>2, <4>1
    <3>3. CASE b = 2 * a + 1
      <4>1. Slot(t, n, 2 * a + 1) = p /\ Slot(t, n, 2 * a) = Slot(s, n, 2 * a)
        BY <1>2, <1>4, <3>3 DEF Slot
      <4>2. h.left[p] # c
        BY <1>7, <3>3
      <4> QED
        BY <1>2, <1>8, <2>1, <3>1, <4>1, <4>2
    <3> QED
      BY <3>2, <3>3 DEF Below
  <2>2. CASE i = b
    <3>1. h.left[c] = Slot(s, n, 2 * b) /\ h.right[c] = Slot(s, n, 2 * b + 1)
      BY <1>3 DEF c
    <3>2. Slot(t, n, 2 * b) = Slot(s, n, 2 * b) /\ Slot(t, n, 2 * b + 1) = Slot(s, n, 2 * b + 1)
      BY <1>1, <1>4
    <3> QED
      BY <1>2, <1>8, <2>2, <3>1, <3>2
  <2>3. CASE i # a /\ i # b
    <3>1. t[i] = s[i] /\ s[i] \in Node \ {p, c}
      BY <1>1, <1>2, <2>3
    <3>2. s[i] = up <=> Below(i, a)
      <4>1. CASE a = 1
        BY <1>1, <1>5, <4>1 DEF Below
      <4>2. CASE a # 1
        <5>1. a \div 2 \in 1 .. n /\ Below(a \div 2, a)
          BY <4>2, Half
        <5>2. s[i] = s[a \div 2] <=> i = a \div 2
          BY <1>1, <5>1
        <5> QED
          BY <1>5, <4>2, <5>1, <5>2 DEF Below
      <4> QED
        BY <4>1, <4>2
    <3>3. h.left[s[i]] = Slot(s, n, 2 * i) /\ h.right[s[i]] = Slot(s, n, 2 * i + 1)
      BY <1>3
    <3>4. h.left[s[i]] = p <=> a = 2 * i
      <4>1. p \in Node /\ p = s[a]
        BY <1>1 DEF p
      <4> QED
        BY <1>1, <3>3, <4>1 DEF Slot
    <3>5. 2 * i # b /\ 2 * i + 1 # b
      BY <2>3 DEF Below
    <3>6. CASE a = 2 * i
      <4>1. Slot(t, n, 2 * i) = c /\ Slot(t, n, 2 * i + 1) = Slot(s, n, 2 * i + 1)
        BY <1>2, <1>4, <3>5, <3>6 DEF Slot
      <4>2. s[i] = up /\ h.left[s[i]] = p
        BY <3>2, <3>4, <3>6 DEF Below
      <4> QED
        BY <1>9, <3>1, <3>3, <4>1, <4>2
    <3>7. CASE a = 2 * i + 1
      <4>1. Slot(t, n, 2 * i + 1) = c /\ Slot(t, n, 2 * i) = Slot(s, n, 2 * i)
        BY <1>2, <1>4, <3>5, <3>7 DEF Slot
      <4>2. s[i] = up /\ h.left[s[i]] # p
        BY <3>2, <3>4, <3>7 DEF Below
      <4> QED
        BY <1>9, <3>1, <3>3, <4>1, <4>2
    <3>8. CASE ~Below(i, a)
      <4>1. Slot(t, n, 2 * i + 1) = Slot(s, n, 2 * i + 1) /\ Slot(t, n, 2 * i) = Slot(s, n, 2 * i)
        BY <1>4, <3>5, <3>8 DEF Below
      <4>2. s[i] # up
        BY <3>2, <3>8
      <4> QED
        BY <1>9, <3>1, <3>3, <4>1, <4>2
    <3> QED
      BY <3>6, <3>7, <3>8 DEF Below
  <2> QED
    BY <2>1, <2>2, <2>3
<1>13. new.parent[t[1]] = NULL
  <2>1. CASE a = 1
    <3>1. c \notin Children(h, c)
      BY <1>6 DEF Below, c
    <3> QED
      BY <1>2, <1>5, <1>8, <2>1, <3>1
  <2>2. CASE a # 1
    <3>1. t[1] = s[1] /\ s[1] \in Node \ {p, c}
      BY <1>1, <1>2, <2>2
    <3>2. s[1] \notin Children(h, c) /\ s[1] \notin Children(h, p)
      BY <1>1, <1>6 DEF Below
    <3> QED
      BY <1>3, <1>9, <3>1, <3>2
  <2> QED
    BY <2>1, <2>2
<1>14. ASSUME NEW d \in 1 .. n, NEW i \in 1 .. n, Below(d, i)
       PROVE  new.parent[t[i]] = t[d]
  <2>1. CASE i = a
    <3>1. c \notin Children(h, c)
      BY <1>6 DEF Below, c
    <3>2. up = s[d] /\ t[d] = s[d]
      <4>1. h.parent[s[a]] = s[d]
        BY <1>3, <1>14, <2>1
      <4>2. d # a /\ d # b
        BY <1>1, <1>14, <2>1 DEF Below
      <4> QED
        BY <1>2, <4>1, <4>2 DEF up, p
    <3> QED
      BY <1>2, <1>8, <2>1, <3>1, <3>2
  <2>2. CASE i = b
    <3>1. p \notin Children(h, c)
      BY <1>1, <1>6 DEF Below, p
    <3>2. d = a
      BY <1>14, <2>2 DEF Below
    <3> QED
      BY <1>2, <1>8, <2>2, <3>1, <3>2
  <2>3. CASE i # a /\ i # b
    <3>1. t[i] = s[i] /\ s[i] \in Node \ {p, c}
      BY <1>1, <1>2, <2>3
    <3>2. (s[i] \in Children(h, c) <=> d = b) /\ (s[i] \in Children(h, p) <=> d = a)
      BY <1>6, <1>14 DEF Below
    <3>3. h.parent[s[i]] = s[d]
      BY <1>3, <1>14
    <3> QED
      BY <1>1, <1>2, <1>9, <3>1, <3>2, <3>3
  <2> QED
    BY <2>1, <2>2, <2>3
<1>15. Row(t, n) = Row(s, n)
  <2>1. s[a] = c \/ s[a] = p
    BY DEF p
  <2> QED
    BY <1>2 DEF Row, p, c
<1>16. \A i, j \in 1 .. n : t[i] = t[j] => i = j
  BY <1>1, <1>2
<1>17. Laid(new, t, n)
  BY <1>1, <1>2, <1>8, <1>10, <1>11, <1>12, <1>13, <1>14, <1>16 DEF Laid
<1> QED
  BY <1>15, <1>17 DEF p, c, new, t

-----------------------------------------------------------------------------
(* The heap: one node out of order rises or sinks. *)

\* No node is less than the one it hangs below.
Ordered(s, n) == \A a, i \in 1 .. n : Below(a, i) => Key[s[a]] <= Key[s[i]]

\* As much of the order as does not depend on the node in slot j.
Near(s, n, j) ==
    /\ \A a, i \in 1 .. n : Below(a, i) /\ a # j /\ i # j => Key[s[a]] <= Key[s[i]]
    /\ \A a, i \in 1 .. n : Below(a, j) /\ Below(j, i) => Key[s[a]] <= Key[s[i]]

\* The node in slot j against those below it and the one above it.
Lower(s, n, j) == \A i \in 1 .. n : Below(j, i) => Key[s[j]] <= Key[s[i]]
Upper(s, n, j) == \A a \in 1 .. n : Below(a, j) => Key[s[a]] <= Key[s[j]]

\* One turn of the loops of heap_insert and heap_remove.
RiseStep(g, x) ==
    IF g.parent[x] # NULL /\ less_than(x, g.parent[x]) THEN Swap(g, g.parent[x], x) ELSE g

SinkStep(g, x) == IF Smallest(g, x) = x THEN g ELSE Swap(g, x, Smallest(g, x))

\* The keys of a row are numbers.
LEMMA KeysAreNumbers ==
  ASSUME HeapAssumption, NEW h, NEW s, NEW n \in Nat, Laid(h, s, n)
  PROVE  \A i \in 1 .. n : s[i] \in Node /\ s[i] # NULL /\ Key[s[i]] \in Int
BY DEF HeapAssumption, Laid

LEMMA AllInOrder ==
  ASSUME NEW s, NEW n, NEW j \in 1 .. n, Near(s, n, j), Lower(s, n, j), Upper(s, n, j)
  PROVE  Ordered(s, n)
BY DEF Ordered, Near, Lower, Upper

\* An exchange with the node above leaves only the higher slot in doubt.
LEMMA RisesOne ==
  ASSUME HeapAssumption, NEW h, NEW s, NEW n \in Nat, Laid(h, s, n),
         NEW a \in 1 .. n, NEW j \in 1 .. n, Below(a, j),
         Near(s, n, j), Lower(s, n, j), Key[s[j]] < Key[s[a]]
  PROVE  LET t == Exchanged(s, a, j) IN Near(t, n, a) /\ Lower(t, n, a)
<1> DEFINE t == Exchanged(s, a, j)
<1>1. /\ a < j /\ t[a] = s[j] /\ t[j] = s[a]
      /\ \A i \in 1 .. n : i # a /\ i # j => t[i] = s[i]
  <2>1. s \in [1 .. n -> Node] /\ a < j
    BY DEF Below, Laid
  <2> QED
    BY <2>1 DEF Exchanged
<1>2. \A i \in 1 .. n : Key[s[i]] \in Int
  BY KeysAreNumbers
<1> HIDE DEF t
<1>3. ASSUME NEW d \in 1 .. n, NEW i \in 1 .. n, Below(d, i), d # a, i # a
      PROVE  Key[t[d]] <= Key[t[i]]
  <2>1. i # j
    BY <1>3 DEF Below
  <2>2. CASE d = j
    BY <1>1, <1>3, <2>1, <2>2 DEF Near
  <2>3. CASE d # j
    BY <1>1, <1>3, <2>1, <2>3 DEF Near
  <2> QED
    BY <2>2, <2>3
<1>4. ASSUME NEW i \in 1 .. n, Below(a, i)
      PROVE  Key[s[j]] <= Key[t[i]] /\ Key[s[a]] <= Key[t[i]]
  <2>1. CASE i = j
    BY <1>1, <1>2, <2>1
  <2>2. CASE i # j
    <3>1. i # a
      BY <1>4 DEF Below
    <3>2. Key[s[a]] <= Key[s[i]]
      BY <1>1, <1>4, <2>2, <3>1 DEF Near
    <3> QED
      BY <1>1, <1>2, <2>2, <3>1, <3>2
  <2> QED
    BY <2>1, <2>2
<1>5. ASSUME NEW d \in 1 .. n, NEW i \in 1 .. n, Below(d, a), Below(a, i)
      PROVE  Key[t[d]] <= Key[t[i]]
  <2>1. d # a /\ d # j
    BY <1>1, <1>5 DEF Below
  <2>2. Key[s[d]] <= Key[s[a]]
    BY <1>1, <1>5, <2>1 DEF Near
  <2>3. Key[s[a]] <= Key[t[i]] /\ t[i] \in {s[k] : k \in 1 .. n}
    BY <1>1, <1>4, <1>5
  <2> QED
    BY <1>1, <1>2, <2>1, <2>2, <2>3
<1>6. Near(t, n, a)
  BY <1>3, <1>5 DEF Near
<1>7. Lower(t, n, a)
  BY <1>1, <1>4 DEF Lower
<1> QED
  BY <1>6, <1>7 DEF t

\* One turn of the loop that lets x rise.
LEMMA RiseTurn ==
  ASSUME HeapAssumption, NEW h, NEW s, NEW n \in Nat, Laid(h, s, n),
         NEW j \in 1 .. n, Near(s, n, j), Lower(s, n, j)
  PROVE  \E t : \E i \in 1 .. n :
            /\ Laid(RiseStep(h, s[j]), t, n) /\ Row(t, n) = Row(s, n) /\ t[i] = s[j]
            /\ Near(t, n, i) /\ Lower(t, n, i) /\ (Upper(t, n, i) \/ i < j)
<1>1. CASE j = 1
  <2>1. RiseStep(h, s[j]) = h
    BY <1>1 DEF RiseStep, Laid
  <2>2. Upper(s, n, j)
    BY <1>1 DEF Upper, Below
  <2> QED
    BY <2>1, <2>2
<1>2. CASE j # 1
  <2>1. PICK a \in 1 .. n : Below(a, j) /\ a < j
    BY <1>2, Half
  <2>2. h.parent[s[j]] = s[a] /\ s[a] # NULL
    <3>1. h.parent[s[j]] = s[a]
      BY <2>1 DEF Laid
    <3> QED
      BY <3>1, KeysAreNumbers
  <2>3. \A d \in 1 .. n : Below(d, j) => d = a
    BY <2>1 DEF Below
  <2>4. CASE Key[s[j]] < Key[s[a]]
    <3>1. RiseStep(h, s[j]) = Swap(h, s[a], s[j])
      BY <2>2, <2>4 DEF RiseStep, less_than
    <3>2. /\ Laid(Swap(h, s[a], s[j]), Exchanged(s, a, j), n)
          /\ Row(Exchanged(s, a, j), n) = Row(s, n)
      BY <2>1, SwapIsExchange
    <3>3. Near(Exchanged(s, a, j), n, a) /\ Lower(Exchanged(s, a, j), n, a)
      BY <2>1, <2>4, RisesOne
    <3>4. Exchanged(s, a, j)[a] = s[j]
      BY <2>1 DEF Exchanged, Laid
    <3> QED
      BY <2>1, <3>1, <3>2, <3>3, <3>4
  <2>5. CASE ~(Key[s[j]] < Key[s[a]])
    <3>1. RiseStep(h, s[j]) = h
      BY <2>2, <2>5 DEF RiseStep, less_than
    <3>2. Upper(s, n, j)
      BY <2>3, <2>5, KeysAreNumbers DEF Upper
    <3> QED
      BY <3>1, <3>2
  <2> QED
    BY <2>4, <2>5
<1> QED
  BY <1>1, <1>2

\* The turns of either loop.
Turn(down, g, x) == IF down THEN SinkStep(g, x) ELSE RiseStep(g, x)

Turns(down, h, x, k, f) ==
    f = [i \in 0 .. k |-> IF i = 0 THEN h ELSE Turn(down, f[i - 1], x)]

LEMMA TurnsExist ==
  ASSUME NEW down, NEW h, NEW x, NEW n \in Nat
  PROVE  \E f : Turns(down, h, x, n, f)
<1> DEFINE P(k) == \E f : Turns(down, h, x, k, f)
           Bad == {k \in Nat : ~P(k)}
<1>1. P(0)
  <2>1. Turns(down, h, x, 0, [i \in 0 .. 0 |-> h])
    BY DEF Turns
  <2> QED
    BY <2>1
<1>2. ASSUME NEW k \in Nat, P(k) PROVE P(k + 1)
  <2>1. PICK f : Turns(down, h, x, k, f)
    BY <1>2
  <2> DEFINE g == [i \in 0 .. k + 1 |-> IF i = 0 THEN h ELSE Turn(down, f[i - 1], x)]
  <2>2. ASSUME NEW i \in 0 .. k PROVE g[i] = f[i]
    <3>1. f[i] = IF i = 0 THEN h ELSE Turn(down, f[i - 1], x)
      BY <2>1, Zenon DEF Turns
    <3>2. i \in 0 .. k + 1
      OBVIOUS
    <3> QED
      BY <3>1, <3>2, Zenon
  <2>3. ASSUME NEW i \in 0 .. k + 1, i # 0 PROVE g[i - 1] = f[i - 1]
    <3>1. i - 1 \in 0 .. k
      BY <2>3
    <3> QED
      BY <2>2, <3>1
  <2>4. Turns(down, h, x, k + 1, g)
    <3> HIDE DEF g
    <3>1. g = [i \in 0 .. k + 1 |-> IF i = 0 THEN h ELSE Turn(down, f[i - 1], x)]
      BY DEF g
    <3> QED
      BY <2>3, <3>1, Zenon DEF Turns
  <2> QED
    BY <2>4
<1>3. Bad = {}
  <2> SUFFICES ASSUME Bad # {} PROVE FALSE
    OBVIOUS
  <2> HIDE DEF P
  <2>1. PICK k \in Bad : \A j \in Bad : k <= j
    BY SmallestMember
  <2>2. CASE k = 0
    BY <1>1, <2>2
  <2>3. CASE k # 0
    <3>1. k - 1 \in Nat /\ k - 1 \notin Bad /\ k = (k - 1) + 1
      BY <2>1, <2>3
    <3> QED
      BY <1>2, <3>1
  <2> QED
    BY <2>2, <2>3
<1> QED
  BY <1>3

\* Rise is the result of as many turns as there are nodes.
LEMMA RiseIs ==
  ASSUME NEW h, NEW x, Size \in Nat
  PROVE  \E up : Turns(FALSE, h, x, Size, up) /\ Rise(h, x) = up[Size]
<1> DEFINE Q(f) ==
        f = [k \in 0 .. Size |->
                IF k = 0 THEN h
                ELSE LET g == f[k - 1]
                     IN  IF g.parent[x] # NULL /\ less_than(x, g.parent[x])
                         THEN Swap(g, g.parent[x], x)
                         ELSE g]
<1>1. \A f : Q(f) <=> Turns(FALSE, h, x, Size, f)
  BY Zenon DEF Turns, Turn, RiseStep
<1>2. \E f : Q(f)
  BY <1>1, TurnsExist
<1>3. Rise(h, x) = (CHOOSE f : Q(f))[Size]
  BY Zenon DEF Rise
<1> HIDE DEF Q
<1> QED
  BY <1>1, <1>2, <1>3

\* A node that has nothing greater below it rises until the heap is in order.
LEMMA RiseSettles ==
  ASSUME HeapAssumption, NEW h, NEW s, NEW n \in Nat, Laid(h, s, n),
         NEW j \in 1 .. n, Near(s, n, j), Lower(s, n, j)
  PROVE  \E t : /\ Laid(Rise(h, s[j]), t, n) /\ Row(t, n) = Row(s, n)
                /\ Ordered(t, n)
<1> DEFINE x == s[j]
           R == Row(s, n)
<1>1. n <= Size /\ Size \in Nat
  BY RoomForAll DEF Laid
<1>2. PICK up : Turns(FALSE, h, x, Size, up) /\ Rise(h, x) = up[Size]
  BY <1>1, RiseIs
<1> DEFINE P(k) == \E t : \E i \in 1 .. n :
                      /\ Laid(up[k], t, n) /\ Row(t, n) = R /\ t[i] = x
                      /\ Near(t, n, i) /\ Lower(t, n, i)
                      /\ (Upper(t, n, i) \/ i + k <= j)
           Bad == {k \in Nat : k <= Size /\ ~P(k)}
<1>3. P(0)
  <2>1. up[0] = h
    BY <1>1, <1>2 DEF Turns
  <2> QED
    BY <2>1
<1>4. ASSUME NEW k \in Nat, k + 1 <= Size, P(k) PROVE P(k + 1)
  <2>1. up[k + 1] = RiseStep(up[k], x)
    <3>1. k + 1 \in 0 .. Size /\ k + 1 # 0 /\ (k + 1) - 1 = k
      BY <1>1, <1>4
    <3> QED
      BY <1>2, <3>1 DEF Turns, Turn
  <2>a. PICK t : \E i \in 1 .. n :
           /\ Laid(up[k], t, n) /\ Row(t, n) = R /\ t[i] = x
           /\ Near(t, n, i) /\ Lower(t, n, i) /\ (Upper(t, n, i) \/ i + k <= j)
    BY <1>4
  <2>2. PICK i \in 1 .. n :
           /\ Laid(up[k], t, n) /\ Row(t, n) = R /\ t[i] = x
           /\ Near(t, n, i) /\ Lower(t, n, i) /\ (Upper(t, n, i) \/ i + k <= j)
    BY <2>a
  <2> HIDE DEF x, R
  <2>3. CASE Upper(t, n, i)
    <3>1. RiseStep(up[k], x) = up[k]
      <4>1. CASE i = 1
        BY <2>2, <4>1 DEF RiseStep, Laid
      <4>2. CASE i # 1
        <5>1. PICK a \in 1 .. n : Below(a, i)
          BY <4>2, Half
        <5>2. up[k].parent[x] = t[a] /\ Key[t[a]] <= Key[x]
          BY <2>2, <2>3, <5>1 DEF Laid, Upper
        <5>3. Key[t[a]] \in Int /\ Key[x] \in Int
          BY <2>2, KeysAreNumbers
        <5> QED
          BY <5>2, <5>3 DEF RiseStep, less_than
      <4> QED
        BY <4>1, <4>2
    <3> QED
      BY <2>1, <2>2, <2>3, <3>1
  <2>4. CASE ~Upper(t, n, i)
    <3>1. PICK r : \E d \in 1 .. n :
             /\ Laid(RiseStep(up[k], x), r, n) /\ Row(r, n) = R /\ r[d] = x
             /\ Near(r, n, d) /\ Lower(r, n, d) /\ (Upper(r, n, d) \/ d < i)
      BY <2>2, RiseTurn
    <3>2. ASSUME NEW d \in 1 .. n, d < i PROVE d + (k + 1) <= j
      BY <2>2, <2>4, <3>2
    <3> QED
      BY <2>1, <3>1, <3>2
  <2> QED
    BY <2>3, <2>4
<1>5. Bad = {}
  <2> SUFFICES ASSUME Bad # {} PROVE FALSE
    OBVIOUS
  <2> HIDE DEF P
  <2>1. PICK k \in Bad : \A i \in Bad : k <= i
    BY SmallestMember
  <2>2. CASE k = 0
    BY <1>3, <2>2
  <2>3. CASE k # 0
    <3>1. k - 1 \in Nat /\ k - 1 \notin Bad /\ k = (k - 1) + 1 /\ k <= Size
      BY <2>1, <2>3
    <3> QED
      BY <1>1, <1>4, <3>1
  <2> QED
    BY <2>2, <2>3
<1>a. PICK t : \E i \in 1 .. n :
         /\ Laid(up[Size], t, n) /\ Row(t, n) = R /\ t[i] = x
         /\ Near(t, n, i) /\ Lower(t, n, i) /\ (Upper(t, n, i) \/ i + Size <= j)
  <2> HIDE DEF P
  <2>1. P(Size)
    BY <1>1, <1>5
  <2> QED
    BY <2>1 DEF P
<1>6. PICK i \in 1 .. n :
         /\ Laid(up[Size], t, n) /\ Row(t, n) = R /\ t[i] = x
         /\ Near(t, n, i) /\ Lower(t, n, i) /\ (Upper(t, n, i) \/ i + Size <= j)
  BY <1>a
<1>7. Upper(t, n, i)
  BY <1>1, <1>6
<1>8. Ordered(t, n)
  BY <1>6, <1>7, AllInOrder
<1> QED
  BY <1>2, <1>6, <1>8

\* An exchange with the least node below leaves only the lower slot in doubt.
LEMMA SinksOne ==
  ASSUME HeapAssumption, NEW h, NEW s, NEW n \in Nat, Laid(h, s, n),
         NEW j \in 1 .. n, NEW d \in 1 .. n, Below(j, d), Near(s, n, j),
         Key[s[d]] < Key[s[j]],
         \A i \in 1 .. n : Below(j, i) => Key[s[d]] <= Key[s[i]]
  PROVE  Near(Exchanged(s, j, d), n, d)
<1> DEFINE t == Exchanged(s, j, d)
<1>1. /\ j < d /\ t[j] = s[d] /\ t[d] = s[j]
      /\ \A i \in 1 .. n : i # j /\ i # d => t[i] = s[i]
  <2>1. s \in [1 .. n -> Node] /\ j < d
    BY DEF Below, Laid
  <2> QED
    BY <2>1 DEF Exchanged
<1>2. \A i \in 1 .. n : Key[s[i]] \in Int
  BY KeysAreNumbers
<1> HIDE DEF t
<1>3. ASSUME NEW a \in 1 .. n, NEW i \in 1 .. n, Below(a, i), a # d, i # d
      PROVE  Key[t[a]] <= Key[t[i]]
  <2>1. CASE a = j
    <3>1. i # j
      BY <1>3, <2>1 DEF Below
    <3> QED
      BY <1>1, <1>3, <2>1, <3>1
  <2>2. CASE a # j /\ i = j
    BY <1>1, <1>3, <2>2 DEF Near
  <2>3. CASE a # j /\ i # j
    BY <1>1, <1>3, <2>3 DEF Near
  <2> QED
    BY <2>1, <2>2, <2>3
<1>4. ASSUME NEW a \in 1 .. n, NEW i \in 1 .. n, Below(a, d), Below(d, i)
      PROVE  Key[t[a]] <= Key[t[i]]
  <2>1. a = j /\ i # j /\ i # d
    BY <1>1, <1>4 DEF Below
  <2>2. Key[s[d]] <= Key[s[i]]
    BY <1>1, <1>4, <2>1 DEF Near
  <2> QED
    BY <1>1, <2>1, <2>2
<1>5. Near(t, n, d)
  BY <1>3, <1>4 DEF Near
<1> QED
  BY <1>5 DEF t

\* Smallest finds the least of a node and of those below it.
LEMMA SmallestIs ==
  ASSUME HeapAssumption, NEW h, NEW s, NEW n \in Nat, Laid(h, s, n), NEW j \in 1 .. n
  PROVE  \E d \in 1 .. n :
            /\ Smallest(h, s[j]) = s[d]
            /\ d = j \/ (Below(j, d) /\ Key[s[d]] < Key[s[j]])
            /\ \A i \in 1 .. n : Below(j, i) => Key[s[d]] <= Key[s[i]]
<1> DEFINE x == s[j]
           l == h.left[x]
           r == h.right[x]
<1>1. l = Slot(s, n, 2 * j) /\ r = Slot(s, n, 2 * j + 1)
  BY DEF Laid
<1>2. \A i \in 1 .. n : s[i] \in Node /\ s[i] # NULL /\ Key[s[i]] \in Int
  BY KeysAreNumbers
<1>3. /\ \A i \in 1 .. n : Below(j, i) <=> i = 2 * j \/ i = 2 * j + 1
      /\ l # NULL => 2 * j \in 1 .. n /\ l = s[2 * j]
      /\ l = NULL => 2 * j \notin 1 .. n
      /\ r # NULL => 2 * j + 1 \in 1 .. n /\ r = s[2 * j + 1]
      /\ r = NULL => 2 * j + 1 \notin 1 .. n
  <2>1. 2 * j \in Nat /\ 2 * j + 1 \in Nat
    OBVIOUS
  <2> QED
    BY <1>1, <1>2 DEF Slot, Below
<1> HIDE DEF x, l, r
<1>b. (l # NULL => Key[l] \in Int) /\ (r # NULL => Key[r] \in Int)
  BY <1>2, <1>3
<1> DEFINE e == IF l # NULL /\ Key[l] < Key[x] THEN 2 * j ELSE j
           d == IF r # NULL /\ Key[r] < Key[s[e]] THEN 2 * j + 1 ELSE e
<1>4. e \in 1 .. n /\ s[e] = IF l # NULL /\ Key[l] < Key[x] THEN l ELSE x
  <2>1. CASE l # NULL /\ Key[l] < Key[x]
    BY <1>3, <2>1
  <2>2. CASE ~(l # NULL /\ Key[l] < Key[x])
    BY <2>2 DEF x
  <2> QED
    BY <2>1, <2>2
<1> HIDE DEF e
<1>5. d \in 1 .. n /\ s[d] = IF r # NULL /\ Key[r] < Key[s[e]] THEN r ELSE s[e]
  <2>1. CASE r # NULL /\ Key[r] < Key[s[e]]
    BY <1>3, <2>1
  <2>2. CASE ~(r # NULL /\ Key[r] < Key[s[e]])
    BY <1>4, <2>2
  <2> QED
    BY <2>1, <2>2
<1>6. Smallest(h, x) = s[d]
  BY <1>4, <1>5 DEF Smallest, less_than, l, r
<1>7. Key[s[e]] <= Key[x] /\ (l # NULL => Key[s[e]] <= Key[l])
      /\ (e = j \/ (e = 2 * j /\ Key[s[e]] < Key[x]))
  <2>1. x = s[j] /\ Key[x] \in Int
    BY <1>2 DEF x
  <2>2. CASE l # NULL /\ Key[l] < Key[x]
    BY <1>2, <1>3, <1>4, <2>1, <2>2 DEF e
  <2>3. CASE ~(l # NULL /\ Key[l] < Key[x])
    <3>1. s[e] = x /\ e = j
      BY <1>4, <2>3 DEF e
    <3> QED
      BY <1>b, <2>1, <2>3, <3>1
  <2> QED
    BY <2>2, <2>3
<1>8. Key[s[d]] <= Key[s[e]] /\ (r # NULL => Key[s[d]] <= Key[r])
      /\ (d = e \/ (d = 2 * j + 1 /\ Key[s[d]] < Key[s[e]]))
  <2>1. CASE r # NULL /\ Key[r] < Key[s[e]]
    BY <1>2, <1>3, <1>4, <1>5, <2>1
  <2>2. CASE ~(r # NULL /\ Key[r] < Key[s[e]])
    <3>1. s[d] = s[e] /\ d = e /\ Key[s[e]] \in Int
      BY <1>2, <1>4, <1>5, <2>2
    <3> HIDE DEF d
    <3> QED
      BY <1>b, <2>2, <3>1
  <2> QED
    BY <2>1, <2>2
<1> HIDE DEF d
<1>9. d = j \/ (Below(j, d) /\ Key[s[d]] < Key[x])
  BY <1>2, <1>4, <1>5, <1>7, <1>8 DEF Below, x
<1>10. \A i \in 1 .. n : Below(j, i) => Key[s[d]] <= Key[s[i]]
  BY <1>2, <1>3, <1>4, <1>5, <1>7, <1>8
<1> QED
  BY <1>5, <1>6, <1>9, <1>10 DEF x

\* One turn of the loop that lets a node sink.
LEMMA SinkTurn ==
  ASSUME HeapAssumption, NEW h, NEW s, NEW n \in Nat, Laid(h, s, n),
         NEW j \in 1 .. n, Near(s, n, j)
  PROVE  \E t : \E i \in 1 .. n :
            /\ Laid(SinkStep(h, s[j]), t, n) /\ Row(t, n) = Row(s, n) /\ t[i] = s[j]
            /\ Near(t, n, i) /\ (Lower(t, n, i) \/ i > j)
            /\ (Lower(s, n, j) => SinkStep(h, s[j]) = h)
<1>1. PICK d \in 1 .. n :
         /\ Smallest(h, s[j]) = s[d]
         /\ d = j \/ (Below(j, d) /\ Key[s[d]] < Key[s[j]])
         /\ \A i \in 1 .. n : Below(j, i) => Key[s[d]] <= Key[s[i]]
  BY SmallestIs
<1>2. CASE d = j
  <2>1. SinkStep(h, s[j]) = h
    BY <1>1, <1>2 DEF SinkStep
  <2>2. Lower(s, n, j)
    BY <1>1, <1>2 DEF Lower
  <2> QED
    BY <2>1, <2>2
<1>3. CASE d # j
  <2>1. Below(j, d) /\ Key[s[d]] < Key[s[j]] /\ d > j
    BY <1>1, <1>3 DEF Below
  <2>2. s[d] # s[j] /\ ~Lower(s, n, j)
    <3>1. Key[s[d]] \in Int /\ Key[s[j]] \in Int
      BY KeysAreNumbers
    <3> QED
      BY <2>1, <3>1 DEF Lower
  <2>3. SinkStep(h, s[j]) = Swap(h, s[j], s[d])
    BY <1>1, <2>2 DEF SinkStep
  <2>4. /\ Laid(Swap(h, s[j], s[d]), Exchanged(s, j, d), n)
        /\ Row(Exchanged(s, j, d), n) = Row(s, n)
    BY <2>1, SwapIsExchange
  <2>5. Near(Exchanged(s, j, d), n, d)
    BY <1>1, <2>1, SinksOne
  <2>6. Exchanged(s, j, d)[d] = s[j]
    BY DEF Exchanged, Laid
  <2> QED
    BY <2>1, <2>2, <2>3, <2>4, <2>5, <2>6
<1> QED
  BY <1>2, <1>3

\* Sink is the result of as many turns as there are nodes.
LEMMA SinkIs ==
  ASSUME NEW h, NEW x, Size \in Nat
  PROVE  \E down : Turns(TRUE, h, x, Size, down) /\ Sink(h, x) = down[Size]
<1> DEFINE Q(f) ==
        f = [k \in 0 .. Size |->
                IF k = 0 THEN h
                ELSE LET g == f[k - 1]
                         s == Smallest(g, x)
                     IN  IF s = x THEN g ELSE Swap(g, x, s)]
<1>1. \A f : Q(f) <=> Turns(TRUE, h, x, Size, f)
  BY Zenon DEF Turns, Turn, SinkStep
<1>2. \E f : Q(f)
  BY <1>1, TurnsExist
<1>3. Sink(h, x) = (CHOOSE f : Q(f))[Size]
  BY Zenon DEF Sink
<1> HIDE DEF Q
<1> QED
  BY <1>1, <1>2, <1>3

\* A node sinks until it has nothing less below it; whether it may have to rise
\* is still open.
LEMMA SinkSettles ==
  ASSUME HeapAssumption, NEW h, NEW s, NEW n \in Nat, Laid(h, s, n),
         NEW j \in 1 .. n, Near(s, n, j)
  PROVE  \E t : \E i \in 1 .. n :
            /\ Laid(Sink(h, s[j]), t, n) /\ Row(t, n) = Row(s, n) /\ t[i] = s[j]
            /\ Near(t, n, i) /\ Lower(t, n, i)
<1> DEFINE x == s[j]
           R == Row(s, n)
<1>1. n <= Size /\ Size \in Nat
  BY RoomForAll DEF Laid
<1>2. PICK down : Turns(TRUE, h, x, Size, down) /\ Sink(h, x) = down[Size]
  BY <1>1, SinkIs
<1> DEFINE P(k) == \E t : \E i \in 1 .. n :
                      /\ Laid(down[k], t, n) /\ Row(t, n) = R /\ t[i] = x
                      /\ Near(t, n, i) /\ (Lower(t, n, i) \/ i >= j + k)
           Bad == {k \in Nat : k <= Size /\ ~P(k)}
<1>3. P(0)
  <2>1. down[0] = h
    BY <1>1, <1>2 DEF Turns
  <2> QED
    BY <2>1
<1>4. ASSUME NEW k \in Nat, k + 1 <= Size, P(k) PROVE P(k + 1)
  <2>1. down[k + 1] = SinkStep(down[k], x)
    <3>1. k + 1 \in 0 .. Size /\ k + 1 # 0 /\ (k + 1) - 1 = k
      BY <1>1, <1>4
    <3> QED
      BY <1>2, <3>1 DEF Turns, Turn
  <2>2. PICK t : \E i \in 1 .. n :
           /\ Laid(down[k], t, n) /\ Row(t, n) = R /\ t[i] = x
           /\ Near(t, n, i) /\ (Lower(t, n, i) \/ i >= j + k)
    BY <1>4
  <2>3. PICK i \in 1 .. n :
           /\ Laid(down[k], t, n) /\ Row(t, n) = R /\ t[i] = x
           /\ Near(t, n, i) /\ (Lower(t, n, i) \/ i >= j + k)
    BY <2>2
  <2> HIDE DEF x, R
  <2>4. PICK r : \E d \in 1 .. n :
           /\ Laid(SinkStep(down[k], x), r, n) /\ Row(r, n) = R /\ r[d] = x
           /\ Near(r, n, d) /\ (Lower(r, n, d) \/ d > i)
           /\ (Lower(t, n, i) => SinkStep(down[k], x) = down[k])
    BY <2>3, SinkTurn
  <2>5. CASE Lower(t, n, i)
    BY <2>1, <2>3, <2>4, <2>5
  <2>6. CASE ~Lower(t, n, i)
    <3>1. ASSUME NEW d \in 1 .. n, d > i PROVE d >= j + (k + 1)
      BY <2>3, <2>6, <3>1
    <3> QED
      BY <2>1, <2>4, <3>1
  <2> QED
    BY <2>5, <2>6
<1>5. Bad = {}
  <2> SUFFICES ASSUME Bad # {} PROVE FALSE
    OBVIOUS
  <2> HIDE DEF P
  <2>1. PICK k \in Bad : \A i \in Bad : k <= i
    BY SmallestMember
  <2>2. CASE k = 0
    BY <1>3, <2>2
  <2>3. CASE k # 0
    <3>1. k - 1 \in Nat /\ k - 1 \notin Bad /\ k = (k - 1) + 1 /\ k <= Size
      BY <2>1, <2>3
    <3> QED
      BY <1>1, <1>4, <3>1
  <2> QED
    BY <2>2, <2>3
<1>6. PICK t : \E i \in 1 .. n :
         /\ Laid(down[Size], t, n) /\ Row(t, n) = R /\ t[i] = x
         /\ Near(t, n, i) /\ (Lower(t, n, i) \/ i >= j + Size)
  <2> HIDE DEF P
  <2>1. P(Size)
    BY <1>1, <1>5
  <2> QED
    BY <2>1 DEF P
<1> QED
  BY <1>1, <1>2, <1>6

-----------------------------------------------------------------------------
(* The heap: insertion. *)

\* The links of other nodes do not matter.
LEMMA OthersDoNotMatter ==
  ASSUME NEW h, NEW s, NEW n \in Nat, Laid(h, s, n), NEW g \in Heaps,
         g.min = h.min, g.nelts = h.nelts,
         \A i \in 1 .. n : /\ g.left[s[i]] = h.left[s[i]]
                           /\ g.right[s[i]] = h.right[s[i]]
                           /\ g.parent[s[i]] = h.parent[s[i]]
  PROVE  Laid(g, s, n)
<1>1. /\ s \in [1 .. n -> Node] /\ h.nelts = n /\ h.min = Slot(s, n, 1)
      /\ \A i, j \in 1 .. n : s[i] = s[j] => i = j
      /\ \A i \in 1 .. n :
            h.left[s[i]] = Slot(s, n, 2 * i) /\ h.right[s[i]] = Slot(s, n, 2 * i + 1)
      /\ n # 0 => h.parent[s[1]] = NULL
      /\ \A a, i \in 1 .. n : Below(a, i) => h.parent[s[i]] = s[a]
  BY DEF Laid
<1>2. n # 0 => g.parent[s[1]] = NULL
  BY <1>1
<1> QED
  BY <1>1, <1>2 DEF Laid

\* PutAt writes the link that leads from slot a to slot i.
LEMMA PutAtWrites ==
  ASSUME HeapAssumption, NEW h, NEW s, NEW n \in Nat, Laid(h, s, n),
         NEW a \in 1 .. n, NEW i \in Nat, Below(a, i), NEW x
  PROVE  /\ i \div 2 = a /\ i # 1 /\ At(h, i \div 2) = s[a]
         /\ PutAt(h, i, x) = IF i = 2 * a THEN [h EXCEPT !.left[s[a]] = x]
                             ELSE [h EXCEPT !.right[s[a]] = x]
<1>1. i \div 2 = a /\ i # 1 /\ (i % 2 = 0 <=> i = 2 * a)
  BY DEF Below
<1>2. At(h, i \div 2) = s[a]
  BY <1>1, AtRow
<1> QED
  BY <1>1, <1>2 DEF PutAt

\* The row with a node more.
Longer(s, n, x) == [k \in 1 .. n + 1 |-> IF k = n + 1 THEN x ELSE s[k]]

\* The new node before it rises.
Hung(h, x) ==
    LET i == h.nelts + 1
        reset == [h EXCEPT !.left[x] = NULL, !.right[x] = NULL]
        below == IF i = 1 THEN h.min ELSE At(reset, i \div 2)
    IN  [PutAt(reset, i, x) EXCEPT !.parent[x] = below, !.nelts = i]

LEMMA HungLast ==
  ASSUME HeapAssumption, NEW h, NEW s, NEW n \in Nat, Laid(h, s, n),
         NEW x \in Node, x \notin Row(s, n)
  PROVE  Laid(Hung(h, x), Longer(s, n, x), n + 1)
<1> DEFINE reset == [h EXCEPT !.left[x] = NULL, !.right[x] = NULL]
           t == Longer(s, n, x)
           new == Hung(h, x)
<1>1. /\ h \in Heaps /\ s \in [1 .. n -> Node] /\ h.nelts = n /\ NULL \in Links
      /\ x \in Links /\ \A i \in 1 .. n : s[i] # x
      /\ \A i, j \in 1 .. n : s[i] = s[j] => i = j
      /\ NULL \notin Node
  BY DEF Laid, Row, Links, HeapAssumption
<1>2. /\ reset \in Heaps /\ reset.min = h.min /\ reset.nelts = n
      /\ reset.left = [h.left EXCEPT ![x] = NULL]
      /\ reset.right = [h.right EXCEPT ![x] = NULL]
      /\ reset.parent = h.parent
  BY <1>1 DEF Heaps
<1>3. Laid(reset, s, n)
  BY <1>1, <1>2, OthersDoNotMatter DEF Heaps
<1>4. /\ t \in [1 .. n + 1 -> Node] /\ t[n + 1] = x
      /\ \A i \in 1 .. n : t[i] = s[i] /\ t[i] # x
      /\ \A i, j \in 1 .. n + 1 : t[i] = t[j] => i = j
  <2>1. t[n + 1] = x /\ \A i \in 1 .. n : t[i] = s[i] /\ t[i] # x
    BY <1>1 DEF Longer
  <2>2. t \in [1 .. n + 1 -> Node]
    BY <1>1 DEF Longer
  <2>3. \A i \in 1 .. n + 1 : i = n + 1 \/ i \in 1 .. n
    OBVIOUS
  <2> QED
    BY <1>1, <2>1, <2>2, <2>3
<1>5. reset.left[x] = NULL /\ reset.right[x] = NULL
  BY <1>1, <1>2 DEF Heaps
<1>6. CASE n = 0
  <2>1. new = [reset EXCEPT !.min = x, !.parent[x] = h.min, !.nelts = 1]
    BY <1>1, <1>2, <1>6 DEF Hung, PutAt, Heaps
  <2>2. h.min = NULL
    BY <1>6 DEF Laid, Slot
  <2> HIDE DEF reset
  <2>3. /\ new \in Heaps /\ new.min = x /\ new.nelts = 1 /\ new.parent[x] = NULL
        /\ new.left[x] = NULL /\ new.right[x] = NULL
    <3>1. reset \in Heaps /\ reset.parent \in [Node -> Links]
      BY <1>2 DEF Heaps
    <3>2. new = [min |-> x, nelts |-> 1, left |-> reset.left, right |-> reset.right,
                 parent |-> [reset.parent EXCEPT ![x] = NULL]]
      BY <2>1, <2>2, <3>1 DEF Heaps
    <3> HIDE DEF new
    <3>3. new \in Heaps
      BY <1>1, <3>1, <3>2 DEF Heaps
    <3> QED
      BY <1>5, <3>1, <3>2, <3>3
  <2> HIDE DEF new, t
  <2> QED
    BY <1>4, <1>6, <2>3 DEF Laid, Slot, Below, new, t
<1>7. CASE n # 0
  <2>1. PICK a \in 1 .. n : Below(a, n + 1)
    <3>1. n + 1 \in Nat /\ n + 1 >= 2
      BY <1>7
    <3> QED
      BY <3>1, Half
  <2>2. /\ (n + 1) \div 2 = a /\ n + 1 # 1 /\ At(reset, (n + 1) \div 2) = s[a]
        /\ PutAt(reset, n + 1, x) = IF n + 1 = 2 * a THEN [reset EXCEPT !.left[s[a]] = x]
                                    ELSE [reset EXCEPT !.right[s[a]] = x]
    <3>1. n + 1 \in Nat
      OBVIOUS
    <3> HIDE DEF reset
    <3> QED
      BY <1>3, <2>1, <3>1, PutAtWrites
  <2>3. new = [PutAt(reset, n + 1, x) EXCEPT !.parent[x] = s[a], !.nelts = n + 1]
    BY <1>1, <2>2 DEF Hung
  <2> HIDE DEF reset
  <2>4. s[a] \in Node /\ s[a] # x /\ s[a] \in Links
    BY <1>1 DEF Links
  <2>5. /\ new \in Heaps /\ new.min = h.min /\ new.nelts = n + 1
        /\ new.left = IF n + 1 = 2 * a THEN [reset.left EXCEPT ![s[a]] = x] ELSE reset.left
        /\ new.right = IF n + 1 = 2 * a THEN reset.right ELSE [reset.right EXCEPT ![s[a]] = x]
        /\ new.parent = [reset.parent EXCEPT ![x] = s[a]]
    <3>1. CASE n + 1 = 2 * a
      <4>1. new = [reset EXCEPT !.left[s[a]] = x, !.parent[x] = s[a], !.nelts = n + 1]
        BY <2>2, <2>3, <3>1
      <4>2. new = [min |-> h.min, nelts |-> n + 1,
                   left |-> [reset.left EXCEPT ![s[a]] = x], right |-> reset.right,
                   parent |-> [reset.parent EXCEPT ![x] = s[a]]]
        BY <1>2, <4>1 DEF Heaps
      <4> HIDE DEF new
      <4>3. /\ reset.left \in [Node -> Links] /\ reset.right \in [Node -> Links]
            /\ reset.parent \in [Node -> Links] /\ h.min \in Node \cup {NULL}
        BY <1>1, <1>2 DEF Heaps
      <4>4. new \in Heaps
        BY <1>1, <2>4, <4>2, <4>3 DEF Heaps
      <4> QED
        BY <3>1, <4>2, <4>4
    <3>2. CASE n + 1 # 2 * a
      <4>1. new = [reset EXCEPT !.right[s[a]] = x, !.parent[x] = s[a], !.nelts = n + 1]
        BY <2>2, <2>3, <3>2
      <4>2. new = [min |-> h.min, nelts |-> n + 1,
                   left |-> reset.left, right |-> [reset.right EXCEPT ![s[a]] = x],
                   parent |-> [reset.parent EXCEPT ![x] = s[a]]]
        BY <1>2, <4>1 DEF Heaps
      <4> HIDE DEF new
      <4>3. /\ reset.left \in [Node -> Links] /\ reset.right \in [Node -> Links]
            /\ reset.parent \in [Node -> Links] /\ h.min \in Node \cup {NULL}
        BY <1>1, <1>2 DEF Heaps
      <4>4. new \in Heaps
        BY <1>1, <2>4, <4>2, <4>3 DEF Heaps
      <4> QED
        BY <3>2, <4>2, <4>4
    <3> QED
      BY <3>1, <3>2
  <2> HIDE DEF new, t
  <2>6. /\ \A i \in 1 .. n : reset.left[s[i]] = Slot(s, n, 2 * i)
                             /\ reset.right[s[i]] = Slot(s, n, 2 * i + 1)
        /\ reset.parent[s[1]] = NULL
        /\ \A d, i \in 1 .. n : Below(d, i) => reset.parent[s[i]] = s[d]
        /\ DOMAIN reset.left = Node /\ DOMAIN reset.right = Node
        /\ DOMAIN reset.parent = Node
        /\ h.min = s[1]
    BY <1>2, <1>3, <1>7 DEF Laid, Heaps, Slot
  <2>7. ASSUME NEW i \in 1 .. n + 1
        PROVE  /\ new.left[t[i]] = Slot(t, n + 1, 2 * i)
               /\ new.right[t[i]] = Slot(t, n + 1, 2 * i + 1)
    <3>1. CASE i = n + 1
      <4>1. new.left[x] = NULL /\ new.right[x] = NULL
        BY <1>5, <2>4, <2>5, <2>6
      <4> QED
        BY <1>4, <3>1, <4>1 DEF Slot
    <3>2. CASE i = a
      <4>1. t[i] = s[a]
        BY <1>4, <3>2
      <4>2. CASE n + 1 = 2 * a
        <5>1. new.left[s[a]] = x /\ new.right[s[a]] = Slot(s, n, 2 * a + 1)
          BY <2>4, <2>5, <2>6, <4>2
        <5>2. Slot(t, n + 1, 2 * a) = x /\ Slot(t, n + 1, 2 * a + 1) = NULL
              /\ Slot(s, n, 2 * a + 1) = NULL
          BY <1>4, <4>2 DEF Slot
        <5> QED
          BY <3>2, <4>1, <5>1, <5>2
      <4>3. CASE n + 1 # 2 * a
        <5>1. n + 1 = 2 * a + 1
          BY <2>1, <4>3 DEF Below
        <5>2. new.right[s[a]] = x /\ new.left[s[a]] = Slot(s, n, 2 * a)
          BY <2>4, <2>5, <2>6, <4>3
        <5>3. Slot(t, n + 1, 2 * a + 1) = x /\ Slot(t, n + 1, 2 * a) = Slot(s, n, 2 * a)
          BY <1>4, <5>1 DEF Slot
        <5> QED
          BY <3>2, <4>1, <5>2, <5>3
      <4> QED
        BY <4>2, <4>3
    <3>3. CASE i # n + 1 /\ i # a
      <4>1. i \in 1 .. n /\ t[i] = s[i] /\ s[i] # s[a] /\ s[i] # x /\ s[i] \in Node
        BY <1>1, <1>4, <3>3
      <4>2. new.left[s[i]] = Slot(s, n, 2 * i) /\ new.right[s[i]] = Slot(s, n, 2 * i + 1)
        BY <2>5, <2>6, <4>1
      <4>3. 2 * i # n + 1 /\ 2 * i + 1 # n + 1
        BY <2>1, <3>3 DEF Below
      <4>4. Slot(t, n + 1, 2 * i) = Slot(s, n, 2 * i)
            /\ Slot(t, n + 1, 2 * i + 1) = Slot(s, n, 2 * i + 1)
        BY <1>4, <4>3 DEF Slot
      <4> QED
        BY <4>1, <4>2, <4>4
    <3> QED
      BY <3>1, <3>2, <3>3
  <2>8. new.parent[t[1]] = NULL
    BY <1>1, <1>4, <1>7, <2>5, <2>6
  <2>9. ASSUME NEW d \in 1 .. n + 1, NEW i \in 1 .. n + 1, Below(d, i)
        PROVE  new.parent[t[i]] = t[d]
    <3>1. d \in 1 .. n
      BY <2>9 DEF Below
    <3>2. CASE i = n + 1
      <4>1. d = a
        BY <2>1, <2>9, <3>2 DEF Below
      <4> QED
        BY <1>4, <2>5, <2>6, <3>2, <4>1
    <3>3. CASE i # n + 1
      <4>1. i \in 1 .. n /\ t[i] = s[i] /\ s[i] # x /\ t[d] = s[d]
        BY <1>1, <1>4, <3>1, <3>3
      <4> QED
        BY <1>1, <2>5, <2>6, <2>9, <3>1, <4>1
    <3> QED
      BY <3>2, <3>3
  <2>10. new.min = Slot(t, n + 1, 1)
    BY <1>4, <1>7, <2>5, <2>6 DEF Slot
  <2>11. Laid(new, t, n + 1)
    BY <1>4, <2>5, <2>7, <2>8, <2>9, <2>10 DEF Laid
  <2> QED
    BY <2>11 DEF new, t
<1> QED
  BY <1>6, <1>7

\* An insertion adds the node to an ordered row.
LEMMA Inserts ==
  ASSUME HeapAssumption, NEW h, NEW s, NEW n \in Nat, Laid(h, s, n), Ordered(s, n),
         NEW x \in Node, x \notin Row(s, n)
  PROVE  \E t : /\ Laid(heap_insert(h, x), t, n + 1) /\ Ordered(t, n + 1)
                /\ Row(t, n + 1) = Row(s, n) \cup {x}
<1> DEFINE t == Longer(s, n, x)
<1>1. Laid(Hung(h, x), t, n + 1)
  BY HungLast
<1>2. t[n + 1] = x /\ \A i \in 1 .. n : t[i] = s[i]
  BY DEF Longer
<1>3. n + 1 \in 1 .. n + 1 /\ n + 1 \in Nat
  OBVIOUS
<1> HIDE DEF t
<1>4. Near(t, n + 1, n + 1) /\ Lower(t, n + 1, n + 1)
  <2>1. \A a, i \in 1 .. n + 1 : Below(a, i) => a # n + 1
    BY DEF Below
  <2>2. \A i \in 1 .. n + 1 : i = n + 1 \/ i \in 1 .. n
    OBVIOUS
  <2> QED
    BY <1>2, <2>1, <2>2 DEF Near, Lower, Ordered
<1>5. heap_insert(h, x) = Rise(Hung(h, x), x)
  BY DEF heap_insert, Hung
<1>6. Row(t, n + 1) = Row(s, n) \cup {x}
  <2>1. \A i \in 1 .. n + 1 : i = n + 1 \/ i \in 1 .. n
    OBVIOUS
  <2> QED
    BY <1>2, <1>3, <2>1 DEF Row
<1> QED
  BY <1>1, <1>2, <1>3, <1>4, <1>5, <1>6, RiseSettles

-----------------------------------------------------------------------------
(* The heap: removal. *)

LEMMA FiveFields ==
  ASSUME NEW h \in Heaps
  PROVE  h = [min |-> h.min, nelts |-> h.nelts, left |-> h.left, right |-> h.right,
              parent |-> h.parent]
BY DEF Heaps

LEMMA ThreeLinks ==
  ASSUME NEW h \in Heaps, NEW x \in Node, NEW l, NEW r, NEW p
  PROVE  [h EXCEPT !.left[x] = l, !.right[x] = r, !.parent[x] = p] =
            [min |-> h.min, nelts |-> h.nelts, left |-> [h.left EXCEPT ![x] = l],
             right |-> [h.right EXCEPT ![x] = r], parent |-> [h.parent EXCEPT ![x] = p]]
<1> DEFINE h1 == [h EXCEPT !.left[x] = l]
           h2 == [h1 EXCEPT !.right[x] = r]
           h3 == [h2 EXCEPT !.parent[x] = p]
<1>1. h1 = [min |-> h.min, nelts |-> h.nelts, left |-> [h.left EXCEPT ![x] = l],
            right |-> h.right, parent |-> h.parent]
  BY FiveFields
<1>2. [h EXCEPT !.left[x] = l, !.right[x] = r, !.parent[x] = p] = h3
  OBVIOUS
<1> HIDE DEF h1
<1>3. h2 = [min |-> h.min, nelts |-> h.nelts, left |-> [h.left EXCEPT ![x] = l],
            right |-> [h.right EXCEPT ![x] = r], parent |-> h.parent]
  BY <1>1
<1> HIDE DEF h2
<1>4. h3 = [min |-> h.min, nelts |-> h.nelts, left |-> [h.left EXCEPT ![x] = l],
            right |-> [h.right EXCEPT ![x] = r], parent |-> [h.parent EXCEPT ![x] = p]]
  BY <1>3
<1> QED
  BY <1>2, <1>4

\* The row without its last node.
Shorter(s, n) == [k \in 1 .. n - 1 |-> s[k]]

\* The heap once its last slot is empty.
Cut(h) == [PutAt(h, h.nelts, NULL) EXCEPT !.nelts = h.nelts - 1]

LEMMA CutLast ==
  ASSUME HeapAssumption, NEW h, NEW s, NEW n \in Nat, Laid(h, s, n), n # 0
  PROVE  Laid(Cut(h), Shorter(s, n), n - 1)
<1> DEFINE u == Shorter(s, n)
           new == Cut(h)
<1>1. /\ h \in Heaps /\ s \in [1 .. n -> Node] /\ h.nelts = n /\ NULL \in Links
      /\ \A i, j \in 1 .. n : s[i] = s[j] => i = j
      /\ NULL \notin Node
  BY DEF Laid, Links, HeapAssumption
<1>2. /\ u \in [1 .. n - 1 -> Node] /\ \A i \in 1 .. n - 1 : u[i] = s[i] /\ i \in 1 .. n
      /\ \A i, j \in 1 .. n - 1 : u[i] = u[j] => i = j
      /\ \A i \in Nat : i # n => Slot(u, n - 1, i) = Slot(s, n, i)
      /\ Slot(u, n - 1, n) = NULL
  BY <1>1 DEF Shorter, Slot
<1>3. /\ \A i \in 1 .. n : h.left[s[i]] = Slot(s, n, 2 * i)
                           /\ h.right[s[i]] = Slot(s, n, 2 * i + 1)
      /\ h.parent[s[1]] = NULL /\ h.min = Slot(s, n, 1)
      /\ \A d, i \in 1 .. n : Below(d, i) => h.parent[s[i]] = s[d]
      /\ h.left \in [Node -> Links] /\ h.right \in [Node -> Links]
      /\ h.parent \in [Node -> Links] /\ h.min \in Node \cup {NULL}
  BY DEF Laid, Heaps
<1>4. CASE n = 1
  <2>1. new = [min |-> NULL, nelts |-> 0, left |-> h.left, right |-> h.right,
               parent |-> h.parent]
    <3>1. Cut(h) = [[h EXCEPT !.min = NULL] EXCEPT !.nelts = 0]
      BY <1>1, <1>4 DEF Cut, PutAt
    <3> QED
      BY <1>1, <3>1, FiveFields
  <2> HIDE DEF new, u
  <2>2. new \in Heaps
    BY <1>1, <1>3, <2>1 DEF Heaps
  <2>3. new.nelts = 0 /\ new.min = Slot(u, n - 1, 1)
    BY <1>4, <2>1 DEF Slot
  <2>4. Laid(new, u, n - 1)
    BY <1>2, <1>4, <2>2, <2>3 DEF Laid
  <2> QED
    BY <2>4 DEF new, u
<1>5. CASE n # 1
  <2>1. PICK a \in 1 .. n : Below(a, n) /\ a # n
    BY <1>5, Half
  <2>2. s[a] \in Node
    BY <1>1
  <2>3. PutAt(h, n, NULL) = IF n = 2 * a THEN [h EXCEPT !.left[s[a]] = NULL]
                            ELSE [h EXCEPT !.right[s[a]] = NULL]
    BY <2>1, PutAtWrites
  <2>4. /\ new \in Heaps /\ new.min = h.min /\ new.nelts = n - 1
        /\ new.left = IF n = 2 * a THEN [h.left EXCEPT ![s[a]] = NULL] ELSE h.left
        /\ new.right = IF n = 2 * a THEN h.right ELSE [h.right EXCEPT ![s[a]] = NULL]
        /\ new.parent = h.parent
    <3>1. CASE n = 2 * a
      <4>1. new = [min |-> h.min, nelts |-> n - 1, left |-> [h.left EXCEPT ![s[a]] = NULL],
                   right |-> h.right, parent |-> h.parent]
        <5>1. Cut(h) = [[h EXCEPT !.left[s[a]] = NULL] EXCEPT !.nelts = n - 1]
          BY <1>1, <2>3, <3>1 DEF Cut
        <5> QED
          BY <1>1, <5>1, FiveFields
      <4> HIDE DEF new
      <4>2. new \in Heaps
        BY <1>1, <1>3, <4>1 DEF Heaps
      <4> QED
        BY <3>1, <4>1, <4>2
    <3>2. CASE n # 2 * a
      <4>1. new = [min |-> h.min, nelts |-> n - 1, left |-> h.left,
                   right |-> [h.right EXCEPT ![s[a]] = NULL], parent |-> h.parent]
        <5>1. Cut(h) = [[h EXCEPT !.right[s[a]] = NULL] EXCEPT !.nelts = n - 1]
          BY <1>1, <2>3, <3>2 DEF Cut
        <5> QED
          BY <1>1, <5>1, FiveFields
      <4> HIDE DEF new
      <4>2. new \in Heaps
        BY <1>1, <1>3, <4>1 DEF Heaps
      <4> QED
        BY <3>2, <4>1, <4>2
    <3> QED
      BY <3>1, <3>2
  <2> HIDE DEF new, u
  <2>5. ASSUME NEW i \in 1 .. n - 1
        PROVE  /\ new.left[u[i]] = Slot(u, n - 1, 2 * i)
               /\ new.right[u[i]] = Slot(u, n - 1, 2 * i + 1)
    <3>1. /\ u[i] = s[i] /\ i \in 1 .. n /\ s[i] \in Node
          /\ h.left[s[i]] = Slot(s, n, 2 * i) /\ h.right[s[i]] = Slot(s, n, 2 * i + 1)
      BY <1>1, <1>2, <1>3
    <3>2. CASE i = a
      <4>1. CASE n = 2 * a
        <5>1. new.left[s[a]] = NULL /\ new.right[s[a]] = h.right[s[a]]
          BY <1>3, <2>2, <2>4, <4>1
        <5>2. 2 * a + 1 # n
          BY <4>1
        <5> QED
          BY <1>2, <3>1, <3>2, <4>1, <5>1, <5>2
      <4>2. CASE n = 2 * a + 1
        <5>1. new.right[s[a]] = NULL /\ new.left[s[a]] = h.left[s[a]]
          BY <1>3, <2>2, <2>4, <4>2
        <5>2. 2 * a # n
          BY <4>2
        <5> QED
          BY <1>2, <3>1, <3>2, <4>2, <5>1, <5>2
      <4> QED
        BY <2>1, <4>1, <4>2 DEF Below
    <3>3. CASE i # a
      <4>1. s[i] # s[a]
        BY <1>1, <3>1, <3>3
      <4>2. new.left[s[i]] = h.left[s[i]] /\ new.right[s[i]] = h.right[s[i]]
        BY <1>3, <2>4, <3>1, <4>1
      <4>3. 2 * i # n /\ 2 * i + 1 # n
        BY <2>1, <3>3 DEF Below
      <4> QED
        BY <1>2, <3>1, <4>2, <4>3
    <3> QED
      BY <3>2, <3>3
  <2>6. new.min = Slot(u, n - 1, 1) /\ new.parent[u[1]] = NULL
    BY <1>2, <1>3, <1>5, <2>4
  <2>7. \A d, i \in 1 .. n - 1 : Below(d, i) => new.parent[u[i]] = u[d]
    BY <1>2, <1>3, <2>4
  <2>8. n - 1 \in Nat
    BY <1>5
  <2>9. Laid(new, u, n - 1)
    BY <1>2, <2>4, <2>5, <2>6, <2>7, <2>8 DEF Laid
  <2> QED
    BY <2>9 DEF new, u
<1> QED
  BY <1>4, <1>5

\* A node from outside the row takes the place of the one in slot j.
LEMMA TakesPlace ==
  ASSUME HeapAssumption, NEW h, NEW s, NEW n \in Nat, Laid(h, s, n),
         NEW j \in 1 .. n, NEW c \in Node, c \notin Row(s, n)
  PROVE  Laid(TakePlace(h, s[j], c), [s EXCEPT ![j] = c], n)
<1> DEFINE x == s[j]
           up == h.parent[x]
           g == TakeLinks(h, x, c)
           new == TakePlace(h, x, c)
           t == [s EXCEPT ![j] = c]
<1>1. /\ h \in Heaps /\ s \in [1 .. n -> Node] /\ h.nelts = n
      /\ \A i, k \in 1 .. n : s[i] = s[k] => i = k
      /\ \A i \in 1 .. n : s[i] # c
      /\ NULL \notin Node /\ c \in Links /\ x \in Node
  BY DEF Laid, Row, Links, HeapAssumption
<1>2. /\ \A i \in 1 .. n : h.left[s[i]] = Slot(s, n, 2 * i)
                           /\ h.right[s[i]] = Slot(s, n, 2 * i + 1)
      /\ h.parent[s[1]] = NULL /\ h.min = s[1]
      /\ \A d, i \in 1 .. n : Below(d, i) => h.parent[s[i]] = s[d]
      /\ h.left \in [Node -> Links] /\ h.right \in [Node -> Links]
      /\ h.parent \in [Node -> Links] /\ h.min \in Node \cup {NULL}
  BY DEF Laid, Heaps, Slot
<1>3. /\ t \in [1 .. n -> Node] /\ t[j] = c /\ \A i \in 1 .. n : i # j => t[i] = s[i]
      /\ \A i, k \in 1 .. n : t[i] = t[k] => i = k
      /\ \A i \in Nat : i # j => Slot(t, n, i) = Slot(s, n, i)
  BY <1>1 DEF Slot
<1>4. up = IF j = 1 THEN NULL ELSE s[j \div 2]
  <2>1. CASE j # 1
    <3>1. j \div 2 \in 1 .. n /\ Below(j \div 2, j)
      BY <2>1, Half
    <3> QED
      BY <1>2, <2>1, <3>1
  <2> QED
    BY <1>2, <2>1
<1>5. /\ g = [min |-> h.min, nelts |-> h.nelts,
              left |-> [h.left EXCEPT ![c] = h.left[x]],
              right |-> [h.right EXCEPT ![c] = h.right[x]],
              parent |-> [y \in Node |-> IF y \in Children(h, x) THEN c
                                         ELSE [h.parent EXCEPT ![c] = h.parent[x]][y]]]
  <2> DEFINE k == [h EXCEPT !.left[c] = h.left[x], !.right[c] = h.right[x],
                            !.parent[c] = h.parent[x]]
  <2>1. k = [min |-> h.min, nelts |-> h.nelts,
             left |-> [h.left EXCEPT ![c] = h.left[x]],
             right |-> [h.right EXCEPT ![c] = h.right[x]],
             parent |-> [h.parent EXCEPT ![c] = h.parent[x]]]
    <3>1. \A l, r, p :
             [h EXCEPT !.left[c] = l, !.right[c] = r, !.parent[c] = p] =
                [min |-> h.min, nelts |-> h.nelts, left |-> [h.left EXCEPT ![c] = l],
                 right |-> [h.right EXCEPT ![c] = r], parent |-> [h.parent EXCEPT ![c] = p]]
      BY <1>1, ThreeLinks
    <3> QED
      BY <3>1, Zenon
  <2>2. g = [k EXCEPT !.parent =
                [y \in Node |-> IF y \in Children(h, x) THEN c ELSE k.parent[y]]]
    BY DEF TakeLinks
  <2> HIDE DEF k
  <2> QED
    BY <2>1, <2>2
<1>6. \A i \in 1 .. n : s[i] \in Children(h, x) <=> Below(j, i)
  <2> TAKE i \in 1 .. n
  <2>1. s[i] # NULL
    BY <1>1
  <2>2. s[i] = Slot(s, n, 2 * j) <=> i = 2 * j
    BY <1>1, <2>1 DEF Slot
  <2>3. s[i] = Slot(s, n, 2 * j + 1) <=> i = 2 * j + 1
    BY <1>1, <2>1 DEF Slot
  <2>4. s[i] \in Children(h, x) <=> s[i] \in {Slot(s, n, 2 * j), Slot(s, n, 2 * j + 1)}
    BY <1>2, <2>1 DEF Children
  <2> QED
    BY <2>2, <2>3, <2>4 DEF Below
<1>7. c \notin Children(h, x)
  BY <1>1, <1>2 DEF Children, Slot
<1>8. new = IF up = NULL THEN [g EXCEPT !.min = c]
            ELSE IF g.left[up] = x THEN [g EXCEPT !.left[up] = c]
            ELSE [g EXCEPT !.right[up] = c]
  BY DEF TakePlace
<1> HIDE DEF g
<1>9. /\ g.min = h.min /\ g.nelts = n
      /\ g.left \in [Node -> Links] /\ g.right \in [Node -> Links]
      /\ g.parent \in [Node -> Links] /\ g \in Heaps
      /\ g.left[c] = Slot(s, n, 2 * j) /\ g.right[c] = Slot(s, n, 2 * j + 1)
      /\ g.parent[c] = up
      /\ \A i \in 1 .. n : /\ g.left[s[i]] = Slot(s, n, 2 * i)
                           /\ g.right[s[i]] = Slot(s, n, 2 * i + 1)
                           /\ g.parent[s[i]] =
                                IF Below(j, i) THEN c ELSE h.parent[s[i]]
  <2>1. /\ h.left[x] \in Links /\ h.right[x] \in Links /\ h.parent[x] \in Links
        /\ h.left[x] = Slot(s, n, 2 * j) /\ h.right[x] = Slot(s, n, 2 * j + 1)
    BY <1>1, <1>2
  <2> HIDE DEF x
  <2>2. /\ g.left = [h.left EXCEPT ![c] = h.left[x]]
        /\ g.right = [h.right EXCEPT ![c] = h.right[x]]
        /\ g.parent = [y \in Node |-> IF y \in Children(h, x) THEN c
                                      ELSE [h.parent EXCEPT ![c] = h.parent[x]][y]]
        /\ g.min = h.min /\ g.nelts = h.nelts
    BY <1>5
  <2>3. /\ g.left \in [Node -> Links] /\ g.right \in [Node -> Links]
        /\ g.parent \in [Node -> Links]
    BY <1>1, <1>2, <2>1, <2>2
  <2>4. g \in Heaps
    BY <1>1, <1>2, <1>5, <2>2, <2>3 DEF Heaps
  <2>5. g.left[c] = h.left[x] /\ g.right[c] = h.right[x]
    BY <1>2, <2>2
  <2>6. g.parent[c] = up
    BY <1>2, <1>7, <2>2
  <2>7. ASSUME NEW i \in 1 .. n
        PROVE  /\ g.left[s[i]] = h.left[s[i]] /\ g.right[s[i]] = h.right[s[i]]
               /\ g.parent[s[i]] = IF Below(j, i) THEN c ELSE h.parent[s[i]]
    <3>1. s[i] \in Node /\ s[i] # c
      BY <1>1
    <3> QED
      BY <1>2, <1>6, <2>2, <3>1
  <2>8. \A i \in 1 .. n : /\ g.left[s[i]] = Slot(s, n, 2 * i)
                           /\ g.right[s[i]] = Slot(s, n, 2 * i + 1)
                           /\ g.parent[s[i]] =
                                IF Below(j, i) THEN c ELSE h.parent[s[i]]
    BY <1>2, <2>7
  <2>9. g.min = h.min /\ g.nelts = n
    BY <1>1, <2>2
  <2> QED
    BY <2>1, <2>3, <2>4, <2>5, <2>6, <2>8, <2>9
<1> HIDE DEF up, new, t
\* All but the link from above.
<1>10. ASSUME NEW i \in 1 .. n, ~Below(i, j)
       PROVE  g.left[t[i]] = Slot(t, n, 2 * i) /\ g.right[t[i]] = Slot(t, n, 2 * i + 1)
  <2>1. Slot(t, n, 2 * i) = Slot(s, n, 2 * i) /\ Slot(t, n, 2 * i + 1) = Slot(s, n, 2 * i + 1)
    BY <1>3, <1>10 DEF Below
  <2>2. CASE i = j
    BY <1>3, <1>9, <2>1, <2>2
  <2>3. CASE i # j
    BY <1>3, <1>9, <2>1, <2>3
  <2> QED
    BY <2>2, <2>3
<1>11. g.parent[t[1]] = NULL
  <2>1. CASE j = 1
    BY <1>3, <1>4, <1>9, <2>1
  <2>2. CASE j # 1
    BY <1>2, <1>3, <1>9, <2>2 DEF Below
  <2> QED
    BY <2>1, <2>2
<1>12. ASSUME NEW d \in 1 .. n, NEW i \in 1 .. n, Below(d, i)
       PROVE  g.parent[t[i]] = t[d]
  <2>1. CASE i = j
    <3>1. up = s[d] /\ d # j
      BY <1>2, <1>12, <2>1 DEF Below, up
    <3> QED
      BY <1>3, <1>9, <2>1, <3>1
  <2>2. CASE d = j
    <3>1. i # j
      BY <1>12, <2>2 DEF Below
    <3> QED
      BY <1>3, <1>9, <1>12, <2>2, <3>1
  <2>3. CASE i # j /\ d # j
    <3>1. ~Below(j, i)
      BY <1>12, <2>3 DEF Below
    <3>2. g.parent[s[i]] = h.parent[s[i]]
      BY <1>9, <3>1
    <3>3. h.parent[s[i]] = s[d]
      BY <1>2, <1>12
    <3>4. t[i] = s[i] /\ t[d] = s[d]
      BY <1>3, <2>3
    <3> QED
      BY <3>2, <3>3, <3>4
  <2> QED
    BY <2>1, <2>2, <2>3
<1>13. CASE j = 1
  <2>1. new = [g EXCEPT !.min = c]
    BY <1>4, <1>8, <1>13
  <2>2. /\ new \in Heaps /\ new.min = c /\ new.nelts = n /\ new.left = g.left
        /\ new.right = g.right /\ new.parent = g.parent
    BY <1>9, <2>1 DEF Heaps
  <2>3. \A i \in 1 .. n : ~Below(i, j)
    BY <1>13 DEF Below
  <2>4. new.min = Slot(t, n, 1)
    BY <1>3, <1>13, <2>2 DEF Slot
  <2>5. /\ \A i \in 1 .. n : new.left[t[i]] = Slot(t, n, 2 * i)
                             /\ new.right[t[i]] = Slot(t, n, 2 * i + 1)
        /\ new.parent[t[1]] = NULL
        /\ \A d, i \in 1 .. n : Below(d, i) => new.parent[t[i]] = t[d]
    BY <1>10, <1>11, <1>12, <2>2, <2>3
  <2>6. /\ t \in [1 .. n -> Node] /\ \A i, k \in 1 .. n : t[i] = t[k] => i = k
    BY <1>3
  <2>7. Laid(new, t, n)
    BY <2>2, <2>4, <2>5, <2>6 DEF Laid
  <2> QED
    BY <2>7 DEF new, t, x
<1>14. CASE j # 1
  <2>1. PICK a \in 1 .. n : a = j \div 2 /\ Below(a, j) /\ a # j
    BY <1>14, Half
  <2>2. up = s[a] /\ up # NULL /\ s[a] \in Node /\ s[a] # c
    BY <1>1, <1>4, <1>14, <2>1
  <2>3. g.left[up] = x <=> j = 2 * a
    <3>1. g.left[up] = Slot(s, n, 2 * a)
      BY <1>9, <2>2
    <3>2. x = s[j] /\ x # NULL
      BY <1>1 DEF x
    <3> QED
      BY <1>1, <3>1, <3>2 DEF Slot
  <2>4. new = IF j = 2 * a THEN [g EXCEPT !.left[s[a]] = c] ELSE [g EXCEPT !.right[s[a]] = c]
    BY <1>8, <2>2, <2>3
  <2>5. /\ new \in Heaps /\ new.min = h.min /\ new.nelts = n
        /\ new.left = IF j = 2 * a THEN [g.left EXCEPT ![s[a]] = c] ELSE g.left
        /\ new.right = IF j = 2 * a THEN g.right ELSE [g.right EXCEPT ![s[a]] = c]
        /\ new.parent = g.parent
    <3>1. CASE j = 2 * a
      <4>1. new = [min |-> g.min, nelts |-> g.nelts, left |-> [g.left EXCEPT ![s[a]] = c],
                   right |-> g.right, parent |-> g.parent]
        BY <1>9, <2>4, <3>1, FiveFields
      <4>2. new \in Heaps
        BY <1>1, <1>2, <1>9, <4>1 DEF Heaps
      <4> QED
        BY <1>9, <3>1, <4>1, <4>2
    <3>2. CASE j # 2 * a
      <4>1. new = [min |-> g.min, nelts |-> g.nelts, left |-> g.left,
                   right |-> [g.right EXCEPT ![s[a]] = c], parent |-> g.parent]
        BY <1>9, <2>4, <3>2, FiveFields
      <4>2. new \in Heaps
        BY <1>1, <1>2, <1>9, <4>1 DEF Heaps
      <4> QED
        BY <1>9, <3>2, <4>1, <4>2
    <3> QED
      BY <3>1, <3>2
  <2>6. ASSUME NEW i \in 1 .. n
        PROVE  /\ new.left[t[i]] = Slot(t, n, 2 * i)
               /\ new.right[t[i]] = Slot(t, n, 2 * i + 1)
    <3>1. CASE i = a
      <4>1. t[i] = s[a] /\ g.left[s[a]] = Slot(s, n, 2 * a)
            /\ g.right[s[a]] = Slot(s, n, 2 * a + 1)
        BY <1>3, <1>9, <2>1, <3>1
      <4>2. CASE j = 2 * a
        <5>1. new.left[s[a]] = c /\ new.right[s[a]] = Slot(s, n, 2 * a + 1)
          BY <1>9, <2>2, <2>5, <4>1, <4>2
        <5>2. Slot(t, n, 2 * a) = c /\ Slot(t, n, 2 * a + 1) = Slot(s, n, 2 * a + 1)
          BY <1>3, <4>2 DEF Slot
        <5> QED
          BY <3>1, <4>1, <5>1, <5>2
      <4>3. CASE j # 2 * a
        <5>1. j = 2 * a + 1
          BY <2>1, <4>3 DEF Below
        <5>2. new.right[s[a]] = c /\ new.left[s[a]] = Slot(s, n, 2 * a)
          BY <1>9, <2>2, <2>5, <4>1, <4>3
        <5>3. Slot(t, n, 2 * a + 1) = c /\ Slot(t, n, 2 * a) = Slot(s, n, 2 * a)
          BY <1>3, <5>1 DEF Slot
        <5> QED
          BY <3>1, <4>1, <5>2, <5>3
      <4> QED
        BY <4>2, <4>3
    <3>2. CASE i # a
      <4>1. ~Below(i, j)
        BY <2>1, <3>2 DEF Below
      <4>2. t[i] # s[a] /\ t[i] \in Node
        BY <1>1, <1>3, <2>1, <2>2, <3>2
      <4>3. new.left[t[i]] = g.left[t[i]] /\ new.right[t[i]] = g.right[t[i]]
        BY <1>9, <2>5, <4>2
      <4> QED
        BY <1>10, <4>1, <4>3
    <3> QED
      BY <3>1, <3>2
  <2>7. new.min = Slot(t, n, 1)
    BY <1>2, <1>3, <1>14, <2>5 DEF Slot
  <2>8. /\ \A i \in 1 .. n : new.left[t[i]] = Slot(t, n, 2 * i)
                             /\ new.right[t[i]] = Slot(t, n, 2 * i + 1)
        /\ new.parent[t[1]] = NULL
        /\ \A d, i \in 1 .. n : Below(d, i) => new.parent[t[i]] = t[d]
    BY <1>11, <1>12, <2>5, <2>6
  <2>9. /\ t \in [1 .. n -> Node] /\ \A i, k \in 1 .. n : t[i] = t[k] => i = k
    BY <1>3
  <2>10. Laid(new, t, n)
    BY <2>5, <2>7, <2>8, <2>9 DEF Laid
  <2> QED
    BY <2>10 DEF new, t, x
<1> QED
  BY <1>13, <1>14

\* What the links of a node hold that has left does not matter.
LEMMA Forgets ==
  ASSUME NEW h, NEW s, NEW n \in Nat, Laid(h, s, n), NEW x \in Node, x \notin Row(s, n)
  PROVE  Laid(Forget(h, x), s, n)
<1> DEFINE g == Forget(h, x)
<1>1. /\ h \in Heaps /\ s \in [1 .. n -> Node] /\ \A i \in 1 .. n : s[i] # x
      /\ Junk \in Links
  BY DEF Laid, Row, Links
<1>2. g = [min |-> h.min, nelts |-> h.nelts, left |-> [h.left EXCEPT ![x] = Junk],
           right |-> [h.right EXCEPT ![x] = Junk], parent |-> [h.parent EXCEPT ![x] = Junk]]
  <2>1. \A l, r, p :
           [h EXCEPT !.left[x] = l, !.right[x] = r, !.parent[x] = p] =
              [min |-> h.min, nelts |-> h.nelts, left |-> [h.left EXCEPT ![x] = l],
               right |-> [h.right EXCEPT ![x] = r], parent |-> [h.parent EXCEPT ![x] = p]]
    BY <1>1, ThreeLinks
  <2> QED
    BY <2>1, Zenon DEF Forget
<1> HIDE DEF g
<1>3. h.left \in [Node -> Links] /\ h.right \in [Node -> Links] /\ h.parent \in [Node -> Links]
  BY <1>1 DEF Heaps
<1>4. g \in Heaps
  BY <1>1, <1>2, <1>3 DEF Heaps
<1>5. ASSUME NEW i \in 1 .. n
      PROVE  /\ g.left[s[i]] = h.left[s[i]] /\ g.right[s[i]] = h.right[s[i]]
             /\ g.parent[s[i]] = h.parent[s[i]]
  BY <1>1, <1>2, <1>3
<1>6. g.min = h.min /\ g.nelts = h.nelts
  BY <1>2
<1>7. Laid(g, s, n)
  BY <1>4, <1>5, <1>6, OthersDoNotMatter
<1> QED
  BY <1>7 DEF g

\* A removal takes the node out of an ordered row.
LEMMA Removes ==
  ASSUME HeapAssumption, NEW h, NEW s, NEW n \in Nat, Laid(h, s, n), Ordered(s, n),
         NEW x, x \in Row(s, n)
  PROVE  \E t : /\ Laid(heap_remove(h, x), t, n - 1) /\ Ordered(t, n - 1)
                /\ Row(t, n - 1) = Row(s, n) \ {x} /\ n - 1 \in Nat
<1>1. PICK j \in 1 .. n : x = s[j]
  BY DEF Row
<1> DEFINE u == Shorter(s, n)
           c == s[n]
<1>2. /\ s \in [1 .. n -> Node] /\ h.nelts = n /\ n # 0 /\ n - 1 \in Nat /\ n \in 1 .. n
      /\ \A i, k \in 1 .. n : s[i] = s[k] => i = k
      /\ x \in Node /\ c \in Node
  BY <1>1 DEF Laid
<1>3. Laid(Cut(h), u, n - 1) /\ At(h, n) = c
  BY <1>2, CutLast, AtRow
<1>4. \A i \in 1 .. n - 1 : u[i] = s[i] /\ i \in 1 .. n /\ i # n
  BY <1>2 DEF Shorter
<1>5. \A i \in 1 .. n : i = n \/ i \in 1 .. n - 1
  BY <1>2
<1> HIDE DEF u
<1>6. Row(u, n - 1) = Row(s, n) \ {c}
  BY <1>2, <1>4, <1>5 DEF Row
<1>7. CASE j = n
  <2>1. heap_remove(h, x) = Forget(Cut(h), x)
    BY <1>1, <1>2, <1>3, <1>7 DEF heap_remove, Cut
  <2>2. Row(u, n - 1) = Row(s, n) \ {x} /\ x \notin Row(u, n - 1)
    BY <1>1, <1>6, <1>7
  <2>3. Laid(Forget(Cut(h), x), u, n - 1)
    BY <1>2, <1>3, <2>2, Forgets
  <2>4. Ordered(u, n - 1)
    BY <1>4 DEF Ordered
  <2> QED
    BY <1>2, <2>1, <2>2, <2>3, <2>4
<1>8. CASE j # n
  <2> DEFINE v == [u EXCEPT ![j] = c]
             g == TakePlace(Cut(h), x, c)
  <2>1. j \in 1 .. n - 1 /\ u[j] = x /\ x # c
    BY <1>1, <1>2, <1>4, <1>5, <1>8
  <2>2. heap_remove(h, x) = Forget(Rise(Sink(g, c), c), x)
    BY <1>2, <1>3, <2>1 DEF heap_remove, Cut, Settle
  <2>3. c \notin Row(u, n - 1)
    BY <1>6
  <2>4. Laid(g, v, n - 1)
    BY <1>2, <1>3, <2>1, <2>3, TakesPlace
  <2>5. /\ u \in [1 .. n - 1 -> Node] /\ v[j] = c
        /\ \A i \in 1 .. n - 1 : i # j => v[i] = s[i]
    <3>1. u \in [1 .. n - 1 -> Node]
      BY <1>3 DEF Laid
    <3> QED
      BY <1>4, <2>1, <3>1
  <2> HIDE DEF v, g
  <2>6. Row(v, n - 1) = Row(s, n) \ {x}
    <3>1. ASSUME NEW y \in Row(v, n - 1) PROVE y \in Row(s, n) \ {x}
      BY <1>1, <1>2, <1>4, <2>1, <2>5 DEF Row
    <3>2. ASSUME NEW y \in Row(s, n) \ {x} PROVE y \in Row(v, n - 1)
      <4>1. PICK i \in 1 .. n : y = s[i] /\ i # j
        BY <1>1, <3>2 DEF Row
      <4>2. CASE i = n
        BY <2>1, <2>5, <4>1, <4>2 DEF Row
      <4>3. CASE i # n
        BY <1>5, <2>5, <4>1, <4>3 DEF Row
      <4> QED
        BY <4>2, <4>3
    <3> QED
      BY <3>1, <3>2
  <2>7. Near(v, n - 1, j)
    <3>1. \A i \in 1 .. n : Key[s[i]] \in Int
      BY KeysAreNumbers
    <3>2. \A a, i \in 1 .. n - 1 : Below(a, i) /\ a # j /\ i # j => Key[v[a]] <= Key[v[i]]
      BY <1>4, <2>5 DEF Ordered
    <3>3. ASSUME NEW a \in 1 .. n - 1, NEW i \in 1 .. n - 1, Below(a, j), Below(j, i)
          PROVE  Key[v[a]] <= Key[v[i]]
      <4>1. a # j /\ i # j
        BY <2>1, <3>3 DEF Below
      <4>2. v[a] = s[a] /\ v[i] = s[i] /\ a \in 1 .. n /\ i \in 1 .. n
        BY <1>4, <2>5, <4>1
      <4>3. Key[s[a]] <= Key[s[j]] /\ Key[s[j]] <= Key[s[i]]
        BY <3>3, <4>2 DEF Ordered
      <4> QED
        BY <3>1, <4>2, <4>3
    <3> QED
      BY <3>2, <3>3 DEF Near
  <2>8. PICK w : \E i \in 1 .. n - 1 :
           /\ Laid(Sink(g, c), w, n - 1) /\ Row(w, n - 1) = Row(v, n - 1) /\ w[i] = c
           /\ Near(w, n - 1, i) /\ Lower(w, n - 1, i)
    BY <1>2, <2>1, <2>4, <2>5, <2>7, SinkSettles
  <2>9. PICK t : /\ Laid(Rise(Sink(g, c), c), t, n - 1) /\ Row(t, n - 1) = Row(w, n - 1)
                 /\ Ordered(t, n - 1)
    BY <1>2, <2>8, RiseSettles
  <2>10. Laid(Forget(Rise(Sink(g, c), c), x), t, n - 1)
    <3>1. x \notin Row(t, n - 1)
      BY <2>6, <2>8, <2>9
    <3> HIDE DEF c
    <3> QED
      BY <1>2, <2>9, <3>1, Forgets
  <2> QED
    BY <1>2, <2>2, <2>6, <2>8, <2>9, <2>10
<1> QED
  BY <1>7, <1>8

-----------------------------------------------------------------------------
(* The heap: what it promises. *)

\* The links are a row in order.
HeapInOrder == \E s : Laid(heap, s, heap.nelts) /\ Ordered(s, heap.nelts)

\* The heap holds the nodes of its row.
LEMMA MembersAre ==
  ASSUME HeapAssumption, NEW h, NEW s, Laid(h, s, h.nelts)
  PROVE  {At(h, i) : i \in 1 .. h.nelts} = Row(s, h.nelts) /\ Row(s, h.nelts) \subseteq Node
<1>1. h.nelts \in Nat
  BY DEF Laid
<1>2. \A i \in 1 .. h.nelts : At(h, i) = s[i] /\ s[i] \in Node
  BY <1>1, AtRow, KeysAreNumbers
<1> QED
  BY <1>2 DEF Row

\* The root is a least node.
LEMMA RootIsLeast ==
  ASSUME HeapAssumption, NEW h, NEW s, Laid(h, s, h.nelts), Ordered(s, h.nelts)
  PROVE  h.min \in Abstract!Least(Row(s, h.nelts))
<1> DEFINE n == h.nelts
<1>1. n \in Nat /\ \A i \in 1 .. n : Key[s[i]] \in Int
  <2>1. n \in Nat
    BY DEF Laid
  <2> QED
    BY <2>1, KeysAreNumbers
<1>2. CASE n = 0
  <2>1. Row(s, n) = {} /\ h.min = NULL
    BY <1>2 DEF Row, Laid, Slot
  <2> QED
    BY <2>1 DEF Abstract!Least
<1>3. CASE n # 0
  <2>1. h.min = s[1] /\ 1 \in 1 .. n
    BY <1>1, <1>3 DEF Laid, Slot
  <2> DEFINE Bad == {i \in Nat : i \in 1 .. n /\ ~(Key[s[1]] <= Key[s[i]])}
  <2>2. Bad = {}
    <3> SUFFICES ASSUME Bad # {} PROVE FALSE
      OBVIOUS
    <3>1. PICK i \in Bad : \A k \in Bad : i <= k
      BY SmallestMember
    <3>2. i # 1
      BY <1>1, <3>1
    <3>3. PICK a \in 1 .. n : Below(a, i) /\ a < i
      BY <1>1, <3>1, <3>2, Half
    <3>4. Key[s[a]] <= Key[s[i]] /\ a \notin Bad
      BY <3>1, <3>3 DEF Ordered
    <3> QED
      BY <1>1, <2>1, <3>1, <3>3, <3>4
  <2>3. \A i \in 1 .. n : Key[s[1]] <= Key[s[i]]
    BY <1>1, <2>2
  <2>4. s[1] \in Row(s, n) /\ \A y \in Row(s, n) : Key[s[1]] <= Key[y]
    BY <2>1, <2>3 DEF Row
  <2> QED
    BY <2>1, <2>4 DEF Abstract!Least
<1> QED
  BY <1>2, <1>3

\* heap_init makes an empty row.
LEMMA HeapStarts == ASSUME HeapAssumption, HeapInit PROVE HeapInOrder
<1>1. heap.nelts = 0 /\ heap.min = NULL
  BY DEF HeapInit
<1>2. heap \in Heaps
  BY DEF HeapInit, Heaps, Links
<1>3. Laid(heap, [i \in 1 .. 0 |-> NULL], 0)
  BY <1>1, <1>2 DEF Laid, Slot
<1>4. Ordered([i \in 1 .. 0 |-> NULL], 0)
  BY DEF Ordered
<1> QED
  BY <1>1, <1>3, <1>4 DEF HeapInOrder

\* Every operation keeps the order, and does to the set of nodes what it should.
LEMMA HeapSteps ==
  ASSUME HeapAssumption, HeapInOrder, [HeapNext]_heap
  PROVE  HeapInOrder' /\ [Abstract!Next]_<<Members, heap.min>>
<1>1. PICK s : Laid(heap, s, heap.nelts) /\ Ordered(s, heap.nelts)
  BY DEF HeapInOrder
<1> DEFINE n == heap.nelts
<1>2. n \in Nat /\ Members = Row(s, n) /\ Members \subseteq Node
  <2>1. n \in Nat
    BY <1>1 DEF Laid
  <2> QED
    BY <1>1, <2>1, MembersAre DEF Members
<1>3. ASSUME NEW t, Laid(heap', t, heap'.nelts), Ordered(t, heap'.nelts)
      PROVE  /\ HeapInOrder' /\ Members' = Row(t, heap'.nelts)
             /\ heap'.min \in Abstract!Least(Members')
  <2>1. Members' = Row(t, heap'.nelts)
    BY <1>3, MembersAre DEF Members
  <2>2. heap'.min \in Abstract!Least(Row(t, heap'.nelts))
    BY <1>3, RootIsLeast
  <2> QED
    BY <1>3, <2>1, <2>2 DEF HeapInOrder
<1>4. ASSUME NEW x \in Node, InsertNode(x)
      PROVE  HeapInOrder' /\ Abstract!Insert(x)
  <2>1. x \notin Members /\ heap' = heap_insert(heap, x)
    BY <1>4 DEF InsertNode
  <2>2. PICK t : /\ Laid(heap', t, n + 1) /\ Ordered(t, n + 1)
                 /\ Row(t, n + 1) = Row(s, n) \cup {x}
    BY <1>1, <1>2, <2>1, Inserts
  <2>3. heap'.nelts = n + 1
    BY <2>2 DEF Laid
  <2> QED
    BY <1>2, <1>3, <2>1, <2>2, <2>3 DEF Abstract!Insert
<1>5. ASSUME NEW x \in Members, heap' = heap_remove(heap, x)
      PROVE  HeapInOrder' /\ Abstract!Remove(x)
  <2>1. PICK t : /\ Laid(heap', t, n - 1) /\ Ordered(t, n - 1)
                 /\ Row(t, n - 1) = Row(s, n) \ {x} /\ n - 1 \in Nat
    BY <1>1, <1>2, <1>5, Removes
  <2>2. heap'.nelts = n - 1
    BY <2>1 DEF Laid
  <2> QED
    BY <1>2, <1>3, <1>5, <2>1, <2>2 DEF Abstract!Remove
<1>6. CASE DequeueNode
  <2>1. CASE n = 0
    <3>1. heap' = heap
      BY <1>6, <2>1 DEF DequeueNode, heap_remove
    <3> QED
      BY <3>1 DEF HeapInOrder, Members
  <2>2. CASE n # 0
    <3>1. heap.min = s[1] /\ s[1] \in Row(s, n)
      BY <1>1, <1>2, <2>2 DEF Laid, Slot, Row
    <3>2. heap.min \in Members /\ heap' = heap_remove(heap, heap.min)
      BY <1>2, <1>6, <3>1 DEF DequeueNode
    <3> QED
      BY <1>2, <1>5, <3>2 DEF Abstract!Next
  <2> QED
    BY <2>1, <2>2
<1>7. CASE UNCHANGED heap
  BY <1>7 DEF HeapInOrder, Members
<1>8. ASSUME NEW x \in Node, RemoveNode(x)
      PROVE  HeapInOrder' /\ Abstract!Remove(x)
  BY <1>5, <1>8 DEF RemoveNode
<1> QED
  BY <1>4, <1>6, <1>7, <1>8 DEF HeapNext, Abstract!Next

\* However nodes are put in and taken out, from anywhere in the tree: the heap is a
\* set of nodes that changes by exactly the one an operation is about, and its root
\* is a least of them.
THEOREM HeapIsMinSet ==
  ASSUME HeapAssumption
  PROVE  HeapSpec => ImplementsMinSet
<1>1. HeapInit => HeapInOrder /\ Abstract!Init
  <2>1. HeapInit => Abstract!Init
    BY DEF HeapInit, Abstract!Init, Members
  <2> QED
    BY <2>1, HeapStarts
<1>2. HeapInOrder /\ [HeapNext]_heap => HeapInOrder' /\ [Abstract!Next]_<<Members, heap.min>>
  BY HeapSteps
<1> QED
  BY <1>1, <1>2, PTL DEF HeapSpec, ImplementsMinSet, Abstract!Spec

\* The tree has no gaps, every link down has its link up, and no node is less than
\* the one above it.
THEOREM HeapStaysWhole ==
  ASSUME HeapAssumption
  PROVE  HeapSpec => []WholeHeap
<1>1. HeapInit => HeapInOrder
  BY HeapStarts
<1>2. HeapInOrder /\ [HeapNext]_heap => HeapInOrder'
  BY HeapSteps
<1>3. HeapInOrder => WholeHeap
  <2> SUFFICES ASSUME HeapInOrder PROVE WholeHeap
    OBVIOUS
  <2>1. PICK s : Laid(heap, s, heap.nelts) /\ Ordered(s, heap.nelts)
    BY DEF HeapInOrder
  <2> DEFINE n == heap.nelts
  <2>2. n \in Nat /\ s \in [1 .. n -> Node]
    BY <2>1 DEF Laid
  <2>3. \A i \in 1 .. n : At(heap, i) = s[i] /\ s[i] # NULL /\ Key[s[i]] \in Int
    BY <2>1, <2>2, AtRow, KeysAreNumbers
  <2>4. Members = Row(s, n) /\ Members \subseteq Node
    BY <2>1, MembersAre DEF Members
  <2>5. Complete
    <3>1. Cardinality(Members) = n
      BY <2>1, <2>2, <2>4, RoomForAll DEF Laid
    <3>2. NULL \notin Members
      BY <2>3, <2>4 DEF Row
    <3>3. ASSUME NEW x \in Members PROVE Children(heap, x) \subseteq Members
      <4>1. PICK i \in 1 .. n : x = s[i]
        BY <2>4 DEF Row
      <4>2. Children(heap, x) = {Slot(s, n, 2 * i), Slot(s, n, 2 * i + 1)} \ {NULL}
        BY <2>1, <4>1 DEF Laid, Children
      <4> QED
        BY <2>4, <4>2 DEF Slot, Row
    <3>4. n = 0 => heap.min = NULL
      BY <2>1 DEF Laid, Slot
    <3> QED
      BY <3>1, <3>2, <3>3, <3>4 DEF Complete
  <2>6. ASSUME NEW i \in 1 .. n, i # 1
        PROVE  i \div 2 \in 1 .. n /\ Below(i \div 2, i)
    BY <2>2, <2>6, Half
  <2>7. ParentsMatch
    <3> SUFFICES ASSUME NEW i \in 1 .. n
                 PROVE  heap.parent[At(heap, i)] =
                            IF i = 1 THEN NULL ELSE At(heap, i \div 2)
      BY DEF ParentsMatch
    <3>1. CASE i = 1
      BY <2>1, <2>3, <3>1 DEF Laid
    <3>2. CASE i # 1
      <4>1. heap.parent[s[i]] = s[i \div 2]
        BY <2>1, <2>6, <3>2 DEF Laid
      <4> QED
        BY <2>3, <2>6, <3>2, <4>1
    <3> QED
      BY <3>1, <3>2
  <2>8. HeapOrder
    <3> SUFFICES ASSUME NEW i \in 2 .. n
                 PROVE  ~less_than(At(heap, i), At(heap, i \div 2))
      BY DEF HeapOrder
    <3>1. i \in 1 .. n /\ i # 1
      BY <2>2
    <3>2. Key[s[i \div 2]] <= Key[s[i]]
      BY <2>1, <2>6, <3>1 DEF Ordered
    <3> QED
      BY <2>3, <2>6, <3>1, <3>2 DEF less_than
  <2> QED
    BY <2>5, <2>7, <2>8 DEF WholeHeap
<1> QED
  BY <1>1, <1>2, <1>3, PTL DEF HeapSpec

-----------------------------------------------------------------------------
(* The vector: memory and the elements that count. *)

Cell == Item \cup {Junk}
AllVecs == [data : Seq(Cell), length : Nat]

\* The first elements are those of the sequence s.
Shows(v, s) ==
    /\ v \in AllVecs /\ s \in Seq(Item) /\ Len(s) = v.length /\ v.length <= Len(v.data)
    /\ \A i \in 1 .. v.length : v.data[i] = s[i]

VecInv == vec \in AllVecs /\ denied \in BOOLEAN /\ (~denied => Shows(vec, list))

\* What is shown is what counts.
LEMMA ShownIsContent ==
  ASSUME NEW v, NEW s, Shows(v, s)
  PROVE  Content(v) = s
<1>1. /\ v.data \in Seq(Cell) /\ v.length \in Nat /\ Len(v.data) \in Nat /\ v.length <= Len(v.data)
      /\ s \in Seq(Item) /\ Len(s) = v.length /\ \A i \in 1 .. v.length : v.data[i] = s[i]
  BY DEF Shows, AllVecs
<1>2. 1 \in 1 .. Len(v.data) + 1 /\ v.length \in 1 - 1 .. Len(v.data)
  BY <1>1
<1> DEFINE c == SubSeq(v.data, 1, v.length)
<1>3. /\ c \in Seq(Cell) /\ Len(c) = v.length - 1 + 1
      /\ \A i \in 1 .. v.length - 1 + 1 : c[i] = v.data[1 + i - 1]
  BY <1>1, <1>2, PartOf
<1> HIDE DEF c
<1>4. Len(c) = Len(s) /\ \A i \in 1 .. Len(s) : c[i] = s[i]
  <2>1. ASSUME NEW i \in 1 .. Len(s)
        PROVE  c[i] = s[i]
    <3>1. i \in 1 .. v.length - 1 + 1 /\ 1 + i - 1 = i /\ i \in 1 .. v.length
      BY <1>1
    <3> QED
      BY <1>1, <1>3, <3>1
  <2> QED
    BY <1>1, <1>3, <2>1
<1>5. c \in [1 .. Len(s) -> Cell] /\ s \in [1 .. Len(s) -> Item]
  BY <1>1, <1>3, <1>4
<1>6. c = s
  BY <1>4, <1>5
<1> QED
  BY <1>6 DEF c, Content

\* A function on an initial part of the numbers is a sequence.
LEMMA Sequence ==
  ASSUME NEW S, NEW n \in Nat, NEW f \in [1 .. n -> S]
  PROVE  f \in Seq(S) /\ Len(f) = n
OBVIOUS

\* Growing keeps what fits.
LEMMA Resizes ==
  ASSUME NEW v \in AllVecs, NEW n \in Nat
  PROVE  /\ Resized(v, n) \in AllVecs /\ Resized(v, n).length = v.length
         /\ Len(Resized(v, n).data) = n
         /\ \A i \in 1 .. n : i <= Len(v.data) => Resized(v, n).data[i] = v.data[i]
<1> DEFINE d == [i \in 1 .. n |-> IF i <= Capacity(v) THEN v.data[i] ELSE Junk]
<1>1. Len(v.data) \in Nat /\ \A i \in 1 .. Len(v.data) : v.data[i] \in Cell
  BY DEF AllVecs
<1>2. \A i \in 1 .. n : d[i] \in Cell
  BY <1>1 DEF Capacity, Cell
<1>3. d \in [1 .. n -> Cell]
  BY <1>2
<1>4. \A i \in 1 .. n : i <= Len(v.data) => d[i] = v.data[i]
  BY DEF Capacity
<1>5. Resized(v, n) = [v EXCEPT !.data = d]
  BY DEF Resized
<1> HIDE DEF d
<1>6. d \in Seq(Cell) /\ Len(d) = n
  BY <1>3, Sequence
<1> QED
  BY <1>4, <1>5, <1>6 DEF AllVecs

\* vec_reserve_ and vec_expand_ leave what they had or make room.
Reserves(v, r, n) ==
    /\ r.v \in AllVecs /\ r.v.length = v.length /\ Len(r.v.data) >= Len(v.data)
    /\ \A i \in 1 .. Len(v.data) : r.v.data[i] = v.data[i]
    /\ r.ok => Len(r.v.data) >= n

LEMMA ReserveMakesRoom ==
  ASSUME NEW v \in AllVecs, NEW n \in Nat, NEW k \in Nat, n <= k, NEW r \in vec_reserve_(v, k)
  PROVE  Reserves(v, r, n)
<1>1. Len(v.data) \in Nat
  BY DEF AllVecs
<1>2. CASE k <= Capacity(v)
  <2>1. r = [ok |-> TRUE, v |-> v]
    BY <1>2 DEF vec_reserve_
  <2> QED
    BY <1>1, <1>2, <2>1 DEF Reserves, Capacity
<1>3. CASE ~(k <= Capacity(v))
  <2>1. r = [ok |-> TRUE, v |-> Resized(v, k)] \/ r = [ok |-> FALSE, v |-> v]
    BY <1>3 DEF vec_reserve_
  <2>2. CASE r = [ok |-> TRUE, v |-> Resized(v, k)]
    <3>1. /\ Resized(v, k) \in AllVecs /\ Resized(v, k).length = v.length
          /\ Len(Resized(v, k).data) = k
          /\ \A i \in 1 .. k : i <= Len(v.data) => Resized(v, k).data[i] = v.data[i]
      BY Resizes
    <3>2. k > Len(v.data) /\ \A i \in 1 .. Len(v.data) : i \in 1 .. k /\ i <= Len(v.data)
      BY <1>1, <1>3 DEF Capacity
    <3> QED
      BY <1>1, <2>2, <3>1, <3>2 DEF Reserves
  <2>3. CASE r = [ok |-> FALSE, v |-> v]
    BY <1>1, <2>3 DEF Reserves
  <2> QED
    BY <2>1, <2>2, <2>3
<1> QED
  BY <1>2, <1>3

\* There is room for one more element.
LEMMA ExpandMakesRoom ==
  ASSUME NEW v \in AllVecs, v.length <= Len(v.data), NEW r \in vec_expand_(v)
  PROVE  Reserves(v, r, v.length + 1)
<1>1. Len(v.data) \in Nat /\ v.length \in Nat /\ v.data \in Seq(Cell)
  BY DEF AllVecs
<1>2. CASE v.length + 1 > Capacity(v)
  <2>1. CASE IsNull(v)
    <3>1. r \in vec_reserve_(v, 1)
      BY <1>2, <2>1 DEF vec_expand_
    <3>2. v.length + 1 <= 1
      BY <1>1, <2>1 DEF IsNull
    <3>3. v.length + 1 \in Nat
      BY <1>1
    <3> QED
      BY <3>1, <3>2, <3>3, ReserveMakesRoom
  <2>2. CASE ~IsNull(v)
    <3>1. r \in vec_reserve_(v, 2 * Capacity(v))
      BY <1>2, <2>2 DEF vec_expand_
    <3>2. Len(v.data) # 0
      BY <1>1, <2>2, EmptySeq DEF IsNull
    <3>3. v.length + 1 <= 2 * Capacity(v) /\ 2 * Capacity(v) \in Nat /\ v.length + 1 \in Nat
      BY <1>1, <3>2 DEF Capacity
    <3> QED
      BY <3>1, <3>3, ReserveMakesRoom
  <2> QED
    BY <2>1, <2>2
<1>3. CASE ~(v.length + 1 > Capacity(v))
  <2>1. r = [ok |-> TRUE, v |-> v]
    BY <1>3 DEF vec_expand_
  <2> QED
    BY <1>1, <1>3, <2>1 DEF Reserves, Capacity
<1> QED
  BY <1>2, <1>3

\* One assignment to the memory.
LEMMA StoresOne ==
  ASSUME NEW v \in AllVecs, NEW i \in 0 .. Len(v.data) - 1, NEW x \in Cell
  PROVE  /\ Stores(v, i, x) \in AllVecs /\ Stores(v, i, x).length = v.length
         /\ Len(Stores(v, i, x).data) = Len(v.data)
         /\ \A j \in 1 .. Len(v.data) :
                Stores(v, i, x).data[j] = IF j = i + 1 THEN x ELSE v.data[j]
<1> DEFINE n == Len(v.data)
           d == [v.data EXCEPT ![i + 1] = x]
<1>1. n \in Nat /\ v.data \in [1 .. n -> Cell] /\ i + 1 \in 1 .. n
  BY LenProperties DEF AllVecs
<1>2. d \in [1 .. n -> Cell] /\ \A j \in 1 .. n : d[j] = IF j = i + 1 THEN x ELSE v.data[j]
  <2> HIDE DEF n
  <2> QED
    BY <1>1
<1>3. Stores(v, i, x) = [data |-> d, length |-> v.length]
  BY DEF Stores, AllVecs
<1> HIDE DEF d
<1>4. d \in Seq(Cell) /\ Len(d) = n
  BY <1>1, <1>2, Sequence
<1> QED
  BY <1>2, <1>3, <1>4 DEF AllVecs

\* e is d after count cells went from one place to the other.
HasMoved(e, d, to, from, count) ==
    /\ Len(e) = Len(d)
    /\ \A i \in 1 .. Len(d) :
            e[i] = IF i \in to + 1 .. to + count THEN d[i - to + from] ELSE d[i]

\* memmove inside the memory.
LEMMA MovesCells ==
  ASSUME NEW d \in Seq(Cell), NEW to \in Nat, NEW from \in Nat, NEW count \in Nat,
         from + count <= Len(d)
  PROVE  /\ Move(d, to, from, count) \in Seq(Cell)
         /\ HasMoved(Move(d, to, from, count), d, to, from, count)
<1> DEFINE n == Len(d)
           e == [i \in 1 .. n |-> IF i \in to + 1 .. to + count THEN d[i - to + from] ELSE d[i]]
<1>1. n \in Nat /\ d \in [1 .. n -> Cell] /\ DOMAIN d = 1 .. n
  BY LenProperties
<1>2. Move(d, to, from, count) = e
  BY <1>1 DEF Move
<1>3. ASSUME NEW i \in 1 .. n
      PROVE  e[i] \in Cell
  <2>1. CASE i \in to + 1 .. to + count
    <3>1. i - to + from \in 1 .. n
      BY <1>1, <2>1
    <3> QED
      BY <1>1, <2>1, <3>1
  <2>2. CASE i \notin to + 1 .. to + count
    BY <1>1, <2>2
  <2> QED
    BY <2>1, <2>2
<1>4. e \in [1 .. n -> Cell]
  BY <1>3
<1>5. \A i \in 1 .. n : e[i] = IF i \in to + 1 .. to + count THEN d[i - to + from] ELSE d[i]
  OBVIOUS
<1> HIDE DEF e
<1>6. e \in Seq(Cell) /\ Len(e) = n
  BY <1>1, <1>4, Sequence
<1> QED
  BY <1>2, <1>5, <1>6 DEF HasMoved

\* What VecInv says of the state before a step.
LEMMA VecNow ==
  ASSUME VecInv, ~denied
  PROVE  /\ Shows(vec, list) /\ vec \in AllVecs /\ vec.length \in Nat /\ Len(vec.data) \in Nat
         /\ vec.length <= Len(vec.data) /\ vec.data \in Seq(Cell)
         /\ list \in Seq(Item) /\ Len(list) = vec.length /\ denied \in BOOLEAN
         /\ \A i \in 1 .. vec.length : vec.data[i] = list[i] /\ list[i] \in Item
<1>1. Shows(vec, list) /\ vec \in AllVecs /\ denied \in BOOLEAN
  BY DEF VecInv
<1>2. /\ vec.length \in Nat /\ vec.data \in Seq(Cell) /\ Len(vec.data) \in Nat
      /\ vec.length <= Len(vec.data) /\ list \in Seq(Item) /\ Len(list) = vec.length
      /\ \A i \in 1 .. vec.length : vec.data[i] = list[i]
  BY <1>1 DEF Shows, AllVecs
<1>3. \A i \in 1 .. vec.length : list[i] \in Item
  BY <1>2
<1> QED
  BY <1>1, <1>2, <1>3

\* How a step is shown to keep the invariant.
LEMMA VecThen ==
  ASSUME NEW d \in Seq(Cell), NEW n \in Nat, n <= Len(d), NEW s \in Seq(Item), Len(s) = n,
         \A i \in 1 .. n : d[i] = s[i],
         vec' = [data |-> d, length |-> n], list' = s, denied' \in BOOLEAN
  PROVE  VecInv'
<1>1. vec' \in AllVecs /\ (vec').length = n /\ (vec').data = d
  BY DEF AllVecs
<1>2. Shows(vec', list')
  BY <1>1 DEF Shows
<1> QED
  BY <1>1, <1>2 DEF VecInv

LEMMA Pushes ==
  ASSUME VecAssumption, VecInv, ~denied, NEW x \in Item, vec_push(x)
  PROVE  VecInv'
<1>1. PICK r \in vec_expand_(vec) :
        IF r.ok
        THEN /\ vec' = [Stores(r.v, vec.length, x) EXCEPT !.length = @ + 1]
             /\ list' = Append(list, x)
        ELSE UNCHANGED <<vec, list>>
  BY DEF vec_push
<1>2. denied' = denied
  BY DEF vec_push
<1>3. Reserves(vec, r, vec.length + 1)
  BY VecNow, ExpandMakesRoom
<1>4. CASE ~r.ok
  BY <1>1, <1>2, <1>4 DEF VecInv, Shows
<1>5. CASE r.ok
  <2> DEFINE n == vec.length
             w == Stores(r.v, n, x)
             s == Append(list, x)
  <2>1. /\ r.v \in AllVecs /\ Len(r.v.data) >= n + 1 /\ r.v.length = n /\ n \in Nat
        /\ Len(r.v.data) \in Nat /\ n \in 0 .. Len(r.v.data) - 1
        /\ \A i \in 1 .. n : r.v.data[i] = list[i] /\ i \in 1 .. Len(r.v.data)
    <3>1. /\ r.v \in AllVecs /\ Len(r.v.data) >= n + 1 /\ r.v.length = n
          /\ \A i \in 1 .. Len(vec.data) : r.v.data[i] = vec.data[i]
      BY <1>3, <1>5 DEF Reserves
    <3>2. Len(r.v.data) \in Nat
      BY <3>1 DEF AllVecs
    <3> QED
      BY <3>1, <3>2, VecNow
  <2>2. x \in Cell
    BY DEF Cell
  <2>3. /\ w \in AllVecs /\ w.length = n /\ Len(w.data) = Len(r.v.data)
        /\ \A j \in 1 .. Len(r.v.data) : w.data[j] = IF j = n + 1 THEN x ELSE r.v.data[j]
    BY <2>1, <2>2, StoresOne
  <2>4. /\ s \in Seq(Item) /\ Len(s) = n + 1 /\ s[n + 1] = x /\ \A i \in 1 .. n : s[i] = list[i]
    BY VecNow, AppendProperties
  <2>5. vec' = [w EXCEPT !.length = @ + 1] /\ list' = s
    BY <1>1, <1>5
  <2> HIDE DEF w, s
  <2>6. vec' = [data |-> w.data, length |-> n + 1]
    BY <2>3, <2>5 DEF AllVecs
  <2>7. \A i \in 1 .. n + 1 : w.data[i] = s[i]
    <3> HIDE DEF n
    <3>1. ASSUME NEW i \in 1 .. n + 1
          PROVE  w.data[i] = s[i]
      <4>1. CASE i = n + 1
        BY <2>1, <2>3, <2>4, <4>1
      <4>2. CASE i # n + 1
        <5>1. i \in 1 .. n
          BY <2>1, <4>2
        <5> QED
          BY <2>1, <2>3, <2>4, <4>2, <5>1
      <4> QED
        BY <4>1, <4>2
    <3> QED
      BY <3>1
  <2>8. w.data \in Seq(Cell) /\ n + 1 \in Nat /\ n + 1 <= Len(w.data)
    BY <2>1, <2>3 DEF AllVecs
  <2> HIDE DEF n
  <2> QED
    BY <1>2, <2>4, <2>5, <2>6, <2>7, <2>8, VecNow, VecThen
<1> QED
  BY <1>4, <1>5

\* t is s with x before its k-th element.
HasBefore(t, s, k, x) ==
    /\ Len(t) = Len(s) + 1
    /\ \A j \in 1 .. Len(s) + 1 :
            t[j] = IF j < k THEN s[j] ELSE IF j = k THEN x ELSE s[j - 1]

LEMMA InsertedAt ==
  ASSUME NEW S, NEW s \in Seq(S), NEW k \in 1 .. Len(s) + 1, NEW x \in S
  PROVE  InsertAt(s, k, x) \in Seq(S) /\ HasBefore(InsertAt(s, k, x), s, k, x)
<1> DEFINE n == Len(s)
           i == k - 1
           a == SubSeq(s, 1, i)
           b == SubSeq(s, i + 1, n)
           c == a \o <<x>>
           e == c \o b
<1>1. n \in Nat /\ i \in Nat /\ i <= n /\ k = i + 1
  BY LenProperties
<1> HIDE DEF i
<1>2. a \in Seq(S) /\ Len(a) = i /\ \A j \in 1 .. i : a[j] = s[j]
  <2>1. 1 \in 1 .. n + 1 /\ i \in 1 - 1 .. n
    BY <1>1
  <2>2. a \in Seq(S) /\ Len(a) = i - 1 + 1 /\ \A j \in 1 .. i - 1 + 1 : a[j] = s[1 + j - 1]
    BY <2>1, PartOf
  <2> HIDE DEF a
  <2>3. \A j \in 1 .. i : j \in 1 .. i - 1 + 1 /\ 1 + j - 1 = j
    BY <1>1
  <2> QED
    BY <1>1, <2>2, <2>3
<1>3. b \in Seq(S) /\ Len(b) = n - i /\ \A j \in 1 .. n - i : b[j] = s[i + j]
  <2>1. i + 1 \in 1 .. n + 1 /\ n \in (i + 1) - 1 .. n
    BY <1>1
  <2>2. /\ b \in Seq(S) /\ Len(b) = n - (i + 1) + 1
        /\ \A j \in 1 .. n - (i + 1) + 1 : b[j] = s[(i + 1) + j - 1]
    BY <2>1, PartOf
  <2> HIDE DEF b
  <2>3. \A j \in 1 .. n - i : j \in 1 .. n - (i + 1) + 1 /\ (i + 1) + j - 1 = i + j
    BY <1>1
  <2> QED
    BY <1>1, <2>2, <2>3
<1>4. <<x>> \in Seq(S) /\ Len(<<x>>) = 1 /\ <<x>>[1] = x
  OBVIOUS
<1>5. InsertAt(s, k, x) = e
  <2>1. k - 1 = i /\ k = i + 1
    BY <1>1
  <2> QED
    BY <2>1 DEF InsertAt
<1> HIDE DEF a, b
<1>6. /\ c \in Seq(S) /\ Len(c) = i + 1
      /\ \A j \in 1 .. i + 1 : c[j] = IF j <= i THEN a[j] ELSE <<x>>[j - i]
  BY <1>1, <1>2, <1>4, ConcatProperties
<1> HIDE DEF c, n
<1>7. /\ e \in Seq(S) /\ Len(e) = (i + 1) + (n - i)
      /\ \A j \in 1 .. (i + 1) + (n - i) : e[j] = IF j <= i + 1 THEN c[j] ELSE b[j - (i + 1)]
  <2>1. /\ e \in Seq(S) /\ Len(e) = Len(c) + Len(b)
        /\ \A j \in 1 .. Len(c) + Len(b) : e[j] = IF j <= Len(c) THEN c[j] ELSE b[j - Len(c)]
    BY <1>3, <1>6, ConcatProperties
  <2> HIDE DEF e
  <2> QED
    BY <1>3, <1>6, <2>1
<1> HIDE DEF e
<1>8. ASSUME NEW j \in 1 .. n + 1
      PROVE  e[j] = IF j <= i THEN s[j] ELSE IF j = i + 1 THEN x ELSE s[j - 1]
  <2>1. CASE j <= i
    BY <1>1, <1>2, <1>6, <1>7, <2>1
  <2>2. CASE j = i + 1
    <3>1. j - i = 1 /\ j \in 1 .. i + 1 /\ ~(j <= i)
      BY <1>1, <2>2
    <3>2. c[j] = x
      BY <1>4, <1>6, <3>1
    <3> QED
      BY <1>1, <1>7, <2>2, <3>1, <3>2
  <2>3. CASE j > i + 1
    <3>1. /\ j - (i + 1) \in 1 .. n - i /\ i + (j - (i + 1)) = j - 1 /\ ~(j <= i + 1)
          /\ j \in 1 .. (i + 1) + (n - i) /\ ~(j <= i) /\ j # i + 1
      BY <1>1, <2>3
    <3>2. b[j - (i + 1)] = s[i + (j - (i + 1))]
      BY <1>3, <3>1
    <3> QED
      BY <1>7, <3>1, <3>2
  <2> QED
    BY <1>1, <2>1, <2>2, <2>3
<1>9. Len(e) = n + 1
  BY <1>1, <1>7
<1>10. ASSUME NEW j \in 1 .. n + 1
       PROVE  e[j] = IF j < k THEN s[j] ELSE IF j = k THEN x ELSE s[j - 1]
  <2>1. (j < k <=> j <= i) /\ (j = k <=> j = i + 1)
    BY <1>1
  <2> QED
    BY <1>8, <2>1
<1> QED
  BY <1>5, <1>7, <1>9, <1>10 DEF n, HasBefore

LEMMA VecInserts ==
  ASSUME VecAssumption, VecInv, ~denied, NEW i \in Indices, NEW x \in Item, vec_insert(i, x)
  PROVE  VecInv'
<1> DEFINE n == vec.length
<1>1. PICK r \in vec_expand_(vec) :
        IF r.ok
        THEN /\ vec' = [Stores([r.v EXCEPT !.data = MoveUp(r.v, i)], i, x)
                            EXCEPT !.length = @ + 1]
             /\ list' = InsertAt(list, i + 1, x)
             /\ UNCHANGED denied
        ELSE /\ vec' = [vec EXCEPT !.length = @ + 1]
             /\ denied' = TRUE /\ UNCHANGED list
  BY DEF vec_insert
<1>2. i \in 0 .. n /\ n \in Nat
  BY VecNow DEF vec_insert, Indices, VecAssumption
<1>3. Reserves(vec, r, n + 1)
  BY VecNow, ExpandMakesRoom
<1>4. CASE ~r.ok
  <2>1. vec' = [vec EXCEPT !.length = @ + 1] /\ denied' = TRUE
    BY <1>1, <1>4
  <2>2. vec' \in AllVecs
    BY <2>1, VecNow DEF AllVecs
  <2> QED
    BY <2>1, <2>2 DEF VecInv
<1>5. CASE r.ok
  <2> DEFINE d == r.v.data
             e == MoveUp(r.v, i)
             u == [r.v EXCEPT !.data = e]
             w == Stores(u, i, x)
             s == InsertAt(list, i + 1, x)
  <2>1. /\ r.v \in AllVecs /\ Len(d) >= n + 1 /\ r.v.length = n /\ d \in Seq(Cell)
        /\ Len(d) \in Nat /\ \A j \in 1 .. n : d[j] = list[j]
    <3>1. /\ r.v \in AllVecs /\ Len(r.v.data) >= n + 1 /\ r.v.length = n
          /\ \A j \in 1 .. Len(vec.data) : r.v.data[j] = vec.data[j]
      BY <1>3, <1>5 DEF Reserves
    <3>2. Len(r.v.data) \in Nat /\ r.v.data \in Seq(Cell)
      BY <3>1 DEF AllVecs
    <3> QED
      BY <3>1, <3>2, VecNow
  <2>2. /\ vec' = [w EXCEPT !.length = @ + 1] /\ list' = s /\ denied' = denied
    BY <1>1, <1>5
  <2>3. /\ e \in Seq(Cell) /\ Len(e) = Len(d)
        /\ \A j \in 1 .. Len(d) :
                e[j] = IF j \in (i + 1) + 1 .. (i + 1) + (n - i) THEN d[j - (i + 1) + i] ELSE d[j]
    <3>1. e = Move(d, i + 1, i, n - i)
      BY <2>1 DEF MoveUp
    <3>2. i + 1 \in Nat /\ i \in Nat /\ n - i \in Nat /\ i + (n - i) <= Len(d)
      <4> HIDE DEF d, n
      <4> QED
        BY <1>2, <2>1
    <3> DEFINE t == i + 1
               m == n - i
    <3>3. t \in Nat /\ m \in Nat /\ i + m <= Len(d) /\ e = Move(d, t, i, m)
      BY <3>1, <3>2
    <3> HIDE DEF d, e, n, t, m
    <3>4. e \in Seq(Cell) /\ HasMoved(e, d, t, i, m)
      BY <1>2, <2>1, <3>2, <3>3, MovesCells
    <3> QED
      BY <3>4 DEF HasMoved, t, m
  <2>4. u = [data |-> e, length |-> n]
    BY <2>1 DEF AllVecs
  <2> HIDE DEF e, u
  <2>5. u \in AllVecs /\ u.data = e /\ u.length = n
    BY <1>2, <2>3, <2>4 DEF AllVecs
  <2>6. i \in 0 .. Len(u.data) - 1 /\ x \in Cell
    BY <1>2, <2>1, <2>3, <2>5 DEF Cell
  <2>7. /\ w \in AllVecs /\ w.length = n /\ Len(w.data) = Len(d)
        /\ \A j \in 1 .. Len(d) : w.data[j] = IF j = i + 1 THEN x ELSE e[j]
    BY <2>3, <2>5, <2>6, StoresOne
  <2>8. /\ s \in Seq(Item) /\ Len(s) = n + 1
        /\ \A j \in 1 .. n + 1 : s[j] =
                IF j <= i THEN list[j] ELSE IF j = i + 1 THEN x ELSE list[j - 1]
    <3>1. list \in Seq(Item) /\ Len(list) = n /\ i \in 0 .. Len(list)
      BY <1>2, VecNow
    <3> DEFINE k == i + 1
    <3>2. k \in 1 .. Len(list) + 1 /\ k = i + 1 /\ i \in Nat
      BY <3>1, <1>2
    <3>3. s = InsertAt(list, k, x)
      OBVIOUS
    <3> HIDE DEF n, w, d, k, s
    <3>4. /\ s \in Seq(Item) /\ Len(s) = Len(list) + 1
          /\ \A j \in 1 .. Len(list) + 1 : s[j] =
                IF j < k THEN list[j] ELSE IF j = k THEN x ELSE list[j - 1]
      <4>1. s \in Seq(Item) /\ HasBefore(s, list, k, x)
        BY <3>1, <3>2, <3>3, InsertedAt
      <4> QED
        BY <4>1 DEF HasBefore
    <3>5. \A j \in 1 .. n + 1 : j < k <=> j <= i
      BY <1>2, <3>2
    <3> QED
      BY <3>1, <3>2, <3>4, <3>5
  <2> HIDE DEF w, s, d, n
  <2>9. vec' = [data |-> w.data, length |-> n + 1]
    BY <2>2, <2>7 DEF AllVecs
  <2>10. ASSUME NEW j \in 1 .. n + 1
         PROVE  w.data[j] = s[j]
    <3>1. j \in 1 .. Len(d)
      BY <1>2, <2>1
    <3>2. CASE j <= i
      BY <1>2, <2>1, <2>3, <2>7, <2>8, <3>1, <3>2
    <3>3. CASE j = i + 1
      BY <1>2, <2>7, <2>8, <3>1, <3>3
    <3>4. CASE j > i + 1
      <4>1. /\ j \in (i + 1) + 1 .. (i + 1) + (n - i) /\ j - (i + 1) + i = j - 1
            /\ j - 1 \in 1 .. n /\ ~(j <= i) /\ j # i + 1
        BY <1>2, <3>4
      <4>2. w.data[j] = d[j - 1]
        BY <2>3, <2>7, <3>1, <4>1
      <4> QED
        BY <2>1, <2>8, <4>1, <4>2
    <3> QED
      BY <1>2, <3>2, <3>3, <3>4
  <2>11. w.data \in Seq(Cell) /\ n + 1 \in Nat /\ n + 1 <= Len(w.data)
    BY <1>2, <2>1, <2>7 DEF AllVecs
  <2> QED
    BY <2>2, <2>8, <2>9, <2>10, <2>11, VecNow, VecThen
<1> QED
  BY <1>4, <1>5

\* vec_pop, vec_truncate: fewer elements count.
LEMMA Shortens ==
  ASSUME VecInv, ~denied, NEW k \in 0 .. vec.length,
         vec' = [vec EXCEPT !.length = k], list' = SubSeq(list, 1, k), UNCHANGED denied
  PROVE  VecInv'
<1> DEFINE s == SubSeq(list, 1, k)
<1>1. k \in Nat /\ k <= Len(vec.data) /\ 1 \in 1 .. Len(list) + 1 /\ k \in 1 - 1 .. Len(list)
  BY VecNow
<1>2. vec' = [data |-> vec.data, length |-> k]
  BY VecNow DEF AllVecs
<1>3. s \in Seq(Item) /\ Len(s) = k - 1 + 1 /\ \A i \in 1 .. k - 1 + 1 : s[i] = list[1 + i - 1]
  BY <1>1, PartOf, VecNow
<1> HIDE DEF s
<1>4. ASSUME NEW i \in 1 .. k
      PROVE  vec.data[i] = s[i]
  <2>1. i \in 1 .. k - 1 + 1 /\ 1 + i - 1 = i /\ i \in 1 .. vec.length
    BY <1>1, VecNow
  <2> QED
    BY <1>3, <2>1, VecNow
<1>5. Len(s) = k /\ list' = s
  BY <1>1, <1>3 DEF s
<1> QED
  BY <1>1, <1>2, <1>3, <1>4, <1>5, VecNow, VecThen

\* t is s without count elements from start on.
Lacks(t, s, start, count) ==
    /\ Len(t) = Len(s) - count
    /\ \A j \in 1 .. Len(s) - count : t[j] = IF j <= start THEN s[j] ELSE s[j + count]

LEMMA SplicedList ==
  ASSUME NEW S, NEW s \in Seq(S), NEW start \in Nat, NEW count \in Nat, start + count <= Len(s)
  PROVE  ListSpliced(s, start, count) \in Seq(S) /\ Lacks(ListSpliced(s, start, count), s, start, count)
<1> DEFINE n == Len(s)
           a == SubSeq(s, 1, start)
           b == SubSeq(s, start + count + 1, n)
           e == a \o b
<1>1. n \in Nat
  BY LenProperties
<1>2. a \in Seq(S) /\ Len(a) = start /\ \A j \in 1 .. start : a[j] = s[j]
  <2>1. 1 \in 1 .. n + 1 /\ start \in 1 - 1 .. n
    BY <1>1
  <2>2. a \in Seq(S) /\ Len(a) = start - 1 + 1 /\ \A j \in 1 .. start - 1 + 1 : a[j] = s[1 + j - 1]
    BY <2>1, PartOf
  <2> HIDE DEF a
  <2>3. \A j \in 1 .. start : j \in 1 .. start - 1 + 1 /\ 1 + j - 1 = j
    OBVIOUS
  <2> QED
    BY <1>1, <2>2, <2>3
<1>3. /\ b \in Seq(S) /\ Len(b) = n - start - count
      /\ \A j \in 1 .. n - start - count : b[j] = s[start + count + j]
  <2> DEFINE f == start + count + 1
  <2>1. f \in 1 .. n + 1 /\ n \in f - 1 .. n
    BY <1>1
  <2>2. /\ b \in Seq(S) /\ Len(b) = n - f + 1
        /\ \A j \in 1 .. n - f + 1 : b[j] = s[f + j - 1]
    BY <2>1, PartOf
  <2> HIDE DEF b
  <2>3. \A j \in 1 .. n - start - count : j \in 1 .. n - f + 1 /\ f + j - 1 = start + count + j
    BY <1>1
  <2> QED
    BY <1>1, <2>2, <2>3
<1> HIDE DEF a, b
<1>4. /\ e \in Seq(S) /\ Len(e) = Len(a) + Len(b)
      /\ \A j \in 1 .. Len(a) + Len(b) : e[j] = IF j <= Len(a) THEN a[j] ELSE b[j - Len(a)]
  BY <1>2, <1>3, ConcatProperties
<1> HIDE DEF e, n
<1>5. ASSUME NEW j \in 1 .. n - count
      PROVE  e[j] = IF j <= start THEN s[j] ELSE s[j + count]
  <2>1. CASE j <= start
    BY <1>1, <1>2, <1>3, <1>4, <2>1
  <2>2. CASE ~(j <= start)
    <3>1. /\ j - start \in 1 .. n - start - count /\ start + count + (j - start) = j + count
          /\ j \in 1 .. Len(a) + Len(b)
      BY <1>1, <1>2, <1>3, <2>2
    <3>2. b[j - start] = s[start + count + (j - start)]
      BY <1>3, <3>1
    <3> QED
      BY <1>2, <1>4, <2>2, <3>1, <3>2
  <2> QED
    BY <2>1, <2>2
<1>6. Len(e) = n - count
  BY <1>1, <1>2, <1>3, <1>4
<1>7. ListSpliced(s, start, count) = e
  BY DEF ListSpliced, e, a, b, n
<1> QED
  BY <1>4, <1>5, <1>6, <1>7 DEF Lacks, n

LEMMA VecSplices ==
  ASSUME VecInv, ~denied, NEW start \in Nat, NEW count \in Nat, start + count <= vec.length,
         vec' = Spliced(vec, start, count), list' = ListSpliced(list, start, count), UNCHANGED denied
  PROVE  VecInv'
<1> DEFINE n == vec.length
           k == n - start - count
           f == start + count
           d == Move(vec.data, start, f, k)
           s == ListSpliced(list, start, count)
<1>1. n \in Nat /\ n <= Len(vec.data) /\ Len(vec.data) \in Nat /\ vec.data \in Seq(Cell)
      /\ list \in Seq(Item) /\ Len(list) = n
  BY VecNow
<1>2. k \in Nat /\ f \in Nat /\ f + k <= Len(vec.data) /\ f = start + count
      /\ n - count \in Nat /\ n - count <= Len(vec.data) /\ k = n - start - count
  BY <1>1
<1>3. vec' = [data |-> d, length |-> n - count]
  BY DEF Spliced
<1> HIDE DEF k, f
<1>4. /\ d \in Seq(Cell) /\ Len(d) = Len(vec.data)
      /\ \A i \in 1 .. Len(vec.data) : d[i] =
            IF i \in start + 1 .. start + k THEN vec.data[i - start + f] ELSE vec.data[i]
  <2>1. d \in Seq(Cell) /\ HasMoved(d, vec.data, start, f, k)
    BY <1>1, <1>2, MovesCells
  <2> HIDE DEF d
  <2> QED
    BY <2>1 DEF HasMoved
<1> HIDE DEF d
<1>5. s \in Seq(Item) /\ Lacks(s, list, start, count)
  BY <1>1, SplicedList
<1>6. list' = s
  OBVIOUS
<1> HIDE DEF s
<1>7. Len(s) = n - count /\ \A j \in 1 .. n - count : s[j] = IF j <= start THEN list[j] ELSE list[j + count]
  BY <1>1, <1>5 DEF Lacks
<1>8. ASSUME NEW i \in 1 .. n - count
      PROVE  d[i] = s[i]
  <2>1. i \in 1 .. Len(vec.data)
    BY <1>1, <1>2
  <2>2. CASE i <= start
    <3>1. i \in 1 .. n /\ i \notin start + 1 .. start + k
      BY <1>1, <1>2, <2>2
    <3> QED
      BY <1>4, <1>7, <2>1, <2>2, <3>1, VecNow
  <2>3. CASE ~(i <= start)
    <3>1. i + count \in 1 .. n /\ i \in start + 1 .. start + k /\ i - start + f = i + count
      BY <1>1, <1>2, <2>3
    <3> QED
      BY <1>4, <1>7, <2>1, <2>3, <3>1, VecNow
  <2> QED
    BY <2>2, <2>3
<1> HIDE DEF n
<1> QED
  BY <1>2, <1>3, <1>4, <1>5, <1>6, <1>7, <1>8, VecNow, VecThen

\* What vec_swapsplice leaves.
LEMMA VecSwapSplices ==
  ASSUME VecAssumption, VecInv, ~denied, NEW start \in Indices, NEW count \in Indices,
         vec_swapsplice(start, count)
  PROVE  VecInv'
<1> DEFINE n == vec.length
           from == n - count
           d == Move(vec.data, start, from, count)
           s == SubSeq(d, 1, from)
<1>1. n \in Nat /\ n <= Len(vec.data) /\ Len(vec.data) \in Nat /\ vec.data \in Seq(Cell)
  BY VecNow
<1>2. start \in Nat /\ count \in Nat /\ start + count <= n /\ from \in Nat /\ from + count = n
      /\ from + count <= Len(vec.data) /\ from <= Len(vec.data) /\ from <= n
  BY <1>1 DEF vec_swapsplice, Indices, VecAssumption
<1>3. vec' = [data |-> d, length |-> from] /\ list' = s /\ denied' = denied
  BY DEF vec_swapsplice, SwapSource, Content
<1> HIDE DEF from
<1>4. /\ d \in Seq(Cell) /\ Len(d) = Len(vec.data)
      /\ \A i \in 1 .. Len(vec.data) : d[i] =
            IF i \in start + 1 .. start + count THEN vec.data[i - start + from] ELSE vec.data[i]
  <2>1. d \in Seq(Cell) /\ HasMoved(d, vec.data, start, from, count)
    BY <1>1, <1>2, MovesCells
  <2> HIDE DEF d
  <2> QED
    BY <2>1 DEF HasMoved
<1> HIDE DEF d, n
<1>5. ASSUME NEW i \in 1 .. from
      PROVE  d[i] \in Item
  <2>1. i \in 1 .. Len(vec.data) /\ i \in 1 .. n
    BY <1>1, <1>2
  <2>2. CASE i \in start + 1 .. start + count
    <3>1. i - start + from \in 1 .. n
      BY <1>1, <1>2, <2>2
    <3> QED
      BY <1>4, <2>1, <2>2, <3>1, VecNow DEF n
  <2>3. CASE i \notin start + 1 .. start + count
    BY <1>4, <2>1, <2>3, VecNow DEF n
  <2> QED
    BY <2>2, <2>3
<1>6. /\ s \in Seq(Cell) /\ Len(s) = from - 1 + 1
      /\ \A i \in 1 .. from - 1 + 1 : s[i] = d[1 + i - 1]
  <2>1. 1 \in 1 .. Len(d) + 1 /\ from \in 1 - 1 .. Len(d)
    BY <1>2, <1>4, <1>1
  <2> QED
    BY <1>4, <2>1, PartOf
<1> HIDE DEF s
<1>7. Len(s) = from /\ \A i \in 1 .. from : d[i] = s[i]
  <2>1. \A i \in 1 .. from : i \in 1 .. from - 1 + 1 /\ 1 + i - 1 = i
    BY <1>2
  <2> QED
    BY <1>2, <1>6, <2>1
<1>8. s \in Seq(Item)
  <2>1. s \in [1 .. from -> Item]
    <3>1. s \in [1 .. from -> Cell]
      BY <1>6, <1>7
    <3> QED
      BY <1>5, <1>7, <3>1
  <2> QED
    BY <1>2, <2>1
<1> QED
  BY <1>1, <1>2, <1>3, <1>4, <1>7, <1>8, VecNow, VecThen

\* t is s with two elements exchanged.
HasExchanged(t, s, a, b) ==
    /\ Len(t) = Len(s)
    /\ \A i \in 1 .. Len(s) : t[i] = IF i = b THEN s[a] ELSE IF i = a THEN s[b] ELSE s[i]

LEMMA SwapsTwo ==
  ASSUME NEW S, NEW s \in Seq(S), NEW a \in 1 .. Len(s), NEW b \in 1 .. Len(s)
  PROVE  Swapped(s, a, b) \in Seq(S) /\ HasExchanged(Swapped(s, a, b), s, a, b)
<1> DEFINE n == Len(s)
           t == [[s EXCEPT ![a] = s[b]] EXCEPT ![b] = s[a]]
<1>1. n \in Nat /\ s \in [1 .. n -> S]
  BY LenProperties
<1>2. Swapped(s, a, b) = t
  BY <1>1 DEF Swapped
<1>3. /\ t \in [1 .. n -> S]
      /\ \A i \in 1 .. n : t[i] = IF i = b THEN s[a] ELSE IF i = a THEN s[b] ELSE s[i]
  BY <1>1
<1> HIDE DEF t
<1>4. t \in Seq(S) /\ Len(t) = n
  BY <1>1, <1>3, Sequence
<1> QED
  BY <1>2, <1>3, <1>4 DEF HasExchanged

LEMMA VecSwaps ==
  ASSUME VecInv, ~denied, NEW i, NEW j, vec_swap(i, j)
  PROVE  VecInv'
<1> DEFINE n == vec.length
           a == i + 1
           b == j + 1
           d == Swapped(vec.data, a, b)
           s == Swapped(list, a, b)
<1>1. /\ n \in Nat /\ n <= Len(vec.data) /\ Len(vec.data) \in Nat /\ vec.data \in Seq(Cell)
      /\ list \in Seq(Item) /\ Len(list) = n
  BY VecNow
<1>2. a \in 1 .. n /\ b \in 1 .. n
  BY <1>1 DEF vec_swap
<1>3. vec' = [data |-> d, length |-> n] /\ list' = s /\ denied' = denied
  BY VecNow DEF vec_swap, AllVecs
<1> HIDE DEF a, b
<1>4. a \in 1 .. Len(vec.data) /\ b \in 1 .. Len(vec.data) /\ a \in 1 .. Len(list) /\ b \in 1 .. Len(list)
  BY <1>1, <1>2
<1>5. d \in Seq(Cell) /\ HasExchanged(d, vec.data, a, b)
  BY <1>1, <1>4, SwapsTwo
<1>6. s \in Seq(Item) /\ HasExchanged(s, list, a, b)
  BY <1>1, <1>4, SwapsTwo
<1> HIDE DEF d, s
<1>7. Len(d) = Len(vec.data) /\ Len(s) = n
  BY <1>1, <1>5, <1>6 DEF HasExchanged
<1>8. ASSUME NEW k \in 1 .. n
      PROVE  d[k] = s[k]
  <2>1. k \in 1 .. Len(vec.data) /\ k \in 1 .. Len(list)
    BY <1>1
  <2>2. /\ d[k] = IF k = b THEN vec.data[a] ELSE IF k = a THEN vec.data[b] ELSE vec.data[k]
        /\ s[k] = IF k = b THEN list[a] ELSE IF k = a THEN list[b] ELSE list[k]
    BY <1>5, <1>6, <2>1 DEF HasExchanged
  <2>3. vec.data[a] = list[a] /\ vec.data[b] = list[b] /\ vec.data[k] = list[k]
    BY <1>2, VecNow
  <2> QED
    BY <2>2, <2>3
<1> HIDE DEF n
<1> QED
  BY <1>1, <1>3, <1>5, <1>6, <1>7, <1>8, VecNow, VecThen

\* vec_reserve and vec_compact change memory only.
LEMMA VecReserves ==
  ASSUME VecAssumption, VecInv, ~denied,
         (\E n \in Indices : vec_reserve(n)) \/ vec_compact
  PROVE  VecInv'
<1>1. list' = list /\ denied' = denied
  BY DEF vec_reserve, vec_compact
<1>2. CASE UNCHANGED vec
  BY <1>1, <1>2 DEF VecInv, Shows
<1>3. CASE vec' = Resized(vec, vec.length)
  <2> DEFINE w == Resized(vec, vec.length)
  <2>1. /\ w \in AllVecs /\ w.length = vec.length /\ Len(w.data) = vec.length
        /\ \A i \in 1 .. vec.length : i <= Len(vec.data) => w.data[i] = vec.data[i]
    BY VecNow, Resizes
  <2> HIDE DEF w
  <2>2. w = [data |-> w.data, length |-> vec.length] /\ w.data \in Seq(Cell)
    BY <2>1 DEF AllVecs
  <2>3. \A i \in 1 .. vec.length : w.data[i] = list[i]
    BY <2>1, VecNow
  <2>4. vec' = w
    BY <1>3 DEF w
  <2>5. vec.length \in Nat /\ vec.length <= Len(w.data) /\ list \in Seq(Item) /\ Len(list) = vec.length
        /\ denied' \in BOOLEAN
    BY <1>1, <2>1, VecNow
  <2> QED
    BY <1>1, <2>2, <2>3, <2>4, <2>5, VecThen
<1>4. ASSUME NEW n \in Indices, vec_reserve(n)
      PROVE  VecInv'
  <2>1. PICK r \in vec_reserve_(vec, n) : vec' = r.v
    BY <1>4 DEF vec_reserve
  <2>2. n \in Nat /\ 0 <= n /\ 0 \in Nat
    BY DEF Indices, VecAssumption
  <2>3. Reserves(vec, r, 0)
    BY <2>2, VecNow, ReserveMakesRoom
  <2> DEFINE w == r.v
  <2>4. /\ w \in AllVecs /\ w.length = vec.length /\ Len(w.data) >= Len(vec.data)
        /\ \A i \in 1 .. Len(vec.data) : w.data[i] = vec.data[i]
    BY <2>3 DEF Reserves
  <2> HIDE DEF w
  <2>5. w = [data |-> w.data, length |-> vec.length] /\ w.data \in Seq(Cell) /\ Len(w.data) \in Nat
    BY <2>4 DEF AllVecs
  <2>6. \A i \in 1 .. vec.length : w.data[i] = list[i]
    BY <2>4, VecNow
  <2>7. vec' = w
    BY <2>1 DEF w
  <2>8. vec.length \in Nat /\ vec.length <= Len(w.data) /\ list \in Seq(Item) /\ Len(list) = vec.length
        /\ denied' \in BOOLEAN
    BY <1>1, <2>4, <2>5, VecNow
  <2> QED
    BY <1>1, <2>5, <2>6, <2>7, <2>8, VecThen
<1> QED
  BY <1>2, <1>3, <1>4 DEF vec_compact

\* The size of the loop of vec_reserve_po2_ after k rounds.
SizesUpTo(n, m, f) ==
    f = [k \in 0 .. m |->
            IF k = 0 THEN 1 ELSE IF f[k - 1] < n THEN 2 * f[k - 1] ELSE f[k - 1]]

LEMMA SizesExist ==
  ASSUME NEW n \in Nat, NEW m \in Nat
  PROVE  \E f : SizesUpTo(n, m, f)
<1> DEFINE P(k) == \E f : SizesUpTo(n, k, f)
           Bad == {k \in Nat : ~P(k)}
<1>1. P(0)
  <2>1. SizesUpTo(n, 0, [k \in 0 .. 0 |-> 1])
    BY DEF SizesUpTo
  <2> QED
    BY <2>1
<1>2. ASSUME NEW k \in Nat, P(k) PROVE P(k + 1)
  <2>1. PICK f : SizesUpTo(n, k, f)
    BY <1>2
  <2> DEFINE g == [i \in 0 .. k + 1 |->
                     IF i = 0 THEN 1 ELSE IF f[i - 1] < n THEN 2 * f[i - 1] ELSE f[i - 1]]
  <2>2. ASSUME NEW i \in 0 .. k PROVE g[i] = f[i]
    <3>1. f[i] = (IF i = 0 THEN 1 ELSE IF f[i - 1] < n THEN 2 * f[i - 1] ELSE f[i - 1])
      BY <2>1, Zenon DEF SizesUpTo
    <3>2. i \in 0 .. k + 1
      OBVIOUS
    <3> QED
      BY <3>1, <3>2, Zenon
  <2>3. ASSUME NEW i \in 0 .. k + 1, i # 0 PROVE g[i - 1] = f[i - 1]
    <3>1. i - 1 \in 0 .. k
      BY <2>3
    <3> QED
      BY <2>2, <3>1
  <2>4. SizesUpTo(n, k + 1, g)
    BY <2>3 DEF SizesUpTo
  <2> QED
    BY <2>4
<1>3. Bad = {}
  <2> SUFFICES ASSUME Bad # {} PROVE FALSE
    OBVIOUS
  <2> HIDE DEF P
  <2>1. PICK k \in Bad : \A j \in Bad : k <= j
    BY SmallestMember
  <2>2. CASE k = 0
    BY <1>1, <2>2
  <2>3. CASE k # 0
    <3>1. k - 1 \in Nat /\ k - 1 \notin Bad /\ k = (k - 1) + 1
      BY <2>1, <2>3
    <3> QED
      BY <1>2, <3>1
  <2> QED
    BY <2>2, <2>3
<1> QED
  BY <1>3

LEMMA PowerIsEnough ==
  ASSUME NEW n \in Nat, n # 0
  PROVE  PowerOf2(n) \in Nat /\ n <= PowerOf2(n)
<1> DEFINE Q(f) == SizesUpTo(n, n, f)
           f == CHOOSE g : Q(g)
<1>1. Q(f)
  <2>1. \E g : Q(g)
    BY SizesExist
  <2> HIDE DEF Q
  <2> QED
    BY <2>1
<1>2. PowerOf2(n) = f[n]
  BY Zenon DEF PowerOf2, SizesUpTo
<1> HIDE DEF f
<1> DEFINE Bad == {k \in Nat : k <= n /\ ~(f[k] \in Nat /\ (f[k] >= n \/ f[k] > k))}
<1>3. Bad = {}
  <2> SUFFICES ASSUME Bad # {} PROVE FALSE
    OBVIOUS
  <2>1. PICK k \in Bad : \A j \in Bad : k <= j
    BY SmallestMember
  <2>2. f[k] = (IF k = 0 THEN 1 ELSE IF f[k - 1] < n THEN 2 * f[k - 1] ELSE f[k - 1])
    <3>1. k \in 0 .. n
      OBVIOUS
    <3> QED
      BY <1>1, <3>1, Zenon DEF SizesUpTo
  <2>3. CASE k = 0
    BY <2>2, <2>3
  <2>4. CASE k # 0
    <3>1. k - 1 \in Nat /\ k - 1 \notin Bad /\ k - 1 <= n
      BY <2>1, <2>4
    <3>2. f[k - 1] \in Nat /\ (f[k - 1] >= n \/ f[k - 1] > k - 1)
      BY <3>1
    <3> QED
      BY <2>2, <2>4, <3>2
  <2> QED
    BY <2>3, <2>4
<1>4. n \notin Bad
  BY <1>3
<1> QED
  BY <1>2, <1>4
\* vec_pop and vec_truncate.
LEMMA VecPopsAndTruncates ==
  ASSUME VecAssumption, VecInv, ~denied, vec_pop \/ \E n \in Indices : vec_truncate(n)
  PROVE  VecInv'
<1>1. CASE vec_pop
  <2> DEFINE k == vec.length - 1
  <2>1. k \in 0 .. vec.length /\ vec' = [vec EXCEPT !.length = k] /\ denied' = denied
    BY <1>1, VecNow DEF vec_pop
  <2>2. list' = SubSeq(list, 1, k)
    BY <1>1, VecNow DEF vec_pop, Front
  <2> HIDE DEF k
  <2> QED
    BY <2>1, <2>2, Shortens
<1>2. ASSUME NEW n \in Indices, vec_truncate(n)
      PROVE  VecInv'
  <2> DEFINE k == IF n < vec.length THEN n ELSE vec.length
  <2>1. n \in Nat
    BY DEF Indices, VecAssumption
  <2>2. k \in 0 .. vec.length /\ vec' = [vec EXCEPT !.length = k] /\ denied' = denied
    BY <1>2, <2>1, VecNow DEF vec_truncate
  <2>3. (vec').length = k
    BY <2>2, VecNow DEF AllVecs
  <2>4. list' = SubSeq(list, 1, k)
    BY <1>2, <2>3 DEF vec_truncate
  <2> HIDE DEF k
  <2> QED
    BY <2>2, <2>4, Shortens
<1> QED
  BY <1>1, <1>2

\* vec_pusharr and vec_extend.
LEMMA VecPushesAll ==
  ASSUME VecInv, ~denied, NEW s \in Seq(Item), vec_pusharr(s)
  PROVE  VecInv'
<1> DEFINE n == vec.length
           m == Len(s)
           k == n + m
<1>1. n \in Nat /\ m \in Nat /\ k \in Nat /\ list \in Seq(Item) /\ Len(list) = n
  BY VecNow
<1>2. PICK r \in vec_reserve_po2_(vec, k) :
        IF r.ok
        THEN /\ vec' = [data |-> [i \in DOMAIN r.v.data |->
                            IF i \in n + 1 .. k THEN s[i - n] ELSE r.v.data[i]],
                        length |-> k]
             /\ list' = list \o s
        ELSE UNCHANGED <<vec, list>>
  BY DEF vec_pusharr
<1>3. denied' = denied
  BY DEF vec_pusharr
<1>4. CASE ~r.ok
  BY <1>2, <1>3, <1>4 DEF VecInv, Shows
<1>5. CASE r.ok
  <2>1. Reserves(vec, r, k)
    <3>1. CASE k = 0
      <4>1. r = [ok |-> TRUE, v |-> vec]
        BY <3>1 DEF vec_reserve_po2_
      <4> QED
        BY <3>1, <4>1, VecNow DEF Reserves
    <3>2. CASE k # 0
      <4> DEFINE p == PowerOf2(k)
      <4>1. r \in vec_reserve_(vec, p)
        BY <3>2 DEF vec_reserve_po2_
      <4> HIDE DEF k
      <4>2. p \in Nat /\ k <= p
        BY <1>1, <3>2, PowerIsEnough
      <4> HIDE DEF p
      <4> QED
        BY <1>1, <4>1, <4>2, VecNow, ReserveMakesRoom
    <3> QED
      BY <3>1, <3>2
  <2> DEFINE d == r.v.data
             e == [i \in 1 .. Len(d) |-> IF i \in n + 1 .. k THEN s[i - n] ELSE d[i]]
             t == list \o s
  <2>2. /\ d \in Seq(Cell) /\ Len(d) \in Nat /\ k <= Len(d) /\ \A i \in 1 .. n : d[i] = list[i]
    <3>1. /\ r.v \in AllVecs /\ Len(r.v.data) >= k
          /\ \A j \in 1 .. Len(vec.data) : r.v.data[j] = vec.data[j]
      BY <1>5, <2>1 DEF Reserves
    <3>2. Len(r.v.data) \in Nat /\ r.v.data \in Seq(Cell)
      BY <3>1 DEF AllVecs
    <3> QED
      BY <3>1, <3>2, <1>1, VecNow
  <2>3. vec' = [data |-> e, length |-> k] /\ list' = t
    <3>1. DOMAIN d = 1 .. Len(d)
      BY <2>2
    <3> QED
      BY <1>2, <1>5, <3>1, Zenon
  <2> HIDE DEF d
  <2>4. ASSUME NEW i \in 1 .. Len(d)
        PROVE  e[i] \in Cell
    <3>1. CASE i \in n + 1 .. k
      <4>1. i - n \in 1 .. m
        BY <1>1, <3>1
      <4>2. s[i - n] \in Item
        BY <4>1
      <4> QED
        BY <3>1, <4>2 DEF Cell
    <3>2. CASE i \notin n + 1 .. k
      BY <2>2, <3>2
    <3> QED
      BY <3>1, <3>2
  <2>5. e \in [1 .. Len(d) -> Cell]
    BY <2>4
  <2>6. \A i \in 1 .. Len(d) : e[i] = IF i \in n + 1 .. k THEN s[i - n] ELSE d[i]
    OBVIOUS
  <2> HIDE DEF e
  <2>7. e \in Seq(Cell) /\ Len(e) = Len(d)
    BY <2>2, <2>5, Sequence
  <2>8. /\ t \in Seq(Item) /\ Len(t) = n + m
        /\ \A i \in 1 .. n + m : t[i] = IF i <= n THEN list[i] ELSE s[i - n]
    BY <1>1, ConcatProperties
  <2> HIDE DEF t
  <2>9. ASSUME NEW i \in 1 .. k
        PROVE  e[i] = t[i]
    <3>1. i \in 1 .. Len(d) /\ i \in 1 .. n + m
      BY <1>1, <2>2
    <3>2. CASE i <= n
      <4>1. i \in 1 .. n /\ i \notin n + 1 .. k
        BY <1>1, <3>2
      <4> QED
        BY <2>2, <2>6, <2>8, <3>1, <3>2, <4>1
    <3>3. CASE ~(i <= n)
      <4>1. i \in n + 1 .. k
        BY <1>1, <3>3
      <4> QED
        BY <2>6, <2>8, <3>1, <3>3, <4>1
    <3> QED
      BY <3>2, <3>3
  <2>10. Len(t) = k /\ denied' \in BOOLEAN /\ k <= Len(e)
    BY <1>3, <2>2, <2>7, <2>8, VecNow
  <2> HIDE DEF k, n, m
  <2> QED
    BY <1>1, <2>3, <2>7, <2>8, <2>9, <2>10, VecThen
<1> QED
  BY <1>4, <1>5

\* vec_find returns the first place, the one RemoveFirst takes out.
LEMMA FindsFirst ==
  ASSUME VecInv, ~denied, NEW x, NEW i \in 1 .. vec.length, list[i] = x
  PROVE  /\ vec_find(vec, x) \in 0 .. vec.length - 1
         /\ RemoveFirst(list, x) = ListSpliced(list, vec_find(vec, x), 1)
<1> DEFINE n == vec.length
           Places == {j \in 1 .. n : list[j] = x}
           p == Min(Places)
           f == p - 1
<1>1. n \in Nat /\ Len(list) = n /\ \A j \in 1 .. n : vec.data[j] = list[j]
  BY VecNow
<1>2. p \in Places /\ \A j \in Places : p <= j
  <2>1. Places \in SUBSET Nat /\ i \in Places
    BY <1>1
  <2>2. \E j \in Places : \A k \in Places : j <= k
    <3> HIDE DEF Places
    <3> QED
      BY <2>1, SmallestMember
  <2> HIDE DEF Places
  <2> QED
    BY <2>2 DEF Min
<1>3. p \in 1 .. n /\ list[p] = x /\ \A j \in 1 .. n : list[j] = x => p <= j
  BY <1>2
<1>4. RemoveFirst(list, x) = RemoveAt(list, p)
  <2>1. SelectInSeq(list, LAMBDA v : v = x) = p
    <3>1. Places # {}
      BY <1>2
    <3> QED
      BY <1>1, <3>1, Zenon DEF SelectInSeq
  <2> QED
    BY <1>1, <2>1 DEF RemoveFirst
<1> HIDE DEF p
<1>5. f \in 0 .. n - 1 /\ p = f + 1 /\ f \in Nat
  BY <1>1, <1>3
<1> HIDE DEF f
<1>6. vec.data[f + 1] = x /\ \A j \in 1 .. f : vec.data[j] # x
  <2>1. \A j \in 1 .. f : j \in 1 .. n /\ ~(p <= j)
    BY <1>1, <1>5
  <2> QED
    BY <1>1, <1>3, <1>5, <2>1
<1>7. vec_find(vec, x) = f
  <2> DEFINE First(g) == vec.data[g + 1] = x /\ \A j \in 1 .. g : vec.data[j] # x
  <2>1. First(f)
    BY <1>6
  <2>2. ASSUME NEW g \in 0 .. n - 1, First(g)
        PROVE  g = f
    <3>1. ~(g < f)
      <4> SUFFICES ASSUME g < f PROVE FALSE
        OBVIOUS
      <4>1. g + 1 \in 1 .. f
        BY <1>5
      <4> QED
        BY <1>6, <2>2, <4>1
    <3>2. ~(f < g)
      <4> SUFFICES ASSUME f < g PROVE FALSE
        OBVIOUS
      <4>1. f + 1 \in 1 .. g
        BY <1>5
      <4> QED
        BY <1>6, <2>2, <4>1
    <3> QED
      BY <1>5, <3>1, <3>2
  <2>3. \E g \in 0 .. n - 1 : vec.data[g + 1] = x
    BY <1>5, <1>6
  <2>4. vec_find(vec, x) = CHOOSE g \in 0 .. n - 1 : First(g)
    BY <2>3 DEF vec_find
  <2> HIDE DEF First
  <2> QED
    BY <1>5, <2>1, <2>2, <2>4
<1>8. RemoveAt(list, p) = ListSpliced(list, f, 1)
  <2>1. p - 1 = f /\ p + 1 = f + 1 + 1
    BY <1>5
  <2> QED
    BY <2>1 DEF RemoveAt, ListSpliced
<1> QED
  BY <1>4, <1>5, <1>7, <1>8

LEMMA VecRemoves ==
  ASSUME VecInv, ~denied, NEW x, vec_remove(x)
  PROVE  VecInv'
<1> DEFINE f == vec_find(vec, x)
<1>1. denied' = denied
  BY DEF vec_remove
<1>2. CASE \E i \in 1 .. vec.length : list[i] = x
  <2>1. f \in 0 .. vec.length - 1 /\ RemoveFirst(list, x) = ListSpliced(list, f, 1)
    BY <1>2, FindsFirst
  <2>2. x \in ToSet(list)
    BY <1>2, VecNow DEF ToSet
  <2>3. f # -1 /\ f \in Nat /\ f + 1 <= vec.length /\ 1 \in Nat
    BY <2>1, VecNow
  <2>4. vec' = Spliced(vec, f, 1) /\ list' = ListSpliced(list, f, 1)
    BY <2>1, <2>2, <2>3 DEF vec_remove
  <2> HIDE DEF f
  <2> QED
    BY <1>1, <2>3, <2>4, VecSplices
<1>3. CASE ~\E i \in 1 .. vec.length : list[i] = x
  <2>1. x \notin ToSet(list)
    BY <1>3, VecNow DEF ToSet
  <2>2. f = -1
    <3>1. ASSUME NEW i \in 0 .. vec.length - 1
          PROVE  vec.data[i + 1] # x
      <4>1. i + 1 \in 1 .. vec.length
        BY VecNow
      <4>2. vec.data[i + 1] = list[i + 1]
        BY <4>1, VecNow
      <4> QED
        BY <1>3, <4>1, <4>2
    <3> QED
      BY <3>1, Zenon DEF vec_find
  <2>3. vec' = vec /\ list' = list
    BY <2>1, <2>2 DEF vec_remove
  <2> QED
    BY <1>1, <2>3 DEF VecInv, Shows
<1> QED
  BY <1>2, <1>3

\* The memory after k of the h swaps of vec_reverse.
TurnedUpTo(d, n, h, m, f) ==
    f = [k \in 0 .. m |->
            IF k = 0 THEN d ELSE Swapped(f[k - 1], h - k + 1, n - (h - k))]

LEMMA TurnsOfVecExist ==
  ASSUME NEW d, NEW n, NEW h, NEW m \in Nat
  PROVE  \E f : TurnedUpTo(d, n, h, m, f)
<1> DEFINE P(k) == \E f : TurnedUpTo(d, n, h, k, f)
           Bad == {k \in Nat : ~P(k)}
<1>1. P(0)
  <2>1. TurnedUpTo(d, n, h, 0, [k \in 0 .. 0 |-> d])
    BY DEF TurnedUpTo
  <2> QED
    BY <2>1
<1>2. ASSUME NEW k \in Nat, P(k) PROVE P(k + 1)
  <2>1. PICK f : TurnedUpTo(d, n, h, k, f)
    BY <1>2
  <2> DEFINE g == [i \in 0 .. k + 1 |->
                     IF i = 0 THEN d ELSE Swapped(f[i - 1], h - i + 1, n - (h - i))]
  <2>2. ASSUME NEW i \in 0 .. k PROVE g[i] = f[i]
    <3>1. f[i] = (IF i = 0 THEN d ELSE Swapped(f[i - 1], h - i + 1, n - (h - i)))
      BY <2>1, Zenon DEF TurnedUpTo
    <3>2. i \in 0 .. k + 1
      OBVIOUS
    <3> QED
      BY <3>1, <3>2, Zenon
  <2>3. ASSUME NEW i \in 0 .. k + 1, i # 0 PROVE g[i - 1] = f[i - 1]
    <3>1. i - 1 \in 0 .. k
      BY <2>3
    <3> QED
      BY <2>2, <3>1
  <2>4. TurnedUpTo(d, n, h, k + 1, g)
    BY <2>3 DEF TurnedUpTo
  <2> QED
    BY <2>4
<1>3. Bad = {}
  <2> SUFFICES ASSUME Bad # {} PROVE FALSE
    OBVIOUS
  <2> HIDE DEF P
  <2>1. PICK k \in Bad : \A j \in Bad : k <= j
    BY SmallestMember
  <2>2. CASE k = 0
    BY <1>1, <2>2
  <2>3. CASE k # 0
    <3>1. k - 1 \in Nat /\ k - 1 \notin Bad /\ k = (k - 1) + 1
      BY <2>1, <2>3
    <3> QED
      BY <1>2, <3>1
  <2> QED
    BY <2>2, <2>3
<1> QED
  BY <1>3

\* e is d with the first n elements turned round, but for those in the
\* middle that h and k tell.
HasTurned(e, d, n, h, k) ==
    /\ e \in Seq(Cell) /\ Len(e) = Len(d)
    /\ \A i \in 1 .. Len(d) :
            e[i] = IF i \in h - k + 1 .. h \/ i \in n - h + 1 .. n - h + k
                   THEN d[n + 1 - i] ELSE d[i]

\* One more swap.
LEMMA TurnsFurther ==
  ASSUME NEW d \in Seq(Cell), NEW n \in Nat, n <= Len(d), NEW h \in Nat, h + h <= n,
         NEW j \in 0 .. h - 1, NEW e, HasTurned(e, d, n, h, j)
  PROVE  HasTurned(Swapped(e, h - (j + 1) + 1, n - (h - (j + 1))), d, n, h, j + 1)
<1> DEFINE a == h - (j + 1) + 1
           b == n - (h - (j + 1))
           k == j + 1
           g == Swapped(e, a, b)
           m == Len(d)
<1>1. m \in Nat /\ n <= m /\ a \in 1 .. m /\ b \in 1 .. m /\ a = h - j /\ b = n - h + j + 1 /\ j \in Nat
      /\ k = j + 1 /\ j < h
  BY LenProperties
<1>2. /\ e \in Seq(Cell) /\ Len(e) = m
      /\ \A i \in 1 .. m : e[i] = IF i \in h - j + 1 .. h \/ i \in n - h + 1 .. n - h + j
                                  THEN d[n + 1 - i] ELSE d[i]
  BY DEF HasTurned
<1> HIDE DEF a, b, m, k
<1>3. g \in Seq(Cell) /\ HasExchanged(g, e, a, b)
  BY <1>1, <1>2, SwapsTwo
<1> HIDE DEF g
<1>4. Len(g) = m /\ \A i \in 1 .. m : g[i] = IF i = b THEN e[a] ELSE IF i = a THEN e[b] ELSE e[i]
  BY <1>2, <1>3 DEF HasExchanged
<1>5. e[a] = d[a] /\ e[b] = d[b] /\ n + 1 - a = b /\ n + 1 - b = a
  <2>1. a \notin h - j + 1 .. h /\ a \notin n - h + 1 .. n - h + j
    BY <1>1
  <2>2. b \notin h - j + 1 .. h /\ b \notin n - h + 1 .. n - h + j
    BY <1>1
  <2> QED
    BY <1>1, <1>2, <2>1, <2>2
<1>6. ASSUME NEW i \in 1 .. m
      PROVE  g[i] = IF i \in h - k + 1 .. h \/ i \in n - h + 1 .. n - h + k
                    THEN d[n + 1 - i] ELSE d[i]
  <2>1. CASE i = b
    <3>1. i \in n - h + 1 .. n - h + k
      BY <1>1, <2>1
    <3>2. g[i] = e[a]
      BY <1>4, <2>1
    <3>3. d[n + 1 - i] = d[a]
      BY <1>5, <2>1
    <3> QED
      BY <1>5, <3>1, <3>2, <3>3
  <2>2. CASE i = a /\ i # b
    <3>1. i \in h - k + 1 .. h
      BY <1>1, <2>2
    <3>2. g[i] = e[b]
      BY <1>4, <2>2
    <3>3. d[n + 1 - i] = d[b]
      BY <1>5, <2>2
    <3> QED
      BY <1>5, <3>1, <3>2, <3>3
  <2>3. CASE i # a /\ i # b
    <3>1. /\ i \in h - k + 1 .. h <=> i \in h - j + 1 .. h
          /\ i \in n - h + 1 .. n - h + k <=> i \in n - h + 1 .. n - h + j
      BY <1>1, <2>3
    <3>2. g[i] = e[i]
      BY <1>4, <2>3
    <3> QED
      BY <1>2, <3>1, <3>2
  <2> QED
    BY <2>1, <2>2, <2>3
<1>7. HasTurned(g, d, n, h, k)
  BY <1>3, <1>4, <1>6 DEF HasTurned, m
<1> QED
  BY <1>7 DEF g, a, b, k

LEMMA VecReverses ==
  ASSUME VecInv, ~denied, vec_reverse
  PROVE  VecInv'
<1> DEFINE n == vec.length
           h == n \div 2
           d == vec.data
           Q(f) == TurnedUpTo(d, n, h, h, f)
           f == CHOOSE g : Q(g)
           s == Reverse(list)
<1>1. n \in Nat /\ n <= Len(d) /\ d \in Seq(Cell) /\ list \in Seq(Item) /\ Len(list) = n
      /\ Len(d) \in Nat /\ \A i \in 1 .. n : d[i] = list[i] /\ list[i] \in Item
  BY VecNow
<1>2. h \in Nat /\ h + h <= n /\ n <= h + h + 1
  <2> HIDE DEF n
  <2> QED
    BY <1>1
<1>3. Q(f)
  <2>1. \E g : Q(g)
    <3> HIDE DEF h
    <3> QED
      BY <1>2, TurnsOfVecExist
  <2> HIDE DEF Q
  <2> QED
    BY <2>1
<1>4. Mirror(vec) = f[h]
  BY Zenon DEF Mirror, TurnedUpTo
<1> HIDE DEF f, h
<1> DEFINE Bad == {k \in Nat : k <= h /\ ~HasTurned(f[k], d, n, h, k)}
<1>5. Bad = {}
  <2> SUFFICES ASSUME Bad # {} PROVE FALSE
    OBVIOUS
  <2>1. PICK k \in Bad : \A j \in Bad : k <= j
    BY SmallestMember
  <2>2. f[k] = (IF k = 0 THEN d ELSE Swapped(f[k - 1], h - k + 1, n - (h - k)))
    <3>1. k \in 0 .. h
      BY <1>2
    <3> QED
      BY <1>3, <3>1, Zenon DEF TurnedUpTo
  <2> HIDE DEF d, n
  <2>3. CASE k = 0
    <3>1. \A i \in 1 .. Len(d) : i \notin h - k + 1 .. h /\ i \notin n - h + 1 .. n - h + k
      BY <1>1, <1>2, <2>3
    <3>2. HasTurned(f[k], d, n, h, k)
      BY <1>1, <2>2, <2>3, <3>1 DEF HasTurned
    <3> QED
      BY <3>2
  <2>4. CASE k # 0
    <3> DEFINE j == k - 1
               e == f[j]
    <3>1. j \in Nat /\ j \notin Bad /\ j <= h /\ j \in 0 .. h - 1 /\ j + 1 = k
      BY <1>2, <2>1, <2>4
    <3>2. HasTurned(e, d, n, h, j)
      BY <3>1
    <3> HIDE DEF Bad, e
    <3>3. HasTurned(Swapped(e, h - (j + 1) + 1, n - (h - (j + 1))), d, n, h, j + 1)
      BY <1>1, <1>2, <3>1, <3>2, TurnsFurther
    <3>4. f[k] = Swapped(e, h - (j + 1) + 1, n - (h - (j + 1)))
      BY <2>2, <2>4, <3>1 DEF e
    <3>5. HasTurned(f[k], d, n, h, k)
      BY <3>1, <3>3, <3>4
    <3> QED
      BY <3>5 DEF Bad
  <2> QED
    BY <2>3, <2>4
<1> DEFINE e == f[h]
<1>6. HasTurned(e, d, n, h, h)
  <2>1. h \in Nat /\ h <= h /\ h \notin Bad
    BY <1>2, <1>5
  <2> QED
    BY <2>1
<1>7. vec' = [data |-> e, length |-> n] /\ list' = s /\ denied' = denied
  BY <1>4, VecNow DEF vec_reverse, AllVecs
<1> HIDE DEF e, d, n
<1>8. e \in Seq(Cell) /\ Len(e) = Len(d)
  BY <1>6 DEF HasTurned
<1>9. s = [i \in 1 .. n |-> list[(n - i) + 1]]
  BY <1>1 DEF Reverse
<1>10. s \in Seq(Item) /\ Len(s) = n
  <2>1. \A i \in 1 .. n : (n - i) + 1 \in 1 .. n
    BY <1>1
  <2>2. s \in [1 .. n -> Item]
    BY <1>1, <1>9, <2>1
  <2> HIDE DEF s
  <2> QED
    BY <1>1, <2>2, Sequence
<1>11. ASSUME NEW i \in 1 .. n
       PROVE  e[i] = s[i]
  <2>1. i \in 1 .. Len(d) /\ n + 1 - i \in 1 .. n /\ (n - i) + 1 = n + 1 - i
    BY <1>1
  <2>2. s[i] = list[n + 1 - i]
    BY <1>9, <2>1
  <2>3. CASE i \in h - h + 1 .. h \/ i \in n - h + 1 .. n - h + h
    <3>1. e[i] = d[n + 1 - i]
      BY <1>6, <2>1, <2>3 DEF HasTurned
    <3> QED
      BY <1>1, <2>1, <2>2, <3>1
  <2>4. CASE ~(i \in h - h + 1 .. h \/ i \in n - h + 1 .. n - h + h)
    <3>1. n + 1 - i = i
      BY <1>1, <1>2, <2>4
    <3>2. e[i] = d[i]
      BY <1>6, <2>1, <2>4 DEF HasTurned
    <3> QED
      BY <1>1, <2>2, <3>1, <3>2
  <2> QED
    BY <2>3, <2>4
<1> HIDE DEF s
<1> QED
  BY <1>1, <1>7, <1>8, <1>10, <1>11, VecNow, VecThen
LEMMA VecStarts ==
  ASSUME VecInit
  PROVE  VecInv
<1>1. vec = [data |-> <<>>, length |-> 0] /\ list = <<>> /\ denied = FALSE
  BY DEF VecInit
<1>2. <<>> \in Seq(Cell) /\ <<>> \in Seq(Item) /\ Len(<<>>) = 0
  OBVIOUS
<1>3. vec \in AllVecs /\ vec.length = 0 /\ vec.data = <<>>
  BY <1>1, <1>2 DEF AllVecs
<1>4. Shows(vec, list)
  BY <1>1, <1>2, <1>3 DEF Shows
<1> QED
  BY <1>1, <1>3, <1>4 DEF VecInv

LEMMA VecStep ==
  ASSUME VecAssumption, VecInv, [VecNext]_vecVars
  PROVE  VecInv'
<1>1. CASE UNCHANGED vecVars
  BY <1>1 DEF VecInv, Shows, vecVars
<1>2. CASE VecNext
  <2>1. ~denied
    BY <1>2 DEF VecNext
  <2>2. CASE vec_pop \/ \E n \in Indices : vec_truncate(n)
    BY <2>1, <2>2, VecPopsAndTruncates
  <2>3. CASE vec_compact \/ \E n \in Indices : vec_reserve(n)
    BY <2>1, <2>3, VecReserves
  <2>4. CASE vec_reverse
    BY <2>1, <2>4, VecReverses
  <2>5. CASE vec_pusharr(Content(vec)) \/ vec_pusharr(<<>>)
    <3>1. Content(vec) = list /\ list \in Seq(Item) /\ <<>> \in Seq(Item)
      BY <2>1, ShownIsContent, VecNow
    <3> QED
      BY <2>1, <2>5, <3>1, VecPushesAll
  <2>6. ASSUME NEW x \in Item, vec_push(x) \/ vec_remove(x)
        PROVE  VecInv'
    BY <2>1, <2>6, Pushes, VecRemoves
  <2>7. ASSUME NEW i \in Indices, NEW x \in Item, vec_insert(i, x)
        PROVE  VecInv'
    BY <2>1, <2>7, VecInserts
  <2>8. ASSUME NEW i \in Indices, NEW j \in Indices,
               vec_splice(i, j) \/ vec_swapsplice(i, j) \/ vec_swap(i, j)
        PROVE  VecInv'
    <3>1. i \in Nat /\ j \in Nat
      BY DEF Indices, VecAssumption
    <3>2. CASE vec_splice(i, j)
      BY <2>1, <3>1, <3>2, VecSplices DEF vec_splice
    <3> QED
      BY <2>1, <2>8, <3>2, VecSwapSplices, VecSwaps
  <2> QED
    BY <1>2, <2>2, <2>3, <2>4, <2>5, <2>6, <2>7, <2>8 DEF VecNext
<1> QED
  BY <1>1, <1>2

\* Whatever mixture of growing, moving and giving memory back, the elements
\* that count are the sequence the calls describe.
THEOREM VecIsTheList == VecAssumption => (VecSpec => []IsTheList)
<1> SUFFICES ASSUME VecAssumption PROVE VecSpec => []IsTheList
  OBVIOUS
<1>1. VecInit => VecInv
  BY VecStarts
<1>2. VecInv /\ [VecNext]_vecVars => VecInv'
  BY VecStep
<1>3. VecInv => IsTheList
  <2> SUFFICES ASSUME VecInv, ~denied PROVE vec.length <= Capacity(vec) /\ Content(vec) = list
    BY DEF IsTheList
  <2> QED
    BY VecNow, ShownIsContent DEF Capacity
<1> QED
  BY <1>1, <1>2, <1>3, PTL DEF VecSpec

-----------------------------------------------------------------------------
(* What vec_swapsplice loses. *)

\* t is s after vec_swapsplice.
HasSwapped(t, s, start, count) ==
    /\ Len(t) = Len(s) - count
    /\ \A i \in 1 .. Len(s) - count :
            t[i] = IF i \in start + 1 .. start + count THEN s[i - start + (Len(s) - count)] ELSE s[i]

\* The set that is left is right if there are none behind or at least count;
\* else the last element is lost.
LEMMA SwapSpliceExact ==
  ASSUME NEW s \in Seq(Item), NEW start \in Nat, NEW count \in Nat, start + count <= Len(s),
         IsInjective(s), NEW t \in Seq(Item), HasSwapped(t, s, start, count)
  PROVE  (ToSet(t) = ToSet(ListSpliced(s, start, count)))
            <=> (Len(s) - start - count = 0 \/ Len(s) - start - count >= count)
<1> DEFINE n == Len(s)
           m == n - count
           behind == n - start - count
           u == ListSpliced(s, start, count)
<1>1. n \in Nat /\ m \in Nat /\ behind \in Nat /\ m = start + behind /\ n = m + count
  BY LenProperties
<1>2. u \in Seq(Item) /\ Len(u) = m /\ \A j \in 1 .. m : u[j] = IF j <= start THEN s[j] ELSE s[j + count]
  <2>1. u \in Seq(Item) /\ Lacks(u, s, start, count)
    BY SplicedList
  <2> QED
    BY <2>1 DEF Lacks
<1>3. Len(t) = m /\ \A i \in 1 .. m : t[i] = IF i \in start + 1 .. start + count THEN s[i - start + m] ELSE s[i]
  BY DEF HasSwapped
<1>4. ToSet(t) = {t[i] : i \in 1 .. m} /\ ToSet(u) = {u[i] : i \in 1 .. m}
  BY <1>2, <1>3 DEF ToSet
<1>5. \A i, j \in 1 .. n : s[i] = s[j] => i = j
  BY DEF IsInjective
<1> HIDE DEF n, m, behind, u
<1>6. CASE behind = 0
  <2>1. \A i \in 1 .. m : t[i] = u[i]
    BY <1>1, <1>2, <1>3, <1>6
  <2>2. ToSet(t) = ToSet(u)
    BY <1>4, <2>1
  <2> QED
    BY <1>6, <2>2 DEF u, behind, n
<1>7. CASE behind >= count
  <2>1. ASSUME NEW i \in 1 .. m
        PROVE  t[i] \in ToSet(u)
    <3>1. CASE i <= start
      <4>1. t[i] = u[i]
        BY <1>1, <1>2, <1>3, <3>1
      <4> QED
        BY <1>4, <4>1
    <3>2. CASE i \in start + 1 .. start + count
      <4> DEFINE j == i - start + (m - count)
      <4>1. j \in 1 .. m /\ ~(j <= start) /\ j + count = i - start + m
        BY <1>1, <1>7, <3>2
      <4>2. t[i] = u[j]
        BY <1>2, <1>3, <3>2, <4>1
      <4> QED
        BY <1>4, <4>1, <4>2
    <3>3. CASE i > start + count
      <4> DEFINE j == i - count
      <4>1. j \in 1 .. m /\ ~(j <= start) /\ j + count = i /\ i \notin start + 1 .. start + count
        BY <1>1, <3>3
      <4>2. t[i] = u[j]
        BY <1>2, <1>3, <4>1
      <4> QED
        BY <1>4, <4>1, <4>2
    <3> QED
      BY <1>1, <3>1, <3>2, <3>3
  <2>2. ASSUME NEW i \in 1 .. m
        PROVE  u[i] \in ToSet(t)
    <3>1. CASE i <= start
      <4>1. t[i] = u[i]
        BY <1>1, <1>2, <1>3, <3>1
      <4> QED
        BY <1>4, <4>1
    <3>2. CASE i > start /\ i + count <= m
      <4> DEFINE j == i + count
      <4>1. j \in 1 .. m /\ ~(i <= start) /\ j \notin start + 1 .. start + count
        BY <1>1, <3>2
      <4>2. u[i] = t[j]
        BY <1>2, <1>3, <4>1
      <4> QED
        BY <1>4, <4>1, <4>2
    <3>3. CASE i > start /\ i + count > m
      <4> DEFINE j == i + count - m + start
      <4>1. /\ j \in start + 1 .. start + count /\ j \in 1 .. m /\ j - start + m = i + count
            /\ ~(i <= start)
        BY <1>1, <1>7, <3>3
      <4>2. u[i] = t[j]
        BY <1>2, <1>3, <4>1
      <4> QED
        BY <1>4, <4>1, <4>2
    <3> QED
      BY <1>1, <3>1, <3>2, <3>3
  <2>3. ToSet(t) = ToSet(u)
    <3>1. \A x \in ToSet(t) : x \in ToSet(u)
      BY <1>4, <2>1
    <3>2. \A x \in ToSet(u) : x \in ToSet(t)
      BY <1>4, <2>2
    <3> QED
      BY <3>1, <3>2
  <2> QED
    BY <1>7, <2>3 DEF u, behind, n
<1>8. CASE ~(behind = 0) /\ ~(behind >= count)
  <2>1. m \in 1 .. n /\ m >= 1 /\ ~(m <= start) /\ m + count = n
    BY <1>1, <1>8
  <2>2. u[m] = s[n] /\ u[m] \in ToSet(u)
    BY <1>2, <1>4, <2>1
  <2>3. ASSUME NEW i \in 1 .. m
        PROVE  t[i] # s[n]
    <3>1. CASE i <= start
      <4>1. i \notin start + 1 .. start + count /\ i \in 1 .. n /\ n \in 1 .. n /\ i # n
        BY <1>1, <1>8, <3>1
      <4> QED
        BY <1>3, <1>5, <4>1
    <3>2. CASE i > start
      <4> DEFINE j == i - start + m
      <4>1. i \in start + 1 .. start + count /\ j \in 1 .. n /\ n \in 1 .. n /\ j # n
        BY <1>1, <1>8, <3>2
      <4>2. t[i] = s[j]
        BY <1>3, <4>1
      <4> HIDE DEF j
      <4> QED
        BY <1>5, <4>1, <4>2
    <3> QED
      BY <1>1, <3>1, <3>2
  <2>4. ToSet(t) # ToSet(u)
    <3>1. s[n] \notin ToSet(t)
      BY <1>4, <2>3
    <3> QED
      BY <2>2, <3>1
  <2> QED
    BY <1>8, <2>4 DEF u, behind, n
<1> QED
  BY <1>6, <1>7, <1>8

\* vec_swapsplice removes the elements it is told to and no others exactly if
\* none are behind them or at least as many.
THEOREM SwapSpliceIsExact ==
  VecAssumption => (VecSpec => SwapSpliceKeepsTheRest)
<1> SUFFICES ASSUME VecAssumption PROVE VecSpec => SwapSpliceKeepsTheRest
  OBVIOUS
<1> DEFINE Exact(start, count) ==
        (ToSet(Content(vec')) = ToSet(ListSpliced(Content(vec), start, count)))
            <=> (vec.length - start - count = 0 \/ vec.length - start - count >= count)
           Kept == \A start, count \in Indices :
                vec_swapsplice(start, count) /\ IsInjective(Content(vec)) => Exact(start, count)
<1>1. VecInit => VecInv
  BY VecStarts
<1>2. VecInv /\ [VecNext]_vecVars => VecInv'
  BY VecStep
<1>3. VecInv /\ VecNext => Kept
  <2> SUFFICES ASSUME VecInv, ~denied, NEW start \in Indices, NEW count \in Indices,
                      vec_swapsplice(start, count), IsInjective(Content(vec))
               PROVE  Exact(start, count)
    BY DEF VecNext
  <2> DEFINE n == vec.length
             m == n - count
             d == Move(vec.data, start, m, count)
             t == Content(vec')
  <2>1. /\ n \in Nat /\ n <= Len(vec.data) /\ Len(vec.data) \in Nat /\ vec.data \in Seq(Cell)
        /\ list \in Seq(Item) /\ Len(list) = n /\ Content(vec) = list
        /\ \A i \in 1 .. n : vec.data[i] = list[i]
    BY VecNow, ShownIsContent
  <2>2. start \in Nat /\ count \in Nat /\ start + count <= n /\ m \in Nat /\ m + count = n
        /\ m + count <= Len(vec.data) /\ m <= Len(vec.data)
    BY <2>1 DEF vec_swapsplice, Indices, VecAssumption
  <2>3. vec' = [data |-> d, length |-> m] /\ list' = t
    BY DEF vec_swapsplice, SwapSource
  <2>4. VecInv' /\ (~denied)'
    BY VecSwapSplices DEF vec_swapsplice
  <2>5. t \in Seq(Item) /\ Len(t) = m /\ \A i \in 1 .. m : d[i] = t[i]
    <3>1. Shows(vec', list')
      BY <2>4 DEF VecInv
    <3> HIDE DEF t, d
    <3> QED
      BY <2>3, <3>1 DEF Shows
  <2> HIDE DEF t, m
  <2>6. d \in Seq(Cell) /\ HasMoved(d, vec.data, start, m, count)
    BY <2>1, <2>2, MovesCells
  <2> HIDE DEF d
  <2>7. IsInjective(list)
    BY <2>1
  <2> HIDE DEF n
  <2>8. ASSUME NEW i \in 1 .. m
        PROVE  t[i] = IF i \in start + 1 .. start + count THEN list[i - start + m] ELSE list[i]
    <3>1. i \in 1 .. Len(vec.data) /\ i \in 1 .. n
      BY <2>1, <2>2
    <3>2. t[i] = IF i \in start + 1 .. start + count THEN vec.data[i - start + m] ELSE vec.data[i]
      BY <2>5, <2>6, <3>1 DEF HasMoved
    <3>3. CASE i \in start + 1 .. start + count
      <4>1. i - start + m \in 1 .. n
        BY <2>1, <2>2, <3>3
      <4> QED
        BY <2>1, <3>2, <3>3, <4>1
    <3>4. CASE i \notin start + 1 .. start + count
      BY <2>1, <3>1, <3>2, <3>4
    <3> QED
      BY <3>3, <3>4
  <2>9. m = Len(list) - count /\ vec.length = Len(list)
    BY <2>1 DEF m, n
  <2>10. HasSwapped(t, list, start, count)
    BY <2>5, <2>8, <2>9 DEF HasSwapped
  <2>11. start + count <= Len(list)
    BY <2>1, <2>2
  <2>12. (ToSet(t) = ToSet(ListSpliced(list, start, count)))
            <=> (Len(list) - start - count = 0 \/ Len(list) - start - count >= count)
    BY <2>1, <2>2, <2>5, <2>7, <2>10, <2>11, SwapSpliceExact
  <2> QED
    BY <2>1, <2>9, <2>12 DEF t
<1>4. VecInv /\ [VecNext]_vecVars => [Kept]_vecVars
  BY <1>3
<1>5. SwapSpliceKeepsTheRest <=> [][Kept]_vecVars
  BY DEF SwapSpliceKeepsTheRest
<1> QED
  BY <1>1, <1>2, <1>4, <1>5, PTL DEF VecSpec

-----------------------------------------------------------------------------
(* The lists: rings of nodes. *)

AllLinks ==
    [next : [QueueNode -> QueueNode \cup {NULL}], prev : [QueueNode -> QueueNode \cup {NULL}]]

\* The i-th node on the way round: the head is met first and last.
Nth(h, s, i) == IF i \in 1 .. Len(s) THEN s[i] ELSE h

\* A head and elements that differ from one another.
Apart(h, s) ==
    h \in Heads /\ s \in Seq(Elem) /\ \A i, j \in 1 .. Len(s) : s[i] = s[j] => i = j

Ring(l, h, s) ==
    \A i \in 0 .. Len(s) :
        l.next[Nth(h, s, i)] = Nth(h, s, i + 1) /\ l.prev[Nth(h, s, i + 1)] = Nth(h, s, i)

On(h, s) == {h} \cup {s[i] : i \in 1 .. Len(s)}

\* Nothing is written but fields of nodes in W.
OnlyIn(W, l, k) ==
    \A x \in QueueNode : x \notin W => k.next[x] = l.next[x] /\ k.prev[x] = l.prev[x]

\* One field of one node.
Put(f, n, v) == [f EXCEPT ![n] = v]

LEMMA FieldWrites ==
  ASSUME NEW l \in AllLinks, NEW n \in QueueNode, NEW v \in QueueNode
  PROVE  /\ Next_(l, n, v) \in AllLinks /\ Prev_(l, n, v) \in AllLinks
         /\ Next_(l, n, v).next = Put(l.next, n, v) /\ Next_(l, n, v).prev = l.prev
         /\ Prev_(l, n, v).prev = Put(l.prev, n, v) /\ Prev_(l, n, v).next = l.next
<1>1. /\ Next_(l, n, v).next = Put(l.next, n, v) /\ Next_(l, n, v).prev = l.prev
      /\ Prev_(l, n, v).prev = Put(l.prev, n, v) /\ Prev_(l, n, v).next = l.next
  BY DEF Next_, Prev_, AllLinks, Put
<1>2. Next_(l, n, v) = [next |-> Put(l.next, n, v), prev |-> l.prev]
  BY DEF Next_, AllLinks, Put
<1>3. Prev_(l, n, v) = [next |-> l.next, prev |-> Put(l.prev, n, v)]
  BY DEF Prev_, AllLinks, Put
<1>4. Put(l.next, n, v) \in [QueueNode -> QueueNode \cup {NULL}]
      /\ Put(l.prev, n, v) \in [QueueNode -> QueueNode \cup {NULL}]
      /\ l.next \in [QueueNode -> QueueNode \cup {NULL}]
      /\ l.prev \in [QueueNode -> QueueNode \cup {NULL}]
  BY DEF AllLinks, Put
<1> QED
  BY <1>1, <1>2, <1>3, <1>4 DEF AllLinks

\* The nodes of a ring.
LEMMA RingNodes ==
  ASSUME ListAssumption, NEW h, NEW s, Apart(h, s)
  PROVE  /\ Len(s) \in Nat /\ h \in QueueNode /\ h # NULL
         /\ Nth(h, s, 0) = h /\ Nth(h, s, Len(s) + 1) = h
         /\ \A i \in 1 .. Len(s) : Nth(h, s, i) = s[i] /\ s[i] \in Elem /\ s[i] # h
                                   /\ s[i] \in QueueNode
         /\ \A i \in Nat : Nth(h, s, i) \in On(h, s) /\ Nth(h, s, i) \in QueueNode
         /\ \A i, j \in 0 .. Len(s) : Nth(h, s, i) = Nth(h, s, j) => i = j
<1>1. /\ Len(s) \in Nat /\ s \in [1 .. Len(s) -> Elem] /\ h \in Heads
      /\ \A i, j \in 1 .. Len(s) : s[i] = s[j] => i = j
  BY LenProperties DEF Apart
<1>2. \A i \in 1 .. Len(s) : s[i] \in Elem /\ s[i] # h /\ s[i] \in QueueNode
  BY <1>1 DEF ListAssumption, QueueNode
<1>3. h \in QueueNode /\ h # NULL
  BY <1>1 DEF ListAssumption, QueueNode
<1>4. /\ Nth(h, s, 0) = h /\ Nth(h, s, Len(s) + 1) = h
      /\ \A i \in 1 .. Len(s) : Nth(h, s, i) = s[i]
  BY <1>1 DEF Nth
<1>5. \A i \in Nat : Nth(h, s, i) \in On(h, s) /\ Nth(h, s, i) \in QueueNode
  BY <1>2, <1>3 DEF Nth, On
<1>6. ASSUME NEW i \in 0 .. Len(s), NEW j \in 0 .. Len(s), Nth(h, s, i) = Nth(h, s, j)
      PROVE  i = j
  BY <1>1, <1>2, <1>6 DEF Nth
<1> QED
  BY <1>1, <1>2, <1>3, <1>4, <1>5, <1>6

\* QUEUE_INIT
LEMMA InitsRing ==
  ASSUME ListAssumption, NEW l \in AllLinks, NEW h \in Heads
  PROVE  /\ Inited(l, h) \in AllLinks /\ Ring(Inited(l, h), h, <<>>)
         /\ OnlyIn({h}, l, Inited(l, h))
<1> DEFINE k == Inited(l, h)
<1>1. h \in QueueNode /\ l.next \in [QueueNode -> QueueNode \cup {NULL}]
      /\ l.prev \in [QueueNode -> QueueNode \cup {NULL}]
  BY DEF QueueNode, AllLinks
<1>2. k \in AllLinks /\ k.next = [l.next EXCEPT ![h] = h] /\ k.prev = [l.prev EXCEPT ![h] = h]
  <2> DEFINE l1 == Next_(l, h, h)
  <2>1. /\ l1 \in AllLinks /\ l1.next = Put(l.next, h, h) /\ l1.prev = l.prev
    BY <1>1, FieldWrites
  <2> HIDE DEF l1
  <2>2. /\ Prev_(l1, h, h) \in AllLinks /\ Prev_(l1, h, h).prev = Put(l1.prev, h, h)
        /\ Prev_(l1, h, h).next = l1.next
    BY <1>1, <2>1, FieldWrites
  <2>3. k = Prev_(l1, h, h)
    BY DEF Inited, l1
  <2> QED
    BY <2>1, <2>2, <2>3 DEF Put
<1> HIDE DEF k
<1>3. k \in AllLinks
  BY <1>2
<1>4. Len(<<>>) = 0
  OBVIOUS
<1>5. Ring(k, h, <<>>)
  BY <1>1, <1>2, <1>4 DEF Ring, Nth
<1>6. OnlyIn({h}, l, k)
  BY <1>1, <1>2 DEF OnlyIn
<1> QED
  BY <1>3, <1>5, <1>6 DEF k

\* QUEUE_INSERT_HEAD
LEMMA InsertsAtHead ==
  ASSUME ListAssumption, NEW l \in AllLinks, NEW h, NEW s, Apart(h, s), Ring(l, h, s),
         NEW q \in Elem, q \notin On(h, s)
  PROVE  LET k == InsertedHead(l, h, q)
         IN  /\ k \in AllLinks /\ Ring(k, h, <<q>> \o s)
             /\ OnlyIn(On(h, s) \cup {q}, l, k)
<1> DEFINE k == InsertedHead(l, h, q)
           r == <<q>> \o s
           n == Len(s)
           f == Nth(h, s, 1)
<1>1. /\ n \in Nat /\ h \in QueueNode
      /\ Nth(h, s, 0) = h /\ Nth(h, s, n + 1) = h
      /\ \A i \in Nat : Nth(h, s, i) \in On(h, s) /\ Nth(h, s, i) \in QueueNode
      /\ \A i, j \in 0 .. n : Nth(h, s, i) = Nth(h, s, j) => i = j
  BY RingNodes
<1>2. /\ q \in QueueNode /\ f \in QueueNode /\ f \in On(h, s) /\ q # f /\ q # h
      /\ l.next \in [QueueNode -> QueueNode \cup {NULL}]
      /\ l.prev \in [QueueNode -> QueueNode \cup {NULL}]
  BY <1>1 DEF QueueNode, AllLinks, On
<1>3. /\ Len(r) = n + 1 /\ r[1] = q /\ \A i \in 1 .. n : r[i + 1] = s[i]
      /\ r \in Seq(Elem)
  <2>1. s \in Seq(Elem) /\ <<q>> \in Seq(Elem) /\ Len(<<q>>) = 1 /\ <<q>>[1] = q
    BY DEF Apart
  <2> QED
    BY <1>1, <2>1, ConcatProperties
<1>4. \A i \in 0 .. n : l.next[Nth(h, s, i)] = Nth(h, s, i + 1)
                        /\ l.prev[Nth(h, s, i + 1)] = Nth(h, s, i)
  BY DEF Ring
<1>5. l.next[h] = f
  BY <1>1, <1>4
<1>6. /\ k \in AllLinks
      /\ k.next = [[l.next EXCEPT ![q] = f] EXCEPT ![h] = q]
      /\ k.prev = [[l.prev EXCEPT ![q] = h] EXCEPT ![f] = q]
  <2> HIDE DEF f, r, n
  <2> DEFINE l1 == Next_(l, q, f)
             l2 == Prev_(l1, q, h)
             l3 == Prev_(l2, f, q)
             l4 == Next_(l3, h, q)
  <2>1. /\ l1 \in AllLinks /\ l1.next = Put(l.next, q, f) /\ l1.prev = l.prev
    BY <1>1, <1>2, FieldWrites
  <2> HIDE DEF l1
  <2>2. /\ l2 \in AllLinks /\ l2.prev = Put(l1.prev, q, h) /\ l2.next = l1.next
    BY <1>1, <1>2, <2>1, FieldWrites
  <2> HIDE DEF l2
  <2>3. /\ l3 \in AllLinks /\ l3.prev = Put(l2.prev, f, q) /\ l3.next = l2.next
    BY <1>1, <1>2, <2>2, FieldWrites
  <2> HIDE DEF l3
  <2>4. /\ l4 \in AllLinks /\ l4.next = Put(l3.next, h, q) /\ l4.prev = l3.prev
    BY <1>1, <1>2, <2>3, FieldWrites
  <2> HIDE DEF l4
  <2>5. l2.next[q] = f
    BY <1>2, <2>1, <2>2 DEF Put
  <2>6. k = l4
    BY <1>5, <2>5 DEF InsertedHead, l1, l2, l3, l4
  <2> QED
    BY <2>1, <2>2, <2>3, <2>4, <2>6 DEF Put
<1> HIDE DEF k, r, f
<1>7. k \in AllLinks
  BY <1>6
<1>8. OnlyIn(On(h, s) \cup {q}, l, k)
  BY <1>1, <1>2, <1>6 DEF OnlyIn
<1>9. Nth(h, r, 0) = h /\ Nth(h, r, 1) = q
      /\ \A i \in 1 .. n + 1 : Nth(h, r, i + 1) = Nth(h, s, i)
  BY <1>1, <1>3 DEF Nth
<1>10. ASSUME NEW i \in 0 .. n + 1
       PROVE  k.next[Nth(h, r, i)] = Nth(h, r, i + 1) /\ k.prev[Nth(h, r, i + 1)] = Nth(h, r, i)
  <2>1. CASE i = 0
    <3>1. k.next[h] = q /\ k.prev[q] = h
      BY <1>1, <1>2, <1>6
    <3> QED
      BY <1>9, <2>1, <3>1
  <2>2. CASE i = 1
    <3>1. k.next[q] = f /\ k.prev[f] = q
      BY <1>1, <1>2, <1>6
    <3>2. Nth(h, r, 2) = f
      BY <1>1, <1>9 DEF f
    <3> QED
      BY <1>9, <2>2, <3>1, <3>2
  <2>3. CASE i > 1
    <3> DEFINE j == i - 1
    <3>1. j \in 1 .. n /\ i = j + 1 /\ i + 1 = (j + 1) + 1 /\ j + 1 \in 1 .. n + 1
      BY <1>1, <2>3
    <3> HIDE DEF j
    <3>2. Nth(h, r, i) = Nth(h, s, j) /\ Nth(h, r, i + 1) = Nth(h, s, j + 1)
      BY <1>1, <1>9, <3>1
    <3>3. Nth(h, s, j) # h /\ Nth(h, s, j) # q /\ Nth(h, s, j) \in QueueNode
      BY <1>1, <3>1
    <3>4. Nth(h, s, j + 1) # f /\ Nth(h, s, j + 1) # q /\ Nth(h, s, j + 1) \in QueueNode
      <4>1. CASE j = n
        BY <1>1, <3>1, <4>1 DEF f
      <4>2. CASE j # n
        BY <1>1, <3>1, <4>2 DEF f
      <4> QED
        BY <4>1, <4>2
    <3> QED
      BY <1>1, <1>2, <1>4, <1>6, <3>1, <3>2, <3>3, <3>4
  <2> QED
    BY <2>1, <2>2, <2>3
<1>11. Ring(k, h, r)
  BY <1>3, <1>10 DEF Ring
<1> QED
  BY <1>7, <1>8, <1>11 DEF k, r

\* QUEUE_INSERT_TAIL
LEMMA InsertsAtTail ==
  ASSUME ListAssumption, NEW l \in AllLinks, NEW h, NEW s, Apart(h, s), Ring(l, h, s),
         NEW q \in Elem, q \notin On(h, s)
  PROVE  LET k == InsertedTail(l, h, q)
         IN  /\ k \in AllLinks /\ Ring(k, h, Append(s, q))
             /\ OnlyIn(On(h, s) \cup {q}, l, k)
<1> DEFINE k == InsertedTail(l, h, q)
           r == Append(s, q)
           n == Len(s)
           b == Nth(h, s, n)
<1>1. /\ n \in Nat /\ h \in QueueNode
      /\ Nth(h, s, 0) = h /\ Nth(h, s, n + 1) = h
      /\ \A i \in 1 .. n : Nth(h, s, i) = s[i] /\ s[i] # h
      /\ \A i \in Nat : Nth(h, s, i) \in On(h, s) /\ Nth(h, s, i) \in QueueNode
      /\ \A i, j \in 0 .. n : Nth(h, s, i) = Nth(h, s, j) => i = j
  BY RingNodes
<1>2. q \in QueueNode /\ b \in QueueNode /\ b \in On(h, s) /\ q # b /\ q # h
  BY <1>1 DEF QueueNode, On
<1>3. /\ Len(r) = n + 1 /\ r[n + 1] = q /\ \A i \in 1 .. n : r[i] = s[i]
      /\ r \in Seq(Elem)
  BY <1>1, AppendProperties DEF Apart
<1>4. \A i \in 0 .. n : l.next[Nth(h, s, i)] = Nth(h, s, i + 1)
                        /\ l.prev[Nth(h, s, i + 1)] = Nth(h, s, i)
  BY DEF Ring
<1>5. l.prev[h] = b
  BY <1>1, <1>4
<1>6. /\ k \in AllLinks
      /\ k.next = [[l.next EXCEPT ![q] = h] EXCEPT ![b] = q]
      /\ k.prev = [[l.prev EXCEPT ![q] = b] EXCEPT ![h] = q]
  <2> HIDE DEF b, r, n
  <2> DEFINE l1 == Next_(l, q, h)
             l2 == Prev_(l1, q, b)
             l3 == Next_(l2, b, q)
             l4 == Prev_(l3, h, q)
  <2>1. /\ l1 \in AllLinks /\ l1.next = Put(l.next, q, h) /\ l1.prev = l.prev
    BY <1>1, <1>2, FieldWrites
  <2> HIDE DEF l1
  <2>2. /\ l2 \in AllLinks /\ l2.prev = Put(l1.prev, q, b) /\ l2.next = l1.next
    BY <1>1, <1>2, <2>1, FieldWrites
  <2> HIDE DEF l2
  <2>3. /\ l3 \in AllLinks /\ l3.next = Put(l2.next, b, q) /\ l3.prev = l2.prev
    BY <1>1, <1>2, <2>2, FieldWrites
  <2> HIDE DEF l3
  <2>4. /\ l4 \in AllLinks /\ l4.prev = Put(l3.prev, h, q) /\ l4.next = l3.next
    BY <1>1, <1>2, <2>3, FieldWrites
  <2> HIDE DEF l4
  <2>5. l2.prev[q] = b
    BY <1>2, <2>1, <2>2 DEF Put, AllLinks
  <2>6. k = l4
    BY <1>5, <2>5 DEF InsertedTail, l1, l2, l3, l4
  <2> QED
    BY <2>1, <2>2, <2>3, <2>4, <2>6 DEF Put
<1>7. l.next \in [QueueNode -> QueueNode \cup {NULL}]
      /\ l.prev \in [QueueNode -> QueueNode \cup {NULL}]
  BY DEF AllLinks
<1> HIDE DEF k, r, b
<1>8. OnlyIn(On(h, s) \cup {q}, l, k)
  BY <1>1, <1>2, <1>6, <1>7 DEF OnlyIn
<1>9. /\ \A i \in 0 .. n : Nth(h, r, i) = Nth(h, s, i)
      /\ Nth(h, r, n + 1) = q /\ Nth(h, r, n + 2) = h
  BY <1>1, <1>3 DEF Nth
<1>10. ASSUME NEW i \in 0 .. n + 1
       PROVE  k.next[Nth(h, r, i)] = Nth(h, r, i + 1) /\ k.prev[Nth(h, r, i + 1)] = Nth(h, r, i)
  <2>1. CASE i < n
    <3>1. i \in 0 .. n /\ i + 1 \in 1 .. n /\ i + 1 \in 0 .. n
      BY <1>1, <2>1
    <3>2. Nth(h, s, i) # b /\ Nth(h, s, i) # q /\ Nth(h, s, i) \in QueueNode
      BY <1>1, <2>1, <3>1 DEF b
    <3>3. Nth(h, s, i + 1) # h /\ Nth(h, s, i + 1) # q /\ Nth(h, s, i + 1) \in QueueNode
      BY <1>1, <3>1
    <3> QED
      BY <1>1, <1>2, <1>4, <1>6, <1>7, <1>9, <3>1, <3>2, <3>3
  <2>2. CASE i = n
    <3>1. k.next[b] = q /\ k.prev[q] = b
      BY <1>1, <1>2, <1>6, <1>7
    <3> QED
      BY <1>1, <1>9, <2>2, <3>1 DEF b
  <2>3. CASE i = n + 1
    <3>1. k.next[q] = h /\ k.prev[h] = q
      BY <1>1, <1>2, <1>6, <1>7
    <3>2. i + 1 = n + 2
      BY <1>1, <2>3
    <3> QED
      BY <1>9, <2>3, <3>1, <3>2
  <2> QED
    BY <1>1, <2>1, <2>2, <2>3
<1>11. Ring(k, h, r)
  BY <1>3, <1>10 DEF Ring
<1> QED
  BY <1>6, <1>8, <1>11 DEF k, r

\* QUEUE_REMOVE
LEMMA Unlinks ==
  ASSUME ListAssumption, NEW l \in AllLinks, NEW h, NEW s, Apart(h, s), Ring(l, h, s),
         NEW m \in 1 .. Len(s)
  PROVE  LET k == Removed(l, s[m])
         IN  /\ k \in AllLinks /\ Ring(k, h, RemoveAt(s, m))
             /\ OnlyIn(On(h, s) \ {s[m]}, l, k)
<1> DEFINE x == s[m]
           k == Removed(l, x)
           r == RemoveAt(s, m)
           n == Len(s)
           p == Nth(h, s, m - 1)
           f == Nth(h, s, m + 1)
<1>1. /\ n \in Nat /\ h \in QueueNode
      /\ Nth(h, s, 0) = h /\ Nth(h, s, n + 1) = h
      /\ \A i \in 1 .. n : Nth(h, s, i) = s[i] /\ s[i] # h
      /\ \A i \in Nat : Nth(h, s, i) \in On(h, s) /\ Nth(h, s, i) \in QueueNode
      /\ \A i, j \in 0 .. n : Nth(h, s, i) = Nth(h, s, j) => i = j
  BY RingNodes
<1>2. /\ m \in Nat /\ m - 1 \in 0 .. n /\ m \in 0 .. n /\ m - 1 \in Nat /\ m + 1 \in Nat
      /\ m - 1 # m /\ (m - 1) + 1 = m /\ m <= n /\ m >= 1
  BY <1>1
<1>3. /\ x = Nth(h, s, m) /\ x \in QueueNode /\ p \in QueueNode /\ f \in QueueNode
      /\ p # x /\ p \in On(h, s) /\ f \in On(h, s)
  BY <1>1, <1>2
<1>4. f # x
  <2>1. CASE m = n
    BY <1>1, <1>2, <2>1
  <2>2. CASE m # n
    <3>1. m + 1 \in 0 .. n /\ m + 1 # m
      BY <1>1, <1>2, <2>2
    <3> QED
      BY <1>1, <1>2, <1>3, <3>1
  <2> QED
    BY <2>1, <2>2
<1>5. \A i \in 0 .. n : l.next[Nth(h, s, i)] = Nth(h, s, i + 1)
                        /\ l.prev[Nth(h, s, i + 1)] = Nth(h, s, i)
  BY DEF Ring
<1>6. l.next[x] = f /\ l.prev[x] = p
  BY <1>2, <1>3, <1>5
<1>7. k \in AllLinks /\ k.next = [l.next EXCEPT ![p] = f] /\ k.prev = [l.prev EXCEPT ![f] = p]
  <2> HIDE DEF p, f, r, x
  <2> DEFINE l1 == Next_(l, p, f)
             l2 == Prev_(l1, f, p)
  <2>1. /\ l1 \in AllLinks /\ l1.next = Put(l.next, p, f) /\ l1.prev = l.prev
    BY <1>3, FieldWrites
  <2> HIDE DEF l1
  <2>2. /\ l2 \in AllLinks /\ l2.prev = Put(l1.prev, f, p) /\ l2.next = l1.next
    BY <1>3, <2>1, FieldWrites
  <2> HIDE DEF l2
  <2>3. l1.next[x] = f /\ l1.prev[x] = p
    BY <1>3, <1>6, <2>1 DEF Put, AllLinks
  <2>4. k = l2
    BY <1>6, <2>3 DEF Removed, l1, l2
  <2> QED
    BY <2>1, <2>2, <2>4 DEF Put
<1>8. l.next \in [QueueNode -> QueueNode \cup {NULL}]
      /\ l.prev \in [QueueNode -> QueueNode \cup {NULL}]
  BY DEF AllLinks
<1>9. /\ Len(r) = n - 1
      /\ \A j \in 1 .. n - 1 : r[j] = IF j < m THEN s[j] ELSE s[j + 1]
  BY Without DEF Apart
<1> HIDE DEF k, r, p, f, x
<1>10. OnlyIn(On(h, s) \ {x}, l, k)
  BY <1>3, <1>4, <1>7, <1>8 DEF OnlyIn
<1>11. \A j \in 0 .. m - 1 : Nth(h, r, j) = Nth(h, s, j)
  BY <1>1, <1>2, <1>9 DEF Nth
<1>12. \A j \in m .. n : Nth(h, r, j) = Nth(h, s, j + 1)
  BY <1>1, <1>2, <1>9 DEF Nth
<1>13. ASSUME NEW i \in 0 .. n - 1
       PROVE  k.next[Nth(h, r, i)] = Nth(h, r, i + 1) /\ k.prev[Nth(h, r, i + 1)] = Nth(h, r, i)
  <2>1. CASE i < m - 1
    <3>1. i \in 0 .. n /\ i \in Nat /\ i + 1 \in 1 .. n /\ i + 1 \in Nat /\ i \in 0 .. m - 1
          /\ i + 1 \in 0 .. m - 1 /\ i # m - 1 /\ i + 1 \in 0 .. n
      BY <1>1, <1>2, <2>1
    <3>2. Nth(h, s, i) # p /\ Nth(h, s, i) \in QueueNode
      BY <1>1, <1>2, <3>1 DEF p
    <3>3. Nth(h, s, i + 1) # f /\ Nth(h, s, i + 1) \in QueueNode
      <4>1. CASE m = n
        BY <1>1, <3>1, <4>1 DEF f
      <4>2. CASE m # n
        <5>1. m + 1 \in 0 .. n /\ i + 1 # m + 1
          BY <1>1, <1>2, <2>1, <4>2
        <5> QED
          BY <1>1, <3>1, <5>1 DEF f
      <4> QED
        BY <4>1, <4>2
    <3> QED
      BY <1>5, <1>7, <1>8, <1>11, <3>1, <3>2, <3>3
  <2>2. CASE i = m - 1
    <3>1. k.next[p] = f /\ k.prev[f] = p
      BY <1>3, <1>7, <1>8
    <3>2. Nth(h, r, i) = p /\ Nth(h, r, i + 1) = f
      BY <1>1, <1>2, <1>11, <1>12, <2>2 DEF p, f
    <3> QED
      BY <3>1, <3>2
  <2>3. CASE i >= m
    <3> DEFINE j == i + 1
    <3>1. /\ j \in 0 .. n /\ j \in Nat /\ j + 1 \in Nat /\ i \in m .. n /\ i + 1 \in m .. n
          /\ j # m - 1 /\ j = i + 1 /\ m + 1 \in 0 .. n /\ m # n
      BY <1>1, <1>2, <2>3
    <3> HIDE DEF j
    <3>2. Nth(h, r, i) = Nth(h, s, j) /\ Nth(h, r, i + 1) = Nth(h, s, j + 1)
      BY <1>12, <3>1
    <3>3. Nth(h, s, j) # p /\ Nth(h, s, j) \in QueueNode
      BY <1>1, <1>2, <3>1 DEF p
    <3>4. Nth(h, s, j + 1) # f /\ Nth(h, s, j + 1) \in QueueNode
      <4>1. CASE j = n
        <5>1. m + 1 \in 1 .. n
          BY <1>1, <1>2, <3>1
        <5> QED
          BY <1>1, <3>1, <4>1, <5>1 DEF f
      <4>2. CASE j # n
        <5>1. j + 1 \in 0 .. n /\ j + 1 # m + 1
          BY <1>1, <1>2, <2>3, <3>1, <4>2
        <5> QED
          BY <1>1, <3>1, <5>1 DEF f
      <4> QED
        BY <4>1, <4>2
    <3> QED
      BY <1>5, <1>7, <1>8, <3>1, <3>2, <3>3, <3>4
  <2> QED
    BY <1>1, <1>2, <2>1, <2>2, <2>3
<1>14. Ring(k, h, r)
  BY <1>1, <1>9, <1>13 DEF Ring
<1> QED
  BY <1>7, <1>10, <1>14 DEF k, r, x

\* QUEUE_ADD
LEMMA Joins ==
  ASSUME ListAssumption, NEW l \in AllLinks,
         NEW h, NEW s, Apart(h, s), Ring(l, h, s),
         NEW g, NEW t, Apart(g, t), Ring(l, g, t),
         On(h, s) \cap On(g, t) = {}
  PROVE  LET k == Added(l, h, g)
         IN  /\ k \in AllLinks /\ Ring(k, h, s \o t)
             /\ OnlyIn(On(h, s) \cup On(g, t), l, k)
<1> DEFINE k == Added(l, h, g)
           r == s \o t
           n == Len(s)
           m == Len(t)
           b == Nth(h, s, n)
           f == Nth(g, t, 1)
           e == IF m = 0 THEN b ELSE Nth(g, t, m)
<1>1. /\ n \in Nat /\ h \in QueueNode
      /\ Nth(h, s, 0) = h /\ Nth(h, s, n + 1) = h
      /\ \A i \in 1 .. n : Nth(h, s, i) = s[i] /\ s[i] # h
      /\ \A i \in Nat : Nth(h, s, i) \in On(h, s) /\ Nth(h, s, i) \in QueueNode
      /\ \A i, j \in 0 .. n : Nth(h, s, i) = Nth(h, s, j) => i = j
  BY RingNodes
<1>2. /\ m \in Nat /\ g \in QueueNode
      /\ Nth(g, t, 0) = g /\ Nth(g, t, m + 1) = g
      /\ \A i \in 1 .. m : Nth(g, t, i) = t[i] /\ t[i] # g
      /\ \A i \in Nat : Nth(g, t, i) \in On(g, t) /\ Nth(g, t, i) \in QueueNode
      /\ \A i, j \in 0 .. m : Nth(g, t, i) = Nth(g, t, j) => i = j
  BY RingNodes
<1>3. h \in On(h, s) /\ g \in On(g, t)
  BY DEF On
<1>4. /\ b \in QueueNode /\ b \in On(h, s) /\ f \in QueueNode /\ f \in On(g, t)
      /\ e \in QueueNode /\ e \in On(h, s) \cup On(g, t)
      /\ (m # 0 => e \in On(g, t))
  BY <1>1, <1>2
<1>5. \A i \in 0 .. n : l.next[Nth(h, s, i)] = Nth(h, s, i + 1)
                        /\ l.prev[Nth(h, s, i + 1)] = Nth(h, s, i)
  BY DEF Ring
<1>6. \A i \in 0 .. m : l.next[Nth(g, t, i)] = Nth(g, t, i + 1)
                        /\ l.prev[Nth(g, t, i + 1)] = Nth(g, t, i)
  BY DEF Ring
<1>7. l.prev[h] = b
  BY <1>1, <1>5
<1>8. l.next[g] = f /\ l.prev[g] = Nth(g, t, m)
  BY <1>2, <1>6
<1>9. m = 0 => f = g
  BY <1>2
<1>10. m # 0 => f # g
  BY <1>2
<1>11. l.next \in [QueueNode -> QueueNode \cup {NULL}]
       /\ l.prev \in [QueueNode -> QueueNode \cup {NULL}]
  BY DEF AllLinks
<1>12. /\ k \in AllLinks
       /\ k.next = [[l.next EXCEPT ![b] = f] EXCEPT ![e] = h]
       /\ k.prev = [[l.prev EXCEPT ![f] = b] EXCEPT ![h] = e]
  <2> DEFINE l1 == Next_(l, b, f)
             l2 == Prev_(l1, f, b)
             l3 == Prev_(l2, h, e)
             l4 == Next_(l3, e, h)
  <2> HIDE DEF b, f, r, n
  <2>1. /\ l1 \in AllLinks /\ l1.next = Put(l.next, b, f) /\ l1.prev = l.prev
    BY <1>4, FieldWrites
  <2> HIDE DEF l1
  <2>2. /\ l2 \in AllLinks /\ l2.prev = Put(l1.prev, f, b) /\ l2.next = l1.next
    BY <1>4, <2>1, FieldWrites
  <2> HIDE DEF l2
  <2>3. l1.next[g] = f /\ l1.prev[h] = b
    <3>1. g # b
      BY <1>3, <1>4
    <3> QED
      BY <1>2, <1>4, <1>7, <1>8, <1>11, <2>1, <3>1 DEF Put
  <2>4. l2.prev[g] = e
    <3>1. CASE m = 0
      BY <1>2, <1>4, <1>9, <1>11, <2>1, <2>2, <3>1 DEF Put
    <3>2. CASE m # 0
      BY <1>2, <1>4, <1>8, <1>10, <1>11, <2>1, <2>2, <3>2 DEF Put
    <3> QED
      BY <3>1, <3>2
  <2> HIDE DEF e, m
  <2>5. /\ l3 \in AllLinks /\ l3.prev = Put(l2.prev, h, e) /\ l3.next = l2.next
    BY <1>1, <1>4, <2>2, FieldWrites
  <2> HIDE DEF l3
  <2>6. /\ l4 \in AllLinks /\ l4.next = Put(l3.next, e, h) /\ l4.prev = l3.prev
    BY <1>1, <1>4, <2>5, FieldWrites
  <2> HIDE DEF l4
  <2>7. l3.prev[h] = e
    BY <1>1, <1>4, <2>2, <2>5 DEF Put, AllLinks
  <2>8. k = l4
    <3>1. /\ l1 = Next_(l, l.prev[h], l.next[g]) /\ l2 = Prev_(l1, l1.next[g], l1.prev[h])
      BY <1>7, <1>8, <2>3 DEF l1, l2
    <3>2. l3 = Prev_(l2, h, l2.prev[g]) /\ l4 = Next_(l3, l3.prev[h], h)
      BY <2>4, <2>7 DEF l3, l4
    <3> QED
      BY <3>1, <3>2 DEF Added
  <2> QED
    BY <2>1, <2>2, <2>5, <2>6, <2>8 DEF Put
<1>13. /\ Len(r) = n + m /\ \A i \in 1 .. n : r[i] = s[i]
       /\ \A i \in 1 .. m : r[n + i] = t[i]
  <2>1. s \in Seq(Elem) /\ t \in Seq(Elem)
    BY DEF Apart
  <2> QED
    BY <1>1, <1>2, <2>1, ConcatProperties
<1> HIDE DEF k, r, b, f
<1>14. OnlyIn(On(h, s) \cup On(g, t), l, k)
  BY <1>1, <1>3, <1>4, <1>11, <1>12 DEF OnlyIn
<1>15. /\ \A i \in 0 .. n : Nth(h, r, i) = Nth(h, s, i)
       /\ \A i \in 1 .. m : Nth(h, r, n + i) = Nth(g, t, i)
       /\ Nth(h, r, n + m + 1) = h
  BY <1>1, <1>2, <1>13 DEF Nth
<1>16. ASSUME NEW i \in 0 .. n + m
       PROVE  k.next[Nth(h, r, i)] = Nth(h, r, i + 1) /\ k.prev[Nth(h, r, i + 1)] = Nth(h, r, i)
  <2>1. CASE i < n
    <3>1. i \in 0 .. n /\ i + 1 \in 0 .. n /\ i + 1 \in 1 .. n /\ i \in Nat /\ i + 1 \in Nat
      BY <1>1, <2>1
    <3>2. Nth(h, s, i) # b /\ Nth(h, s, i) # e /\ Nth(h, s, i) \in QueueNode
      <4>1. Nth(h, s, i) # b
        BY <1>1, <2>1, <3>1 DEF b
      <4> QED
        BY <1>1, <1>4, <3>1, <4>1
    <3>3. Nth(h, s, i + 1) # f /\ Nth(h, s, i + 1) # h /\ Nth(h, s, i + 1) \in QueueNode
      BY <1>1, <1>4, <3>1
    <3> HIDE DEF e
    <3> QED
      BY <1>1, <1>4, <1>5, <1>11, <1>12, <1>15, <3>1, <3>2, <3>3
  <2>2. CASE i = n /\ m = 0
    <3>1. k.next[b] = h /\ k.prev[h] = b
      BY <1>1, <1>4, <1>11, <1>12, <2>2
    <3> QED
      BY <1>1, <1>15, <2>2, <3>1 DEF b
  <2>3. CASE i = n /\ m # 0
    <3>1. e # b /\ f # h
      BY <1>1, <1>3, <1>4, <2>3
    <3> HIDE DEF e
    <3>2. k.next[b] = f /\ k.prev[f] = b
      BY <1>1, <1>4, <1>11, <1>12, <3>1
    <3>3. Nth(h, r, i) = b /\ Nth(h, r, i + 1) = f
      BY <1>1, <1>2, <1>15, <2>3 DEF b, f
    <3> QED
      BY <3>2, <3>3
  <2>4. CASE i > n /\ i < n + m
    <3> DEFINE j == i - n
    <3>1. /\ j \in 1 .. m /\ j + 1 \in 1 .. m /\ i = n + j /\ i + 1 = n + (j + 1) /\ j \in 0 .. m
          /\ j # m /\ j + 1 # 1 /\ j \in Nat /\ j + 1 \in Nat /\ m # 0 /\ 1 \in 1 .. m
          /\ m \in 1 .. m /\ j + 1 \in 0 .. m /\ 1 \in 0 .. m /\ m \in 0 .. m
      BY <1>1, <1>2, <2>4
    <3> HIDE DEF j
    <3>2. Nth(h, r, i) = Nth(g, t, j) /\ Nth(h, r, i + 1) = Nth(g, t, j + 1)
      BY <1>15, <3>1
    <3>3. Nth(g, t, j) # b /\ Nth(g, t, j) # e /\ Nth(g, t, j) \in QueueNode
      BY <1>2, <1>4, <3>1
    <3>4. Nth(g, t, j + 1) # f /\ Nth(g, t, j + 1) # h /\ Nth(g, t, j + 1) \in QueueNode
      BY <1>2, <1>3, <3>1 DEF f
    <3> HIDE DEF e
    <3> QED
      BY <1>1, <1>4, <1>6, <1>11, <1>12, <3>1, <3>2, <3>3, <3>4
  <2>5. CASE i = n + m /\ m # 0
    <3>1. k.next[e] = h /\ k.prev[h] = e
      BY <1>1, <1>4, <1>11, <1>12
    <3>2. Nth(h, r, i) = e /\ Nth(h, r, i + 1) = h
      BY <1>1, <1>2, <1>15, <2>5
    <3> QED
      BY <3>1, <3>2
  <2> QED
    BY <1>1, <1>2, <2>1, <2>2, <2>3, <2>4, <2>5
<1>17. Ring(k, h, r)
  BY <1>13, <1>16 DEF Ring
<1> QED
  BY <1>12, <1>14, <1>17 DEF k, r

\* QUEUE_SPLIT
LEMMA SplitsRing ==
  ASSUME ListAssumption, NEW l \in AllLinks, NEW h, NEW s, Apart(h, s), Ring(l, h, s),
         NEW m \in 1 .. Len(s), NEW g \in Heads, g \notin On(h, s)
  PROVE  LET k == Split(l, h, s[m], g)
         IN  /\ k \in AllLinks /\ Ring(k, h, SubSeq(s, 1, m - 1))
             /\ Ring(k, g, SubSeq(s, m, Len(s)))
             /\ OnlyIn(On(h, s) \cup {g}, l, k)
<1> DEFINE q == s[m]
           k == Split(l, h, q, g)
           n == Len(s)
           u == SubSeq(s, 1, m - 1)
           w == SubSeq(s, m, n)
           b == Nth(h, s, n)
           p == Nth(h, s, m - 1)
<1>1. /\ n \in Nat /\ h \in QueueNode
      /\ Nth(h, s, 0) = h /\ Nth(h, s, n + 1) = h
      /\ \A i \in 1 .. n : Nth(h, s, i) = s[i] /\ s[i] # h
      /\ \A i \in Nat : Nth(h, s, i) \in On(h, s) /\ Nth(h, s, i) \in QueueNode
      /\ \A i, j \in 0 .. n : Nth(h, s, i) = Nth(h, s, j) => i = j
  BY RingNodes
<1>2. /\ m \in Nat /\ m - 1 \in 0 .. n /\ m \in 0 .. n /\ m - 1 \in Nat /\ n \in 0 .. n
      /\ (m - 1) + 1 = m /\ m <= n /\ m >= 1 /\ m - 1 # m /\ m - 1 # n
  BY <1>1
<1>3. /\ q = Nth(h, s, m) /\ q \in QueueNode /\ q \in On(h, s) /\ q # h
      /\ p \in QueueNode /\ p \in On(h, s) /\ p # q /\ p # b
      /\ b \in QueueNode /\ b \in On(h, s) /\ b # h
      /\ h \in On(h, s) /\ g \in QueueNode /\ g # h /\ g # q /\ g # p /\ g # b
  <2>1. /\ q = Nth(h, s, m) /\ q \in QueueNode /\ q \in On(h, s) /\ q # h
        /\ p \in QueueNode /\ p \in On(h, s) /\ b \in QueueNode /\ b \in On(h, s)
    BY <1>1, <1>2
  <2>2. p # q /\ p # b /\ b # h
    BY <1>1, <1>2, <2>1
  <2>3. h \in On(h, s) /\ g \in QueueNode
    BY DEF On, QueueNode
  <2> QED
    BY <2>1, <2>2, <2>3
<1>4. \A i \in 0 .. n : l.next[Nth(h, s, i)] = Nth(h, s, i + 1)
                        /\ l.prev[Nth(h, s, i + 1)] = Nth(h, s, i)
  BY DEF Ring
<1>5. l.prev[h] = b /\ l.prev[q] = p
  BY <1>1, <1>2, <1>3, <1>4
<1>6. l.next \in [QueueNode -> QueueNode \cup {NULL}]
      /\ l.prev \in [QueueNode -> QueueNode \cup {NULL}]
  BY DEF AllLinks
<1>7. /\ Len(u) = m - 1 /\ \A i \in 1 .. m - 1 : u[i] = s[i]
  <2>1. 1 \in 1 .. n + 1 /\ m - 1 \in 1 - 1 .. n
    BY <1>1, <1>2
  <2>2. /\ Len(u) = (m - 1) - 1 + 1
        /\ \A i \in 1 .. (m - 1) - 1 + 1 : u[i] = s[1 + i - 1]
    BY <2>1, PartOf DEF Apart
  <2> QED
    BY <1>1, <1>2, <2>2
<1>8. /\ Len(w) = n - m + 1 /\ \A i \in 1 .. n - m + 1 : w[i] = s[m + i - 1]
  <2>1. m \in 1 .. n + 1 /\ n \in m - 1 .. n
    BY <1>1, <1>2
  <2> QED
    BY <2>1, PartOf DEF Apart
<1> HIDE DEF b, p, q, u, w
<1>9. /\ k \in AllLinks
      /\ k.next = [[[l.next EXCEPT ![b] = g] EXCEPT ![g] = q] EXCEPT ![p] = h]
      /\ k.prev = [[[l.prev EXCEPT ![g] = b] EXCEPT ![h] = p] EXCEPT ![q] = g]
  <2> DEFINE l1 == Prev_(l, g, b)
             l2 == Next_(l1, b, g)
             l3 == Next_(l2, g, q)
             l4 == Prev_(l3, h, p)
             l5 == Next_(l4, p, h)
             l6 == Prev_(l5, q, g)
  <2> HIDE DEF n
  <2>1. /\ l1 \in AllLinks /\ l1.prev = Put(l.prev, g, b) /\ l1.next = l.next
    BY <1>3, FieldWrites
  <2> HIDE DEF l1
  <2>2. /\ l2 \in AllLinks /\ l2.next = Put(l1.next, b, g) /\ l2.prev = l1.prev
    BY <1>3, <2>1, FieldWrites
  <2> HIDE DEF l2
  <2>3. /\ l3 \in AllLinks /\ l3.next = Put(l2.next, g, q) /\ l3.prev = l2.prev
    BY <1>3, <2>2, FieldWrites
  <2> HIDE DEF l3
  <2>4. /\ l4 \in AllLinks /\ l4.prev = Put(l3.prev, h, p) /\ l4.next = l3.next
    BY <1>1, <1>3, <2>3, FieldWrites
  <2> HIDE DEF l4
  <2>5. /\ l5 \in AllLinks /\ l5.next = Put(l4.next, p, h) /\ l5.prev = l4.prev
    BY <1>1, <1>3, <2>4, FieldWrites
  <2> HIDE DEF l5
  <2>6. /\ l6 \in AllLinks /\ l6.prev = Put(l5.prev, q, g) /\ l6.next = l5.next
    BY <1>3, <2>5, FieldWrites
  <2> HIDE DEF l6
  <2>7. l1.prev[g] = b
    BY <1>3, <1>6, <2>1 DEF Put
  <2>8. l3.prev[q] = p
    BY <1>3, <1>5, <1>6, <2>1, <2>2, <2>3 DEF Put
  <2>9. l4.prev[h] = p
    BY <1>1, <2>3, <2>4 DEF Put, AllLinks
  <2>10. k = l6
    <3>1. /\ l1 = Prev_(l, g, l.prev[h]) /\ l2 = Next_(l1, l1.prev[g], g)
          /\ l3 = Next_(l2, g, q)
      BY <1>5, <2>7 DEF l1, l2, l3
    <3>2. /\ l4 = Prev_(l3, h, l3.prev[q]) /\ l5 = Next_(l4, l4.prev[h], h)
          /\ l6 = Prev_(l5, q, g)
      BY <2>8, <2>9 DEF l4, l5, l6
    <3> QED
      BY <3>1, <3>2 DEF Split
  <2> QED
    BY <2>1, <2>2, <2>3, <2>4, <2>5, <2>6, <2>10 DEF Put
<1> HIDE DEF k
<1>10. OnlyIn(On(h, s) \cup {g}, l, k)
  BY <1>1, <1>3, <1>6, <1>9 DEF OnlyIn
<1>11. \A i \in 0 .. m - 1 : Nth(h, u, i) = Nth(h, s, i)
  BY <1>1, <1>2, <1>7 DEF Nth
<1>12. Nth(h, u, m) = h
  BY <1>1, <1>2, <1>7 DEF Nth
<1>13. /\ Nth(g, w, 0) = g /\ Nth(g, w, n - m + 2) = g
       /\ \A i \in 1 .. n - m + 1 : Nth(g, w, i) = Nth(h, s, m + i - 1)
  BY <1>1, <1>2, <1>8 DEF Nth
<1>14. ASSUME NEW i \in 0 .. m - 1
       PROVE  k.next[Nth(h, u, i)] = Nth(h, u, i + 1) /\ k.prev[Nth(h, u, i + 1)] = Nth(h, u, i)
  <2>1. CASE i < m - 1
    <3>1. /\ i \in 0 .. n /\ i + 1 \in 1 .. n /\ i + 1 \in 0 .. n /\ i \in Nat /\ i + 1 \in Nat
          /\ i + 1 \in 0 .. m - 1 /\ i # m - 1 /\ i # n /\ i + 1 # m
      BY <1>1, <1>2, <2>1
    <3>2. Nth(h, s, i) # p /\ Nth(h, s, i) # b /\ Nth(h, s, i) # g /\ Nth(h, s, i) \in QueueNode
      <4>1. Nth(h, s, i) # p /\ Nth(h, s, i) # b
        BY <1>1, <1>2, <3>1 DEF p, b
      <4> QED
        BY <1>1, <1>3, <3>1, <4>1
    <3>3. /\ Nth(h, s, i + 1) # h /\ Nth(h, s, i + 1) # q /\ Nth(h, s, i + 1) # g
          /\ Nth(h, s, i + 1) \in QueueNode
      BY <1>1, <1>2, <1>3, <3>1
    <3> QED
      BY <1>1, <1>3, <1>4, <1>6, <1>9, <1>11, <3>1, <3>2, <3>3
  <2>2. CASE i = m - 1
    <3>1. k.next[p] = h /\ k.prev[h] = p
      BY <1>1, <1>3, <1>6, <1>9
    <3>2. Nth(h, u, i) = p /\ Nth(h, u, i + 1) = h
      BY <1>2, <1>11, <1>12, <2>2 DEF p
    <3> QED
      BY <3>1, <3>2
  <2> QED
    BY <1>2, <2>1, <2>2
<1>15. ASSUME NEW i \in 0 .. n - m + 1
       PROVE  k.next[Nth(g, w, i)] = Nth(g, w, i + 1) /\ k.prev[Nth(g, w, i + 1)] = Nth(g, w, i)
  <2>1. CASE i = 0
    <3>1. k.next[g] = q /\ k.prev[q] = g
      BY <1>1, <1>3, <1>6, <1>9
    <3>2. i + 1 = 1 /\ 1 \in 1 .. n - m + 1 /\ m + 1 - 1 = m
      BY <1>1, <1>2, <2>1
    <3>3. Nth(g, w, i) = g /\ Nth(g, w, i + 1) = q
      BY <1>3, <1>13, <2>1, <3>2
    <3> QED
      BY <3>1, <3>3
  <2>2. CASE i > 0 /\ i <= n - m
    <3> DEFINE j == m + i - 1
    <3>1. /\ j \in 0 .. n /\ j + 1 \in 1 .. n /\ j + 1 \in 0 .. n /\ j \in Nat /\ j + 1 \in Nat
          /\ j # n /\ j # m - 1 /\ j + 1 # m /\ i \in 1 .. n - m + 1 /\ i + 1 \in 1 .. n - m + 1
          /\ m + i - 1 = j /\ m + (i + 1) - 1 = j + 1
      BY <1>1, <1>2, <2>2
    <3> HIDE DEF j
    <3>2. Nth(g, w, i) = Nth(h, s, j) /\ Nth(g, w, i + 1) = Nth(h, s, j + 1)
      BY <1>13, <3>1
    <3>3. Nth(h, s, j) # p /\ Nth(h, s, j) # b /\ Nth(h, s, j) # g /\ Nth(h, s, j) \in QueueNode
      <4>1. Nth(h, s, j) # p /\ Nth(h, s, j) # b
        BY <1>1, <1>2, <3>1 DEF p, b
      <4> QED
        BY <1>1, <1>3, <3>1, <4>1
    <3>4. /\ Nth(h, s, j + 1) # h /\ Nth(h, s, j + 1) # q /\ Nth(h, s, j + 1) # g
          /\ Nth(h, s, j + 1) \in QueueNode
      BY <1>1, <1>2, <1>3, <3>1
    <3> QED
      BY <1>1, <1>3, <1>4, <1>6, <1>9, <3>1, <3>2, <3>3, <3>4
  <2>3. CASE i = n - m + 1
    <3>1. k.next[b] = g /\ k.prev[g] = b
      BY <1>1, <1>3, <1>6, <1>9
    <3>2. i \in 1 .. n - m + 1 /\ m + i - 1 = n /\ i + 1 = n - m + 2
      BY <1>1, <1>2, <2>3
    <3>3. Nth(g, w, i) = b /\ Nth(g, w, i + 1) = g
      BY <1>13, <3>2 DEF b
    <3> QED
      BY <3>1, <3>3
  <2> QED
    BY <1>1, <1>2, <2>1, <2>2, <2>3
<1>16. Ring(k, h, u) /\ Ring(k, g, w)
  BY <1>7, <1>8, <1>14, <1>15 DEF Ring
<1> QED
  BY <1>9, <1>10, <1>16 DEF k, q, u, w

-----------------------------------------------------------------------------
(* Every list that a head should have is a ring, and no two share a node.  A  *)
(* walk has met the first of what it has to meet; the last elements of its    *)
(* list are the rest, the node it stands on points at the first of them, and  *)
(* that node is the element before them, or in no list.                       *)

Whole(l, f) ==
    /\ DOMAIN f \subseteq Heads
    /\ \A h \in DOMAIN f : Apart(h, f[h]) /\ Ring(l, h, f[h])
    /\ \A h, g \in DOMAIN f : h # g => On(h, f[h]) \cap On(g, f[g]) = {}

Before(f, w, z) == Len(f[w.head]) - (Len(z.all) - Len(z.met))

OnItsWay(l, f, w, z) ==
    /\ w.head \in DOMAIN f /\ w.at \in Elem
    /\ Before(f, w, z) >= 0
    /\ \A j \in 1 .. Len(z.all) - Len(z.met) :
            f[w.head][Before(f, w, z) + j] = z.all[Len(z.met) + j]
    /\ l.next[w.at] = Nth(w.head, f[w.head], Before(f, w, z) + 1)
    /\ \A h \in DOMAIN f : w.at \in On(h, f[h]) =>
            h = w.head /\ Before(f, w, z) >= 1 /\ f[w.head][Before(f, w, z)] = w.at

WalkHolds(l, f, w, z) ==
    /\ z \in [met : Seq(Elem), all : Seq(Elem)]
    /\ Len(z.met) <= Len(z.all)
    /\ \A i \in 1 .. Len(z.met) : z.met[i] = z.all[i]
    /\ w = NoWalk => Len(z.met) = Len(z.all)
    /\ w # NoWalk => OnItsWay(l, f, w, z)

ListInv ==
    links \in AllLinks /\ Whole(links, seqOf) /\ WalkHolds(links, seqOf, walk, seen)

\* A list stays a ring if none of its nodes is written.
LEMMA RingKept ==
  ASSUME ListAssumption, NEW l, NEW k, NEW h, NEW s, Apart(h, s), Ring(l, h, s),
         NEW W, OnlyIn(W, l, k), On(h, s) \cap W = {}
  PROVE  Ring(k, h, s)
<1>1. \A i \in Nat : Nth(h, s, i) \in QueueNode /\ Nth(h, s, i) \notin W
  BY RingNodes
<1>2. Len(s) \in Nat
  BY RingNodes
<1>3. ASSUME NEW i \in 0 .. Len(s)
      PROVE  k.next[Nth(h, s, i)] = Nth(h, s, i + 1) /\ k.prev[Nth(h, s, i + 1)] = Nth(h, s, i)
  <2>1. i \in Nat /\ i + 1 \in Nat
    BY <1>2
  <2> QED
    BY <1>1, <2>1 DEF Ring, OnlyIn
<1> QED
  BY <1>3 DEF Ring

\* Lists in C are new or have changed, and only nodes in W are written.
LEMMA ListsAfter ==
  ASSUME ListAssumption, NEW l, NEW f, Whole(l, f), NEW k, NEW W, OnlyIn(W, l, k),
         NEW e, DOMAIN e \subseteq Heads, NEW C,
         \A h \in DOMAIN e : h \notin C =>
            h \in DOMAIN f /\ e[h] = f[h] /\ On(h, f[h]) \cap W = {},
         \A h \in DOMAIN e : h \in C =>
            Apart(h, e[h]) /\ Ring(k, h, e[h]) /\ On(h, e[h]) \subseteq W,
         \A h, g \in DOMAIN e : h \in C /\ g \in C /\ h # g => On(h, e[h]) \cap On(g, e[g]) = {}
  PROVE  Whole(k, e)
<1>1. ASSUME NEW h \in DOMAIN e
      PROVE  Apart(h, e[h]) /\ Ring(k, h, e[h])
  <2>1. CASE h \in C
    BY <2>1
  <2>2. CASE h \notin C
    <3>1. Apart(h, e[h]) /\ Ring(l, h, e[h]) /\ On(h, e[h]) \cap W = {}
      BY <2>2 DEF Whole
    <3> QED
      BY <3>1, RingKept
  <2> QED
    BY <2>1, <2>2
<1>2. ASSUME NEW h \in DOMAIN e, NEW g \in DOMAIN e, h # g
      PROVE  On(h, e[h]) \cap On(g, e[g]) = {}
  <2>1. CASE h \in C /\ g \in C
    BY <1>2, <2>1
  <2>2. CASE h \notin C /\ g \notin C
    BY <1>2, <2>2 DEF Whole
  <2>3. CASE h \in C /\ g \notin C
    <3>1. On(h, e[h]) \subseteq W /\ On(g, e[g]) \cap W = {}
      BY <2>3
    <3> QED
      BY <3>1
  <2>4. CASE h \notin C /\ g \in C
    <3>1. On(g, e[g]) \subseteq W /\ On(h, e[h]) \cap W = {}
      BY <2>4
    <3> QED
      BY <3>1
  <2> QED
    BY <2>1, <2>2, <2>3, <2>4
<1> QED
  BY <1>1, <1>2 DEF Whole

\* What a walk on another list is told.
LEMMA WalkAfter ==
  ASSUME NEW l, NEW f, NEW w, NEW z, WalkHolds(l, f, w, z),
         NEW k, NEW e,
         w # NoWalk => /\ w.head \in DOMAIN e /\ e[w.head] = f[w.head]
                       /\ k.next[w.at] = l.next[w.at]
                       /\ \A h \in DOMAIN e : w.at \in On(h, e[h]) => h = w.head
  PROVE  WalkHolds(k, e, w, z)
<1>1. CASE w = NoWalk
  BY <1>1 DEF WalkHolds
<1>2. CASE w # NoWalk
  <2>1. OnItsWay(l, f, w, z)
    BY <1>2 DEF WalkHolds
  <2>2. Before(e, w, z) = Before(f, w, z)
    BY <1>2 DEF Before
  <2>3. OnItsWay(k, e, w, z)
    BY <1>2, <2>1, <2>2 DEF OnItsWay
  <2> QED
    BY <1>2, <2>3 DEF WalkHolds
<1> QED
  BY <1>1, <1>2

\* A head is in no list but its own, and the node of a walk in none but its list.
LEMMA HeadsApart ==
  ASSUME ListAssumption, ListInv
  PROVE  /\ \A h \in Heads, g \in DOMAIN seqOf : h # g => h \notin On(g, seqOf[g])
         /\ \A h \in DOMAIN seqOf : On(h, seqOf[h]) \subseteq QueueNode
         /\ walk # NoWalk => /\ walk.head \in DOMAIN seqOf /\ walk.at \in Elem
                             /\ walk.at \in QueueNode /\ walk.at \notin Heads
                             /\ \A h \in DOMAIN seqOf :
                                    walk.at \in On(h, seqOf[h]) => h = walk.head
         /\ walk = NoWalk => walk.at = NULL
<1>1. ASSUME NEW h \in Heads, NEW g \in DOMAIN seqOf, h # g
      PROVE  h \notin On(g, seqOf[g])
  <2>1. Apart(g, seqOf[g])
    BY DEF ListInv, Whole
  <2>2. \A i \in 1 .. Len(seqOf[g]) : seqOf[g][i] \in Elem
    BY <2>1, RingNodes
  <2> QED
    BY <1>1, <2>2 DEF On, ListAssumption
<1>2. ASSUME NEW h \in DOMAIN seqOf
      PROVE  On(h, seqOf[h]) \subseteq QueueNode
  <2>1. Apart(h, seqOf[h])
    BY DEF ListInv, Whole
  <2>2. h \in QueueNode /\ \A i \in 1 .. Len(seqOf[h]) : seqOf[h][i] \in QueueNode
    BY <2>1, RingNodes
  <2> QED
    BY <2>2 DEF On
<1>3. ASSUME walk # NoWalk
      PROVE  /\ walk.head \in DOMAIN seqOf /\ walk.at \in Elem
             /\ walk.at \in QueueNode /\ walk.at \notin Heads
             /\ \A h \in DOMAIN seqOf : walk.at \in On(h, seqOf[h]) => h = walk.head
  <2>1. OnItsWay(links, seqOf, walk, seen)
    BY <1>3 DEF ListInv, WalkHolds
  <2> QED
    BY <2>1 DEF OnItsWay, QueueNode, ListAssumption
<1>4. walk = NoWalk => walk.at = NULL
  BY DEF NoWalk
<1> QED
  BY <1>1, <1>2, <1>3, <1>4

\* The lists of all heads but those that an operation names stay.
LEMMA Named ==
  ASSUME NEW h, NEW s, ListsBecome(One(h, s))
  PROVE  /\ DOMAIN seqOf' = DOMAIN seqOf \cup {h} /\ seqOf'[h] = s
         /\ \A g \in DOMAIN seqOf : g # h => seqOf'[g] = seqOf[g]
BY DEF ListsBecome, One

LEMMA NamedBoth ==
  ASSUME NEW h, NEW s, NEW g, NEW t, h # g, ListsBecome(Both(h, s, g, t))
  PROVE  /\ DOMAIN seqOf' = DOMAIN seqOf \cup {h, g} /\ seqOf'[h] = s /\ seqOf'[g] = t
         /\ \A x \in DOMAIN seqOf : x # h /\ x # g => seqOf'[x] = seqOf[x]
BY DEF ListsBecome, Both

LEMMA NewLinks ==
  ASSUME NEW k \in AllLinks, Becomes(k)
  PROVE  links' = k
BY DEF AllLinks, Becomes, links

\* An operation that changes the lists of heads in C and writes nodes in W.
Rewriting(k, C, W) ==
    /\ Becomes(k) /\ Walking /\ OnlyIn(W, links, k) /\ DOMAIN seqOf' \subseteq Heads
    /\ \A g \in DOMAIN seqOf' : g \notin C =>
            g \in DOMAIN seqOf /\ seqOf'[g] = seqOf[g] /\ On(g, seqOf[g]) \cap W = {}
    /\ \A g \in DOMAIN seqOf' : g \in C =>
            Apart(g, seqOf'[g]) /\ Ring(k, g, seqOf'[g]) /\ On(g, seqOf'[g]) \subseteq W
    /\ \A g, x \in DOMAIN seqOf' :
            g \in C /\ x \in C /\ g # x => On(g, seqOf'[g]) \cap On(x, seqOf'[x]) = {}
    /\ walk # NoWalk =>
            walk.head \notin C /\ walk.head \in DOMAIN seqOf' /\ walk.at \notin W

LEMMA Rewrites ==
  ASSUME ListAssumption, ListInv, NEW k \in AllLinks, NEW C, NEW W, Rewriting(k, C, W)
  PROVE  ListInv'
<1> DEFINE e == seqOf'
           l == links
<1>1. l' = k
  BY NewLinks DEF Rewriting
<1>2. /\ DOMAIN e \subseteq Heads /\ Whole(l, seqOf) /\ OnlyIn(W, l, k)
      /\ \A g \in DOMAIN e : g \notin C =>
            g \in DOMAIN seqOf /\ e[g] = seqOf[g] /\ On(g, seqOf[g]) \cap W = {}
      /\ \A g \in DOMAIN e : g \in C =>
            Apart(g, e[g]) /\ Ring(k, g, e[g]) /\ On(g, e[g]) \subseteq W
      /\ \A g, x \in DOMAIN e :
            g \in C /\ x \in C /\ g # x => On(g, e[g]) \cap On(x, e[x]) = {}
  BY DEF ListInv, Rewriting
<1>3. WalkHolds(l, seqOf, walk, seen)
  BY DEF ListInv
<1>4. ASSUME walk # NoWalk
      PROVE  /\ walk.head \in DOMAIN e /\ e[walk.head] = seqOf[walk.head]
             /\ k.next[walk.at] = l.next[walk.at]
             /\ \A g \in DOMAIN e : walk.at \in On(g, e[g]) => g = walk.head
  <2>1. /\ walk.head \in DOMAIN seqOf /\ walk.at \in QueueNode
        /\ \A g \in DOMAIN seqOf : walk.at \in On(g, seqOf[g]) => g = walk.head
    BY <1>4, HeadsApart
  <2>2. k.next[walk.at] = l.next[walk.at]
    BY <1>2, <1>4, <2>1 DEF OnlyIn, Rewriting
  <2>3. ASSUME NEW g \in DOMAIN e, walk.at \in On(g, e[g])
        PROVE  g = walk.head
    BY <1>2, <1>4, <2>1, <2>3 DEF Rewriting
  <2> QED
    BY <1>2, <1>4, <2>1, <2>2, <2>3 DEF Rewriting
<1> HIDE DEF e, l
<1>5. Whole(k, e)
  BY <1>2, ListsAfter
<1>6. WalkHolds(k, e, walk, seen)
  BY <1>3, <1>4, WalkAfter
<1>7. k = links' /\ e = seqOf'
  BY <1>1 DEF e, l
<1> QED
  BY <1>5, <1>6, <1>7 DEF ListInv, Rewriting, Walking

\* An operation that names one list.
LEMMA OneList ==
  ASSUME ListAssumption, ListInv, NEW h \in Heads, NEW s, NEW k \in AllLinks, NEW W,
         Becomes(k), ListsBecome(One(h, s)), Walking, Still(h),
         Apart(h, s), Ring(k, h, s), OnlyIn(W, links, k), On(h, s) \subseteq W,
         \A g \in DOMAIN seqOf : g # h => On(g, seqOf[g]) \cap W = {},
         walk # NoWalk => walk.at \notin W
  PROVE  ListInv'
<1> DEFINE C == {h}
<1>1. /\ DOMAIN seqOf' = DOMAIN seqOf \cup {h} /\ seqOf'[h] = s
      /\ \A g \in DOMAIN seqOf : g # h => seqOf'[g] = seqOf[g]
  BY Named
<1>2. DOMAIN seqOf' \subseteq Heads
  BY <1>1 DEF ListInv, Whole
<1>3. \A g \in DOMAIN seqOf' : g \notin C =>
            g \in DOMAIN seqOf /\ seqOf'[g] = seqOf[g] /\ On(g, seqOf[g]) \cap W = {}
  BY <1>1
<1>4. \A g \in DOMAIN seqOf' : g \in C =>
            Apart(g, seqOf'[g]) /\ Ring(k, g, seqOf'[g]) /\ On(g, seqOf'[g]) \subseteq W
  BY <1>1
<1>5. \A g, x \in DOMAIN seqOf' :
            g \in C /\ x \in C /\ g # x => On(g, seqOf'[g]) \cap On(x, seqOf'[x]) = {}
  OBVIOUS
<1>6. walk # NoWalk => walk.head \notin C /\ walk.head \in DOMAIN seqOf' /\ walk.at \notin W
  BY <1>1, HeadsApart DEF Still
<1> HIDE DEF C
<1>7. Rewriting(k, C, W)
  BY <1>2, <1>3, <1>4, <1>5, <1>6 DEF Rewriting
<1> QED
  BY <1>7, Rewrites

\* QUEUE_INIT
LEMMA StepsInit ==
  ASSUME ListAssumption, ListInv, NEW h \in Heads, QUEUE_INIT(h)
  PROVE  ListInv'
<1> DEFINE k == Inited(links, h)
           W == {h}
<1>1. links \in AllLinks
  BY DEF ListInv
<1>2. k \in AllLinks /\ Ring(k, h, <<>>) /\ OnlyIn(W, links, k)
  BY <1>1, InitsRing
<1>3. Apart(h, <<>>) /\ On(h, <<>>) \subseteq W
  BY DEF Apart, On
<1>4. \A g \in DOMAIN seqOf : g # h => On(g, seqOf[g]) \cap W = {}
  BY HeadsApart
<1>5. walk # NoWalk => walk.at \notin W
  BY HeadsApart
<1>6. Becomes(k) /\ ListsBecome(One(h, <<>>)) /\ Walking /\ Still(h)
  BY DEF QUEUE_INIT
<1> HIDE DEF k, W
<1> QED
  BY <1>2, <1>3, <1>4, <1>5, <1>6, OneList

\* An element of no list enters the list of h.
LEMMA StepsInsert ==
  ASSUME ListAssumption, ListInv, NEW h \in Heads, NEW q \in Elem,
         QUEUE_INSERT_HEAD(h, q) \/ QUEUE_INSERT_TAIL(h, q)
  PROVE  ListInv'
<1> DEFINE s == seqOf[h]
           l == links
           W == On(h, s) \cup {q}
<1>1. /\ h \in DOMAIN seqOf /\ Still(h) /\ q \notin Listed /\ q # walk.at /\ Walking
  BY DEF QUEUE_INSERT_HEAD, QUEUE_INSERT_TAIL, IsList
<1>2. /\ l \in AllLinks /\ Apart(h, s) /\ Ring(l, h, s) /\ Whole(l, seqOf)
  BY <1>1 DEF ListInv, Whole
<1>3. ASSUME NEW g \in DOMAIN seqOf
      PROVE  q \notin On(g, seqOf[g])
  <2>1. Apart(g, seqOf[g])
    BY DEF ListInv, Whole
  <2>2. q # g
    BY <2>1 DEF Apart, ListAssumption
  <2>3. q \notin ToSet(seqOf[g])
    BY <1>1 DEF Listed
  <2>4. \A i \in 1 .. Len(seqOf[g]) : seqOf[g][i] \in ToSet(seqOf[g])
    <3>1. DOMAIN seqOf[g] = 1 .. Len(seqOf[g])
      BY <2>1 DEF Apart
    <3> QED
      BY <3>1 DEF ToSet
  <2> QED
    BY <2>2, <2>3, <2>4 DEF On
<1>4. q \notin On(h, s)
  BY <1>1, <1>3
<1>5. \A g \in DOMAIN seqOf : g # h => On(g, seqOf[g]) \cap W = {}
  BY <1>1, <1>3, <1>2 DEF Whole
<1>6. walk # NoWalk => walk.at \notin W
  BY <1>1, HeadsApart DEF Still
<1>7. /\ Len(s) \in Nat /\ s \in Seq(Elem)
      /\ \A i \in 1 .. Len(s) : s[i] # q
      /\ \A i, j \in 1 .. Len(s) : s[i] = s[j] => i = j
  BY <1>2, <1>4, RingNodes DEF Apart, On
<1>8. CASE QUEUE_INSERT_HEAD(h, q)
  <2> DEFINE k == InsertedHead(l, h, q)
             r == <<q>> \o s
  <2>1. /\ Len(r) = Len(s) + 1 /\ r[1] = q /\ r \in Seq(Elem)
        /\ \A i \in 1 .. Len(s) : r[i + 1] = s[i]
    <3>1. <<q>> \in Seq(Elem) /\ Len(<<q>>) = 1 /\ <<q>>[1] = q
      OBVIOUS
    <3> QED
      BY <1>7, <3>1, ConcatProperties
  <2>2. \A i \in 1 .. Len(r) : i # 1 => i - 1 \in 1 .. Len(s) /\ r[i] = s[i - 1]
    <3> HIDE DEF s, r
    <3> TAKE i \in 1 .. Len(r)
    <3> HAVE i # 1
    <3>1. i - 1 \in 1 .. Len(s) /\ (i - 1) + 1 = i
      BY <1>7, <2>1
    <3> QED
      BY <2>1, <3>1
  <2>3. Becomes(k) /\ ListsBecome(One(h, r))
    BY <1>8 DEF QUEUE_INSERT_HEAD
  <2> HIDE DEF s, l, r
  <2>4. \A i, j \in 1 .. Len(r) : r[i] = r[j] => i = j
    <3> SUFFICES ASSUME NEW i \in 1 .. Len(r), NEW j \in 1 .. Len(r), r[i] = r[j]
                 PROVE  i = j
      OBVIOUS
    <3>1. CASE i # 1 /\ j # 1
      <4>1. i - 1 = j - 1
        BY <1>7, <2>2, <3>1
      <4> QED
        BY <1>7, <2>1, <4>1
    <3>2. \A x \in 1 .. Len(r) : x # 1 => r[x] # r[1]
      BY <1>7, <2>1, <2>2
    <3>3. CASE i = 1 \/ j = 1
      BY <3>2, <3>3
    <3> QED
      BY <3>1, <3>3
  <2>5. Apart(h, r) /\ On(h, r) \subseteq W
    <3>1. Apart(h, r)
      BY <2>1, <2>4 DEF Apart
    <3>2. ASSUME NEW i \in 1 .. Len(r)
          PROVE  r[i] \in W
      BY <2>1, <2>2 DEF On
    <3> QED
      BY <3>1, <3>2 DEF On
  <2>6. k \in AllLinks /\ Ring(k, h, r) /\ OnlyIn(W, l, k)
    BY <1>2, <1>4, InsertsAtHead DEF r
  <2> HIDE DEF k, W
  <2> QED
    BY <1>1, <1>5, <1>6, <2>3, <2>5, <2>6, OneList DEF l
<1>9. CASE QUEUE_INSERT_TAIL(h, q)
  <2> DEFINE k == InsertedTail(l, h, q)
             r == Append(s, q)
  <2>1. /\ Len(r) = Len(s) + 1 /\ r[Len(s) + 1] = q /\ r \in Seq(Elem)
        /\ \A i \in 1 .. Len(s) : r[i] = s[i]
    BY <1>7, AppendProperties
  <2>2. \A i \in 1 .. Len(r) : i # Len(s) + 1 => i \in 1 .. Len(s)
    BY <1>7, <2>1
  <2>3. Becomes(k) /\ ListsBecome(One(h, r))
    BY <1>9 DEF QUEUE_INSERT_TAIL
  <2> HIDE DEF s, l, r
  <2>4. \A i, j \in 1 .. Len(r) : r[i] = r[j] => i = j
    BY <1>7, <2>1, <2>2
  <2>5. Apart(h, r) /\ On(h, r) \subseteq W
    <3>1. Apart(h, r)
      BY <2>1, <2>4 DEF Apart
    <3>2. \A i \in 1 .. Len(r) : r[i] \in W
      BY <1>7, <2>1, <2>2 DEF On
    <3> QED
      BY <3>1, <3>2 DEF On
  <2>6. k \in AllLinks /\ Ring(k, h, r) /\ OnlyIn(W, l, k)
    BY <1>2, <1>4, InsertsAtTail DEF r
  <2> HIDE DEF k, W
  <2> QED
    BY <1>1, <1>5, <1>6, <2>3, <2>5, <2>6, OneList DEF l
<1> QED
  BY <1>8, <1>9

\* A ring without an element.
LEMMA Fewer ==
  ASSUME ListAssumption, NEW h, NEW s, Apart(h, s), NEW m \in 1 .. Len(s)
  PROVE  /\ Apart(h, RemoveAt(s, m)) /\ On(h, RemoveAt(s, m)) \subseteq On(h, s) \ {s[m]}
         /\ Nth(h, RemoveAt(s, m), m) = Nth(h, s, m + 1)
<1> DEFINE r == RemoveAt(s, m)
<1>1. /\ Len(s) \in Nat /\ h \in Heads
      /\ \A i \in 1 .. Len(s) : s[i] # h
      /\ \A i, j \in 1 .. Len(s) : s[i] = s[j] => i = j
  BY RingNodes DEF Apart
<1>2. /\ r \in Seq(Elem) /\ Len(r) = Len(s) - 1
      /\ \A j \in 1 .. Len(s) - 1 : r[j] = IF j < m THEN s[j] ELSE s[j + 1]
  BY Without DEF Apart
<1> HIDE DEF r
<1>3. ASSUME NEW i \in 1 .. Len(r)
      PROVE  \/ i < m /\ i \in 1 .. Len(s) /\ r[i] = s[i]
             \/ i >= m /\ i + 1 \in 1 .. Len(s) /\ r[i] = s[i + 1]
  BY <1>1, <1>2
<1>4. ASSUME NEW i \in 1 .. Len(r), NEW j \in 1 .. Len(r), r[i] = r[j]
      PROVE  i = j
  <2>1. i \in Nat /\ j \in Nat /\ m \in Nat
    OBVIOUS
  <2>2. CASE i < m /\ j < m
    BY <1>1, <1>3, <1>4, <2>2
  <2>3. CASE i < m /\ ~(j < m)
    <3>1. s[i] = s[j + 1] /\ i \in 1 .. Len(s) /\ j + 1 \in 1 .. Len(s)
      BY <1>3, <1>4, <2>1, <2>3
    <3>2. i = j + 1
      BY <1>1, <3>1
    <3> QED
      BY <2>1, <2>3, <3>2
  <2>4. CASE ~(i < m) /\ j < m
    <3>1. s[i + 1] = s[j] /\ i + 1 \in 1 .. Len(s) /\ j \in 1 .. Len(s)
      BY <1>3, <1>4, <2>1, <2>4
    <3>2. i + 1 = j
      BY <1>1, <3>1
    <3> QED
      BY <2>1, <2>4, <3>2
  <2>5. CASE ~(i < m) /\ ~(j < m)
    <3>1. s[i + 1] = s[j + 1] /\ i + 1 \in 1 .. Len(s) /\ j + 1 \in 1 .. Len(s)
      BY <1>3, <1>4, <2>1, <2>5
    <3>2. i + 1 = j + 1
      BY <1>1, <3>1
    <3> QED
      BY <2>1, <3>2
  <2> QED
    BY <2>2, <2>3, <2>4, <2>5
<1>5. ASSUME NEW i \in 1 .. Len(r)
      PROVE  r[i] \in On(h, s) /\ r[i] # s[m]
  <2>1. CASE i < m
    BY <1>1, <1>3, <2>1 DEF On
  <2>2. CASE ~(i < m)
    <3>1. r[i] = s[i + 1] /\ i + 1 \in 1 .. Len(s) /\ i + 1 # m
      BY <1>3, <2>2
    <3> QED
      BY <1>1, <3>1 DEF On
  <2> QED
    BY <2>1, <2>2
<1>6. h \in On(h, s) /\ h # s[m]
  BY <1>1 DEF On
<1>7. On(h, r) \subseteq On(h, s) \ {s[m]}
  BY <1>5, <1>6 DEF On
<1>8. Nth(h, r, m) = Nth(h, s, m + 1)
  BY <1>1, <1>2 DEF Nth
<1> QED
  BY <1>1, <1>2, <1>4, <1>7, <1>8 DEF Apart, r

\* QUEUE_REMOVE, also of the element that a walk stands on.
LEMMA StepsRemove ==
  ASSUME ListAssumption, ListInv, NEW h \in Heads, NEW m, QUEUE_REMOVE(h, m)
  PROVE  ListInv'
<1> DEFINE s == seqOf[h]
           l == links
           k == Removed(l, s[m])
           r == RemoveAt(s, m)
           W == On(h, s) \ {s[m]}
<1>1. /\ h \in DOMAIN seqOf /\ m \in 1 .. Len(s) /\ (Still(h) \/ s[m] = walk.at)
      /\ Walking /\ Becomes(k) /\ ListsBecome(One(h, r))
  BY DEF QUEUE_REMOVE, IsList
<1>2. /\ l \in AllLinks /\ Apart(h, s) /\ Ring(l, h, s) /\ Whole(l, seqOf)
      /\ WalkHolds(l, seqOf, walk, seen)
  BY <1>1 DEF ListInv, Whole
<1>3. k \in AllLinks /\ Ring(k, h, r) /\ OnlyIn(W, l, k)
  BY <1>1, <1>2, Unlinks
<1>4. Apart(h, r) /\ On(h, r) \subseteq W /\ Nth(h, r, m) = Nth(h, s, m + 1)
  BY <1>1, <1>2, Fewer
<1>5. \A g \in DOMAIN seqOf : g # h => On(g, seqOf[g]) \cap W = {}
  BY <1>1, <1>2 DEF Whole
<1>6. CASE Still(h)
  <2>1. walk # NoWalk => walk.at \notin W
    BY <1>1, <1>6, HeadsApart DEF Still
  <2> HIDE DEF W, k, r
  <2> QED
    BY <1>1, <1>3, <1>4, <1>5, <1>6, <2>1, OneList
<1>7. CASE ~Still(h)
  <2> DEFINE e == seqOf'
             left == Len(seen.all) - Len(seen.met)
             d == Len(s) - left
  <2>1. /\ walk.head = h /\ walk # NoWalk /\ s[m] = walk.at
    BY <1>1, <1>7 DEF Still, NoWalk, ListAssumption, QueueNode
  <2>2. links' = k
    BY <1>1, <1>3, NewLinks
  <2>3. /\ DOMAIN e = DOMAIN seqOf \cup {h} /\ e[h] = r
        /\ \A g \in DOMAIN seqOf : g # h => e[g] = seqOf[g]
    BY <1>1, Named
  <2>4. Whole(k, e)
    <3> DEFINE C == {h}
    <3>1. DOMAIN e \subseteq Heads
      BY <1>2, <2>3 DEF Whole
    <3>2. \A g \in DOMAIN e : g \notin C =>
              g \in DOMAIN seqOf /\ e[g] = seqOf[g] /\ On(g, seqOf[g]) \cap W = {}
      BY <1>5, <2>3
    <3>3. \A g \in DOMAIN e : g \in C => Apart(g, e[g]) /\ Ring(k, g, e[g]) /\ On(g, e[g]) \subseteq W
      BY <1>3, <1>4, <2>3
    <3>4. \A g, x \in DOMAIN e : g \in C /\ x \in C /\ g # x => On(g, e[g]) \cap On(x, e[x]) = {}
      OBVIOUS
    <3> HIDE DEF C, e, W, k, l
    <3> QED
      BY <1>2, <1>3, <3>1, <3>2, <3>3, <3>4, ListsAfter
  <2>5. OnItsWay(l, seqOf, walk, seen)
    BY <1>2, <2>1 DEF WalkHolds
  <2>6. Len(s) \in Nat /\ left \in Int /\ d \in Int
    BY <1>2, RingNodes DEF WalkHolds
  <2>7. Before(seqOf, walk, seen) = d
    BY <2>1 DEF Before
  <2>8. /\ d >= 0 /\ walk.at \in Elem
        /\ \A j \in 1 .. left : s[d + j] = seen.all[Len(seen.met) + j]
        /\ l.next[walk.at] = Nth(h, s, d + 1)
        /\ \A g \in DOMAIN seqOf : walk.at \in On(g, seqOf[g]) =>
                g = walk.head /\ d >= 1 /\ s[d] = walk.at
    BY <2>1, <2>5, <2>7 DEF OnItsWay
  <2>9. d = m
    <3>1. walk.at \in On(h, s)
      BY <1>1, <2>1 DEF On
    <3>2. d >= 1 /\ s[d] = s[m]
      BY <1>1, <2>1, <2>8, <3>1
    <3>3. left \in Nat
      BY <1>2 DEF WalkHolds
    <3> HIDE DEF s, left
    <3>4. d \in 1 .. Len(s)
      BY <2>6, <3>2, <3>3
    <3> USE DEF s
    <3> QED
      BY <1>1, <1>2, <3>2, <3>4 DEF Apart
  <2>10. /\ Len(r) = Len(s) - 1
         /\ \A j \in 1 .. Len(s) - 1 : r[j] = IF j < m THEN s[j] ELSE s[j + 1]
    BY <1>1, <1>2, Without DEF Apart
  <2>11. Before(e, walk, seen) = d - 1 /\ (d - 1) + 1 = m
    <3>1. Before(e, walk, seen) = Len(r) - left
      BY <2>1, <2>3 DEF Before
    <3> HIDE DEF r, left, s
    <3> QED
      BY <2>6, <2>9, <2>10, <3>1
  <2>12. ASSUME NEW j \in 1 .. left
         PROVE  r[(d - 1) + j] = seen.all[Len(seen.met) + j]
    <3> HIDE DEF left, r, s
    <3>1. (d - 1) + j \in 1 .. Len(s) - 1 /\ ~((d - 1) + j < m) /\ ((d - 1) + j) + 1 = d + j
      BY <1>1, <2>6, <2>9
    <3> HIDE DEF d
    <3>2. r[(d - 1) + j] = s[((d - 1) + j) + 1]
      BY <2>10, <3>1
    <3> QED
      BY <2>8, <3>1, <3>2
  <2>13. k.next[walk.at] = Nth(h, r, (d - 1) + 1)
    <3>1. walk.at \in QueueNode /\ walk.at \notin W
      BY <2>1, <2>8 DEF QueueNode
    <3>2. k.next[walk.at] = l.next[walk.at]
      BY <1>3, <3>1 DEF OnlyIn
    <3> QED
      BY <1>4, <2>8, <2>9, <2>11, <3>2
  <2>14. \A g \in DOMAIN e : walk.at \notin On(g, e[g])
    BY <1>4, <2>1, <2>3, <2>8
  <2>15. (d - 1) >= 0
    <3> HIDE DEF d, s
    <3> QED
      BY <1>1, <2>6, <2>9
  <2> HIDE DEF d, l, k, r, W
  <2>16. OnItsWay(k, e, walk, seen)
    BY <2>1, <2>3, <2>8, <2>11, <2>12, <2>13, <2>14, <2>15 DEF OnItsWay
  <2>17. WalkHolds(k, e, walk, seen)
    BY <1>2, <2>1, <2>16 DEF WalkHolds
  <2> QED
    BY <1>1, <1>3, <2>2, <2>4, <2>17 DEF ListInv, Walking
<1> QED
  BY <1>6, <1>7

\* QUEUE_ADD
LEMMA StepsAdd ==
  ASSUME ListAssumption, ListInv, NEW h \in Heads, NEW g \in Heads, QUEUE_ADD(h, g)
  PROVE  ListInv'
<1> DEFINE s == seqOf[h]
           t == seqOf[g]
           l == links
           k == Added(l, h, g)
           r == s \o t
           C == {h}
           W == On(h, s) \cup On(g, t)
<1>1. /\ h \in DOMAIN seqOf /\ g \in DOMAIN seqOf /\ h # g /\ Still(h) /\ Still(g)
      /\ Walking /\ Becomes(k)
      /\ seqOf' = [x \in DOMAIN seqOf \ {g} |-> IF x = h THEN r ELSE seqOf[x]]
  BY DEF QUEUE_ADD, IsList
<1>2. /\ l \in AllLinks /\ Apart(h, s) /\ Ring(l, h, s) /\ Apart(g, t) /\ Ring(l, g, t)
      /\ On(h, s) \cap On(g, t) = {} /\ DOMAIN seqOf \subseteq Heads /\ Whole(l, seqOf)
  BY <1>1 DEF ListInv, Whole
<1>3. k \in AllLinks /\ Ring(k, h, r) /\ OnlyIn(W, l, k)
  BY <1>2, Joins
<1>4. Apart(h, r) /\ On(h, r) \subseteq W
  <2> DEFINE n == Len(s)
             m == Len(t)
  <2>1. /\ n \in Nat /\ m \in Nat /\ s \in Seq(Elem) /\ t \in Seq(Elem)
        /\ \A i \in 1 .. n : s[i] \in On(h, s)
        /\ \A i \in 1 .. m : t[i] \in On(g, t)
        /\ \A i, j \in 1 .. n : s[i] = s[j] => i = j
        /\ \A i, j \in 1 .. m : t[i] = t[j] => i = j
    BY <1>2, RingNodes DEF Apart, On
  <2>2. /\ r \in Seq(Elem) /\ Len(r) = n + m
        /\ \A i \in 1 .. n + m : r[i] = IF i <= n THEN s[i] ELSE t[i - n]
    <3> HIDE DEF s, t
    <3> QED
      BY <2>1, ConcatProperties
  <2> HIDE DEF s, t, n, m, r
  <2>3. ASSUME NEW i \in 1 .. Len(r)
        PROVE  \/ i <= n /\ i \in 1 .. n /\ r[i] = s[i]
               \/ ~(i <= n) /\ i - n \in 1 .. m /\ r[i] = t[i - n]
    BY <2>1, <2>2
  <2>4. ASSUME NEW i \in 1 .. Len(r), NEW j \in 1 .. Len(r), r[i] = r[j]
        PROVE  i = j
    <3>1. CASE i <= n /\ j <= n
      BY <2>1, <2>3, <2>4, <3>1
    <3>2. CASE i <= n /\ ~(j <= n)
      BY <1>2, <2>1, <2>3, <2>4, <3>2
    <3>3. CASE ~(i <= n) /\ j <= n
      BY <1>2, <2>1, <2>3, <2>4, <3>3
    <3>4. CASE ~(i <= n) /\ ~(j <= n)
      <4>1. i - n = j - n
        BY <2>1, <2>3, <2>4, <3>4
      <4> QED
        BY <2>1, <2>2, <4>1
    <3> QED
      BY <3>1, <3>2, <3>3, <3>4
  <2>5. \A i \in 1 .. Len(r) : r[i] \in W
    BY <2>1, <2>3
  <2>6. h \in W
    BY DEF On
  <2> HIDE DEF W
  <2>7. On(h, r) \subseteq W
    BY <2>5, <2>6 DEF On
  <2> QED
    BY <2>2, <2>4, <2>7 DEF Apart
<1>5. /\ DOMAIN seqOf' = DOMAIN seqOf \ {g} /\ seqOf'[h] = r
      /\ \A x \in DOMAIN seqOf' : x # h => seqOf'[x] = seqOf[x]
  BY <1>1
<1>6. \A x \in DOMAIN seqOf' : x \notin C =>
          x \in DOMAIN seqOf /\ seqOf'[x] = seqOf[x] /\ On(x, seqOf[x]) \cap W = {}
  BY <1>1, <1>2, <1>5 DEF Whole
<1>7. \A x \in DOMAIN seqOf' : x \in C =>
          Apart(x, seqOf'[x]) /\ Ring(k, x, seqOf'[x]) /\ On(x, seqOf'[x]) \subseteq W
  BY <1>3, <1>4, <1>5
<1>8. \A x, y \in DOMAIN seqOf' :
          x \in C /\ y \in C /\ x # y => On(x, seqOf'[x]) \cap On(y, seqOf'[y]) = {}
  OBVIOUS
<1>9. walk # NoWalk => walk.head \notin C /\ walk.head \in DOMAIN seqOf' /\ walk.at \notin W
  BY <1>1, <1>5, HeadsApart DEF Still
<1>10. DOMAIN seqOf' \subseteq Heads
  BY <1>2, <1>5
<1>11. Walking /\ Becomes(k) /\ k \in AllLinks /\ OnlyIn(W, links, k)
  BY <1>1, <1>3
<1> HIDE DEF C, W, k
<1>12. Rewriting(k, C, W)
  BY <1>6, <1>7, <1>8, <1>9, <1>10, <1>11 DEF Rewriting
<1> QED
  BY <1>11, <1>12, Rewrites

\* QUEUE_SPLIT and the other case of QUEUE_MOVE
LEMMA StepsDivide ==
  ASSUME ListAssumption, ListInv, NEW h \in DOMAIN seqOf, NEW g \in Heads, h # g,
         NEW m \in 1 .. Len(seqOf[h]), Still(h), Still(g), Walking,
         Becomes(Split(links, h, seqOf[h][m], g)),
         ListsBecome(Both(h, SubSeq(seqOf[h], 1, m - 1),
                          g, SubSeq(seqOf[h], m, Len(seqOf[h]))))
  PROVE  ListInv'
<1> DEFINE s == seqOf[h]
           l == links
           k == Split(l, h, s[m], g)
           u == SubSeq(s, 1, m - 1)
           w == SubSeq(s, m, Len(s))
           C == {h, g}
           W == On(h, s) \cup {g}
<1>1. /\ l \in AllLinks /\ Apart(h, s) /\ Ring(l, h, s) /\ Whole(l, seqOf)
      /\ DOMAIN seqOf \subseteq Heads
  BY DEF ListInv, Whole
<1>2. g \notin On(h, s)
  BY HeadsApart
<1>3. k \in AllLinks /\ Ring(k, h, u) /\ Ring(k, g, w) /\ OnlyIn(W, l, k)
  BY <1>1, <1>2, SplitsRing
<1>4. /\ Apart(h, u) /\ Apart(g, w) /\ On(h, u) \subseteq W /\ On(g, w) \subseteq W
      /\ On(h, u) \cap On(g, w) = {}
  <2> DEFINE n == Len(s)
  <2>1. /\ n \in Nat /\ s \in Seq(Elem) /\ m \in 1 .. n
        /\ \A i \in 1 .. n : s[i] \in On(h, s) /\ s[i] # h
        /\ \A i, j \in 1 .. n : s[i] = s[j] => i = j
        /\ h \in On(h, s)
    BY <1>1, RingNodes DEF Apart, On
  <2>2. /\ u \in Seq(Elem) /\ Len(u) = m - 1 /\ \A i \in 1 .. m - 1 : u[i] = s[i]
    <3>1. 1 \in 1 .. n + 1 /\ m - 1 \in 1 - 1 .. n
      BY <2>1
    <3>2. /\ u \in Seq(Elem) /\ Len(u) = (m - 1) - 1 + 1
          /\ \A i \in 1 .. (m - 1) - 1 + 1 : u[i] = s[1 + i - 1]
      BY <2>1, <3>1, PartOf
    <3> QED
      BY <2>1, <3>2
  <2>3. /\ w \in Seq(Elem) /\ Len(w) = n - m + 1
        /\ \A i \in 1 .. n - m + 1 : w[i] = s[m + i - 1]
    <3>1. m \in 1 .. n + 1 /\ n \in m - 1 .. n
      BY <2>1
    <3> QED
      BY <2>1, <3>1, PartOf
  <2> HIDE DEF s, n, u, w
  <2>4. \A i \in 1 .. Len(u) : i \in 1 .. n /\ u[i] = s[i] /\ i < m
    BY <2>1, <2>2
  <2>5. \A i \in 1 .. Len(w) : m + i - 1 \in 1 .. n /\ w[i] = s[m + i - 1] /\ m + i - 1 >= m
    BY <2>1, <2>3
  <2>6. \A i, j \in 1 .. Len(u) : u[i] = u[j] => i = j
    BY <2>1, <2>4
  <2>7. ASSUME NEW i \in 1 .. Len(w), NEW j \in 1 .. Len(w), w[i] = w[j]
        PROVE  i = j
    <3>1. m + i - 1 = m + j - 1
      BY <2>1, <2>5, <2>7
    <3> QED
      BY <2>1, <3>1
  <2>8. On(h, u) \subseteq On(h, s)
    BY <2>1, <2>4 DEF On
  <2>9. \A i \in 1 .. Len(w) : w[i] \in On(h, s) /\ w[i] # h
    BY <2>1, <2>5
  <2>10. ASSUME NEW i \in 1 .. Len(u), NEW j \in 1 .. Len(w)
         PROVE  u[i] # w[j]
    BY <2>1, <2>4, <2>5
  <2>11. On(h, u) \cap On(g, w) = {}
    <3>1. \A x \in On(h, u) : x # g
      BY <1>2, <2>8
    <3> QED
      BY <2>9, <2>10, <3>1 DEF On
  <2>12. On(g, w) \subseteq W
    BY <2>9 DEF On
  <2>13. Apart(h, u) /\ Apart(g, w)
    BY <1>1, <2>2, <2>3, <2>6, <2>7 DEF Apart
  <2> QED
    BY <2>8, <2>11, <2>12, <2>13
<1>5. /\ DOMAIN seqOf' = DOMAIN seqOf \cup {h, g} /\ seqOf'[h] = u /\ seqOf'[g] = w
      /\ \A x \in DOMAIN seqOf : x # h /\ x # g => seqOf'[x] = seqOf[x]
  <2>1. ListsBecome(Both(h, u, g, w))
    OBVIOUS
  <2> HIDE DEF u, w, s
  <2> QED
    BY <2>1, NamedBoth
<1>6. \A x \in DOMAIN seqOf' : x \notin C =>
          x \in DOMAIN seqOf /\ seqOf'[x] = seqOf[x] /\ On(x, seqOf[x]) \cap W = {}
  <2> TAKE x \in DOMAIN seqOf'
  <2> HAVE x \notin C
  <2>1. x \in DOMAIN seqOf /\ seqOf'[x] = seqOf[x] /\ x # h /\ x # g
    BY <1>5
  <2>2. On(x, seqOf[x]) \cap On(h, s) = {}
    BY <1>1, <2>1 DEF Whole
  <2>3. g \notin On(x, seqOf[x])
    BY <2>1, HeadsApart
  <2> QED
    BY <2>1, <2>2, <2>3
<1>7. \A x \in DOMAIN seqOf' : x \in C =>
          Apart(x, seqOf'[x]) /\ Ring(k, x, seqOf'[x]) /\ On(x, seqOf'[x]) \subseteq W
  BY <1>3, <1>4, <1>5
<1>8. \A x, y \in DOMAIN seqOf' :
          x \in C /\ y \in C /\ x # y => On(x, seqOf'[x]) \cap On(y, seqOf'[y]) = {}
  BY <1>4, <1>5
<1>9. walk # NoWalk => walk.head \notin C /\ walk.head \in DOMAIN seqOf' /\ walk.at \notin W
  BY <1>5, HeadsApart DEF Still
<1>10. DOMAIN seqOf' \subseteq Heads
  BY <1>1, <1>5
<1>11. Walking /\ Becomes(k) /\ OnlyIn(W, links, k) /\ k \in AllLinks
  BY <1>3
<1> HIDE DEF C, W, k, u, w, s
<1>12. Rewriting(k, C, W)
  BY <1>6, <1>7, <1>8, <1>9, <1>10, <1>11 DEF Rewriting
<1> QED
  BY <1>11, <1>12, Rewrites

LEMMA StepsMove ==
  ASSUME ListAssumption, ListInv, NEW h \in Heads, NEW g \in Heads, QUEUE_MOVE(h, g)
  PROVE  ListInv'
<1> DEFINE s == seqOf[h]
           n == Len(s)
<1>1. /\ h \in DOMAIN seqOf /\ h # g /\ Still(h) /\ Still(g) /\ Walking
      /\ Becomes(Moved(links, h, g))
      /\ ListsBecome(IF s = <<>> THEN One(g, <<>>) ELSE Both(h, <<>>, g, s))
      /\ IsList(g) => seqOf[g] = <<>>
  BY DEF QUEUE_MOVE, IsList
<1>2. links \in AllLinks /\ Apart(h, s) /\ Ring(links, h, s)
  BY <1>1 DEF ListInv, Whole
<1>3. /\ n \in Nat /\ s \in Seq(Elem) /\ Nth(h, s, 0) = h /\ Nth(h, s, n + 1) = h
      /\ \A i \in 1 .. n : Nth(h, s, i) = s[i] /\ s[i] # h
  <2>1. s \in Seq(Elem)
    BY <1>2 DEF Apart
  <2> HIDE DEF s
  <2> QED
    BY <1>2, <2>1, RingNodes
<1>4. links.next[h] = Nth(h, s, 1)
  BY <1>2, <1>3 DEF Ring
<1>5. CASE s = <<>>
  <2> DEFINE k == Inited(links, g)
             W == {g}
  <2>1. n = 0
    BY <1>5
  <2>2. Empty(links, h)
    BY <1>3, <1>4, <2>1 DEF Empty
  <2>3. Becomes(k) /\ ListsBecome(One(g, <<>>))
    BY <1>1, <1>5, <2>2 DEF Moved
  <2>4. k \in AllLinks /\ Ring(k, g, <<>>) /\ OnlyIn(W, links, k)
    BY <1>2, InitsRing
  <2>5. Apart(g, <<>>) /\ On(g, <<>>) \subseteq W
    BY DEF Apart, On
  <2>6. \A x \in DOMAIN seqOf : x # g => On(x, seqOf[x]) \cap W = {}
    BY HeadsApart
  <2>7. walk # NoWalk => walk.at \notin W
    BY HeadsApart
  <2> HIDE DEF k, W
  <2> QED
    BY <1>1, <2>3, <2>4, <2>5, <2>6, <2>7, OneList
<1>6. CASE s # <<>>
  <2>1. n # 0
    BY <1>3, <1>6, EmptySeq
  <2>2. 1 \in 1 .. n
    BY <1>3, <2>1
  <2>3. ~Empty(links, h) /\ links.next[h] = s[1]
    BY <1>3, <1>4, <2>2 DEF Empty
  <2>4. Becomes(Split(links, h, s[1], g)) /\ ListsBecome(Both(h, <<>>, g, s))
    BY <1>1, <1>6, <2>3 DEF Moved
  <2>5. SubSeq(s, 1, 1 - 1) = <<>> /\ SubSeq(s, 1, n) = s
    <3> HIDE DEF s
    <3>1. SubSeq(s, 1, 0) = <<>> /\ SubSeq(s, 1, Len(s)) = s
      BY <1>3, SubSeqProperties, SubSeqEmpty, SubSeqFull
    <3> QED
      BY <3>1 DEF n
  <2> QED
    BY <1>1, <2>2, <2>4, <2>5, StepsDivide
<1> QED
  BY <1>5, <1>6

\* QUEUE_FOREACH
LEMMA StepsWalk ==
  ASSUME ListAssumption, ListInv,
         (\E h \in Heads : ForeachBegin(h)) \/ ForeachNext
  PROVE  ListInv'
<1>1. links' = links /\ seqOf' = seqOf
  BY DEF ForeachBegin, ForeachNext, Step, links
<1>2. links \in AllLinks /\ Whole(links, seqOf) /\ WalkHolds(links, seqOf, walk, seen)
  BY DEF ListInv
<1>3. SUFFICES WalkHolds(links, seqOf, walk', seen')
  BY <1>1, <1>2 DEF ListInv
<1>4. links.next = next
  BY DEF links
<1>5. ASSUME NEW h \in Heads, ForeachBegin(h)
      PROVE  WalkHolds(links, seqOf, walk', seen')
  <2> DEFINE s == seqOf[h]
             a == next[h]
             w == [head |-> h, at |-> a]
             z == [met |-> <<a>>, all |-> s]
  <2>1. /\ h \in DOMAIN seqOf /\ a # h /\ walk' = w /\ seen' = z
    BY <1>5 DEF ForeachBegin, IsList
  <2>2. Apart(h, s) /\ Ring(links, h, s)
    BY <1>2, <2>1 DEF Whole
  <2>3. /\ Len(s) \in Nat /\ s \in Seq(Elem) /\ Nth(h, s, 0) = h /\ Nth(h, s, Len(s) + 1) = h
        /\ \A i \in 1 .. Len(s) : Nth(h, s, i) = s[i] /\ s[i] \in Elem /\ s[i] # h
    <3>1. s \in Seq(Elem)
      BY <2>2 DEF Apart
    <3> HIDE DEF s
    <3> QED
      BY <2>2, <3>1, RingNodes
  <2>4. a = Nth(h, s, 1)
    BY <1>4, <2>2, <2>3 DEF Ring
  <2>5. Len(s) # 0
    BY <2>1, <2>3, <2>4
  <2>6. 1 \in 1 .. Len(s) /\ a = s[1] /\ a \in Elem
    BY <2>3, <2>4, <2>5
  <2>7. next[a] = Nth(h, s, 2)
    <3>1. 1 \in 0 .. Len(s) /\ Nth(h, s, 1) = a
      BY <2>3, <2>4, <2>6
    <3> QED
      BY <1>4, <2>2, <3>1 DEF Ring
  <2>8. /\ <<a>> \in Seq(Elem) /\ Len(<<a>>) = 1 /\ <<a>>[1] = a
    BY <2>6
  <2>9. Before(seqOf, w, z) = 1
    BY <2>3, <2>8 DEF Before
  <2>10. \A g \in DOMAIN seqOf : a \in On(g, seqOf[g]) => g = h
    <3>1. a \in On(h, s)
      BY <2>6 DEF On
    <3> QED
      BY <1>2, <2>1, <3>1 DEF Whole
  <2>11. OnItsWay(links, seqOf, w, z)
    <3>1. /\ w.head = h /\ w.at = a /\ z.met = <<a>> /\ z.all = s
      OBVIOUS
    <3> HIDE DEF w, z, a
    <3> QED
      BY <1>4, <2>1, <2>3, <2>6, <2>7, <2>8, <2>9, <2>10, <3>1 DEF OnItsWay
  <2>12. w # NoWalk
    BY DEF NoWalk, ListAssumption, QueueNode
  <2>13. /\ z \in [met : Seq(Elem), all : Seq(Elem)] /\ Len(z.met) <= Len(z.all)
         /\ \A i \in 1 .. Len(z.met) : z.met[i] = z.all[i]
    BY <2>3, <2>6, <2>8
  <2> HIDE DEF w, z
  <2>14. WalkHolds(links, seqOf, w, z)
    BY <2>11, <2>12, <2>13 DEF WalkHolds
  <2> QED
    BY <2>1, <2>14
<1>6. ASSUME ForeachNext
      PROVE  WalkHolds(links, seqOf, walk', seen')
  <2> DEFINE h == walk.head
             s == seqOf[h]
             n == Len(seen.all)
             m == Len(seen.met)
             d == Len(s) - (n - m)
             a == next[walk.at]
  <2>1. /\ walk # NoWalk
        /\ walk' = IF a = h THEN NoWalk ELSE [head |-> h, at |-> a]
        /\ seen' = IF a = h THEN seen ELSE [seen EXCEPT !.met = Append(@, a)]
    BY <1>6 DEF ForeachNext, Step
  <2>2. OnItsWay(links, seqOf, walk, seen)
    BY <1>2, <2>1 DEF WalkHolds
  <2>3. /\ h \in DOMAIN seqOf /\ Before(seqOf, walk, seen) = d
        /\ seen \in [met : Seq(Elem), all : Seq(Elem)] /\ n \in Nat /\ m \in Nat /\ m <= n
        /\ \A i \in 1 .. m : seen.met[i] = seen.all[i]
    BY <1>2, <2>2 DEF WalkHolds, OnItsWay, Before
  <2>4. /\ d >= 0 /\ \A j \in 1 .. n - m : s[d + j] = seen.all[m + j]
        /\ a = Nth(h, s, d + 1)
    BY <1>4, <2>2, <2>3 DEF OnItsWay
  <2>5. Apart(h, s) /\ Ring(links, h, s)
    BY <1>2, <2>3 DEF Whole
  <2>6. /\ Len(s) \in Nat /\ Nth(h, s, Len(s) + 1) = h
        /\ \A i \in 1 .. Len(s) : Nth(h, s, i) = s[i] /\ s[i] \in Elem /\ s[i] # h
    BY <2>5, RingNodes
  <2>7. CASE a = h
    <3>1. n - m = 0
      <4> HIDE DEF s, n, m, h, a
      <4>1. d + 1 \in 1 .. Len(s) + 1
        BY <2>3, <2>4, <2>6
      <4>2. d + 1 \notin 1 .. Len(s)
        BY <2>4, <2>6, <2>7
      <4> QED
        BY <2>3, <2>6, <4>1, <4>2
    <3>2. walk' = NoWalk /\ seen' = seen /\ m = n
      BY <2>1, <2>3, <2>7, <3>1
    <3> QED
      BY <1>2, <2>3, <3>2 DEF WalkHolds
  <2>8. CASE a # h
    <3> DEFINE w == [head |-> h, at |-> a]
               z == [seen EXCEPT !.met = Append(@, a)]
    <3>1. walk' = w /\ seen' = z
      BY <2>1, <2>8
    <3>2. d + 1 \in 1 .. Len(s) /\ d \in Nat /\ n - m >= 1
      <4> HIDE DEF s, n, m, h, a
      <4>1. d + 1 # Len(s) + 1
        BY <2>4, <2>6, <2>8
      <4> QED
        BY <2>3, <2>4, <2>6, <4>1
    <3>3. a = s[d + 1] /\ a \in Elem /\ a = seen.all[m + 1]
      <4>1. 1 \in 1 .. n - m
        BY <2>3, <3>2
      <4> QED
        BY <2>4, <2>6, <3>2, <4>1
    <3>4. /\ Append(seen.met, a) \in Seq(Elem) /\ Len(Append(seen.met, a)) = m + 1
          /\ \A i \in 1 .. m : Append(seen.met, a)[i] = seen.met[i]
          /\ Append(seen.met, a)[m + 1] = a
      BY <2>3, <3>3, AppendProperties
    <3>5. /\ w.head = h /\ w.at = a /\ z.met = Append(seen.met, a) /\ z.all = seen.all
          /\ z \in [met : Seq(Elem), all : Seq(Elem)]
      BY <2>3, <3>4
    <3> HIDE DEF w, z
    <3>6. Before(seqOf, w, z) = d + 1 /\ Len(z.met) = m + 1 /\ Len(z.all) = n
      <4>1. Before(seqOf, w, z) = Len(s) - (n - (m + 1))
        BY <3>4, <3>5 DEF Before
      <4> HIDE DEF s, n, m
      <4> QED
        BY <2>3, <2>6, <3>4, <3>5, <4>1 DEF n, m
    <3>7. ASSUME NEW j \in 1 .. n - (m + 1)
          PROVE  s[(d + 1) + j] = seen.all[(m + 1) + j]
      <4> HIDE DEF s, n, m, h
      <4>1. j + 1 \in 1 .. n - m /\ d + (j + 1) = (d + 1) + j /\ m + (j + 1) = (m + 1) + j
        BY <2>3, <2>6
      <4> QED
        BY <2>4, <4>1
    <3>8. next[a] = Nth(h, s, (d + 1) + 1)
      <4> HIDE DEF s, d, h, a
      <4>1. d + 1 \in 0 .. Len(s) /\ Nth(h, s, d + 1) = a
        BY <2>4, <2>6, <3>2
      <4>2. links.next[Nth(h, s, d + 1)] = Nth(h, s, (d + 1) + 1)
        BY <2>5, <4>1 DEF Ring
      <4> QED
        BY <1>4, <4>1, <4>2
    <3>9. \A g \in DOMAIN seqOf : a \in On(g, seqOf[g]) => g = h
      <4>1. a \in On(h, s)
        BY <3>2, <3>3 DEF On
      <4> QED
        BY <1>2, <2>3, <4>1 DEF Whole
    <3>10. OnItsWay(links, seqOf, w, z)
      <4>1. d + 1 >= 0 /\ d + 1 >= 1
        <5> HIDE DEF d
        <5> QED
          BY <3>2
      <4>2. seqOf[w.head] = s
        BY <3>5
      <4> HIDE DEF d, n, m, a, s
      <4> QED
        BY <1>4, <2>3, <3>3, <3>5, <3>6, <3>7, <3>8, <3>9, <4>1, <4>2 DEF OnItsWay
    <3>11. w # NoWalk
      <4>1. h \in Heads
        BY <1>2, <2>3 DEF Whole
      <4> QED
        BY <3>5, <4>1 DEF NoWalk, ListAssumption, QueueNode
    <3>12. Len(z.met) <= Len(z.all) /\ \A i \in 1 .. Len(z.met) : z.met[i] = z.all[i]
      <4> HIDE DEF n, m, a, s
      <4>1. m + 1 <= n
        BY <2>3, <2>6, <3>2
      <4>2. \A i \in 1 .. m + 1 : i \in 1 .. m \/ i = m + 1
        BY <2>3
      <4> QED
        BY <2>3, <3>3, <3>4, <3>5, <3>6, <4>1, <4>2
    <3>13. WalkHolds(links, seqOf, w, z)
      BY <3>5, <3>10, <3>11, <3>12 DEF WalkHolds
    <3> QED
      BY <3>1, <3>13
  <2> QED
    BY <2>7, <2>8
<1> QED
  BY <1>5, <1>6

\* The lists start as uninitialised nodes.
LEMMA ListStarts ==
  ASSUME ListAssumption, ListInit
  PROVE  ListInv
<1>1. links \in AllLinks
  BY DEF ListInit, links, AllLinks
<1>2. Whole(links, seqOf)
  BY DEF ListInit, Whole
<1>3. /\ seen = [met |-> <<>>, all |-> <<>>] /\ walk = NoWalk /\ <<>> \in Seq(Elem) /\ Len(<<>>) = 0
  BY DEF ListInit
<1>4. WalkHolds(links, seqOf, walk, seen)
  BY <1>3 DEF WalkHolds
<1> QED
  BY <1>1, <1>2, <1>4 DEF ListInv

LEMMA ListStep ==
  ASSUME ListAssumption, ListInv, [ListNext]_listVars
  PROVE  ListInv'
<1>1. CASE UNCHANGED listVars
  BY <1>1 DEF listVars, ListInv, links
<1>2. ASSUME NEW h \in Heads, QUEUE_INIT(h)
      PROVE  ListInv'
  BY <1>2, StepsInit
<1>3. ASSUME NEW h \in Heads, NEW q \in Elem, QUEUE_INSERT_HEAD(h, q) \/ QUEUE_INSERT_TAIL(h, q)
      PROVE  ListInv'
  BY <1>3, StepsInsert
<1>4. ASSUME NEW h \in Heads, NEW i \in 1 .. Cardinality(Elem), QUEUE_REMOVE(h, i)
      PROVE  ListInv'
  BY <1>4, StepsRemove
<1>5. ASSUME NEW h \in Heads, NEW n \in Heads, QUEUE_ADD(h, n)
      PROVE  ListInv'
  BY <1>5, StepsAdd
<1>6. ASSUME NEW h \in Heads, NEW n \in Heads, QUEUE_MOVE(h, n)
      PROVE  ListInv'
  BY <1>6, StepsMove
<1>7. ASSUME NEW h \in Heads, NEW n \in Heads, NEW i \in 1 .. Cardinality(Elem), QUEUE_SPLIT(h, i, n)
      PROVE  ListInv'
  <2>1. /\ h \in DOMAIN seqOf /\ i \in 1 .. Len(seqOf[h]) /\ h # n /\ Still(h) /\ Still(n) /\ Walking
        /\ Becomes(Split(links, h, seqOf[h][i], n))
        /\ ListsBecome(Both(h, SubSeq(seqOf[h], 1, i - 1), n, SubSeq(seqOf[h], i, Len(seqOf[h]))))
    BY <1>7 DEF QUEUE_SPLIT, IsList
  <2> QED
    BY <2>1, StepsDivide
<1>8. ASSUME (\E h \in Heads : ForeachBegin(h)) \/ ForeachNext
      PROVE  ListInv'
  BY <1>8, StepsWalk
<1> QED
  BY <1>1, <1>2, <1>3, <1>4, <1>5, <1>6, <1>7, <1>8 DEF ListNext

\* The invariant says what ListsHold does.
LEMMA ListInvHolds ==
  ASSUME ListAssumption, ListInv
  PROVE  ListsHold
<1>1. Whole(links, seqOf) /\ WalkHolds(links, seqOf, walk, seen) /\ links.next = next
      /\ links.prev = prev
  BY DEF ListInv, links
<1>2. ASSUME NEW h \in DOMAIN seqOf
      PROVE  LET ring == <<h>> \o seqOf[h] \o <<h>>
             IN  \A i \in 1 .. Len(ring) - 1 :
                    next[ring[i]] = ring[i + 1] /\ prev[ring[i + 1]] = ring[i]
  <2> DEFINE s == seqOf[h]
             a == <<h>> \o s
             ring == a \o <<h>>
             n == Len(s)
  <2>1. Apart(h, s) /\ Ring(links, h, s)
    BY <1>1 DEF Whole
  <2>2. n \in Nat /\ s \in Seq(Elem) /\ h \in QueueNode
        /\ \A i \in 1 .. n : s[i] \in QueueNode
    BY <2>1, RingNodes DEF Apart
  <2>3. /\ s \in Seq(QueueNode) /\ <<h>> \in Seq(QueueNode) /\ Len(<<h>>) = 1 /\ <<h>>[1] = h
    BY <2>2 DEF QueueNode
  <2> HIDE DEF s
  <2>4. /\ a \in Seq(QueueNode) /\ Len(a) = 1 + n
        /\ \A i \in 1 .. 1 + n : a[i] = IF i <= 1 THEN <<h>>[i] ELSE s[i - 1]
    BY <2>2, <2>3, ConcatProperties
  <2> HIDE DEF a
  <2>5. /\ Len(ring) = (1 + n) + 1
        /\ \A i \in 1 .. (1 + n) + 1 : ring[i] = IF i <= 1 + n THEN a[i] ELSE <<h>>[i - (1 + n)]
    BY <2>2, <2>3, <2>4, ConcatProperties
  <2> HIDE DEF ring, n
  <2>6. ASSUME NEW i \in 0 .. n + 1
        PROVE  ring[i + 1] = Nth(h, s, i)
    <3>1. CASE i = 0
      BY <2>2, <2>3, <2>4, <2>5, <3>1 DEF Nth, n
    <3>2. CASE i \in 1 .. n
      BY <2>2, <2>3, <2>4, <2>5, <3>2 DEF Nth, n
    <3>3. CASE i = n + 1
      BY <2>2, <2>3, <2>4, <2>5, <3>3 DEF Nth, n
    <3> QED
      BY <2>2, <3>1, <3>2, <3>3
  <2>7. ASSUME NEW i \in 1 .. Len(ring) - 1
        PROVE  next[ring[i]] = ring[i + 1] /\ prev[ring[i + 1]] = ring[i]
    <3> DEFINE j == i - 1
    <3>1. j \in 0 .. n /\ j \in 0 .. n + 1 /\ j + 1 \in 0 .. n + 1 /\ i = j + 1 /\ i + 1 = (j + 1) + 1
      BY <2>2, <2>5
    <3> HIDE DEF j
    <3>2. ring[i] = Nth(h, s, j) /\ ring[i + 1] = Nth(h, s, j + 1)
      BY <2>6, <3>1
    <3> QED
      BY <1>1, <2>1, <3>1, <3>2 DEF Ring, n
  <2> QED
    BY <2>7 DEF ring, a, s
<1>3. RingsAreTheLists
  BY <1>2 DEF RingsAreTheLists
<1>4. WalkMeetsAll
  <2> DEFINE p == seen.met
             r == seen.all
  <2>1. /\ p \in Seq(Elem) /\ r \in Seq(Elem) /\ Len(p) \in Nat /\ Len(r) \in Nat
        /\ Len(p) <= Len(r) /\ \A i \in 1 .. Len(p) : p[i] = r[i]
        /\ walk = NoWalk => Len(p) = Len(r)
    BY <1>1 DEF WalkHolds
  <2> HIDE DEF p, r
  <2>2. SubSeq(p, 1, Len(p)) = SubSeq(r, 1, Len(p))
    <3>1. 1 \in 1 .. Len(p) + 1 /\ Len(p) \in 1 - 1 .. Len(p) /\ 1 \in 1 .. Len(r) + 1
          /\ Len(p) \in 1 - 1 .. Len(r)
      BY <2>1
    <3>2. /\ SubSeq(p, 1, Len(p)) \in Seq(Elem) /\ Len(SubSeq(p, 1, Len(p))) = Len(p) - 1 + 1
          /\ \A i \in 1 .. Len(p) - 1 + 1 : SubSeq(p, 1, Len(p))[i] = p[1 + i - 1]
      BY <2>1, <3>1, PartOf
    <3>3. /\ SubSeq(r, 1, Len(p)) \in Seq(Elem) /\ Len(SubSeq(r, 1, Len(p))) = Len(p) - 1 + 1
          /\ \A i \in 1 .. Len(p) - 1 + 1 : SubSeq(r, 1, Len(p))[i] = r[1 + i - 1]
      BY <2>1, <3>1, PartOf
    <3> QED
      BY <2>1, <3>2, <3>3, SeqEqual
  <2>3. IsPrefix(p, r)
    BY <2>1, <2>2 DEF IsPrefix
  <2>4. walk = NoWalk => p = r
    BY <2>1, SeqEqual
  <2> QED
    BY <2>3, <2>4 DEF WalkMeetsAll, p, r
<1> QED
  BY <1>3, <1>4 DEF ListsHold

\* The lists of base/queue.h: always rings of exactly their elements, both ways
\* round, and a walk meets every element though its body takes out those it
\* stands on.
THEOREM ListsStayWhole == ListAssumption => (ListSpec => []ListsHold)
<1> SUFFICES ASSUME ListAssumption
             PROVE  ListSpec => []ListsHold
  OBVIOUS
<1>1. ListInit => ListInv
  BY ListStarts
<1>2. ListInv /\ [ListNext]_listVars => ListInv'
  BY ListStep
<1>3. ListInv => ListsHold
  BY ListInvHolds
<1> QED
  BY <1>1, <1>2, <1>3, PTL DEF ListSpec

-----------------------------------------------------------------------------
(* KHash: the walk of growing steps. *)

PowersUpTo(m, f) == f = [j \in 0 .. m |-> IF j = 0 THEN 1 ELSE 2 * f[j - 1]]

LEMMA PowersExist ==
  ASSUME NEW m \in Nat
  PROVE  \E f : PowersUpTo(m, f)
<1> DEFINE P(k) == \E f : PowersUpTo(k, f)
           Bad == {k \in Nat : ~P(k)}
<1>1. P(0)
  <2>1. PowersUpTo(0, [j \in 0 .. 0 |-> 1])
    BY DEF PowersUpTo
  <2> QED
    BY <2>1
<1>2. ASSUME NEW k \in Nat, P(k) PROVE P(k + 1)
  <2>1. PICK f : PowersUpTo(k, f)
    BY <1>2
  <2> DEFINE g == [j \in 0 .. k + 1 |-> IF j = 0 THEN 1 ELSE 2 * f[j - 1]]
  <2>2. ASSUME NEW i \in 0 .. k PROVE g[i] = f[i]
    <3>1. f[i] = (IF i = 0 THEN 1 ELSE 2 * f[i - 1])
      BY <2>1, Zenon DEF PowersUpTo
    <3>2. i \in 0 .. k + 1
      OBVIOUS
    <3> QED
      BY <3>1, <3>2, Zenon
  <2>3. ASSUME NEW i \in 0 .. k + 1, i # 0 PROVE g[i - 1] = f[i - 1]
    <3>1. i - 1 \in 0 .. k
      BY <2>3
    <3> QED
      BY <2>2, <3>1
  <2>4. PowersUpTo(k + 1, g)
    BY <2>3 DEF PowersUpTo
  <2> QED
    BY <2>4
<1>3. Bad = {}
  <2> SUFFICES ASSUME Bad # {} PROVE FALSE
    OBVIOUS
  <2> HIDE DEF P
  <2>1. PICK k \in Bad : \A j \in Bad : k <= j
    BY SmallestMember
  <2>2. CASE k = 0
    BY <1>1, <2>2
  <2>3. CASE k # 0
    <3>1. k - 1 \in Nat /\ k - 1 \notin Bad /\ k = (k - 1) + 1
      BY <2>1, <2>3
    <3> QED
      BY <1>2, <3>1
  <2> QED
    BY <2>2, <2>3
<1> QED
  BY <1>3

LEMMA TwoToIs == \A j \in 0 .. 30 : TwoTo[j] = IF j = 0 THEN 1 ELSE 2 * TwoTo[j - 1]
<1> DEFINE Q(f) == PowersUpTo(30, f)
           f == CHOOSE g : Q(g)
<1>1. Q(f)
  <2>1. \E g : Q(g)
    BY PowersExist
  <2> HIDE DEF Q
  <2> QED
    BY <2>1
<1>2. TwoTo = f
  BY Zenon DEF TwoTo, PowersUpTo
<1> HIDE DEF f
<1> SUFFICES ASSUME NEW j \in 0 .. 30 PROVE f[j] = IF j = 0 THEN 1 ELSE 2 * f[j - 1]
  BY <1>2
<1> QED
  BY <1>1, Zenon DEF PowersUpTo

LEMMA TwoToGrows ==
  /\ TwoTo[0] = 1 /\ TwoTo[2] = 4
  /\ \A j \in 0 .. 30 : TwoTo[j] \in Nat /\ TwoTo[j] >= 1
  /\ \A j \in 0 .. 29 : TwoTo[j + 1] = 2 * TwoTo[j]
<1>1. TwoTo[0] = 1 /\ TwoTo[1] = 2 * TwoTo[0] /\ TwoTo[2] = 2 * TwoTo[1]
  <2>1. 0 \in 0 .. 30 /\ 1 \in 0 .. 30 /\ 2 \in 0 .. 30
    OBVIOUS
  <2>2. 1 - 1 = 0 /\ 2 - 1 = 1 /\ 1 # 0 /\ 2 # 0
    OBVIOUS
  <2> QED
    BY <2>1, <2>2, TwoToIs
<1>2. ASSUME NEW j \in 0 .. 29 PROVE TwoTo[j + 1] = 2 * TwoTo[j]
  <2>1. j + 1 \in 0 .. 30 /\ j + 1 # 0 /\ (j + 1) - 1 = j
    OBVIOUS
  <2> QED
    BY <2>1, TwoToIs
<1> DEFINE Bad == {j \in Nat : j <= 30 /\ ~(TwoTo[j] \in Nat /\ TwoTo[j] >= 1)}
<1>3. Bad = {}
  <2> SUFFICES ASSUME Bad # {} PROVE FALSE
    OBVIOUS
  <2>1. PICK j \in Bad : \A i \in Bad : j <= i
    BY SmallestMember
  <2>2. j # 0
    BY <1>1
  <2> DEFINE i == j - 1
  <2>3. i \in 0 .. 29 /\ i \notin Bad /\ j = i + 1
    BY <2>1, <2>2
  <2>4. TwoTo[j] = 2 * TwoTo[i]
    BY <1>2, <2>3
  <2>5. TwoTo[i] \in Nat /\ TwoTo[i] >= 1
    BY <2>3
  <2> HIDE DEF i
  <2> QED
    BY <2>4, <2>5
<1> QED
  BY <1>1, <1>2, <1>3

LEMMA PowersApart ==
  ASSUME NEW i \in 0 .. 30, NEW j \in 0 .. 30, i < j
  PROVE  2 * TwoTo[i] <= TwoTo[j]
<1> DEFINE Bad == {m \in Nat : m <= 30 /\ i < m /\ ~(2 * TwoTo[i] <= TwoTo[m])}
<1>1. Bad = {}
  <2> SUFFICES ASSUME Bad # {} PROVE FALSE
    OBVIOUS
  <2>1. PICK m \in Bad : \A o \in Bad : m <= o
    BY SmallestMember
  <2> DEFINE n == m - 1
  <2>2. n \in 0 .. 29 /\ n \notin Bad /\ m = n + 1 /\ n >= i
    BY <2>1
  <2>3. TwoTo[m] = 2 * TwoTo[n] /\ TwoTo[n] \in Nat /\ TwoTo[n] >= 1 /\ TwoTo[i] \in Nat
    BY <2>2, TwoToGrows
  <2>4. n = i \/ 2 * TwoTo[i] <= TwoTo[n]
    BY <2>2
  <2> HIDE DEF n
  <2> QED
    BY <2>1, <2>3, <2>4
<1> QED
  BY <1>1

Divides(d, n) == \E q \in Int : n = d * q

HalvedBy(x, y, d, q) == \E z \in Int : y = 2 * z /\ x * z = d * q

LEMMA Halves ==
  ASSUME NEW d \in Int, NEW q \in Int, NEW a \in Int, NEW y \in Int,
         NEW x \in Int, x = 2 * a + 1, NEW e \in Int, e = 2 * d, x * y = e * q
  PROVE  HalvedBy(x, y, d, q)
<1> DEFINE z == d * q - a * y
<1>1. z \in Int
  OBVIOUS
<1>2. (2 * a + 1) * y = 2 * (a * y) + y /\ (2 * d) * q = 2 * (d * q)
  OBVIOUS
<1>3. y = 2 * z
  BY <1>2
<1>4. 2 * ((2 * a + 1) * z) = (2 * a + 1) * (2 * z)
  BY <1>1
<1>5. 2 * ((2 * a + 1) * z) = 2 * (d * q)
  BY <1>2, <1>3, <1>4
<1>6. (2 * a + 1) * z \in Int /\ d * q \in Int
  BY <1>1
<1> HIDE DEF z
<1>7. (2 * a + 1) * z = d * q
  BY <1>5, <1>6
<1> QED
  BY <1>1, <1>3, <1>7 DEF HalvedBy

LEMMA OddFactor ==
  ASSUME NEW j \in 0 .. 30, NEW a \in Int, NEW y \in Int, NEW x \in Int, x = 2 * a + 1,
         Divides(TwoTo[j], x * y)
  PROVE  Divides(TwoTo[j], y)
<1> DEFINE Ok(m) == \A z \in Int : Divides(TwoTo[m], x * z) => Divides(TwoTo[m], z)
           Bad == {m \in Nat : m <= 30 /\ ~Ok(m)}
<1>1. Ok(0)
  <2>1. \A z \in Int : z = 1 * z
    OBVIOUS
  <2> QED
    BY <2>1, TwoToGrows DEF Divides
<1>2. ASSUME NEW n \in 0 .. 29, Ok(n) PROVE Ok(n + 1)
  <2> SUFFICES ASSUME NEW z \in Int, Divides(TwoTo[n + 1], x * z)
               PROVE  Divides(TwoTo[n + 1], z)
    OBVIOUS
  <2>1. TwoTo[n + 1] = 2 * TwoTo[n] /\ TwoTo[n] \in Int
    BY TwoToGrows
  <2> DEFINE d == TwoTo[n]
             e == 2 * d
  <2>2. PICK q \in Int : x * z = e * q
    BY <2>1 DEF Divides
  <2>3. HalvedBy(x, z, d, q)
    <3>1. d \in Int /\ e = 2 * d /\ e \in Int
      BY <2>1
    <3> HIDE DEF d, e
    <3> QED
      BY <2>2, <3>1, Halves
  <2>9. PICK h \in Int : z = 2 * h /\ x * h = d * q
    BY <2>3 DEF HalvedBy
  <2>4. Divides(TwoTo[n], x * h)
    BY <2>9 DEF Divides
  <2>5. Divides(TwoTo[n], h)
    BY <1>2, <2>4
  <2>6. PICK r \in Int : h = TwoTo[n] * r
    BY <2>5 DEF Divides
  <2>7. \A t \in Int, u \in Int : 2 * (t * u) = (2 * t) * u
    OBVIOUS
  <2>8. z = (2 * TwoTo[n]) * r
    BY <2>1, <2>9, <2>6, <2>7
  <2> QED
    BY <2>1, <2>8 DEF Divides
<1>3. Bad = {}
  <2> SUFFICES ASSUME Bad # {} PROVE FALSE
    OBVIOUS
  <2> HIDE DEF Ok
  <2>1. PICK m \in Bad : \A o \in Bad : m <= o
    BY SmallestMember
  <2>2. m # 0
    BY <1>1
  <2> DEFINE n == m - 1
  <2>3. n \in 0 .. 29 /\ n \notin Bad /\ m = n + 1
    BY <2>1, <2>2
  <2>4. Ok(n)
    BY <2>3
  <2> QED
    BY <1>2, <2>3, <2>4
<1> QED
  BY <1>3

LEMMA Triangular ==
  ASSUME NEW n \in Nat
  PROVE  (n * (n + 1)) \div 2 \in Nat /\ 2 * ((n * (n + 1)) \div 2) = n * (n + 1)
<1> DEFINE AtLeastHalf(x) == x \in Nat /\ n * (n + 1) = 2 * x
<1>1. \E x : AtLeastHalf(x)
  <2>1. PICK m \in Nat : n = 2 * m \/ n = 2 * m + 1
    <3> DEFINE m == n \div 2
    <3>1. m \in Nat /\ (n = 2 * m \/ n = 2 * m + 1)
      OBVIOUS
    <3> QED
      BY <3>1
  <2>2. CASE n = 2 * m
    <3>1. \A u \in Nat : (2 * u) * (2 * u + 1) = 2 * (u * (2 * u + 1)) /\ u * (2 * u + 1) \in Nat
      OBVIOUS
    <3>2. AtLeastHalf(m * (2 * m + 1))
      BY <2>2, <3>1
    <3> QED
      BY <3>2, Zenon
  <2>3. CASE n = 2 * m + 1
    <3>1. \A u \in Nat : (2 * u + 1) * (2 * u + 1 + 1) = 2 * ((2 * u + 1) * (u + 1))
                         /\ (2 * u + 1) * (u + 1) \in Nat
      OBVIOUS
    <3>2. AtLeastHalf((2 * m + 1) * (m + 1))
      BY <2>3, <3>1
    <3> QED
      BY <3>2, Zenon
  <2> QED
    BY <2>1, <2>2, <2>3
<1>2. PICK x : AtLeastHalf(x)
  BY <1>1
<1>3. \A p : p \in Nat => ((2 * p) \div 2 = p)
  OBVIOUS
<1> QED
  BY <1>2, <1>3

LEMMA ProbeInside ==
  ASSUME NEW k \in Nat, NEW n \in Nat, NEW b \in Nat, b # 0
  PROVE  Probe(k, n, b) \in 0 .. b - 1
<1> DEFINE c == k + (n * (n + 1)) \div 2
<1>1. c \in Nat
  BY Triangular
<1> HIDE DEF c
<1>2. c % b \in 0 .. b - 1
  BY <1>1
<1> QED
  BY <1>2 DEF Probe, c

\* Two numbers with the same remainder.
LEMMA SameRemainder ==
  ASSUME NEW x \in Nat, NEW y \in Nat, NEW b \in Nat, b # 0, x % b = y % b
  PROVE  Divides(b, x - y)
<1>1. \A u \in Nat, d \in Nat : d # 0 => u = d * (u \div d) + (u % d) /\ u \div d \in Nat
  OBVIOUS
<1> DEFINE q == x \div b
           r == y \div b
           m == x % b
<1>2. x = b * q + m /\ y = b * r + m /\ q \in Int /\ r \in Int /\ m \in Int
  BY <1>1
<1> HIDE DEF q, r, m
<1>3. x - y = b * q - b * r
  BY <1>2
<1>4. b * q - b * r = b * (q - r) /\ q - r \in Int
  BY <1>2
<1> QED
  BY <1>3, <1>4 DEF Divides

LEMMA ProbesApart ==
  ASSUME NEW j \in 0 .. 29, NEW k \in Nat,
         NEW m \in Nat, NEW n \in Nat, m < n, n < TwoTo[j]
  PROVE  Probe(k, m, TwoTo[j]) # Probe(k, n, TwoTo[j])
<1> DEFINE b == TwoTo[j]
           two == TwoTo[j + 1]
           s == (n * (n + 1)) \div 2
           t == (m * (m + 1)) \div 2
           x == n - m
           y == n + m + 1
<1> SUFFICES ASSUME Probe(k, m, b) = Probe(k, n, b) PROVE FALSE
  OBVIOUS
<1>1. b \in Nat /\ b # 0 /\ two = 2 * b /\ two \in Nat /\ j + 1 \in 0 .. 30
  BY TwoToGrows
<1>2. s \in Nat /\ t \in Nat /\ 2 * s = n * (n + 1) /\ 2 * t = m * (m + 1)
  BY Triangular
<1>3. (k + s) % b = (k + t) % b
  BY DEF Probe
<1>4. Divides(b, (k + s) - (k + t))
  <2>1. k + s \in Nat /\ k + t \in Nat
    BY <1>2
  <2> HIDE DEF b, s, t
  <2> QED
    BY <1>1, <1>3, <2>1, SameRemainder
<1>5. PICK q \in Int : (k + s) - (k + t) = b * q
  BY <1>4 DEF Divides
<1>6. 2 * s - 2 * t = two * q
  <2> HIDE DEF b, s, t, two
  <2>1. s - t = b * q
    BY <1>2, <1>5
  <2>2. 2 * (b * q) = (2 * b) * q
    BY <1>1
  <2> QED
    BY <1>1, <1>2, <2>1, <2>2
<1>7. x * y = two * q
  <2>1. n * (n + 1) - m * (m + 1) = (n - m) * (n + m + 1)
    OBVIOUS
  <2> HIDE DEF b, s, t, two
  <2> QED
    BY <1>2, <1>6, <2>1
<1>8. x \in 1 .. two - 1 /\ y \in 1 .. two - 1
  <2> HIDE DEF two
  <2> QED
    BY <1>1 DEF b
<1> DEFINE Small(z) == ~Divides(two, z)
<1>9. ASSUME NEW z \in 1 .. two - 1 PROVE ~Divides(two, z)
  <2> SUFFICES ASSUME NEW r \in Int, z = two * r PROVE FALSE
    BY DEF Divides
  <2> HIDE DEF two
  <2>1. r <= 0 \/ r >= 1
    OBVIOUS
  <2>2. CASE r <= 0
    <3>1. \A u \in Nat, v \in Int : v <= 0 => u * v <= 0
      OBVIOUS
    <3> QED
      BY <1>1, <2>2, <3>1
  <2>3. CASE r >= 1
    <3>1. \A u \in Nat, v \in Int : v >= 1 => u * v >= u
      OBVIOUS
    <3> QED
      BY <1>1, <2>3, <3>1
  <2> QED
    BY <2>1, <2>2, <2>3
<1>10. x \in Int /\ y \in Int /\ x * y = y * x /\ Divides(two, x * y)
  BY <1>7 DEF Divides
<1>11. x + y = 2 * n + 1
  OBVIOUS
<1>12. (\E a \in Int : x = 2 * a + 1) \/ (\E a \in Int : y = 2 * a + 1)
  <2> HIDE DEF x, y
  <2>1. x = 2 * (x \div 2) \/ x = 2 * (x \div 2) + 1
    BY <1>10
  <2>2. x \div 2 \in Int
    BY <1>10
  <2>3. CASE x = 2 * (x \div 2)
    <3>1. y = 2 * (n - (x \div 2)) + 1 /\ n - (x \div 2) \in Int
      BY <1>10, <1>11, <2>2, <2>3
    <3> QED
      BY <3>1
  <2> QED
    BY <2>1, <2>2, <2>3
<1> HIDE DEF x, y, b
<1>13. CASE \E a \in Int : x = 2 * a + 1
  <2>1. Divides(two, y)
    BY <1>1, <1>10, <1>13, OddFactor
  <2> QED
    BY <1>8, <1>9, <2>1
<1>14. CASE \E a \in Int : y = 2 * a + 1
  <2>1. Divides(two, x)
    BY <1>1, <1>10, <1>14, OddFactor
  <2> QED
    BY <1>8, <1>9, <2>1
<1> QED
  BY <1>12, <1>13, <1>14

\* The walk of growing steps comes to every bucket.
LEMMA ProbesCover ==
  ASSUME NEW j \in 0 .. 29, NEW k \in Nat, NEW c \in 0 .. TwoTo[j] - 1
  PROVE  \E n \in 0 .. TwoTo[j] - 1 : Probe(k, n, TwoTo[j]) = c
<1> DEFINE b == TwoTo[j]
           S == 0 .. b - 1
           T == S \ {c}
           f == [n \in S |-> Probe(k, n, b)]
<1> SUFFICES ASSUME \A n \in S : Probe(k, n, b) # c PROVE FALSE
  OBVIOUS
<1>1. b \in Nat /\ b # 0
  BY TwoToGrows
<1>2. ASSUME NEW m \in S, NEW n \in S, m # n PROVE Probe(k, m, b) # Probe(k, n, b)
  <2>1. m \in Nat /\ n \in Nat /\ m < b /\ n < b /\ (m < n \/ n < m)
    BY <1>1, <1>2
  <2> QED
    BY <2>1, ProbesApart
<1>3. ASSUME NEW n \in S PROVE Probe(k, n, b) \in S
  BY <1>1, <1>3, ProbeInside
<1> HIDE DEF b
<1>4. f \in [S -> T]
  <2>1. \A n \in S : Probe(k, n, b) \in T
    BY <1>3
  <2> QED
    BY <2>1
<1>5. IsFiniteSet(S) /\ Cardinality(S) = b
  <2>1. b - 1 \in Int /\ 0 \in Int /\ (b - 1) - 0 + 1 = b /\ ~(0 > b - 1)
    BY <1>1
  <2>2. IsFiniteSet(0 .. b - 1) /\ Cardinality(0 .. b - 1) = (IF 0 > b - 1 THEN 0 ELSE (b - 1) - 0 + 1)
    BY <2>1, FS_Interval, Zenon
  <2> QED
    BY <2>1, <2>2
<1>6. IsFiniteSet(T) /\ Cardinality(T) = Cardinality(S) - 1
  <2>1. c \in S
    BY DEF b
  <2> QED
    BY <1>5, <2>1, FS_RemoveElement
<1>7. Cardinality(T) < Cardinality(S)
  BY <1>1, <1>5, <1>6
<1>8. \E m, n \in S : m # n /\ f[m] = f[n]
  <2> HIDE DEF S, T, f
  <2> QED
    BY <1>4, <1>5, <1>6, <1>7, FS_PigeonHole
<1>9. PICK m \in S, n \in S : m # n /\ f[m] = f[n]
  BY <1>8
<1> QED
  BY <1>2, <1>9

\* Where the walk ends if it comes to a bucket of the set.
LEMMA StepsEnd ==
  ASSUME NEW k, NEW b \in Nat, NEW stop, NEW c \in 0 .. b - 1, Probe(k, c, b) \in stop
  PROVE  /\ Steps(k, b, stop) \in 0 .. c /\ Steps(k, b, stop) \in 0 .. b - 1
         /\ Probe(k, Steps(k, b, stop), b) \in stop
         /\ \A m \in 0 .. Steps(k, b, stop) - 1 : Probe(k, m, b) \notin stop
<1> DEFINE found == {n \in 0 .. b - 1 : Probe(k, n, b) \in stop}
           First(n) == n \in found /\ \A o \in found : n <= o
           s == CHOOSE n \in found : \A o \in found : n <= o
<1>1. found \in SUBSET Nat /\ c \in found
  OBVIOUS
<1>2. \E n \in found : \A o \in found : n <= o
  BY <1>1, SmallestMember
<1>3. s \in found /\ \A o \in found : s <= o
  BY <1>2
<1>4. Steps(k, b, stop) = s
  BY <1>1 DEF Steps
<1> HIDE DEF s
<1>5. s \in 0 .. b - 1 /\ s <= c /\ Probe(k, s, b) \in stop
  BY <1>1, <1>3
<1>6. ASSUME NEW m \in 0 .. s - 1 PROVE Probe(k, m, b) \notin stop
  <2>1. m \in 0 .. b - 1 /\ ~(s <= m)
    BY <1>5
  <2> QED
    BY <1>3, <2>1
<1> QED
  BY <1>4, <1>5, <1>6

-----------------------------------------------------------------------------
(* KHash: sizes and bounds. *)

Sizes == {TwoTo[j] : j \in 2 .. 29}

LEMMA Bounds ==
  ASSUME NEW b \in Nat
  PROVE  /\ UpperBound(b) \in Nat /\ UpperBound(0) = 0 /\ UpperBound(4) = 3
         /\ b >= 4 => /\ UpperBound(b) < b /\ UpperBound(b) < UpperBound(2 * b)
                      /\ b <= 2 * UpperBound(b)
BY DEF UpperBound

LEMMA SizesAre ==
  ASSUME NEW b \in Sizes
  PROVE  /\ b \in Nat /\ b >= 4
         /\ \E j \in 2 .. 29 : b = TwoTo[j]
<1>1. PICK j \in 2 .. 29 : b = TwoTo[j]
  BY DEF Sizes
<1>2. b \in Nat /\ TwoTo[2] = 4 /\ j \in 0 .. 30 /\ 2 \in 0 .. 30 /\ j \in Int
  BY <1>1, TwoToGrows
<1>3. CASE j = 2
  BY <1>1, <1>2, <1>3
<1>4. CASE j > 2
  <2>1. 2 * TwoTo[2] <= TwoTo[j]
    BY <1>2, <1>4, PowersApart
  <2> QED
    BY <1>1, <1>2, <2>1
<1> QED
  BY <1>1, <1>2, <1>3, <1>4

RoundsTo(n, p) == p \in {TwoTo[j] : j \in 0 .. 30} /\ p >= n /\ (p = 1 \/ p < 2 * n)

LEMMA RoundedUp ==
  ASSUME NEW n \in 1 .. TwoTo[30]
  PROVE  RoundsTo(n, kroundup32(n))
<1> DEFINE Enough == {j \in Nat : j <= 30 /\ TwoTo[j] >= n}
<1>1. TwoTo[30] \in Nat /\ 30 \in Enough /\ Enough \in SUBSET Nat
  BY TwoToGrows
<1>2. PICK j \in Enough : \A i \in Enough : j <= i
  <2> HIDE DEF Enough
  <2> QED
    BY <1>1, SmallestMember
<1>3. TwoTo[j] \in Nat /\ j \in 0 .. 30
  BY TwoToGrows
<1>4. TwoTo[j] = 1 \/ TwoTo[j] < 2 * n
  <2>1. CASE j = 0
    BY <2>1, TwoToGrows
  <2>2. CASE j # 0
    <3> DEFINE i == j - 1
    <3>1. i \in 0 .. 29 /\ i \in Nat /\ j = i + 1 /\ ~(j <= i) /\ i <= 30
      BY <1>3, <2>2
    <3>2. i \notin Enough
      BY <1>2, <3>1
    <3>3. TwoTo[i] < n /\ TwoTo[j] = 2 * TwoTo[i] /\ TwoTo[i] \in Nat
      BY <3>1, <3>2, TwoToGrows
    <3> HIDE DEF i
    <3> QED
      BY <3>3
  <2> QED
    BY <2>1, <2>2
<1>5. RoundsTo(n, TwoTo[j])
  BY <1>2, <1>3, <1>4 DEF RoundsTo
<1>6. \E p \in {TwoTo[i] : i \in 0 .. 30} : p >= n /\ (p = 1 \/ p < 2 * n)
  BY <1>5 DEF RoundsTo
<1> QED
  BY <1>6, Zenon DEF kroundup32, RoundsTo

LEMMA RoundsToOne ==
  ASSUME NEW n \in Nat, n > 1, NEW p, NEW q, RoundsTo(n, p), RoundsTo(n, q)
  PROVE  p = q
<1>1. PICK i \in 0 .. 30 : p = TwoTo[i]
  BY DEF RoundsTo
<1>2. PICK j \in 0 .. 30 : q = TwoTo[j]
  BY DEF RoundsTo
<1>3. p \in Nat /\ q \in Nat /\ p >= n /\ p < 2 * n /\ q >= n /\ q < 2 * n
  <2>1. TwoTo[i] \in Nat /\ TwoTo[j] \in Nat
    BY TwoToGrows
  <2>2. p \in Nat /\ q \in Nat
    BY <1>1, <1>2, <2>1
  <2>3. p >= n /\ (p = 1 \/ p < 2 * n) /\ q >= n /\ (q = 1 \/ q < 2 * n)
    BY DEF RoundsTo
  <2> QED
    BY <2>2, <2>3
<1>4. ~(i < j)
  <2> SUFFICES ASSUME i < j PROVE FALSE
    OBVIOUS
  <2>1. 2 * p <= q
    BY <1>1, <1>2, PowersApart
  <2> QED
    BY <1>3, <2>1
<1>5. ~(j < i)
  <2> SUFFICES ASSUME j < i PROVE FALSE
    OBVIOUS
  <2>1. 2 * q <= p
    BY <1>1, <1>2, PowersApart
  <2> QED
    BY <1>3, <2>1
<1>6. i = j
  BY <1>4, <1>5
<1> QED
  BY <1>1, <1>2, <1>6

LEMMA NewSizes ==
  ASSUME NEW n \in 0 .. TwoTo[30]
  PROVE  /\ NewSize(n) \in Nat
         /\ NewSize(n) <= TwoTo[29] => NewSize(n) \in Sizes
<1>1. CASE n <= 4
  <2>1. NewSize(n) = TwoTo[2] /\ 2 \in 2 .. 29
    BY <1>1, TwoToGrows DEF NewSize
  <2> QED
    BY <2>1, TwoToGrows DEF Sizes
<1>2. CASE ~(n <= 4)
  <2>1. n \in 1 .. TwoTo[30] /\ NewSize(n) = kroundup32(n)
    BY <1>2, TwoToGrows DEF NewSize
  <2>2. PICK j \in 0 .. 30 : NewSize(n) = TwoTo[j] /\ TwoTo[j] >= n
    BY <2>1, RoundedUp DEF RoundsTo
  <2>3. TwoTo[j] \in Nat /\ TwoTo[j] > 4
    BY <1>2, <2>2, TwoToGrows
  <2>4. j # 0 /\ j # 1
    <3>1. TwoTo[0] = 1 /\ TwoTo[0 + 1] = 2 * TwoTo[0]
      BY TwoToGrows
    <3>2. TwoTo[1] = 2
      BY <3>1
    <3> QED
      BY <2>3, <3>1, <3>2
  <2>5. CASE j = 30
    <3>1. TwoTo[29 + 1] = 2 * TwoTo[29] /\ TwoTo[29] \in Nat /\ TwoTo[29] >= 1
      BY TwoToGrows
    <3>2. TwoTo[30] = 2 * TwoTo[29]
      BY <3>1
    <3> QED
      BY <2>2, <2>3, <2>5, <3>1, <3>2
  <2>6. CASE j # 30
    <3>1. j \in 2 .. 29
      BY <2>4, <2>6
    <3> QED
      BY <2>2, <2>3, <3>1 DEF Sizes
  <2> QED
    BY <2>5, <2>6
<1> QED
  BY <1>1, <1>2

\* The sizes kh_put asks for: the same again, or the double.
LEMMA NextSizes ==
  ASSUME NEW b \in Sizes
  PROVE  NewSize(b - 1) = b /\ NewSize(b + 1) = 2 * b
<1>1. PICK j \in 2 .. 29 : b = TwoTo[j]
  BY DEF Sizes
<1>2. b \in Nat /\ b >= 4 /\ TwoTo[j + 1] = 2 * b /\ j + 1 \in 0 .. 30 /\ j \in 0 .. 30
  BY <1>1, SizesAre, TwoToGrows
<1>3. 2 * b <= TwoTo[30]
  <2>1. CASE j + 1 = 30
    BY <1>2, <2>1
  <2>2. CASE j + 1 < 30
    <3> DEFINE i == j + 1
    <3>1. i \in 0 .. 30 /\ 30 \in 0 .. 30 /\ i < 30 /\ TwoTo[i] = 2 * b
      BY <1>2, <2>2
    <3> HIDE DEF i
    <3>2. 2 * TwoTo[i] <= TwoTo[30] /\ TwoTo[30] \in Nat
      BY <3>1, PowersApart, TwoToGrows
    <3>3. \A x \in Nat, y \in Nat : 2 * (2 * x) <= y => 2 * x <= y
      OBVIOUS
    <3> QED
      BY <1>2, <3>1, <3>2, <3>3
  <2> QED
    BY <1>2, <2>1, <2>2
<1>4. NewSize(b - 1) = b
  <2>1. CASE b = 4
    BY <2>1 DEF NewSize
  <2>2. CASE b # 4
    <3> DEFINE n == b - 1
    <3>0. b # 5
      <4>1. j # 2
        BY <1>1, <2>2, TwoToGrows
      <4>2. 2 * TwoTo[2] <= b
        BY <1>1, <1>2, <4>1, PowersApart
      <4> QED
        BY <4>2, TwoToGrows
    <3>1. n \in 1 .. TwoTo[30] /\ n \in Nat /\ n > 1 /\ b >= n /\ b < 2 * n /\ ~(n <= 4)
      BY <1>2, <1>3, <2>2, <3>0, TwoToGrows
    <3>2. RoundsTo(n, b)
      BY <1>1, <1>2, <3>1 DEF RoundsTo
    <3> HIDE DEF n
    <3>3. RoundsTo(n, kroundup32(n)) /\ NewSize(n) = kroundup32(n)
      BY <3>1, RoundedUp DEF NewSize
    <3>4. NewSize(n) = b
      BY <3>1, <3>2, <3>3, RoundsToOne
    <3> QED
      BY <3>4 DEF n
  <2> QED
    BY <2>1, <2>2
<1>5. NewSize(b + 1) = 2 * b
  <2> DEFINE n == b + 1
             d == 2 * b
  <2>1. n \in 1 .. TwoTo[30] /\ n \in Nat /\ n > 1 /\ d >= n /\ d < 2 * n /\ ~(n <= 4)
    BY <1>2, <1>3, TwoToGrows
  <2>2. RoundsTo(n, d)
    BY <1>2, <2>1 DEF RoundsTo
  <2> HIDE DEF n, d
  <2>3. RoundsTo(n, kroundup32(n)) /\ NewSize(n) = kroundup32(n)
    BY <2>1, RoundedUp DEF NewSize
  <2>4. NewSize(n) = d
    BY <2>1, <2>2, <2>3, RoundsToOne
  <2> QED
    BY <2>4 DEF n, d
<1> QED
  BY <1>4, <1>5

-----------------------------------------------------------------------------
(* KHash: what is true of a table between two calls. *)

BucketFlag == {"empty", "live", "deleted"}

IsTable(t) ==
    /\ t = [n_buckets |-> t.n_buckets, size |-> t.size, n_occupied |-> t.n_occupied,
            flags |-> t.flags, keys |-> t.keys, vals |-> t.vals]
    /\ t.flags \in [0 .. t.n_buckets - 1 -> BucketFlag]
    /\ t.keys = [i \in 0 .. t.n_buckets - 1 |-> t.keys[i]]
    /\ t.vals = [i \in 0 .. t.n_buckets - 1 |-> t.vals[i]]

\* The walk for k comes to bucket i before it comes to an empty one.
Met(flags, k, i, b) ==
    \E n \in 0 .. b - 1 :
        /\ Probe(k, n, b) = i
        /\ \A m \in 0 .. n - 1 : flags[Probe(k, m, b)] # "empty"

Alone(t) == \A i \in With(t, "live"), j \in With(t, "live") : t.keys[i] = t.keys[j] => i = j
AllMet(t) == \A i \in With(t, "live") : Met(t.flags, t.keys[i], i, t.n_buckets)
Keyed(t) == \A i \in With(t, "live") : t.keys[i] \in HashKey \cup ListKey
BucketsCounted(t) ==
    /\ t.size = Cardinality(With(t, "live"))
    /\ t.n_occupied = Cardinality(DOMAIN t.flags \ With(t, "empty"))
    /\ t.n_occupied <= UpperBound(t.n_buckets)

Sound(t) ==
    /\ IsTable(t) /\ t.n_buckets \in {0} \cup Sizes
    /\ Keyed(t) /\ Alone(t) /\ AllMet(t) /\ BucketsCounted(t)

LEMMA BucketsAre ==
  ASSUME NEW t, IsTable(t), t.n_buckets \in {0} \cup Sizes
  PROVE  /\ t.n_buckets \in Nat /\ (t.n_buckets = 0 \/ t.n_buckets >= 4)
         /\ DOMAIN t.flags = 0 .. t.n_buckets - 1
         /\ IsFiniteSet(DOMAIN t.flags) /\ Cardinality(DOMAIN t.flags) = t.n_buckets
         /\ \A s : IsFiniteSet(With(t, s)) /\ With(t, s) \subseteq 0 .. t.n_buckets - 1
<1>1. t.n_buckets \in Nat /\ (t.n_buckets = 0 \/ t.n_buckets >= 4)
  BY SizesAre
<1>2. DOMAIN t.flags = 0 .. t.n_buckets - 1
  BY DEF IsTable
<1> DEFINE b == t.n_buckets
<1>3. IsFiniteSet(0 .. b - 1) /\ Cardinality(0 .. b - 1) = b
  <2>1. b \in Nat
    BY <1>1
  <2> HIDE DEF b
  <2>2. b - 1 \in Int /\ 0 \in Int
    BY <2>1
  <2>3. IsFiniteSet(0 .. b - 1) /\ Cardinality(0 .. b - 1) = (IF 0 > b - 1 THEN 0 ELSE (b - 1) - 0 + 1)
    BY <2>2, FS_Interval, Zenon
  <2> QED
    BY <2>1, <2>3
<1>4. ASSUME NEW s PROVE IsFiniteSet(With(t, s)) /\ With(t, s) \subseteq 0 .. b - 1
  <2>1. With(t, s) \in SUBSET (0 .. b - 1)
    BY <1>2 DEF With
  <2> QED
    BY <1>3, <2>1, FS_Subset
<1> QED
  BY <1>1, <1>2, <1>3, <1>4

LEMMA HasEmpty ==
  ASSUME NEW t, Sound(t), t.n_buckets # 0
  PROVE  \E e \in 0 .. t.n_buckets - 1 : t.flags[e] = "empty"
<1>1. /\ IsFiniteSet(DOMAIN t.flags) /\ Cardinality(DOMAIN t.flags) = t.n_buckets
      /\ DOMAIN t.flags = 0 .. t.n_buckets - 1 /\ t.n_buckets \in Nat /\ t.n_buckets >= 4
  BY BucketsAre DEF Sound
<1> DEFINE c == Cardinality(DOMAIN t.flags \ With(t, "empty"))
<1>2. c < t.n_buckets
  <2>1. c <= UpperBound(t.n_buckets)
    BY DEF Sound, BucketsCounted
  <2>2. c \in Nat
    BY <1>1, FS_Difference, FS_CardinalityType
  <2>3. UpperBound(t.n_buckets) \in Nat /\ UpperBound(t.n_buckets) < t.n_buckets
    BY <1>1, Bounds
  <2> HIDE DEF c
  <2> QED
    BY <1>1, <2>1, <2>2, <2>3
<1>3. With(t, "empty") # {}
  <2> SUFFICES ASSUME With(t, "empty") = {} PROVE FALSE
    OBVIOUS
  <2>1. DOMAIN t.flags \ With(t, "empty") = DOMAIN t.flags
    OBVIOUS
  <2>2. c = t.n_buckets
    BY <1>1, <2>1
  <2> HIDE DEF c
  <2> QED
    BY <1>1, <1>2, <2>2
<1> QED
  BY <1>1, <1>3 DEF With

WalkEnd(t, k) == Probe(k, Steps(k, t.n_buckets, Stops(t, k)), t.n_buckets)

LEMMA WalkEnds ==
  ASSUME HashAssumption, NEW t, Sound(t), t.n_buckets # 0, NEW k \in HashKey \cup ListKey
  PROVE  /\ Steps(k, t.n_buckets, Stops(t, k)) \in 0 .. t.n_buckets - 1
         /\ WalkEnd(t, k) \in 0 .. t.n_buckets - 1
         /\ \A m \in 0 .. Steps(k, t.n_buckets, Stops(t, k)) - 1 :
                Probe(k, m, t.n_buckets) \notin Stops(t, k)
         /\ t.flags[WalkEnd(t, k)] # "empty" =>
                t.flags[WalkEnd(t, k)] = "live" /\ t.keys[WalkEnd(t, k)] = k
         /\ \A i \in With(t, "live") : t.keys[i] = k => WalkEnd(t, k) = i
<1> DEFINE b == t.n_buckets
           stops == Stops(t, k)
           s == Steps(k, b, stops)
<1>1. k \in Nat /\ b \in Nat /\ b # 0 /\ b \in Sizes /\ DOMAIN t.flags = 0 .. b - 1
  BY BucketsAre DEF Sound, HashAssumption
<1>2. PICK j \in 2 .. 29 : b = TwoTo[j]
  BY <1>1 DEF Sizes
<1>3. PICK e \in 0 .. b - 1 : t.flags[e] = "empty"
  BY HasEmpty
<1>4. PICK c \in 0 .. b - 1 : Probe(k, c, b) = e
  <2>1. j \in 0 .. 29 /\ e \in 0 .. TwoTo[j] - 1
    BY <1>2, <1>3
  <2> HIDE DEF b
  <2> QED
    BY <1>1, <1>2, <2>1, ProbesCover
<1>5. e \in stops
  BY <1>1, <1>3 DEF Stops, With
<1> HIDE DEF b, stops
<1>6. /\ s \in 0 .. b - 1 /\ Probe(k, s, b) \in stops
      /\ \A m \in 0 .. s - 1 : Probe(k, m, b) \notin stops
  BY <1>1, <1>4, <1>5, StepsEnd
<1> DEFINE x == Probe(k, s, b)
<1>7. x \in 0 .. b - 1
  BY <1>1, <1>6, ProbeInside
<1>8. t.flags[x] # "empty" => t.flags[x] = "live" /\ t.keys[x] = k
  BY <1>6 DEF stops, Stops, Holding, With
<1>9. ASSUME NEW i \in With(t, "live"), t.keys[i] = k PROVE x = i
  <2>1. Met(t.flags, k, i, b)
    BY <1>9 DEF Sound, AllMet, b
  <2>2. PICK n \in 0 .. b - 1 : /\ Probe(k, n, b) = i
                                /\ \A m \in 0 .. n - 1 : t.flags[Probe(k, m, b)] # "empty"
    BY <2>1 DEF Met
  <2>3. i \in stops
    BY <1>9 DEF stops, Stops, Holding
  <2>4. s <= n
    <3>1. Probe(k, n, b) \in stops
      BY <2>2, <2>3
    <3>2. s \in 0 .. n
      BY <1>1, <3>1, StepsEnd
    <3> QED
      BY <3>2
  <2>5. CASE s = n
    BY <2>2, <2>5
  <2>6. CASE s # n
    <3>1. s \in 0 .. n - 1
      BY <1>6, <2>4, <2>6
    <3>2. t.flags[x] # "empty"
      BY <2>2, <3>1
    <3>3. x \in With(t, "live") /\ t.keys[x] = k
      BY <1>1, <1>7, <1>8, <3>2 DEF With
    <3> QED
      BY <1>9, <3>3 DEF Sound, Alone
  <2> QED
    BY <2>5, <2>6
<1> QED
  BY <1>6, <1>7, <1>8, <1>9 DEF b, stops, WalkEnd

LEMMA Finds ==
  ASSUME HashAssumption, NEW t, Sound(t), NEW k \in HashKey \cup ListKey
  PROVE  /\ \A i \in With(t, "live") : t.keys[i] = k => kh_get(t, k) = i
         /\ kh_get(t, k) # t.n_buckets =>
                kh_get(t, k) \in With(t, "live") /\ t.keys[kh_get(t, k)] = k
<1> DEFINE b == t.n_buckets
           s == Steps(k, b, Stops(t, k))
           x == WalkEnd(t, k)
<1>0. b \in Nat /\ DOMAIN t.flags = 0 .. b - 1
  BY BucketsAre DEF Sound
<1>1. kh_get(t, k) = IF s < b /\ t.flags[x] = "live" THEN x ELSE b
  BY DEF kh_get, WalkEnd
<1>2. CASE b = 0
  <2>1. {n \in 0 .. 0 - 1 : Probe(k, n, 0) \in Stops(t, k)} = {}
    OBVIOUS
  <2>2. s = 0
    BY <1>2, <2>1 DEF Steps
  <2>3. With(t, "live") = {}
    BY <1>0, <1>2 DEF With
  <2> QED
    BY <1>1, <1>2, <2>2, <2>3
<1>3. CASE b # 0
  <2>1. /\ s \in 0 .. b - 1 /\ x \in 0 .. b - 1
        /\ t.flags[x] # "empty" => t.flags[x] = "live" /\ t.keys[x] = k
        /\ \A i \in With(t, "live") : t.keys[i] = k => x = i
    BY <1>3, WalkEnds
  <2> HIDE DEF s, x
  <2>2. s < b /\ x # b
    BY <1>0, <2>1
  <2>3. CASE t.flags[x] = "live"
    BY <1>0, <1>1, <2>1, <2>2, <2>3 DEF With
  <2>4. CASE t.flags[x] # "live"
    BY <1>0, <1>1, <2>1, <2>2, <2>4 DEF With
  <2> QED
    BY <2>3, <2>4
<1> QED
  BY <1>2, <1>3

LEMMA LargestMember ==
  ASSUME NEW n \in Nat, NEW T \in SUBSET (0 .. n), T # {}
  PROVE  \E x \in T : \A y \in T : y <= x
<1> DEFINE D == {d \in Nat : n - d \in T}
<1>1. PICK z \in T : TRUE
  OBVIOUS
<1>2. n - z \in D
  <2>1. z \in Nat /\ z <= n /\ n - (n - z) = z
    OBVIOUS
  <2> QED
    BY <1>1, <2>1
<1>3. PICK d \in D : \A e \in D : d <= e
  BY <1>2, SmallestMember
<1>4. ASSUME NEW y \in T PROVE y <= n - d
  <2>1. n - y \in Nat /\ n - (n - y) = y
    OBVIOUS
  <2>2. n - y \in D
    BY <2>1
  <2>3. d <= n - y /\ d \in Nat /\ y \in Nat
    BY <1>3, <2>2
  <2> QED
    BY <2>3
<1> QED
  BY <1>3, <1>4

LEMMA ChoosesBucket ==
  ASSUME HashAssumption, NEW t, Sound(t), t.n_buckets # 0, NEW k \in HashKey \cup ListKey
  PROVE  /\ BucketFor(t, k) \in 0 .. t.n_buckets - 1
         /\ t.flags[BucketFor(t, k)] = "live" => t.keys[BucketFor(t, k)] = k
         /\ t.flags[BucketFor(t, k)] # "live" =>
                /\ \A i \in With(t, "live") : t.keys[i] # k
                /\ Met(t.flags, k, BucketFor(t, k), t.n_buckets)
<1> DEFINE b == t.n_buckets
           s == Steps(k, b, Stops(t, k))
           e == WalkEnd(t, k)
           passed == {n \in 0 .. s - 1 : Probe(k, n, b) \in With(t, "deleted")}
           last == CHOOSE n \in passed : \A o \in passed : o <= n
           x == BucketFor(t, k)
<1>1. b \in Nat /\ DOMAIN t.flags = 0 .. b - 1 /\ k \in Nat
  BY BucketsAre DEF Sound, HashAssumption
<1>2. /\ s \in 0 .. b - 1 /\ e \in 0 .. b - 1
      /\ \A m \in 0 .. s - 1 : Probe(k, m, b) \notin Stops(t, k)
      /\ t.flags[e] # "empty" => t.flags[e] = "live" /\ t.keys[e] = k
      /\ \A i \in With(t, "live") : t.keys[i] = k => e = i
  BY WalkEnds
<1>3. x = IF passed = {} \/ (s < b /\ e \in With(t, "live")) THEN e ELSE Probe(k, last, b)
  BY DEF BucketFor, WalkEnd
<1>4. e = Probe(k, s, b)
  BY DEF WalkEnd
<1>5. ASSUME NEW m \in 0 .. s - 1 PROVE t.flags[Probe(k, m, b)] # "empty"
  <2>1. Probe(k, m, b) \in 0 .. b - 1
    BY <1>1, ProbeInside
  <2>2. Probe(k, m, b) \notin With(t, "empty")
    BY <1>2, <1>5 DEF Stops
  <2> QED
    BY <1>1, <2>1, <2>2 DEF With
<1> HIDE DEF s, e, x
<1>6. CASE t.flags[e] # "empty"
  <2>1. e \in With(t, "live") /\ s < b
    BY <1>1, <1>2, <1>6 DEF With
  <2>2. x = e
    BY <1>3, <2>1
  <2> QED
    BY <1>2, <1>6, <2>2 DEF x
<1>7. CASE t.flags[e] = "empty"
  <2>1. \A i \in With(t, "live") : t.keys[i] # k
    BY <1>2, <1>7 DEF With
  <2>2. e \notin With(t, "live")
    BY <1>7 DEF With
  <2>3. CASE passed = {}
    <3>1. x = e
      BY <1>3, <2>3
    <3>2. Met(t.flags, k, e, b)
      BY <1>2, <1>4, <1>5 DEF Met
    <3> QED
      BY <1>2, <1>7, <2>1, <3>1, <3>2 DEF x
  <2>4. CASE passed # {}
    <3>1. x = Probe(k, last, b)
      BY <1>3, <2>2, <2>4
    <3>2. last \in passed
      <4>1. passed \in SUBSET (0 .. b)
        BY <1>1, <1>2
      <4>2. \E n \in passed : \A o \in passed : o <= n
        <5> HIDE DEF passed, b
        <5> QED
          BY <1>1, <2>4, <4>1, LargestMember
      <4> QED
        BY <4>2
    <3> HIDE DEF last
    <3>3. last \in 0 .. s - 1 /\ last \in 0 .. b - 1 /\ Probe(k, last, b) \in With(t, "deleted")
      BY <1>1, <1>2, <3>2
    <3>4. x \in 0 .. b - 1 /\ t.flags[x] = "deleted"
      BY <1>1, <3>1, <3>3 DEF With
    <3>5. \A m \in 0 .. last - 1 : m \in 0 .. s - 1
      BY <1>2, <3>3
    <3>6. Met(t.flags, k, x, b)
      BY <1>5, <3>1, <3>3, <3>5 DEF Met
    <3> QED
      BY <2>1, <3>4, <3>6 DEF x
  <2> QED
    BY <2>3, <2>4
<1> QED
  BY <1>6, <1>7

-----------------------------------------------------------------------------
(* KHash: the map a table is. *)

KeysOf(t) == {t.keys[i] : i \in With(t, "live")}

LEMMA ContentIs ==
  ASSUME NEW t, Sound(t)
  PROVE  /\ HashContent(t) = [k \in KeysOf(t) |-> HashContent(t)[k]]
         /\ \A i \in With(t, "live") : HashContent(t)[t.keys[i]] = t.vals[i]
<1>1. HashContent(t) = [k \in KeysOf(t) |-> HashContent(t)[k]]
  BY DEF HashContent, KeysOf
<1>2. ASSUME NEW i \in With(t, "live") PROVE HashContent(t)[t.keys[i]] = t.vals[i]
  <2> DEFINE k == t.keys[i]
             j == CHOOSE j \in With(t, "live") : t.keys[j] = k
  <2>1. j \in With(t, "live") /\ t.keys[j] = k
    OBVIOUS
  <2>2. j = i
    BY <2>1 DEF Sound, Alone
  <2>3. k \in KeysOf(t)
    BY DEF KeysOf
  <2>4. HashContent(t)[k] = t.vals[j]
    BY <2>3 DEF HashContent, KeysOf
  <2> QED
    BY <2>2, <2>4
<1> QED
  BY <1>1, <1>2

LEMMA ContentAgrees ==
  ASSUME NEW t, Sound(t), NEW D, NEW f, f = [k \in D |-> f[k]],
         \A i \in With(t, "live") : t.keys[i] \in D /\ f[t.keys[i]] = t.vals[i],
         \A k \in D : \E i \in With(t, "live") : t.keys[i] = k
  PROVE  HashContent(t) = f
<1> DEFINE c == HashContent(t)
<1>1. c = [k \in KeysOf(t) |-> c[k]] /\ \A i \in With(t, "live") : c[t.keys[i]] = t.vals[i]
  BY ContentIs
<1>2. KeysOf(t) = D
  BY DEF KeysOf
<1>3. ASSUME NEW k \in D PROVE c[k] = f[k]
  BY <1>1
<1> HIDE DEF c
<1>4. c = f
  BY <1>1, <1>2, <1>3
<1> QED
  BY <1>4 DEF c

LEMMA WithValueIs ==
  ASSUME HashAssumption, NEW t, Sound(t), t.n_buckets # 0, NEW k \in HashKey \cup ListKey, NEW v,
         NEW x, x = BucketFor(t, k)
  PROVE  /\ WithValue(t, k, v) =
                [n_buckets |-> t.n_buckets,
                 size |-> IF t.flags[x] = "live" THEN t.size ELSE t.size + 1,
                 n_occupied |-> IF t.flags[x] = "empty" THEN t.n_occupied + 1 ELSE t.n_occupied,
                 flags |-> [t.flags EXCEPT ![x] = "live"],
                 keys |-> [t.keys EXCEPT ![x] = k],
                 vals |-> [t.vals EXCEPT ![x] = v]]
         /\ x \in 0 .. t.n_buckets - 1
         /\ With(WithValue(t, k, v), "live") = With(t, "live") \cup {x}
         /\ With(WithValue(t, k, v), "empty") = With(t, "empty") \ {x}
         /\ With(WithValue(t, k, v), "deleted") = With(t, "deleted") \ {x}
         /\ IsTable(WithValue(t, k, v))
<1> DEFINE b == t.n_buckets
           u == WithValue(t, k, v)
<1>1. IsTable(t) /\ b \in Nat /\ DOMAIN t.flags = 0 .. b - 1
  BY BucketsAre DEF Sound
<1>2. x \in 0 .. b - 1
  BY ChoosesBucket
<1>3. u = [t EXCEPT !.size = IF t.flags[x] = "live" THEN @ ELSE @ + 1,
                    !.n_occupied = IF t.flags[x] = "empty" THEN @ + 1 ELSE @,
                    !.flags[x] = "live", !.keys[x] = k, !.vals[x] = v]
  BY DEF WithValue
<1>4. t = [n_buckets |-> t.n_buckets, size |-> t.size, n_occupied |-> t.n_occupied,
           flags |-> t.flags, keys |-> t.keys, vals |-> t.vals]
  BY <1>1 DEF IsTable
<1> HIDE DEF u
<1>5. u = [n_buckets |-> t.n_buckets,
           size |-> IF t.flags[x] = "live" THEN t.size ELSE t.size + 1,
           n_occupied |-> IF t.flags[x] = "empty" THEN t.n_occupied + 1 ELSE t.n_occupied,
           flags |-> [t.flags EXCEPT ![x] = "live"],
           keys |-> [t.keys EXCEPT ![x] = k],
           vals |-> [t.vals EXCEPT ![x] = v]]
  BY <1>3, <1>4
<1>6. /\ u.n_buckets = b
      /\ u.flags = [t.flags EXCEPT ![x] = "live"] /\ u.keys = [t.keys EXCEPT ![x] = k]
      /\ u.vals = [t.vals EXCEPT ![x] = v]
  BY <1>5
<1>7. IsTable(u)
  <2>1. u.flags \in [0 .. b - 1 -> BucketFlag]
    BY <1>1, <1>2, <1>6 DEF IsTable, BucketFlag
  <2>2. u.keys = [i \in 0 .. b - 1 |-> u.keys[i]]
    BY <1>1, <1>2, <1>6 DEF IsTable
  <2>3. u.vals = [i \in 0 .. b - 1 |-> u.vals[i]]
    BY <1>1, <1>2, <1>6 DEF IsTable
  <2>4. u = [n_buckets |-> u.n_buckets, size |-> u.size, n_occupied |-> u.n_occupied,
             flags |-> u.flags, keys |-> u.keys, vals |-> u.vals]
    BY <1>5
  <2> QED
    BY <1>6, <2>1, <2>2, <2>3, <2>4 DEF IsTable
<1>8. With(u, "live") = With(t, "live") \cup {x} /\ With(u, "empty") = With(t, "empty") \ {x}
      /\ With(u, "deleted") = With(t, "deleted") \ {x}
  <2>1. DOMAIN u.flags = 0 .. b - 1
    BY <1>6, <1>7 DEF IsTable
  <2>2. \A i \in 0 .. b - 1 : u.flags[i] = IF i = x THEN "live" ELSE t.flags[i]
    BY <1>1, <1>6
  <2> QED
    BY <1>1, <1>2, <2>1, <2>2 DEF With
<1> QED
  BY <1>2, <1>5, <1>7, <1>8 DEF u

\* More buckets in use, none given up: what was met still is.
LEMMA StillMet ==
  ASSUME NEW f, NEW g, NEW k \in Nat, NEW i, NEW b \in Nat, b # 0, Met(f, k, i, b),
         \A c \in 0 .. b - 1 : g[c] = "empty" => f[c] = "empty"
  PROVE  Met(g, k, i, b)
<1>1. PICK n \in 0 .. b - 1 :
        Probe(k, n, b) = i /\ \A m \in 0 .. n - 1 : f[Probe(k, m, b)] # "empty"
  BY DEF Met
<1>2. ASSUME NEW m \in 0 .. n - 1 PROVE g[Probe(k, m, b)] # "empty"
  <2>0. m \in Nat
    OBVIOUS
  <2>1. Probe(k, m, b) \in 0 .. b - 1
    BY <2>0, ProbeInside
  <2> QED
    BY <1>1, <2>1
<1> QED
  BY <1>1, <1>2 DEF Met

\* A map with v for k.
Extended(c, k, v) == [j \in DOMAIN c \cup {k} |-> IF j = k THEN v ELSE c[j]]

LEMMA Puts ==
  ASSUME HashAssumption, NEW t, Sound(t), t.n_buckets # 0,
         t.n_occupied < UpperBound(t.n_buckets), NEW k \in HashKey \cup ListKey, NEW v
  PROVE  /\ Sound(WithValue(t, k, v))
         /\ HashContent(WithValue(t, k, v)) = Extended(HashContent(t), k, v)
<1> DEFINE b == t.n_buckets
           x == BucketFor(t, k)
           u == WithValue(t, k, v)
           C == HashContent(t)
           D == DOMAIN C \cup {k}
           f == [j \in D |-> IF j = k THEN v ELSE C[j]]
<1>1. IsTable(t) /\ b \in Nat /\ DOMAIN t.flags = 0 .. b - 1 /\ k \in Nat
      /\ IsFiniteSet(DOMAIN t.flags) /\ \A s : IsFiniteSet(With(t, s))
  BY BucketsAre DEF Sound, HashAssumption
<1>2. /\ u = [n_buckets |-> t.n_buckets,
              size |-> IF t.flags[x] = "live" THEN t.size ELSE t.size + 1,
              n_occupied |-> IF t.flags[x] = "empty" THEN t.n_occupied + 1 ELSE t.n_occupied,
              flags |-> [t.flags EXCEPT ![x] = "live"],
              keys |-> [t.keys EXCEPT ![x] = k],
              vals |-> [t.vals EXCEPT ![x] = v]]
      /\ x \in 0 .. b - 1
      /\ With(u, "live") = With(t, "live") \cup {x}
      /\ With(u, "empty") = With(t, "empty") \ {x}
      /\ IsTable(u)
  BY WithValueIs
<1>3. /\ t.flags[x] = "live" => t.keys[x] = k
      /\ t.flags[x] # "live" => /\ \A i \in With(t, "live") : t.keys[i] # k
                                /\ Met(t.flags, k, x, b)
  BY ChoosesBucket
<1> HIDE DEF u, x
<1>4. /\ u.n_buckets = b /\ DOMAIN u.flags = 0 .. b - 1 /\ u.keys[x] = k /\ u.vals[x] = v
      /\ \A i \in 0 .. b - 1 : u.flags[i] = IF i = x THEN "live" ELSE t.flags[i]
      /\ \A i \in 0 .. b - 1 : i # x => u.keys[i] = t.keys[i] /\ u.vals[i] = t.vals[i]
  <2>1. u.flags = [t.flags EXCEPT ![x] = "live"] /\ u.keys = [t.keys EXCEPT ![x] = k]
        /\ u.vals = [t.vals EXCEPT ![x] = v] /\ u.n_buckets = b
    BY <1>2
  <2>2. DOMAIN t.keys = 0 .. b - 1 /\ DOMAIN t.vals = 0 .. b - 1
    BY <1>1 DEF IsTable
  <2> QED
    BY <1>1, <1>2, <2>1, <2>2
<1>5. ASSUME NEW i \in With(t, "live"), i # x PROVE u.keys[i] = t.keys[i] /\ u.vals[i] = t.vals[i] /\ t.keys[i] # k
  <2>1. i \in 0 .. b - 1
    BY <1>1 DEF With
  <2>2. t.flags[x] = "live" => x \in With(t, "live")
    BY <1>1, <1>2 DEF With
  <2>3. t.keys[i] # k
    BY <1>3, <1>5, <2>2 DEF Sound, Alone
  <2> QED
    BY <1>4, <1>5, <2>1, <2>3
<1>6. Keyed(u)
  <2>1. \A i \in With(t, "live") : t.keys[i] \in HashKey \cup ListKey
    BY DEF Sound, Keyed
  <2>2. ASSUME NEW i \in With(u, "live") PROVE u.keys[i] \in HashKey \cup ListKey
    BY <1>2, <1>4, <1>5, <2>1, <2>2
  <2> QED
    BY <2>2 DEF Keyed
<1>7. Alone(u)
  <2> SUFFICES ASSUME NEW i \in With(u, "live"), NEW j \in With(u, "live"), u.keys[i] = u.keys[j]
               PROVE  i = j
    BY DEF Alone
  <2>1. CASE i # x /\ j # x
    BY <1>2, <1>5, <2>1 DEF Sound, Alone
  <2>2. CASE i = x \/ j = x
    BY <1>2, <1>4, <1>5, <2>2
  <2> QED
    BY <2>1, <2>2
<1>8. AllMet(u)
  <2> SUFFICES ASSUME NEW i \in With(u, "live") PROVE Met(u.flags, u.keys[i], i, b)
    BY <1>4 DEF AllMet
  <2>1. Met(t.flags, u.keys[i], i, b) /\ u.keys[i] \in Nat
    <3>1. CASE i # x
      <4>1. i \in With(t, "live") /\ u.keys[i] = t.keys[i]
        BY <1>2, <1>5, <3>1
      <4> QED
        BY <4>1 DEF Sound, AllMet, Keyed, HashAssumption
    <3>2. CASE i = x
      <4>1. CASE t.flags[x] = "live"
        <5>1. x \in With(t, "live") /\ t.keys[x] = k
          BY <1>1, <1>2, <1>3, <4>1 DEF With
        <5> QED
          BY <1>1, <1>4, <3>2, <5>1 DEF Sound, AllMet
      <4>2. CASE t.flags[x] # "live"
        BY <1>1, <1>3, <1>4, <3>2, <4>2
      <4> QED
        BY <4>1, <4>2
    <3> QED
      BY <3>1, <3>2
  <2>2. \A c \in 0 .. b - 1 : u.flags[c] = "empty" => t.flags[c] = "empty"
    BY <1>4
  <2> HIDE DEF b
  <2>3. b # 0
    BY DEF b
  <2> QED
    BY <1>1, <2>1, <2>2, <2>3, StillMet
<1>9. BucketsCounted(u)
  <2>1. t.size = Cardinality(With(t, "live"))
        /\ t.n_occupied = Cardinality(DOMAIN t.flags \ With(t, "empty"))
        /\ t.n_occupied < UpperBound(b)
    BY DEF Sound, BucketsCounted
  <2>2. u.size = (IF t.flags[x] = "live" THEN t.size ELSE t.size + 1)
        /\ u.n_occupied = (IF t.flags[x] = "empty" THEN t.n_occupied + 1 ELSE t.n_occupied)
    BY <1>2
  <2>3. u.size = Cardinality(With(u, "live"))
    <3>1. x \in With(t, "live") <=> t.flags[x] = "live"
      BY <1>1, <1>2 DEF With
    <3>2. Cardinality(With(t, "live") \cup {x}) =
            IF x \in With(t, "live") THEN Cardinality(With(t, "live")) ELSE Cardinality(With(t, "live")) + 1
      BY <1>1, FS_AddElement
    <3> QED
      BY <1>2, <2>1, <2>2, <3>1, <3>2
  <2> DEFINE used == DOMAIN t.flags \ With(t, "empty")
  <2>4. u.n_occupied = Cardinality(DOMAIN u.flags \ With(u, "empty"))
    <3>1. DOMAIN u.flags \ With(u, "empty") = used \cup {x}
      BY <1>1, <1>2, <1>4
    <3>2. x \in used <=> t.flags[x] # "empty"
      BY <1>1, <1>2 DEF With
    <3>3. IsFiniteSet(used)
      BY <1>1, FS_Difference
    <3> HIDE DEF used
    <3>4. Cardinality(used \cup {x}) = IF x \in used THEN Cardinality(used) ELSE Cardinality(used) + 1
      BY <3>3, FS_AddElement
    <3> QED
      BY <2>1, <2>2, <3>1, <3>2, <3>4 DEF used
  <2>5. u.n_occupied <= UpperBound(u.n_buckets)
    <3>1. t.n_occupied \in Nat
      <4>1. IsFiniteSet(used)
        BY <1>1, FS_Difference
      <4> QED
        BY <2>1, <4>1, FS_CardinalityType
    <3>2. UpperBound(b) \in Nat
      BY <1>1, Bounds
    <3> DEFINE o == t.n_occupied
               m == UpperBound(b)
    <3>3. o + 1 <= m /\ o <= m
      <4> HIDE DEF o, m
      <4>1. o \in Nat /\ m \in Nat /\ o < m
        BY <2>1, <3>1, <3>2 DEF o, m
      <4> QED
        BY <4>1
    <3> QED
      BY <1>4, <2>2, <3>3
  <2> QED
    BY <2>3, <2>4, <2>5 DEF BucketsCounted
<1>10. Sound(u)
  BY <1>2, <1>4, <1>6, <1>7, <1>8, <1>9 DEF Sound
<1>11. HashContent(u) = f
  <2>1. C = [j \in KeysOf(t) |-> C[j]] /\ \A i \in With(t, "live") : C[t.keys[i]] = t.vals[i]
    BY ContentIs
  <2>2. DOMAIN C = KeysOf(t)
    BY <2>1
  <2> HIDE DEF C
  <2>3. ASSUME NEW i \in With(u, "live") PROVE u.keys[i] \in D /\ f[u.keys[i]] = u.vals[i]
    <3>1. CASE i = x
      BY <1>4, <3>1
    <3>2. CASE i # x
      <4>1. i \in With(t, "live") /\ u.keys[i] = t.keys[i] /\ u.vals[i] = t.vals[i] /\ t.keys[i] # k
        BY <1>2, <1>5, <3>2
      <4>2. t.keys[i] \in DOMAIN C
        BY <2>2, <4>1 DEF KeysOf
      <4> QED
        BY <2>1, <4>1, <4>2
    <3> QED
      BY <3>1, <3>2
  <2>4. ASSUME NEW j \in D PROVE \E i \in With(u, "live") : u.keys[i] = j
    <3>1. CASE j = k
      BY <1>2, <1>4, <3>1
    <3>2. CASE j # k
      <4>1. PICK i \in With(t, "live") : t.keys[i] = j
        BY <2>2, <3>2 DEF KeysOf
      <4>2. i # x
        <5>1. i = x => t.flags[x] = "live"
          BY <4>1 DEF With
        <5> QED
          BY <1>3, <3>2, <4>1, <5>1
      <4> QED
        BY <1>2, <1>5, <4>1, <4>2
    <3> QED
      BY <3>1, <3>2
  <2>5. f = [j \in D |-> f[j]]
    OBVIOUS
  <2> HIDE DEF f, D
  <2> QED
    BY <1>10, <2>3, <2>4, <2>5, ContentAgrees
<1> QED
  BY <1>10, <1>11 DEF u, Extended

\* The table without k, and the table without anything.
Lacking(t, k) == [t EXCEPT !.flags[kh_get(t, k)] = "deleted", !.size = @ - 1]
Cleared(t) ==
    [t EXCEPT !.flags = [i \in DOMAIN t.flags |-> "empty"], !.size = 0, !.n_occupied = 0]

LEMMA Deletes ==
  ASSUME HashAssumption, NEW t, Sound(t), NEW k \in HashKey \cup ListKey,
         kh_get(t, k) # t.n_buckets
  PROVE  /\ Sound(Lacking(t, k)) /\ Lacking(t, k).n_buckets = t.n_buckets
         /\ With(Lacking(t, k), "live") \subseteq With(t, "live") /\ Lacking(t, k).keys = t.keys
         /\ HashContent(Lacking(t, k)) = Restrict(HashContent(t), DOMAIN HashContent(t) \ {k})
<1> DEFINE u == Lacking(t, k)
           b == t.n_buckets
           x == kh_get(t, k)
           C == HashContent(t)
           D == DOMAIN C \ {k}
           f == [j \in D |-> C[j]]
<1>1. IsTable(t) /\ b \in Nat /\ DOMAIN t.flags = 0 .. b - 1
      /\ IsFiniteSet(DOMAIN t.flags) /\ \A s : IsFiniteSet(With(t, s))
  BY BucketsAre DEF Sound
<1>2. x \in With(t, "live") /\ t.keys[x] = k
  BY Finds
<1> HIDE DEF x
<1>3. t = [n_buckets |-> t.n_buckets, size |-> t.size, n_occupied |-> t.n_occupied,
           flags |-> t.flags, keys |-> t.keys, vals |-> t.vals]
  BY <1>1 DEF IsTable
<1>15. u = [t EXCEPT !.flags[x] = "deleted", !.size = @ - 1]
  BY DEF x, Lacking
<1> HIDE DEF u
<1>4. u = [n_buckets |-> t.n_buckets, size |-> t.size - 1, n_occupied |-> t.n_occupied,
           flags |-> [t.flags EXCEPT ![x] = "deleted"], keys |-> t.keys, vals |-> t.vals]
  BY <1>3, <1>15
<1>5. /\ u.n_buckets = b /\ u.flags = [t.flags EXCEPT ![x] = "deleted"]
      /\ u.keys = t.keys /\ u.vals = t.vals /\ u.size = t.size - 1 /\ u.n_occupied = t.n_occupied
      /\ u = [n_buckets |-> u.n_buckets, size |-> u.size, n_occupied |-> u.n_occupied,
              flags |-> u.flags, keys |-> u.keys, vals |-> u.vals]
  BY <1>4
<1>6. x \in 0 .. b - 1 /\ t.flags[x] = "live"
  BY <1>1, <1>2 DEF With
<1>7. DOMAIN u.flags = 0 .. b - 1
      /\ \A i \in 0 .. b - 1 : u.flags[i] = IF i = x THEN "deleted" ELSE t.flags[i]
  BY <1>1, <1>5
<1>8. With(u, "live") = With(t, "live") \ {x} /\ With(u, "empty") = With(t, "empty")
  BY <1>1, <1>6, <1>7 DEF With
<1>9. IsTable(u)
  <2>1. u.flags \in [0 .. b - 1 -> BucketFlag]
    BY <1>1, <1>5 DEF IsTable, BucketFlag
  <2> QED
    BY <1>1, <1>5, <2>1 DEF IsTable
<1>10. Keyed(u) /\ Alone(u)
  BY <1>5, <1>8 DEF Sound, Keyed, Alone
<1>11. AllMet(u)
  <2> SUFFICES ASSUME NEW i \in With(u, "live") PROVE Met(u.flags, u.keys[i], i, b)
    BY <1>5 DEF AllMet
  <2>1. Met(t.flags, u.keys[i], i, b) /\ u.keys[i] \in Nat
    BY <1>5, <1>8 DEF Sound, AllMet, Keyed, HashAssumption
  <2>2. b # 0 /\ \A c \in 0 .. b - 1 : u.flags[c] = "empty" => t.flags[c] = "empty"
    BY <1>6, <1>7
  <2> HIDE DEF b
  <2> QED
    BY <1>1, <2>1, <2>2, StillMet
<1>12. BucketsCounted(u)
  <2>1. Cardinality(With(t, "live") \ {x}) = Cardinality(With(t, "live")) - 1
    BY <1>1, <1>2, FS_RemoveElement
  <2>2. u.size = Cardinality(With(u, "live"))
    BY <1>5, <1>8, <2>1 DEF Sound, BucketsCounted
  <2>3. u.n_occupied = Cardinality(DOMAIN u.flags \ With(u, "empty"))
        /\ u.n_occupied <= UpperBound(u.n_buckets)
    BY <1>1, <1>5, <1>7, <1>8 DEF Sound, BucketsCounted
  <2> QED
    BY <2>2, <2>3 DEF BucketsCounted
<1>13. Sound(u)
  BY <1>5, <1>9, <1>10, <1>11, <1>12 DEF Sound
<1>14. HashContent(u) = f
  <2>1. C = [j \in KeysOf(t) |-> C[j]] /\ \A i \in With(t, "live") : C[t.keys[i]] = t.vals[i]
    BY ContentIs
  <2>2. DOMAIN C = KeysOf(t)
    BY <2>1
  <2> HIDE DEF C
  <2>3. ASSUME NEW i \in With(u, "live") PROVE u.keys[i] \in D /\ f[u.keys[i]] = u.vals[i]
    <3>1. i \in With(t, "live") /\ i # x /\ u.keys[i] = t.keys[i] /\ u.vals[i] = t.vals[i]
      BY <1>5, <1>8
    <3>2. t.keys[i] # k
      BY <1>2, <3>1 DEF Sound, Alone
    <3>3. t.keys[i] \in DOMAIN C
      BY <2>2, <3>1 DEF KeysOf
    <3> QED
      BY <2>1, <3>1, <3>2, <3>3
  <2>4. ASSUME NEW j \in D PROVE \E i \in With(u, "live") : u.keys[i] = j
    <3>1. PICK i \in With(t, "live") : t.keys[i] = j
      BY <2>2 DEF KeysOf
    <3>2. i # x
      BY <1>2, <3>1
    <3> QED
      BY <1>5, <1>8, <3>1, <3>2
  <2>5. f = [j \in D |-> f[j]]
    OBVIOUS
  <2> HIDE DEF f, D
  <2> QED
    BY <1>13, <2>3, <2>4, <2>5, ContentAgrees
<1> QED
  BY <1>5, <1>8, <1>13, <1>14 DEF Restrict, u

LEMMA NothingCounted == UpperBound(0) = 0 /\ Cardinality({}) = 0
BY FS_EmptySet, Bounds

\* A table without elements.
LEMMA NoContent ==
  ASSUME NEW t, IsTable(t), t.n_buckets \in {0} \cup Sizes, t.size = 0, t.n_occupied = 0,
         \A i \in 0 .. t.n_buckets - 1 : t.flags[i] = "empty"
  PROVE  Sound(t) /\ HashContent(t) = <<>>
<1>1. /\ t.n_buckets \in Nat /\ (t.n_buckets = 0 \/ t.n_buckets >= 4)
      /\ DOMAIN t.flags = 0 .. t.n_buckets - 1
  BY BucketsAre
<1>2. With(t, "live") = {} /\ DOMAIN t.flags \ With(t, "empty") = {}
  BY <1>1 DEF With
<1>3. BucketsCounted(t)
  <2>1. UpperBound(t.n_buckets) \in Nat
    BY <1>1, Bounds
  <2> QED
    BY <1>2, <2>1, FS_EmptySet DEF BucketsCounted
<1>4. Sound(t)
  BY <1>2, <1>3 DEF Sound, Keyed, Alone, AllMet
<1>5. HashContent(t) = <<>>
  BY <1>2 DEF HashContent
<1> QED
  BY <1>4, <1>5

LEMMA Clears ==
  ASSUME NEW t, Sound(t)
  PROVE  /\ Sound(Cleared(t)) /\ Cleared(t).n_buckets = t.n_buckets
         /\ With(Cleared(t), "live") = {} /\ HashContent(Cleared(t)) = <<>>
<1> DEFINE u == Cleared(t)
<1>1. IsTable(t) /\ DOMAIN t.flags = 0 .. t.n_buckets - 1
  BY BucketsAre DEF Sound
<1>2. t = [n_buckets |-> t.n_buckets, size |-> t.size, n_occupied |-> t.n_occupied,
           flags |-> t.flags, keys |-> t.keys, vals |-> t.vals]
  BY <1>1 DEF IsTable
<1> DEFINE none == [i \in DOMAIN t.flags |-> "empty"]
<1>10. u = [t EXCEPT !.flags = none, !.size = 0, !.n_occupied = 0]
  BY DEF Cleared
<1> HIDE DEF u, none
<1>3. u = [n_buckets |-> t.n_buckets, size |-> 0, n_occupied |-> 0,
           flags |-> none, keys |-> t.keys, vals |-> t.vals]
  BY <1>2, <1>10
<1>4. /\ u.n_buckets = t.n_buckets /\ u.size = 0 /\ u.n_occupied = 0
      /\ u.flags = [i \in 0 .. t.n_buckets - 1 |-> "empty"] /\ u.keys = t.keys /\ u.vals = t.vals
      /\ u = [n_buckets |-> u.n_buckets, size |-> u.size, n_occupied |-> u.n_occupied,
              flags |-> u.flags, keys |-> u.keys, vals |-> u.vals]
  BY <1>1, <1>3 DEF none
<1>5. IsTable(u)
  <2>1. u.flags \in [0 .. u.n_buckets - 1 -> BucketFlag]
    BY <1>4 DEF BucketFlag
  <2> QED
    BY <1>1, <1>4, <2>1 DEF IsTable
<1>6. \A i \in 0 .. u.n_buckets - 1 : u.flags[i] = "empty"
  BY <1>4
<1>7. u.n_buckets \in {0} \cup Sizes
  BY <1>4 DEF Sound
<1>8. With(u, "live") = {}
  BY <1>4 DEF With
<1>9. Sound(u) /\ HashContent(u) = <<>>
  BY <1>4, <1>5, <1>6, <1>7, NoContent
<1> QED
  BY <1>4, <1>8, <1>9 DEF u

-----------------------------------------------------------------------------
(* KHash: the elements on their way to other buckets. *)

NewOnes(w) == {i \in DOMAIN w.fresh : w.fresh[i] = "live"}

\* Where the elements are: in an old bucket, in a new one, or in hand (-1).
ElementPlaces(w) == With(w, "live") \cup NewOnes(w) \cup (IF w.busy THEN {-1} ELSE {})
KeyAt(w, p) == IF p = -1 THEN w.key ELSE w.keys[p]
ValAt(w, p) == IF p = -1 THEN w.val ELSE w.vals[p]

Memories(t, new) == 0 .. (IF t.n_buckets < new THEN new ELSE t.n_buckets) - 1

IsMove(w, t, new) ==
    /\ w = [next |-> w.next, busy |-> w.busy, key |-> w.key, val |-> w.val,
            flags |-> w.flags, fresh |-> w.fresh, keys |-> w.keys, vals |-> w.vals]
    /\ w.next \in 0 .. t.n_buckets /\ w.busy \in BOOLEAN
    /\ w.flags \in [0 .. t.n_buckets - 1 -> BucketFlag]
    /\ w.fresh \in [0 .. new - 1 -> {"empty", "live"}]
    /\ w.keys = [i \in Memories(t, new) |-> w.keys[i]]
    /\ w.vals = [i \in Memories(t, new) |-> w.vals[i]]

\* Every element of t is in one place, and nothing else is anywhere.
CarriesAll(w, t) ==
    /\ \A p \in ElementPlaces(w) : KeyAt(w, p) \in KeysOf(t)
                            /\ ValAt(w, p) = HashContent(t)[KeyAt(w, p)]
    /\ \A p \in ElementPlaces(w), q \in ElementPlaces(w) : KeyAt(w, p) = KeyAt(w, q) => p = q
    /\ \A k \in KeysOf(t) : \E p \in ElementPlaces(w) : KeyAt(w, p) = k

NewMet(w, new) == \A i \in NewOnes(w) : Met(w.fresh, w.keys[i], i, new)

Moving(w, t, new) ==
    /\ IsMove(w, t, new)
    /\ \A i \in 0 .. w.next - 1 : w.flags[i] # "live"
    /\ With(w, "live") \cap NewOnes(w) = {}
    /\ CarriesAll(w, t)
    /\ Cardinality(ElementPlaces(w)) = t.size
    /\ NewMet(w, new)

\* How many turns are left.
Left(w, t) == (t.n_buckets - w.next) + Cardinality(With(w, "live")) + IF w.busy THEN 1 ELSE 0

CanMove(t, new) == Sound(t) /\ new \in Sizes /\ t.size < UpperBound(new)

LEMMA MoveSets ==
  ASSUME NEW t, NEW new, CanMove(t, new), NEW w, IsMove(w, t, new)
  PROVE  /\ t.n_buckets \in Nat /\ new \in Nat /\ new >= 4
         /\ DOMAIN w.flags = 0 .. t.n_buckets - 1 /\ DOMAIN w.fresh = 0 .. new - 1
         /\ IsFiniteSet(With(w, "live")) /\ IsFiniteSet(NewOnes(w)) /\ IsFiniteSet(ElementPlaces(w))
         /\ With(w, "live") \subseteq 0 .. t.n_buckets - 1 /\ NewOnes(w) \subseteq 0 .. new - 1
         /\ -1 \notin With(w, "live") /\ -1 \notin NewOnes(w)
         /\ 0 .. new - 1 \subseteq Memories(t, new) /\ 0 .. t.n_buckets - 1 \subseteq Memories(t, new)
<1>1. t.n_buckets \in Nat /\ new \in Nat /\ new >= 4
  BY BucketsAre, SizesAre DEF CanMove, Sound
<1>2. DOMAIN w.flags = 0 .. t.n_buckets - 1 /\ DOMAIN w.fresh = 0 .. new - 1
  BY DEF IsMove
<1>3. With(w, "live") \in SUBSET (0 .. t.n_buckets - 1) /\ NewOnes(w) \in SUBSET (0 .. new - 1)
  BY <1>2 DEF With, NewOnes
<1>4. IsFiniteSet(With(w, "live")) /\ IsFiniteSet(NewOnes(w))
  <2> DEFINE m == t.n_buckets - 1
             n == new - 1
  <2>1. 0 \in Int /\ m \in Int /\ n \in Int
    BY <1>1
  <2>2. With(w, "live") \in SUBSET (0 .. m) /\ NewOnes(w) \in SUBSET (0 .. n)
    BY <1>3
  <2> HIDE DEF m, n
  <2>3. IsFiniteSet(0 .. m) /\ IsFiniteSet(0 .. n)
    BY <2>1, FS_Interval
  <2> QED
    BY <2>2, <2>3, FS_Subset
<1>5. IsFiniteSet(ElementPlaces(w))
  <2>1. IsFiniteSet(IF w.busy THEN {-1} ELSE {})
    BY FS_EmptySet, FS_Singleton
  <2>2. IsFiniteSet(With(w, "live") \cup NewOnes(w))
    BY <1>4, FS_Union
  <2> QED
    BY <2>1, <2>2, FS_Union DEF ElementPlaces
<1>6. -1 \notin With(w, "live") /\ -1 \notin NewOnes(w)
  BY <1>1, <1>3
<1>7. 0 .. new - 1 \subseteq Memories(t, new) /\ 0 .. t.n_buckets - 1 \subseteq Memories(t, new)
  BY <1>1 DEF Memories
<1> QED
  BY <1>1, <1>2, <1>3, <1>4, <1>5, <1>6, <1>7

\* The elements have changed places, and that is all.
LEMMA Exchanges ==
  ASSUME NEW w, NEW u, NEW t, CarriesAll(w, t), NEW r \in [ElementPlaces(u) -> ElementPlaces(w)],
         \A p \in ElementPlaces(u) : KeyAt(u, p) = KeyAt(w, r[p]) /\ ValAt(u, p) = ValAt(w, r[p]),
         \A p \in ElementPlaces(u), q \in ElementPlaces(u) : r[p] = r[q] => p = q,
         \A q \in ElementPlaces(w) : \E p \in ElementPlaces(u) : r[p] = q
  PROVE  CarriesAll(u, t)
<1>1. ASSUME NEW p \in ElementPlaces(u)
      PROVE  KeyAt(u, p) \in KeysOf(t) /\ ValAt(u, p) = HashContent(t)[KeyAt(u, p)]
  BY DEF CarriesAll
<1>2. ASSUME NEW p \in ElementPlaces(u), NEW q \in ElementPlaces(u), KeyAt(u, p) = KeyAt(u, q) PROVE p = q
  BY <1>2 DEF CarriesAll
<1>3. ASSUME NEW k \in KeysOf(t) PROVE \E p \in ElementPlaces(u) : KeyAt(u, p) = k
  <2>1. PICK q \in ElementPlaces(w) : KeyAt(w, q) = k
    BY DEF CarriesAll
  <2>2. PICK p \in ElementPlaces(u) : r[p] = q
    BY <2>1
  <2> QED
    BY <2>1, <2>2
<1> QED
  BY <1>1, <1>2, <1>3 DEF CarriesAll

LEMMA OneForOne ==
  ASSUME NEW S, IsFiniteSet(S), NEW a \in S, NEW c, c \notin S
  PROVE  Cardinality((S \ {a}) \cup {c}) = Cardinality(S)
<1>1. IsFiniteSet(S \ {a}) /\ Cardinality(S \ {a}) = Cardinality(S) - 1
  BY FS_RemoveElement
<1>2. Cardinality((S \ {a}) \cup {c}) = Cardinality(S \ {a}) + 1
  BY <1>1, FS_AddElement
<1>3. Cardinality(S) \in Nat
  BY FS_CardinalityType
<1> QED
  BY <1>1, <1>2, <1>3

LEMMA MarkedIs ==
  ASSUME NEW b \in Nat, NEW f \in [0 .. b - 1 -> BucketFlag], NEW i
  PROVE  /\ Marked(f, i) \in [0 .. b - 1 -> BucketFlag]
         /\ \A j \in 0 .. b - 1 : Marked(f, i)[j] = "live" <=> f[j] = "live" /\ j # i
BY DEF Marked, BucketFlag

LEMMA TakesUp ==
  ASSUME NEW t, NEW new, CanMove(t, new), NEW w, Moving(w, t, new), ~w.busy, w.next < t.n_buckets
  PROVE  Moving(TakeUp(w), t, new) /\ Left(TakeUp(w), t) = Left(w, t) - 1
<1> DEFINE b == t.n_buckets
           j == w.next
           u == TakeUp(w)
<1>0. IsMove(w, t, new)
  BY DEF Moving
<1>1. /\ b \in Nat /\ new \in Nat /\ new >= 4 /\ DOMAIN w.flags = 0 .. b - 1 /\ DOMAIN w.fresh = 0 .. new - 1
      /\ IsFiniteSet(With(w, "live")) /\ IsFiniteSet(ElementPlaces(w))
      /\ With(w, "live") \subseteq 0 .. b - 1
      /\ -1 \notin With(w, "live") /\ -1 \notin NewOnes(w)
      /\ 0 .. b - 1 \subseteq Memories(t, new)
  BY <1>0, MoveSets
<1>2. j \in 0 .. b - 1 /\ w.busy = FALSE /\ j + 1 \in 0 .. b
  BY <1>0, <1>1 DEF IsMove
<1>3. w = [next |-> w.next, busy |-> w.busy, key |-> w.key, val |-> w.val,
           flags |-> w.flags, fresh |-> w.fresh, keys |-> w.keys, vals |-> w.vals]
  BY <1>0 DEF IsMove
<1>4. Cardinality(With(w, "live")) \in Nat
  BY <1>1, FS_CardinalityType
<1>5. CASE w.flags[j] # "live"
  <2>1. u = [w EXCEPT !.next = @ + 1]
    BY <1>5 DEF TakeUp
  <2> HIDE DEF u
  <2>2. u = [next |-> w.next + 1, busy |-> w.busy, key |-> w.key, val |-> w.val,
             flags |-> w.flags, fresh |-> w.fresh, keys |-> w.keys, vals |-> w.vals]
    BY <1>3, <2>1
  <2>3. /\ u.next = j + 1 /\ u.busy = FALSE /\ u.key = w.key /\ u.val = w.val /\ u.flags = w.flags
        /\ u.fresh = w.fresh /\ u.keys = w.keys /\ u.vals = w.vals
        /\ u = [next |-> u.next, busy |-> u.busy, key |-> u.key, val |-> u.val,
                flags |-> u.flags, fresh |-> u.fresh, keys |-> u.keys, vals |-> u.vals]
    BY <1>2, <2>2
  <2>4. With(u, "live") = With(w, "live") /\ NewOnes(u) = NewOnes(w)
    BY <2>3 DEF With, NewOnes
  <2>5. ElementPlaces(u) = ElementPlaces(w)
    BY <1>2, <2>3, <2>4 DEF ElementPlaces
  <2>6. CarriesAll(u, t)
    <3>1. \A p : KeyAt(u, p) = KeyAt(w, p) /\ ValAt(u, p) = ValAt(w, p)
      BY <2>3 DEF KeyAt, ValAt
    <3> QED
      BY <2>5, <3>1 DEF CarriesAll, Moving
  <2>7. IsMove(u, t, new)
    BY <1>0, <1>2, <2>3 DEF IsMove
  <2>8. \A i \in 0 .. u.next - 1 : u.flags[i] # "live"
    <3>1. \A i \in 0 .. u.next - 1 : i = j \/ i \in 0 .. j - 1
      BY <1>2, <2>3
    <3> QED
      BY <1>5, <2>3, <3>1 DEF Moving
  <2>9. Moving(u, t, new)
    BY <2>3, <2>4, <2>5, <2>6, <2>7, <2>8 DEF Moving, NewMet
  <2>10. Left(u, t) = Left(w, t) - 1
    BY <1>1, <1>2, <1>4, <2>3, <2>4 DEF Left
  <2> QED
    BY <2>9, <2>10 DEF u
<1>6. CASE w.flags[j] = "live"
  <2>1. u = [w EXCEPT !.next = @ + 1, !.busy = TRUE, !.flags = Marked(@, j),
                      !.key = w.keys[j], !.val = w.vals[j]]
    BY <1>6 DEF TakeUp
  <2> HIDE DEF u
  <2>2. u = [next |-> w.next + 1, busy |-> TRUE, key |-> w.keys[j], val |-> w.vals[j],
             flags |-> Marked(w.flags, j), fresh |-> w.fresh, keys |-> w.keys, vals |-> w.vals]
    BY <1>3, <2>1
  <2>3. /\ u.next = j + 1 /\ u.busy = TRUE /\ u.key = w.keys[j] /\ u.val = w.vals[j]
        /\ u.flags = Marked(w.flags, j)
        /\ u.fresh = w.fresh /\ u.keys = w.keys /\ u.vals = w.vals
        /\ u = [next |-> u.next, busy |-> u.busy, key |-> u.key, val |-> u.val,
                flags |-> u.flags, fresh |-> u.fresh, keys |-> u.keys, vals |-> u.vals]
    BY <1>2, <2>2
  <2>11. /\ u.flags \in [0 .. b - 1 -> BucketFlag]
         /\ \A i \in 0 .. b - 1 : u.flags[i] = "live" <=> w.flags[i] = "live" /\ i # j
    <3>1. w.flags \in [0 .. b - 1 -> BucketFlag]
      BY <1>0 DEF IsMove
    <3> QED
      BY <1>1, <2>3, <3>1, MarkedIs
  <2>4. With(u, "live") = With(w, "live") \ {j} /\ NewOnes(u) = NewOnes(w) /\ j \in With(w, "live")
    BY <1>1, <1>2, <1>6, <2>3, <2>11 DEF With, NewOnes
  <2>5. ElementPlaces(u) = (ElementPlaces(w) \ {j}) \cup {-1} /\ -1 \notin ElementPlaces(w) /\ j \in ElementPlaces(w)
        /\ j # -1
    BY <1>1, <1>2, <2>3, <2>4 DEF ElementPlaces, Moving
  <2>6. CarriesAll(u, t)
    <3> DEFINE r == [p \in ElementPlaces(u) |-> IF p = -1 THEN j ELSE p]
    <3>1. r \in [ElementPlaces(u) -> ElementPlaces(w)]
      BY <2>5
    <3>2. \A p \in ElementPlaces(u) : KeyAt(u, p) = KeyAt(w, r[p]) /\ ValAt(u, p) = ValAt(w, r[p])
      BY <1>2, <2>3, <2>5 DEF KeyAt, ValAt
    <3>3. \A p \in ElementPlaces(u), q \in ElementPlaces(u) : r[p] = r[q] => p = q
      BY <2>5
    <3>4. \A q \in ElementPlaces(w) : \E p \in ElementPlaces(u) : r[p] = q
      BY <2>5
    <3>5. CarriesAll(w, t)
      BY DEF Moving
    <3> HIDE DEF r
    <3> QED
      BY <3>1, <3>2, <3>3, <3>4, <3>5, Exchanges
  <2>7. IsMove(u, t, new)
    BY <1>0, <1>2, <2>3, <2>11 DEF IsMove
  <2>8. \A i \in 0 .. u.next - 1 : u.flags[i] # "live"
    <3>1. \A i \in 0 .. u.next - 1 : i \in 0 .. b - 1 /\ (i = j \/ i \in 0 .. j - 1)
      BY <1>1, <1>2, <2>3
    <3> QED
      BY <2>11, <3>1 DEF Moving
  <2>12. Cardinality(ElementPlaces(u)) = t.size
    BY <1>1, <2>5, OneForOne DEF Moving
  <2>9. Moving(u, t, new)
    BY <2>3, <2>4, <2>6, <2>7, <2>8, <2>12 DEF Moving, NewMet
  <2>10. Left(u, t) = Left(w, t) - 1
    <3>1. Cardinality(With(u, "live")) = Cardinality(With(w, "live")) - 1
      BY <1>1, <2>4, FS_RemoveElement
    <3> DEFINE c == Cardinality(With(w, "live"))
    <3>2. Left(w, t) = (b - j) + c + 0
      BY <1>2 DEF Left
    <3>3. Left(u, t) = (b - (j + 1)) + (c - 1) + 1
      BY <2>3, <3>1 DEF Left
    <3>4. b \in Nat /\ j \in Nat /\ c \in Nat
      BY <1>1, <1>2, <1>4
    <3> HIDE DEF b, j, c
    <3> QED
      BY <3>2, <3>3, <3>4
  <2> QED
    BY <2>9, <2>10 DEF u
<1> QED
  BY <1>5, <1>6

LEMMA FindsNew ==
  ASSUME HashAssumption, NEW t, NEW new, CanMove(t, new), NEW w, Moving(w, t, new), w.busy
  PROVE  /\ NewBucket(w, new) \in 0 .. new - 1
         /\ w.fresh[NewBucket(w, new)] = "empty"
         /\ Met(w.fresh, w.key, NewBucket(w, new), new)
         /\ w.key \in Nat
<1> DEFINE free == {j \in DOMAIN w.fresh : w.fresh[j] = "empty"}
           s == Steps(w.key, new, free)
<1>1. /\ new \in Nat /\ new >= 4 /\ DOMAIN w.fresh = 0 .. new - 1
      /\ IsFiniteSet(NewOnes(w)) /\ IsFiniteSet(ElementPlaces(w))
  BY MoveSets DEF Moving
<1>2. w.key \in Nat
  <2>1. -1 \in ElementPlaces(w)
    BY DEF ElementPlaces
  <2>2. w.key \in KeysOf(t)
    BY <2>1 DEF Moving, CarriesAll, KeyAt
  <2> QED
    BY <2>2 DEF KeysOf, CanMove, Sound, Keyed, HashAssumption
<1>3. free # {}
  <2> SUFFICES ASSUME free = {} PROVE FALSE
    OBVIOUS
  <2>1. NewOnes(w) = 0 .. new - 1
    BY <1>1 DEF NewOnes, Moving, IsMove
  <2>2. Cardinality(NewOnes(w)) = new
    <3>1. 0 \in Int /\ new - 1 \in Int
      BY <1>1
    <3>2. Cardinality(0 .. new - 1) = (IF 0 > new - 1 THEN 0 ELSE (new - 1) - 0 + 1)
      BY <3>1, FS_Interval, Zenon
    <3> QED
      BY <1>1, <2>1, <3>2
  <2>3. Cardinality(NewOnes(w)) <= Cardinality(ElementPlaces(w)) /\ Cardinality(ElementPlaces(w)) = t.size
    <3>1. NewOnes(w) \in SUBSET ElementPlaces(w)
      BY DEF ElementPlaces
    <3> QED
      BY <1>1, <3>1, FS_Subset DEF Moving
  <2>4. t.size < UpperBound(new) /\ UpperBound(new) < new /\ UpperBound(new) \in Nat
    BY <1>1, Bounds DEF CanMove
  <2>5. t.size \in Nat
    BY <1>1, <2>3, FS_CardinalityType
  <2> DEFINE z == t.size
             m == UpperBound(new)
  <2>6. new <= z /\ z < m /\ m < new /\ z \in Nat /\ m \in Nat
    BY <2>2, <2>3, <2>4, <2>5
  <2> HIDE DEF z, m
  <2> QED
    BY <1>1, <2>6
<1>4. PICK e \in 0 .. new - 1 : e \in free
  BY <1>1, <1>3
<1>5. PICK j \in 2 .. 29 : new = TwoTo[j]
  BY DEF CanMove, Sizes
<1>6. PICK c \in 0 .. new - 1 : Probe(w.key, c, new) = e
  <2>1. j \in 0 .. 29 /\ e \in 0 .. TwoTo[j] - 1
    BY <1>5
  <2> QED
    BY <1>2, <1>5, <2>1, ProbesCover
<1> DEFINE k == w.key
<1>7. k \in Nat /\ Probe(k, c, new) \in free
  BY <1>2, <1>4, <1>6
<1> HIDE DEF free, k
<1>8. /\ Steps(k, new, free) \in 0 .. new - 1 /\ Probe(k, Steps(k, new, free), new) \in free
      /\ \A m \in 0 .. Steps(k, new, free) - 1 : Probe(k, m, new) \notin free
  BY <1>1, <1>7, StepsEnd
<1>9. s \in 0 .. new - 1 /\ Probe(k, s, new) \in free /\ \A m \in 0 .. s - 1 : Probe(k, m, new) \notin free
  BY <1>8 DEF k
<1> HIDE DEF s
<1>10. NewBucket(w, new) = Probe(k, s, new)
  BY DEF NewBucket, s, k, free
<1>11. ASSUME NEW m \in 0 .. s - 1 PROVE w.fresh[Probe(k, m, new)] # "empty"
  <2>1. m \in Nat /\ new # 0
    BY <1>1, <1>9
  <2>2. Probe(k, m, new) \in 0 .. new - 1
    BY <1>1, <1>7, <2>1, ProbeInside
  <2> QED
    BY <1>1, <1>9, <2>2 DEF free
<1>12. Met(w.fresh, k, NewBucket(w, new), new)
  BY <1>9, <1>10, <1>11 DEF Met
<1> QED
  BY <1>1, <1>7, <1>9, <1>10, <1>12 DEF free, k

\* What is written by a turn that puts the element in hand into bucket i.
IsPutDown(u, w, i) ==
    /\ u.next = w.next
    /\ i \in With(w, "live") => u.busy = w.busy /\ u.key = w.keys[i] /\ u.val = w.vals[i]
    /\ i \notin With(w, "live") => u.busy = FALSE
    /\ u.flags = Marked(w.flags, i) /\ u.fresh = [w.fresh EXCEPT ![i] = "live"]
    /\ u.keys = [w.keys EXCEPT ![i] = w.key] /\ u.vals = [w.vals EXCEPT ![i] = w.val]
    /\ u = [next |-> u.next, busy |-> u.busy, key |-> u.key, val |-> u.val,
            flags |-> u.flags, fresh |-> u.fresh, keys |-> u.keys, vals |-> u.vals]

LEMMA PutDownIs ==
  ASSUME NEW t, NEW new, NEW w, IsMove(w, t, new)
  PROVE  IsPutDown(PutDown(w, new), w, NewBucket(w, new))
<1> DEFINE i == NewBucket(w, new)
<1> SUFFICES IsPutDown(PutDown(w, new), w, i)
  OBVIOUS
<1> DEFINE u == PutDown(w, new)
           f == Marked(w.flags, i)
           g == [w EXCEPT !.fresh[i] = "live", !.keys[i] = w.key, !.vals[i] = w.val, !.flags = f]
<1>1. w = [next |-> w.next, busy |-> w.busy, key |-> w.key, val |-> w.val,
           flags |-> w.flags, fresh |-> w.fresh, keys |-> w.keys, vals |-> w.vals]
  BY DEF IsMove
<1>2. u = IF i \in With(w, "live") THEN [g EXCEPT !.key = w.keys[i], !.val = w.vals[i]]
          ELSE [g EXCEPT !.busy = FALSE]
  BY DEF PutDown
<1> HIDE DEF u, f, i
<1>6. g = [w EXCEPT !.fresh[i] = "live", !.keys[i] = w.key, !.vals[i] = w.val, !.flags = f]
  OBVIOUS
<1> HIDE DEF g
<1>3. g = [next |-> w.next, busy |-> w.busy, key |-> w.key, val |-> w.val, flags |-> f,
           fresh |-> [w.fresh EXCEPT ![i] = "live"], keys |-> [w.keys EXCEPT ![i] = w.key],
           vals |-> [w.vals EXCEPT ![i] = w.val]]
  BY <1>1, <1>6
<1>4. CASE i \in With(w, "live")
  <2>1. u = [next |-> w.next, busy |-> w.busy, key |-> w.keys[i], val |-> w.vals[i], flags |-> f,
             fresh |-> [w.fresh EXCEPT ![i] = "live"], keys |-> [w.keys EXCEPT ![i] = w.key],
             vals |-> [w.vals EXCEPT ![i] = w.val]]
    BY <1>2, <1>3, <1>4
  <2> QED
    BY <1>4, <2>1 DEF u, f, IsPutDown
<1>5. CASE i \notin With(w, "live")
  <2>1. u = [next |-> w.next, busy |-> FALSE, key |-> w.key, val |-> w.val, flags |-> f,
             fresh |-> [w.fresh EXCEPT ![i] = "live"], keys |-> [w.keys EXCEPT ![i] = w.key],
             vals |-> [w.vals EXCEPT ![i] = w.val]]
    BY <1>2, <1>3, <1>5
  <2>2. /\ u.next = w.next /\ u.busy = FALSE /\ u.flags = f
        /\ u.fresh = [w.fresh EXCEPT ![i] = "live"] /\ u.keys = [w.keys EXCEPT ![i] = w.key]
        /\ u.vals = [w.vals EXCEPT ![i] = w.val]
    BY <2>1
  <2>3. u = [next |-> u.next, busy |-> u.busy, key |-> u.key, val |-> u.val, flags |-> u.flags,
             fresh |-> u.fresh, keys |-> u.keys, vals |-> u.vals]
    BY <2>1
  <2> QED
    BY <1>5, <2>2, <2>3, Zenon DEF u, f, IsPutDown
<1> QED
  BY <1>4, <1>5

LEMMA PutsDown ==
  ASSUME HashAssumption, NEW t, NEW new, CanMove(t, new), NEW w, Moving(w, t, new), w.busy
  PROVE  Moving(PutDown(w, new), t, new) /\ Left(PutDown(w, new), t) = Left(w, t) - 1
<1> DEFINE b == t.n_buckets
           i == NewBucket(w, new)
           u == PutDown(w, new)
<1>0. IsMove(w, t, new)
  BY DEF Moving
<1>1. /\ b \in Nat /\ new \in Nat /\ new >= 4 /\ DOMAIN w.flags = 0 .. b - 1 /\ DOMAIN w.fresh = 0 .. new - 1
      /\ IsFiniteSet(With(w, "live")) /\ IsFiniteSet(ElementPlaces(w))
      /\ With(w, "live") \subseteq 0 .. b - 1 /\ NewOnes(w) \subseteq 0 .. new - 1
      /\ -1 \notin With(w, "live") /\ -1 \notin NewOnes(w)
      /\ 0 .. new - 1 \subseteq Memories(t, new)
  BY <1>0, MoveSets
<1>2. i \in 0 .. new - 1 /\ w.fresh[i] = "empty" /\ Met(w.fresh, w.key, i, new) /\ w.key \in Nat
  BY FindsNew
<1>3. /\ u.next = w.next
      /\ i \in With(w, "live") => u.busy = w.busy /\ u.key = w.keys[i] /\ u.val = w.vals[i]
      /\ i \notin With(w, "live") => u.busy = FALSE
      /\ u.flags = Marked(w.flags, i) /\ u.fresh = [w.fresh EXCEPT ![i] = "live"]
      /\ u.keys = [w.keys EXCEPT ![i] = w.key] /\ u.vals = [w.vals EXCEPT ![i] = w.val]
      /\ u = [next |-> u.next, busy |-> u.busy, key |-> u.key, val |-> u.val,
              flags |-> u.flags, fresh |-> u.fresh, keys |-> u.keys, vals |-> u.vals]
  <2>1. IsPutDown(u, w, i)
    BY <1>0, PutDownIs
  <2> QED
    BY <2>1, Zenon DEF IsPutDown
<1> HIDE DEF i, u
<1>4. /\ u.flags \in [0 .. b - 1 -> BucketFlag]
      /\ \A j \in 0 .. b - 1 : u.flags[j] = "live" <=> w.flags[j] = "live" /\ j # i
  <2>1. w.flags \in [0 .. b - 1 -> BucketFlag]
    BY <1>0 DEF IsMove
  <2>2. b \in Nat /\ u.flags = Marked(w.flags, i)
    BY <1>1, <1>3
  <2> HIDE DEF b
  <2>3. /\ Marked(w.flags, i) \in [0 .. b - 1 -> BucketFlag]
        /\ \A j \in 0 .. b - 1 : Marked(w.flags, i)[j] = "live" <=> w.flags[j] = "live" /\ j # i
    BY <2>1, <2>2, MarkedIs
  <2> QED
    BY <2>2, <2>3
<1>5. /\ u.fresh \in [0 .. new - 1 -> {"empty", "live"}]
      /\ \A j \in 0 .. new - 1 : u.fresh[j] = IF j = i THEN "live" ELSE w.fresh[j]
  <2>1. w.fresh \in [0 .. new - 1 -> {"empty", "live"}]
    BY <1>0 DEF IsMove
  <2> QED
    BY <1>2, <1>3, <2>1
<1>6. /\ u.keys = [j \in Memories(t, new) |-> u.keys[j]] /\ u.vals = [j \in Memories(t, new) |-> u.vals[j]]
      /\ u.keys[i] = w.key /\ u.vals[i] = w.val
      /\ \A j \in Memories(t, new) : j # i => u.keys[j] = w.keys[j] /\ u.vals[j] = w.vals[j]
  <2>1. DOMAIN w.keys = Memories(t, new) /\ DOMAIN w.vals = Memories(t, new)
    BY <1>0 DEF IsMove
  <2>2. i \in Memories(t, new)
    BY <1>1, <1>2
  <2>3. u.keys = [j \in Memories(t, new) |-> IF j = i THEN w.key ELSE w.keys[j]]
    BY <1>3, <2>1
  <2>4. u.vals = [j \in Memories(t, new) |-> IF j = i THEN w.val ELSE w.vals[j]]
    BY <1>3, <2>1
  <2> QED
    BY <2>2, <2>3, <2>4
<1>7. With(u, "live") = With(w, "live") \ {i} /\ NewOnes(u) = NewOnes(w) \cup {i} /\ i \notin NewOnes(w)
  BY <1>1, <1>2, <1>4, <1>5 DEF With, NewOnes
<1>8. i # -1 /\ i \in Memories(t, new) /\ -1 \in ElementPlaces(w) /\ i \in ElementPlaces(u)
      /\ (i \in ElementPlaces(w) <=> i \in With(w, "live"))
  BY <1>1, <1>2, <1>7 DEF ElementPlaces
<1>9. \A p \in ElementPlaces(w) : p # -1 => p \in Memories(t, new)
  <2>1. 0 .. b - 1 \subseteq Memories(t, new)
    BY <1>0, MoveSets
  <2> QED
    BY <1>1, <2>1 DEF ElementPlaces
<1>10. IsMove(u, t, new)
  <2>1. u.next \in 0 .. b /\ u.busy \in BOOLEAN
    BY <1>0, <1>3 DEF IsMove
  <2> QED
    BY <1>3, <1>4, <1>5, <1>6, <2>1 DEF IsMove
<1>11. \A j \in 0 .. u.next - 1 : u.flags[j] # "live"
  <2>1. \A j \in 0 .. w.next - 1 : j \in 0 .. b - 1
    BY <1>0, <1>1 DEF IsMove
  <2> QED
    BY <1>3, <1>4, <2>1 DEF Moving
<1>12. With(u, "live") \cap NewOnes(u) = {}
  BY <1>7 DEF Moving
<1>13. NewMet(u, new)
  <2> SUFFICES ASSUME NEW j \in NewOnes(u) PROVE Met(u.fresh, u.keys[j], j, new)
    BY DEF NewMet
  <2>1. Met(w.fresh, u.keys[j], j, new) /\ u.keys[j] \in Nat
    <3>1. CASE j = i
      BY <1>2, <1>6, <3>1
    <3>2. CASE j # i
      <4>1. j \in NewOnes(w) /\ j \in Memories(t, new) /\ j # -1 /\ j \in ElementPlaces(w)
        BY <1>1, <1>7, <3>2 DEF ElementPlaces
      <4>2. w.keys[j] \in KeysOf(t)
        BY <4>1 DEF Moving, CarriesAll, KeyAt
      <4>3. w.keys[j] \in Nat
        BY <4>2 DEF KeysOf, CanMove, Sound, Keyed, HashAssumption
      <4> QED
        BY <1>6, <3>2, <4>1, <4>3 DEF Moving, NewMet
    <3> QED
      BY <3>1, <3>2
  <2>2. new # 0 /\ \A c \in 0 .. new - 1 : u.fresh[c] = "empty" => w.fresh[c] = "empty"
    BY <1>1, <1>5
  <2> QED
    BY <1>1, <2>1, <2>2, StillMet
<1>14. CarriesAll(w, t)
  BY DEF Moving
<1>15. w.next \in 0 .. b /\ Cardinality(With(w, "live")) \in Nat
  BY <1>0, <1>1, FS_CardinalityType DEF IsMove
<1> DEFINE c == Cardinality(With(w, "live"))
           left == b - w.next
<1>16. Left(w, t) = left + c + 1 /\ left \in Int /\ c \in Nat
  BY <1>1, <1>15 DEF Left
<1>17. CASE i \in With(w, "live")
  <2>1. u.busy /\ u.key = w.keys[i] /\ u.val = w.vals[i]
    BY <1>3, <1>17
  <2>2. ElementPlaces(u) = ElementPlaces(w)
    BY <1>7, <1>17, <2>1 DEF ElementPlaces
  <2> DEFINE r == [p \in ElementPlaces(u) |-> IF p = -1 THEN i ELSE IF p = i THEN -1 ELSE p]
  <2>3. r \in [ElementPlaces(u) -> ElementPlaces(w)]
    BY <1>8, <1>17, <2>2
  <2>4. ASSUME NEW p \in ElementPlaces(u)
        PROVE  KeyAt(u, p) = KeyAt(w, r[p]) /\ ValAt(u, p) = ValAt(w, r[p])
    BY <1>6, <1>8, <1>9, <2>1, <2>2 DEF KeyAt, ValAt
  <2>5. \A p \in ElementPlaces(u), q \in ElementPlaces(u) : r[p] = r[q] => p = q
    BY <1>8
  <2>6. \A q \in ElementPlaces(w) : \E p \in ElementPlaces(u) : r[p] = q
    <3> SUFFICES ASSUME NEW q \in ElementPlaces(w) PROVE \E p \in ElementPlaces(u) : r[p] = q
      OBVIOUS
    <3>1. CASE q = -1
      BY <1>8, <3>1
    <3>2. CASE q = i
      BY <1>8, <2>2, <3>2
    <3>3. CASE q # -1 /\ q # i
      BY <2>2, <3>3
    <3> QED
      BY <3>1, <3>2, <3>3
  <2>7. CarriesAll(u, t)
    <3> HIDE DEF r
    <3> QED
      BY <1>14, <2>3, <2>4, <2>5, <2>6, Exchanges
  <2>8. Moving(u, t, new)
    BY <1>10, <1>11, <1>12, <1>13, <2>2, <2>7 DEF Moving
  <2>9. Left(u, t) = Left(w, t) - 1
    <3>1. Cardinality(With(u, "live")) = c - 1
      BY <1>1, <1>7, <1>17, FS_RemoveElement
    <3>2. Left(u, t) = left + (c - 1) + 1
      BY <1>3, <2>1, <3>1 DEF Left
    <3> HIDE DEF c, left
    <3> QED
      BY <1>16, <3>2
  <2> QED
    BY <2>8, <2>9 DEF u
<1>18. CASE i \notin With(w, "live")
  <2>1. u.busy = FALSE
    BY <1>3, <1>18
  <2>2. ElementPlaces(u) = (ElementPlaces(w) \ {-1}) \cup {i} /\ i \notin ElementPlaces(w) /\ With(u, "live") = With(w, "live")
    <3>1. -1 \notin With(u, "live") /\ -1 \notin NewOnes(u)
      BY <1>1, <1>7, <1>8
    <3> QED
      BY <1>7, <1>8, <1>18, <2>1, <3>1 DEF ElementPlaces
  <2> DEFINE r == [p \in ElementPlaces(u) |-> IF p = i THEN -1 ELSE p]
  <2>3. r \in [ElementPlaces(u) -> ElementPlaces(w)]
    BY <1>8, <2>2
  <2>4. ASSUME NEW p \in ElementPlaces(u)
        PROVE  KeyAt(u, p) = KeyAt(w, r[p]) /\ ValAt(u, p) = ValAt(w, r[p])
    BY <1>6, <1>8, <1>9, <2>2 DEF KeyAt, ValAt
  <2>5. \A p \in ElementPlaces(u), q \in ElementPlaces(u) : r[p] = r[q] => p = q
    BY <1>8, <2>2
  <2>6. \A q \in ElementPlaces(w) : \E p \in ElementPlaces(u) : r[p] = q
    <3> SUFFICES ASSUME NEW q \in ElementPlaces(w) PROVE \E p \in ElementPlaces(u) : r[p] = q
      OBVIOUS
    <3>1. CASE q = -1
      BY <1>8, <3>1
    <3>2. CASE q # -1
      BY <2>2, <3>2
    <3> QED
      BY <3>1, <3>2
  <2>7. CarriesAll(u, t)
    <3> HIDE DEF r
    <3> QED
      BY <1>14, <2>3, <2>4, <2>5, <2>6, Exchanges
  <2>8. Cardinality(ElementPlaces(u)) = t.size
    BY <1>1, <1>8, <2>2, OneForOne DEF Moving
  <2>9. Moving(u, t, new)
    BY <1>10, <1>11, <1>12, <1>13, <2>7, <2>8 DEF Moving
  <2>10. Left(u, t) = Left(w, t) - 1
    <3>2. Left(u, t) = left + c + 0
      BY <1>3, <2>1, <2>2 DEF Left
    <3> HIDE DEF c, left
    <3> QED
      BY <1>16, <3>2
  <2> QED
    BY <2>9, <2>10 DEF u
<1> QED
  BY <1>17, <1>18

LEMMA Begins ==
  ASSUME NEW t, NEW new, CanMove(t, new)
  PROVE  /\ Moving(Unmoved(t, new), t, new)
         /\ Left(Unmoved(t, new), t) \in 0 .. 2 * t.n_buckets
<1> DEFINE b == t.n_buckets
           w == Unmoved(t, new)
           K == [i \in Memories(t, new) |-> IF i < b THEN t.keys[i] ELSE Junk]
           V == [i \in Memories(t, new) |-> IF i < b THEN t.vals[i] ELSE Junk]
<1>1. /\ IsTable(t) /\ b \in Nat /\ DOMAIN t.flags = 0 .. b - 1 /\ IsFiniteSet(DOMAIN t.flags)
      /\ Cardinality(DOMAIN t.flags) = b /\ With(t, "live") \subseteq 0 .. b - 1
  BY BucketsAre DEF CanMove, Sound
<1>2. new \in Nat /\ new >= 4
  BY SizesAre DEF CanMove
<1>3. w = [next |-> 0, busy |-> FALSE, key |-> Junk, val |-> Junk, flags |-> t.flags,
           fresh |-> [i \in 0 .. new - 1 |-> "empty"], keys |-> K, vals |-> V]
  BY DEF Unmoved, Memories
<1> HIDE DEF w
<1>4. /\ w.next = 0 /\ w.busy = FALSE /\ w.flags = t.flags
      /\ w.fresh = [i \in 0 .. new - 1 |-> "empty"] /\ w.keys = K /\ w.vals = V
      /\ w = [next |-> w.next, busy |-> w.busy, key |-> w.key, val |-> w.val,
              flags |-> w.flags, fresh |-> w.fresh, keys |-> w.keys, vals |-> w.vals]
  BY <1>3
<1>5. IsMove(w, t, new)
  <2>1. w.keys = [i \in Memories(t, new) |-> w.keys[i]]
    BY <1>4
  <2>2. w.vals = [i \in Memories(t, new) |-> w.vals[i]]
    BY <1>4
  <2>3. w.fresh \in [0 .. new - 1 -> {"empty", "live"}]
    BY <1>4
  <2>4. w.flags \in [0 .. b - 1 -> BucketFlag]
    BY <1>1, <1>4 DEF IsTable
  <2>5. w.next \in 0 .. b
    <3>1. w.next = 0 /\ b \in Nat
      BY <1>1, <1>3
    <3> HIDE DEF b
    <3> QED
      BY <3>1
  <2>6. w.busy \in BOOLEAN
    BY <1>3
  <2> QED
    BY <1>4, <2>1, <2>2, <2>3, <2>4, <2>5, <2>6 DEF IsMove
<1>6. NewOnes(w) = {} /\ With(w, "live") = With(t, "live")
  BY <1>4 DEF NewOnes, With
<1>7. ElementPlaces(w) = With(t, "live")
  BY <1>4, <1>6 DEF ElementPlaces
<1>8. ASSUME NEW i \in With(t, "live")
      PROVE  KeyAt(w, i) = t.keys[i] /\ ValAt(w, i) = t.vals[i]
  <2>1. i \in 0 .. b - 1 /\ i # -1 /\ i < b
    BY <1>1
  <2>2. i \in Memories(t, new)
    BY <1>1, <1>2, <2>1 DEF Memories
  <2>3. K[i] = t.keys[i] /\ V[i] = t.vals[i]
    BY <2>1, <2>2
  <2> QED
    BY <1>4, <2>1, <2>3 DEF KeyAt, ValAt
<1>9. CarriesAll(w, t)
  <2>1. ASSUME NEW p \in ElementPlaces(w)
        PROVE  KeyAt(w, p) \in KeysOf(t) /\ ValAt(w, p) = HashContent(t)[KeyAt(w, p)]
    <3>1. p \in With(t, "live") /\ KeyAt(w, p) = t.keys[p] /\ ValAt(w, p) = t.vals[p]
      BY <1>7, <1>8
    <3>2. HashContent(t)[t.keys[p]] = t.vals[p]
      BY <3>1, ContentIs DEF CanMove
    <3> QED
      BY <3>1, <3>2 DEF KeysOf
  <2>2. ASSUME NEW p \in ElementPlaces(w), NEW q \in ElementPlaces(w), KeyAt(w, p) = KeyAt(w, q) PROVE p = q
    BY <1>7, <1>8, <2>2 DEF CanMove, Sound, Alone
  <2>3. ASSUME NEW k \in KeysOf(t) PROVE \E p \in ElementPlaces(w) : KeyAt(w, p) = k
    BY <1>7, <1>8 DEF KeysOf
  <2> QED
    BY <2>1, <2>2, <2>3 DEF CarriesAll
<1>10. Moving(w, t, new)
  <2>1. Cardinality(ElementPlaces(w)) = t.size
    BY <1>7 DEF CanMove, Sound, BucketsCounted
  <2>2. \A i \in 0 .. w.next - 1 : w.flags[i] # "live"
    BY <1>4
  <2> QED
    BY <1>5, <1>6, <1>9, <2>1, <2>2 DEF Moving, NewMet
<1> DEFINE c == Cardinality(With(t, "live"))
<1>11. c \in Nat /\ c <= b
  <2>1. With(t, "live") \in SUBSET (DOMAIN t.flags)
    BY DEF With
  <2> QED
    BY <1>1, <2>1, FS_Subset, FS_CardinalityType
<1>12. Left(w, t) = (b - 0) + c + 0
  BY <1>4, <1>6 DEF Left
<1>13. Left(w, t) \in 0 .. 2 * b
  <2> HIDE DEF b, c
  <2> QED
    BY <1>1, <1>11, <1>12 DEF b
<1> QED
  BY <1>10, <1>13 DEF w

MovesUpTo(t, new, m, f) ==
    f = [n \in 0 .. m |-> IF n = 0 THEN Unmoved(t, new) ELSE TakeTurn(f[n - 1], new)]

LEMMA MovesExist ==
  ASSUME NEW t, NEW new, NEW m \in Nat
  PROVE  \E f : MovesUpTo(t, new, m, f)
<1> DEFINE P(k) == \E f : MovesUpTo(t, new, k, f)
           Bad == {k \in Nat : ~P(k)}
<1>1. P(0)
  <2>1. MovesUpTo(t, new, 0, [n \in 0 .. 0 |-> Unmoved(t, new)])
    BY DEF MovesUpTo
  <2> QED
    BY <2>1
<1>2. ASSUME NEW k \in Nat, P(k) PROVE P(k + 1)
  <2>1. PICK f : MovesUpTo(t, new, k, f)
    BY <1>2
  <2> DEFINE g == [n \in 0 .. k + 1 |-> IF n = 0 THEN Unmoved(t, new) ELSE TakeTurn(f[n - 1], new)]
  <2>2. ASSUME NEW i \in 0 .. k PROVE g[i] = f[i]
    <3>1. f[i] = (IF i = 0 THEN Unmoved(t, new) ELSE TakeTurn(f[i - 1], new))
      BY <2>1, Zenon DEF MovesUpTo
    <3>2. i \in 0 .. k + 1
      OBVIOUS
    <3> QED
      BY <3>1, <3>2, Zenon
  <2>3. ASSUME NEW i \in 0 .. k + 1, i # 0 PROVE g[i - 1] = f[i - 1]
    <3>1. i - 1 \in 0 .. k
      BY <2>3
    <3> QED
      BY <2>2, <3>1
  <2>4. MovesUpTo(t, new, k + 1, g)
    BY <2>3 DEF MovesUpTo
  <2> QED
    BY <2>4
<1>3. Bad = {}
  <2> SUFFICES ASSUME Bad # {} PROVE FALSE
    OBVIOUS
  <2> HIDE DEF P
  <2>1. PICK k \in Bad : \A j \in Bad : k <= j
    BY SmallestMember
  <2>2. CASE k = 0
    BY <1>1, <2>2
  <2>3. CASE k # 0
    <3>1. k - 1 \in Nat /\ k - 1 \notin Bad /\ k = (k - 1) + 1
      BY <2>1, <2>3
    <3> QED
      BY <1>2, <3>1
  <2> QED
    BY <2>2, <2>3
<1> QED
  BY <1>3

\* After all turns nothing is left to be moved.
LEMMA AllMoves ==
  ASSUME HashAssumption, NEW t, NEW new, CanMove(t, new)
  PROVE  Moving(AllMoved(t, new), t, new) /\ Left(AllMoved(t, new), t) = 0
<1> DEFINE b == t.n_buckets
           m == 2 * b
           Q(g) == MovesUpTo(t, new, m, g)
           f == CHOOSE g : Q(g)
<1>0. b \in Nat /\ m \in Nat
  BY BucketsAre DEF CanMove, Sound
<1>1. Q(f)
  <2>1. \E g : Q(g)
    <3> HIDE DEF m
    <3> QED
      BY <1>0, MovesExist
  <2> HIDE DEF Q
  <2> QED
    BY <2>1
<1>2. AllMoved(t, new) = f[m]
  BY Zenon DEF AllMoved, MovesUpTo
<1> HIDE DEF f
<1> DEFINE Fine(n) == Moving(f[n], t, new) /\ Left(f[n], t) \in Nat
                      /\ (Left(f[n], t) = 0 \/ Left(f[n], t) <= m - n)
           Bad == {n \in Nat : n <= m /\ ~Fine(n)}
<1>3. Bad = {}
  <2> SUFFICES ASSUME Bad # {} PROVE FALSE
    OBVIOUS
  <2>1. PICK n \in Bad : \A j \in Bad : n <= j
    BY SmallestMember
  <2>2. f[n] = (IF n = 0 THEN Unmoved(t, new) ELSE TakeTurn(f[n - 1], new))
    <3>1. n \in 0 .. m
      BY <1>0
    <3> QED
      BY <1>1, <3>1, Zenon DEF MovesUpTo
  <2>3. CASE n = 0
    <3>1. Moving(f[n], t, new) /\ Left(f[n], t) \in 0 .. m
      BY <2>2, <2>3, Begins
    <3> HIDE DEF m
    <3> QED
      BY <1>0, <2>1, <2>3, <3>1
  <2>4. CASE n # 0
    <3> DEFINE i == n - 1
               w == f[i]
               u == f[n]
    <3>1. i \in Nat /\ i \notin Bad /\ i <= m /\ n = i + 1
      <4>1. n \in Nat /\ n <= m /\ n # 0
        BY <2>1, <2>4
      <4>2. \A j \in Bad : n <= j
        BY <2>1
      <4> HIDE DEF m, Bad
      <4>3. i \in Nat /\ i <= m /\ n = i + 1 /\ ~(n <= i)
        BY <1>0, <4>1
      <4> QED
        BY <4>2, <4>3
    <3>2. Fine(i)
      <4> HIDE DEF Fine, m
      <4> QED
        BY <3>1
    <3>3. u = TakeTurn(w, new)
      BY <2>2, <2>4
    <3>4. Moving(w, t, new) /\ Left(w, t) \in Nat /\ (Left(w, t) = 0 \/ Left(w, t) <= m - i)
      BY <3>2
    <3>5. ~Fine(n)
      BY <2>1
    <3> HIDE DEF w, u
    <3>6. IsMove(w, t, new)
      BY <3>4 DEF Moving
    <3>7. /\ DOMAIN w.flags = 0 .. b - 1 /\ w.next \in 0 .. b /\ w.busy \in BOOLEAN
          /\ Cardinality(With(w, "live")) \in Nat
      BY <3>6, MoveSets, FS_CardinalityType DEF IsMove
    <3>8. CASE u = w
      <4>1. ~w.busy /\ ~(w.next \in 0 .. b - 1) => Left(w, t) = 0
        <5> SUFFICES ASSUME ~w.busy, ~(w.next \in 0 .. b - 1) PROVE Left(w, t) = 0
          OBVIOUS
        <5>1. w.next = b
          BY <1>0, <3>7
        <5>2. With(w, "live") = {}
          BY <3>4, <3>7, <5>1 DEF Moving, With
        <5> DEFINE c == Cardinality(With(w, "live"))
        <5>3. c = 0
          BY <5>2, FS_EmptySet
        <5>4. Left(w, t) = (b - w.next) + c + 0
          BY DEF Left
        <5> HIDE DEF b, c
        <5> QED
          BY <1>0, <5>1, <5>3, <5>4
      <4>2. CASE w.busy
        <5>1. Left(u, t) = Left(w, t) - 1
          BY <3>3, <3>4, <4>2, PutsDown DEF TakeTurn
        <5> QED
          BY <3>4, <3>8, <5>1
      <4>3. CASE ~w.busy /\ w.next \in 0 .. b - 1
        <5>1. w.next < t.n_buckets
          BY <1>0, <4>3
        <5>2. Left(u, t) = Left(w, t) - 1
          BY <3>3, <3>4, <3>7, <4>3, <5>1, TakesUp DEF TakeTurn
        <5> QED
          BY <3>4, <3>8, <5>2
      <4>4. CASE Left(w, t) = 0
        BY <3>4, <3>5, <3>8, <4>4 DEF u
      <4> QED
        BY <4>1, <4>2, <4>3, <4>4
    <3>9. CASE u # w
      <4>1. Moving(u, t, new) /\ Left(u, t) = Left(w, t) - 1
        <5>1. CASE w.busy
          BY <3>3, <3>4, <5>1, PutsDown DEF TakeTurn
        <5>2. CASE ~w.busy
          <6>1. w.next \in 0 .. b - 1 /\ u = TakeUp(w)
            BY <3>3, <3>7, <3>9, <5>2 DEF TakeTurn
          <6>2. w.next < t.n_buckets
            BY <1>0, <6>1
          <6> QED
            BY <3>4, <5>2, <6>1, <6>2, TakesUp
        <5> QED
          BY <5>1, <5>2
      <4>2. Left(w, t) # 0
        <5> SUFFICES ASSUME Left(w, t) = 0 PROVE FALSE
          OBVIOUS
        <5> DEFINE c == Cardinality(With(w, "live"))
        <5>1. Left(w, t) = (b - w.next) + c + (IF w.busy THEN 1 ELSE 0)
          BY DEF Left
        <5>2. b - w.next \in Nat /\ c \in Nat
          BY <1>0, <3>7
        <5> DEFINE left == b - w.next
                   one == IF w.busy THEN 1 ELSE 0
        <5>3. left = 0 /\ one = 0
          <6>1. left + c + one = 0 /\ left \in Nat /\ c \in Nat /\ one \in Nat
            BY <5>1, <5>2
          <6> HIDE DEF left, c, one
          <6> QED
            BY <6>1
        <5>4. ~w.busy
          BY <5>3
        <5>5. w.next = b
          <6>1. w.next \in Nat /\ b - w.next = 0
            BY <1>0, <3>7, <5>3
          <6> HIDE DEF b
          <6> QED
            BY <1>0, <6>1
        <5> QED
          BY <1>0, <3>3, <3>7, <3>9, <5>4, <5>5 DEF TakeTurn
      <4>3. Left(u, t) \in Nat /\ Left(u, t) <= m - n
        <5> DEFINE l == Left(w, t)
        <5>1. l \in Nat /\ l # 0 /\ l <= m - i /\ Left(u, t) = l - 1
          BY <3>4, <4>1, <4>2
        <5> HIDE DEF l, m
        <5> QED
          BY <1>0, <3>1, <5>1
      <4> QED
        BY <3>5, <4>1, <4>3 DEF u
    <3> QED
      BY <3>8, <3>9
  <2> QED
    BY <2>3, <2>4
<1>4. Fine(m)
  BY <1>0, <1>3
<1>5. Left(f[m], t) = 0
  <2> DEFINE l == Left(f[m], t)
  <2>1. l \in Nat /\ (l = 0 \/ l <= m - m)
    BY <1>4
  <2> HIDE DEF l, m
  <2>2. l = 0
    BY <1>0, <2>1
  <2> QED
    BY <2>2 DEF l
<1> QED
  BY <1>2, <1>4, <1>5

\* What rehashing leaves: the same elements, and nothing deleted.
IsRehashed(u, t, new) ==
    /\ Sound(u) /\ u.n_buckets = new /\ u.size = t.size /\ u.n_occupied = u.size
    /\ HashContent(u) = HashContent(t)

LEMMA Rehashes ==
  ASSUME HashAssumption, NEW t, NEW new, CanMove(t, new)
  PROVE  IsRehashed(Rehashed(t, new), t, new)
<1> DEFINE b == t.n_buckets
           w == AllMoved(t, new)
           K == [i \in 0 .. new - 1 |-> w.keys[i]]
           V == [i \in 0 .. new - 1 |-> w.vals[i]]
           u == Rehashed(t, new)
           c == Cardinality(With(w, "live"))
<1>1. u = [n_buckets |-> new, size |-> t.size, n_occupied |-> t.size,
           flags |-> w.fresh, keys |-> K, vals |-> V]
  BY Zenon DEF Rehashed
<1>2. Moving(w, t, new) /\ Left(w, t) = 0
  BY AllMoves
<1> HIDE DEF w, u
<1>3. u.n_buckets = new /\ u.size = t.size /\ u.n_occupied = t.size
      /\ u.flags = w.fresh /\ u.keys = K /\ u.vals = V
      /\ u = [n_buckets |-> u.n_buckets, size |-> u.size, n_occupied |-> u.n_occupied,
              flags |-> u.flags, keys |-> u.keys, vals |-> u.vals]
  BY <1>1
<1>4. IsMove(w, t, new)
  BY <1>2 DEF Moving
<1>5. /\ b \in Nat /\ new \in Nat /\ new >= 4
      /\ DOMAIN w.flags = 0 .. b - 1 /\ DOMAIN w.fresh = 0 .. new - 1
      /\ IsFiniteSet(With(w, "live")) /\ NewOnes(w) \subseteq 0 .. new - 1 /\ -1 \notin NewOnes(w)
  BY <1>4, MoveSets
<1>6. c \in Nat /\ w.next \in 0 .. b /\ w.busy \in BOOLEAN
  BY <1>4, <1>5, FS_CardinalityType DEF IsMove
<1>7. With(w, "live") = {} /\ ~w.busy
  <2> DEFINE left == b - w.next
             one == IF w.busy THEN 1 ELSE 0
  <2>1. left + c + one = 0
    BY <1>2 DEF Left
  <2>2. left \in Nat /\ one \in Nat
    BY <1>5, <1>6
  <2>3. c = 0 /\ one = 0
    <3> HIDE DEF left, one, c
    <3> QED
      BY <1>6, <2>1, <2>2
  <2> QED
    BY <1>5, <2>3, FS_EmptySet
<1>8. ElementPlaces(w) = NewOnes(w) /\ With(u, "live") = NewOnes(w)
  BY <1>3, <1>7 DEF ElementPlaces, With, NewOnes
<1>9. IsTable(u)
  <2>1. u.flags \in [0 .. u.n_buckets - 1 -> BucketFlag]
    <3>1. w.fresh \in [0 .. new - 1 -> {"empty", "live"}]
      BY <1>4 DEF IsMove
    <3> QED
      BY <1>3, <3>1 DEF BucketFlag
  <2>2. u.keys = [i \in 0 .. u.n_buckets - 1 |-> u.keys[i]]
    BY <1>3
  <2>3. u.vals = [i \in 0 .. u.n_buckets - 1 |-> u.vals[i]]
    BY <1>3
  <2> QED
    BY <1>3, <2>1, <2>2, <2>3 DEF IsTable
<1>10. ASSUME NEW i \in With(u, "live")
       PROVE  /\ i \in ElementPlaces(w) /\ KeyAt(w, i) = u.keys[i] /\ ValAt(w, i) = u.vals[i]
              /\ u.keys[i] = w.keys[i]
  <2>1. i \in NewOnes(w) /\ i \in 0 .. new - 1 /\ i # -1
    BY <1>5, <1>8
  <2> QED
    BY <1>3, <1>8, <2>1 DEF KeyAt, ValAt
<1>11. Keyed(u)
  <2>1. KeysOf(t) \subseteq HashKey \cup ListKey
    BY DEF KeysOf, CanMove, Sound, Keyed
  <2> QED
    BY <1>2, <1>10, <2>1 DEF Keyed, Moving, CarriesAll
<1>12. Alone(u)
  BY <1>2, <1>10 DEF Alone, Moving, CarriesAll
<1>13. AllMet(u)
  BY <1>2, <1>3, <1>8, <1>10 DEF AllMet, Moving, NewMet
<1>14. BucketsCounted(u)
  <2>1. t.size = Cardinality(With(u, "live"))
    BY <1>2, <1>8 DEF Moving
  <2>2. DOMAIN u.flags \ With(u, "empty") = With(u, "live")
    <3>1. \A i \in DOMAIN u.flags : u.flags[i] = "empty" \/ u.flags[i] = "live"
      BY <1>3, <1>4, <1>5 DEF IsMove
    <3> QED
      BY <3>1 DEF With
  <2>3. t.size <= UpperBound(new)
    <3>1. UpperBound(new) \in Nat /\ t.size < UpperBound(new)
      BY <1>5, Bounds DEF CanMove
    <3>2. t.size \in Nat
      BY BucketsAre, FS_CardinalityType DEF CanMove, Sound, BucketsCounted
    <3> QED
      BY <3>1, <3>2
  <2> QED
    BY <1>3, <2>1, <2>2, <2>3 DEF BucketsCounted
<1>15. Sound(u)
  BY <1>3, <1>9, <1>11, <1>12, <1>13, <1>14 DEF Sound, CanMove
<1>16. HashContent(u) = HashContent(t)
  <2> DEFINE C == HashContent(t)
             D == KeysOf(t)
  <2>1. C = [k \in D |-> C[k]]
    BY ContentIs DEF CanMove
  <2>2. ASSUME NEW i \in With(u, "live") PROVE u.keys[i] \in D /\ C[u.keys[i]] = u.vals[i]
    BY <1>2, <1>10 DEF Moving, CarriesAll
  <2>3. ASSUME NEW k \in D PROVE \E i \in With(u, "live") : u.keys[i] = k
    BY <1>2, <1>8, <1>10 DEF Moving, CarriesAll
  <2> HIDE DEF C, D
  <2>4. HashContent(u) = C
    BY <1>15, <2>1, <2>2, <2>3, ContentAgrees
  <2> QED
    BY <2>4 DEF C
<1> QED
  BY <1>3, <1>15, <1>16 DEF IsRehashed, u

LEMMA RehashedSize ==
  ASSUME NEW t, NEW new
  PROVE  Rehashed(t, new).n_buckets = new
<1> DEFINE w == AllMoved(t, new)
           F == w.fresh
           K == [i \in 0 .. new - 1 |-> w.keys[i]]
           V == [i \in 0 .. new - 1 |-> w.vals[i]]
<1>1. Rehashed(t, new) = [n_buckets |-> new, size |-> t.size, n_occupied |-> t.size,
                          flags |-> F, keys |-> K, vals |-> V]
  BY Zenon DEF Rehashed
<1> HIDE DEF F, K, V
<1> QED
  BY <1>1

LEMMA Few ==
  ASSUME NEW t, Sound(t)
  PROVE  /\ t.size \in Nat /\ t.n_occupied \in Nat /\ t.size <= t.n_occupied
         /\ t.n_buckets = 0 => t.size = 0 /\ t.n_occupied = 0
<1> DEFINE L == With(t, "live")
           U == DOMAIN t.flags \ With(t, "empty")
<1>1. IsFiniteSet(DOMAIN t.flags) /\ IsFiniteSet(L) /\ DOMAIN t.flags = 0 .. t.n_buckets - 1
  BY BucketsAre DEF Sound
<1>2. IsFiniteSet(U) /\ L \in SUBSET U
  BY <1>1, FS_Difference DEF With
<1>3. Cardinality(L) \in Nat /\ Cardinality(U) \in Nat /\ Cardinality(L) <= Cardinality(U)
  BY <1>1, <1>2, FS_Subset, FS_CardinalityType
<1>4. ASSUME t.n_buckets = 0 PROVE L = {} /\ U = {}
  BY <1>1, <1>4, <1>2
<1> QED
  BY <1>3, <1>4, FS_EmptySet DEF Sound, BucketsCounted

\* kh_resize to any size.
LEMMA ResizesTo ==
  ASSUME HashAssumption, NEW t, Sound(t), NEW n \in 0 .. TwoTo[30], Fits(OfSize(t, n))
  PROVE  OfSize(t, n) = t \/ IsRehashed(OfSize(t, n), t, NewSize(n))
<1> DEFINE new == NewSize(n)
<1>1. CASE TooSmall(t, n)
  BY <1>1 DEF OfSize
<1>2. CASE ~TooSmall(t, n)
  <2>1. OfSize(t, n) = Rehashed(t, new)
    BY <1>2 DEF OfSize
  <2>2. new \in Nat /\ TwoTo[29] \in Nat /\ MaxBuckets \in 0 .. TwoTo[29]
    BY NewSizes, TwoToGrows DEF HashAssumption
  <2>3. new <= MaxBuckets
    BY <2>1, RehashedSize DEF Fits
  <2>4. new \in Sizes
    <3>1. new <= TwoTo[29]
      <4> HIDE DEF new
      <4> QED
        BY <2>2, <2>3
    <3> QED
      BY <3>1, NewSizes
  <2>5. t.size < UpperBound(new)
    <3>1. UpperBound(new) \in Nat /\ t.size \in Nat /\ ~(t.size >= UpperBound(new))
      BY <1>2, <2>2, Few, Bounds DEF TooSmall
    <3> QED
      BY <3>1
  <2>6. IsRehashed(Rehashed(t, new), t, new)
    <3> HIDE DEF new
    <3> QED
      BY <2>4, <2>5, Rehashes DEF CanMove
  <2> QED
    BY <2>1, <2>6
<1> QED
  BY <1>1, <1>2

\* kh_put: the table it puts into has room, holds the same and is no smaller.
HasRoom(u, t) ==
    /\ Sound(u) /\ u.n_buckets # 0 /\ u.n_occupied < UpperBound(u.n_buckets)
    /\ u.size = t.size /\ u.n_buckets >= t.n_buckets /\ HashContent(u) = HashContent(t)
    /\ (~Full(t) /\ u = t) \/ (Full(t) /\ u.n_occupied = u.size)
    /\ t.n_buckets = 0 => u.n_buckets = 4

LEMMA MakesRoom ==
  ASSUME HashAssumption, NEW t, Sound(t), Fits(Room(t))
  PROVE  HasRoom(Room(t), t)
<1> DEFINE b == t.n_buckets
           u == Room(t)
<1>1. /\ b \in Nat /\ (b = 0 \/ b >= 4) /\ (b # 0 => b \in Sizes)
      /\ t.size \in Nat /\ t.n_occupied \in Nat /\ t.size <= t.n_occupied
      /\ (b = 0 => t.size = 0 /\ t.n_occupied = 0) /\ t.n_occupied <= UpperBound(b)
      /\ UpperBound(b) \in Nat
  BY Few, SizesAre, Bounds DEF Sound, BucketsCounted
<1>2. CASE ~Full(t)
  <2>1. u = t
    BY <1>2 DEF Room
  <2>2. t.n_occupied < UpperBound(b)
    BY <1>1, <1>2 DEF Full
  <2>3. b # 0
    BY <1>1, <2>2, NothingCounted
  <2>4. b >= b
    <3> HIDE DEF b
    <3> QED
      BY <1>1
  <2>5. t.n_buckets = 0 => u.n_buckets = 4
    BY <2>3
  <2> HIDE DEF u
  <2> QED
    BY <1>2, <2>1, <2>2, <2>3, <2>4, <2>5 DEF HasRoom, u
<1>3. CASE Full(t)
  <2>1. CASE b = 0
    <3>1. 0 \in Nat /\ b + 1 = 1 /\ ~(b > 2 * t.size)
      BY <1>1, <2>1
    <3>2. u = OfSize(t, 1)
      BY <1>3, <3>1 DEF Room
    <3>3. NewSize(1) = 4 /\ 1 \in 0 .. TwoTo[30]
      BY TwoToGrows DEF NewSize
    <3>4. ~TooSmall(t, 1) /\ UpperBound(4) = 3
      <4>1. UpperBound(4) = 3 /\ t.size = 0
        BY <1>1, <2>1, Bounds
      <4> QED
        BY <3>3, <4>1 DEF TooSmall
    <3>5. u = t \/ IsRehashed(u, t, 4)
      BY <3>2, <3>3, ResizesTo
    <3>6. u = Rehashed(t, 4)
      BY <3>2, <3>3, <3>4 DEF OfSize
    <3>7. u.n_buckets = 4
      BY <3>6, RehashedSize
    <3>8. IsRehashed(u, t, 4)
      BY <2>1, <3>5, <3>7
    <3> HIDE DEF u
    <3>9. u.n_occupied < UpperBound(u.n_buckets) /\ u.n_buckets >= b
      BY <1>1, <2>1, <3>4, <3>7, <3>8 DEF IsRehashed
    <3> QED
      BY <1>3, <3>7, <3>8, <3>9 DEF HasRoom, IsRehashed, u
  <2>2. CASE b # 0 /\ b > 2 * t.size
    <3>1. u = OfSize(t, b - 1)
      BY <1>3, <2>2 DEF Room
    <3>2. NewSize(b - 1) = b
      BY <1>1, <2>2, NextSizes
    <3>3. t.size < UpperBound(b)
      <4>1. b <= 2 * UpperBound(b)
        BY <1>1, <2>2, Bounds
      <4> DEFINE ub == UpperBound(b)
      <4> HIDE DEF b, ub
      <4>2. b <= 2 * ub /\ ub \in Nat
        BY <1>1, <4>1 DEF ub
      <4>3. t.size < ub
        BY <1>1, <2>2, <4>2
      <4> QED
        BY <4>3 DEF ub
    <3>4. u = Rehashed(t, b)
      BY <1>1, <3>1, <3>2, <3>3 DEF OfSize, TooSmall
    <3>5. IsRehashed(u, t, b)
      BY <1>1, <2>2, <3>3, <3>4, Rehashes DEF CanMove
    <3> HIDE DEF u
    <3>6. b >= b
      <4> HIDE DEF b
      <4> QED
        BY <1>1
    <3> QED
      BY <1>3, <2>2, <3>3, <3>5, <3>6 DEF HasRoom, IsRehashed, u
  <2>3. CASE b # 0 /\ ~(b > 2 * t.size)
    <3> DEFINE d == 2 * b
    <3>1. u = OfSize(t, b + 1)
      BY <1>3, <2>3 DEF Room
    <3>2. NewSize(b + 1) = d
      BY <1>1, <2>3, NextSizes
    <3>3. t.size < UpperBound(d) /\ UpperBound(d) \in Nat
      <4>1. UpperBound(b) < UpperBound(d) /\ UpperBound(d) \in Nat
        BY <1>1, <2>3, Bounds
      <4> DEFINE ub == UpperBound(b)
                 vb == UpperBound(d)
      <4> HIDE DEF ub, vb
      <4>2. ub < vb /\ ub \in Nat /\ vb \in Nat /\ t.n_occupied <= ub
        BY <1>1, <4>1 DEF ub, vb
      <4>3. t.size < vb /\ vb \in Nat
        BY <1>1, <4>2
      <4> QED
        BY <4>3 DEF vb
    <3>4. ~TooSmall(t, b + 1)
      BY <1>1, <3>2, <3>3 DEF TooSmall
    <3>5. u = Rehashed(t, d)
      BY <3>1, <3>2, <3>4 DEF OfSize
    <3>6. u.n_buckets = d
      BY <3>5, RehashedSize
    <3>7. b + 1 \in 0 .. TwoTo[30]
      <4>1. d <= MaxBuckets /\ MaxBuckets \in 0 .. TwoTo[29]
        BY <3>6 DEF Fits, HashAssumption
      <4>2. TwoTo[29 + 1] = 2 * TwoTo[29] /\ TwoTo[29] \in Nat
        BY TwoToGrows
      <4> DEFINE x == TwoTo[29]
                 y == TwoTo[30]
      <4>3. x \in Nat /\ y = 2 * x
        BY <4>2
      <4> HIDE DEF x, y, b
      <4>4. MaxBuckets \in 0 .. x
        BY <4>1 DEF x
      <4>5. b + 1 \in 0 .. y
        BY <1>1, <2>3, <4>1, <4>3, <4>4
      <4> QED
        BY <4>5 DEF y
    <3>8. IsRehashed(u, t, d) \/ u = t
      BY <3>1, <3>2, <3>7, ResizesTo
    <3>9. d # b /\ d >= b
      <4> HIDE DEF b
      <4> QED
        BY <1>1, <2>3
    <3>10. IsRehashed(u, t, d)
      BY <3>6, <3>8, <3>9
    <3>11. d # 0
      BY <1>1, <2>3
    <3> HIDE DEF u, d
    <3> QED
      BY <1>3, <2>3, <3>3, <3>6, <3>9, <3>10, <3>11 DEF HasRoom, IsRehashed, u
  <2> QED
    BY <2>1, <2>2, <2>3
<1> QED
  BY <1>2, <1>3

-----------------------------------------------------------------------------
(* KHash: the invariant. *)

\* A table of list heads has lost none, and the first three are where they were.
Keeps(t, b) ==
    /\ t.n_occupied = t.size
    /\ t.size <= 3 => t.n_buckets <= 4 /\ \A i \in With(t, "live") : t.vals[i] = <<b, i>>

KeyKind(lists) == IF lists THEN ListKey ELSE HashKey

HashOK(lists, t, b, r) ==
    /\ lists \in BOOLEAN /\ r \in {-1, 0, 1, 2}
    /\ Sound(t) /\ Fits(t) /\ KeysOf(t) \subseteq KeyKind(lists)
    /\ b \in 0 .. t.n_buckets
    /\ IF lists THEN Keeps(t, b) ELSE b = 0

HashInv == HashOK(of_lists, table, block, ret)

NewValue == HashValue \cup (0 .. MaxBuckets) \X (0 .. MaxBuckets)

IsWritten(c, d, k) ==
    /\ k \in DOMAIN d /\ d[k] \in NewValue
    /\ d = [j \in DOMAIN c \cup {k} |-> IF j = k THEN d[k] ELSE c[j]]

LEMMA Writes ==
  ASSUME NEW c, NEW d, NEW k, NEW v \in NewValue, d = Extended(c, k, v)
  PROVE  IsWritten(c, d, k)
<1>1. k \in DOMAIN d /\ d[k] = v
  BY DEF Extended
<1>2. d = [j \in DOMAIN c \cup {k} |-> IF j = k THEN d[k] ELSE c[j]]
  BY <1>1 DEF Extended
<1> QED
  BY <1>1, <1>2 DEF IsWritten

LEMMA HashStarts ==
  ASSUME HashAssumption, HashInit
  PROVE  HashInv /\ HashContent(table) = <<>>
<1>1. /\ table.n_buckets = 0 /\ table.size = 0 /\ table.n_occupied = 0
      /\ table.flags = <<>> /\ table.keys = <<>> /\ table.vals = <<>>
      /\ table = [n_buckets |-> table.n_buckets, size |-> table.size,
                  n_occupied |-> table.n_occupied,
                  flags |-> table.flags, keys |-> table.keys, vals |-> table.vals]
  BY DEF HashInit
<1>2. 0 .. table.n_buckets - 1 = {}
  BY <1>1
<1>3. IsTable(table)
  BY <1>1, <1>2 DEF IsTable
<1>4. Sound(table) /\ HashContent(table) = <<>>
  BY <1>1, <1>2, <1>3, NoContent
<1>5. With(table, "live") = {}
  BY <1>1 DEF With
<1>6. Fits(table)
  BY <1>1, TwoToGrows DEF Fits, HashAssumption
<1>7. KeysOf(table) = {} /\ Keeps(table, block)
  BY <1>1, <1>5 DEF KeysOf, Keeps
<1> QED
  BY <1>1, <1>4, <1>6, <1>7 DEF HashInit, HashInv, HashOK

\* kh_put with room made for it.
IsStored(u, t, k, v) ==
    /\ Sound(u) /\ u.n_buckets = t.n_buckets
    /\ HashContent(u) = Extended(HashContent(t), k, v)
    /\ KeysOf(u) = KeysOf(t) \cup {k}

LEMMA StoresValue ==
  ASSUME HashAssumption, NEW s, Sound(s), NEW k \in HashKey \cup ListKey, NEW v, Fits(Room(s))
  PROVE  /\ IsStored(WithValue(Room(s), k, v), Room(s), k, v)
         /\ BucketFor(Room(s), k) \in 0 .. MaxBuckets
<1> DEFINE t == Room(s)
           u == WithValue(t, k, v)
           x == BucketFor(t, k)
<1>1. HasRoom(t, s)
  BY MakesRoom
<1>2. Fits(t)
  OBVIOUS
<1> HIDE DEF t
<1>3. Sound(t) /\ t.n_buckets # 0 /\ t.n_occupied < UpperBound(t.n_buckets)
  BY <1>1 DEF HasRoom
<1>4. Sound(u) /\ HashContent(u) = Extended(HashContent(t), k, v)
  BY <1>3, Puts
<1>5. x \in 0 .. t.n_buckets - 1 /\ u = [n_buckets |-> t.n_buckets,
                 size |-> IF t.flags[x] = "live" THEN t.size ELSE t.size + 1,
                 n_occupied |-> IF t.flags[x] = "empty" THEN t.n_occupied + 1 ELSE t.n_occupied,
                 flags |-> [t.flags EXCEPT ![x] = "live"],
                 keys |-> [t.keys EXCEPT ![x] = k],
                 vals |-> [t.vals EXCEPT ![x] = v]]
  BY <1>3, WithValueIs
<1>6. KeysOf(u) = KeysOf(t) \cup {k}
  <2>1. HashContent(t) = [j \in KeysOf(t) |-> HashContent(t)[j]]
        /\ HashContent(u) = [j \in KeysOf(u) |-> HashContent(u)[j]]
    BY <1>3, <1>4, ContentIs
  <2>2. DOMAIN HashContent(t) = KeysOf(t) /\ DOMAIN HashContent(u) = KeysOf(u)
    BY <2>1
  <2>3. DOMAIN HashContent(u) = DOMAIN HashContent(t) \cup {k}
    BY <1>4 DEF Extended
  <2> QED
    BY <2>2, <2>3
<1> HIDE DEF u
<1>7. u.n_buckets = t.n_buckets
  BY <1>5
<1>8. x \in 0 .. MaxBuckets
  <2>1. t.n_buckets \in Nat /\ t.n_buckets <= MaxBuckets /\ MaxBuckets \in Nat
    BY <1>2, <1>3, SizesAre, TwoToGrows DEF Fits, Sound, HashAssumption
  <2> QED
    BY <1>5, <2>1
<1> QED
  BY <1>4, <1>6, <1>7, <1>8 DEF IsStored, t, u

LEMMA NoneDeleted ==
  ASSUME NEW t, Sound(t), t.n_occupied = t.size
  PROVE  With(t, "deleted") = {}
<1> DEFINE L == With(t, "live")
           U == DOMAIN t.flags \ With(t, "empty")
<1>1. IsFiniteSet(U) /\ L \in SUBSET U
  BY BucketsAre, FS_Difference DEF Sound, With
<1>2. L = U
  BY <1>1, FS_Subset DEF Sound, BucketsCounted
<1> QED
  BY <1>2 DEF With

LEMMA ResultIs ==
  ASSUME NEW t, NEW k
  PROVE  Result(t, k) \in {-1, 0, 1, 2}
BY DEF Result

\* int_hash_set
LEMMA SetKeeps ==
  ASSUME HashAssumption, HashInv, NEW k \in HashKey, NEW v \in HashValue, int_hash_set(k, v),
         UNCHANGED of_lists
  PROVE  /\ HashInv'
         /\ \/ HashContent(table') = HashContent(table)
            \/ IsWritten(HashContent(table), HashContent(table'), k)
<1> DEFINE t == Room(table)
<1>1. ~of_lists /\ Sound(table) /\ block = 0 /\ KeysOf(table) \subseteq HashKey /\ Fits(table)
  BY DEF HashInv, HashOK, KeyKind, int_hash_set
<1>2. CASE Fails
  BY <1>1, <1>2 DEF HashInv, HashOK, Fails
<1>3. CASE Fits(t) /\ MayMove(table, t) /\ table' = WithValue(t, k, v) /\ ret' = Result(t, k)
  <2>1. block' = block
    BY <1>1, <1>3 DEF MayMove
  <2>2. IsStored(table', t, k, v) /\ HasRoom(t, table)
    BY <1>1, <1>3, StoresValue, MakesRoom
  <2> HIDE DEF t
  <2>3. Sound(table') /\ Fits(table')
    BY <1>3, <2>2 DEF IsStored, Fits
  <2>4. HashContent(t) = HashContent(table) /\ Sound(t)
    BY <2>2 DEF HasRoom
  <2>5. KeysOf(t) = KeysOf(table)
    <3>1. HashContent(t) = [j \in KeysOf(t) |-> HashContent(t)[j]]
          /\ HashContent(table) = [j \in KeysOf(table) |-> HashContent(table)[j]]
      BY <1>1, <2>4, ContentIs
    <3>2. DOMAIN HashContent(t) = KeysOf(t) /\ DOMAIN HashContent(table) = KeysOf(table)
      BY <3>1
    <3> QED
      BY <2>4, <3>2
  <2>6. KeysOf(table') \subseteq HashKey
    BY <1>1, <2>2, <2>5 DEF IsStored
  <2>7. ret' \in {-1, 0, 1, 2}
    BY <1>3, ResultIs
  <2>8. block' \in 0 .. table'.n_buckets /\ block' = 0
    BY <1>1, <2>1, <2>3, SizesAre DEF Sound
  <2>9. HashInv'
    BY <1>1, <2>3, <2>6, <2>7, <2>8 DEF HashInv, HashOK, KeyKind
  <2>10. IsWritten(HashContent(table), HashContent(table'), k)
    <3>1. v \in NewValue
      BY DEF NewValue
    <3>2. HashContent(table') = Extended(HashContent(table), k, v)
      BY <2>2, <2>4 DEF IsStored
    <3> QED
      BY <3>1, <3>2, Writes
  <2> QED
    BY <2>9, <2>10
<1> QED
  BY <1>2, <1>3 DEF int_hash_set

\* int_hash_get_or_create_list
LEMMA ListKeeps ==
  ASSUME HashAssumption, HashInv, NEW k \in ListKey, int_hash_get_or_create_list(k),
         UNCHANGED of_lists
  PROVE  /\ HashInv'
         /\ \/ HashContent(table') = HashContent(table)
            \/ IsWritten(HashContent(table), HashContent(table'), k)
<1> DEFINE t == Room(table)
           x == BucketFor(t, k)
           v == <<block', x>>
           u == WithValue(t, k, v)
<1>1. /\ of_lists /\ Sound(table) /\ block \in 0 .. table.n_buckets /\ KeysOf(table) \subseteq ListKey
      /\ Fits(table) /\ Keeps(table, block) /\ kh_get(table, k) = table.n_buckets
  BY DEF HashInv, HashOK, KeyKind, int_hash_get_or_create_list
<1>2. CASE Fails
  BY <1>1, <1>2 DEF HashInv, HashOK, Fails
<1>3. CASE Fits(t) /\ MayMove(table, t) /\ table' = u /\ ret' = Result(t, k)
  <2>1. IsStored(u, t, k, v) /\ HasRoom(t, table) /\ x \in 0 .. MaxBuckets
    BY <1>1, <1>3, StoresValue, MakesRoom
  <2>2. /\ u = [n_buckets |-> t.n_buckets,
                 size |-> IF t.flags[x] = "live" THEN t.size ELSE t.size + 1,
                 n_occupied |-> IF t.flags[x] = "empty" THEN t.n_occupied + 1 ELSE t.n_occupied,
                 flags |-> [t.flags EXCEPT ![x] = "live"],
                 keys |-> [t.keys EXCEPT ![x] = k],
                 vals |-> [t.vals EXCEPT ![x] = v]]
        /\ x \in 0 .. t.n_buckets - 1 /\ With(u, "live") = With(t, "live") \cup {x}
        /\ (t.flags[x] = "live" => t.keys[x] = k)
    BY <2>1, WithValueIs, ChoosesBucket DEF HasRoom
  <2> HIDE DEF t, x, v, u
  <2>3. /\ Sound(t) /\ t.size = table.size /\ t.n_buckets >= table.n_buckets
        /\ HashContent(t) = HashContent(table) /\ t.n_buckets # 0
        /\ ((~Full(table) /\ t = table) \/ (Full(table) /\ t.n_occupied = t.size))
        /\ (table.n_buckets = 0 => t.n_buckets = 4)
    BY <2>1 DEF HasRoom
  <2>4. KeysOf(t) = KeysOf(table)
    <3>1. HashContent(t) = [j \in KeysOf(t) |-> HashContent(t)[j]]
          /\ HashContent(table) = [j \in KeysOf(table) |-> HashContent(table)[j]]
      BY <1>1, <2>3, ContentIs
    <3>2. DOMAIN HashContent(t) = KeysOf(t) /\ DOMAIN HashContent(table) = KeysOf(table)
      BY <3>1
    <3> QED
      BY <2>3, <3>2
  <2>5. Sound(u) /\ Fits(u) /\ KeysOf(u) \subseteq ListKey /\ u.n_buckets = t.n_buckets
    BY <1>1, <1>3, <2>1, <2>4 DEF IsStored, Fits
  <2>6. k \notin KeysOf(table)
    <3> SUFFICES ASSUME k \in KeysOf(table) PROVE FALSE
      OBVIOUS
    <3>1. PICK i \in With(table, "live") : table.keys[i] = k
      BY DEF KeysOf
    <3>2. i = table.n_buckets
      BY <1>1, <3>1, Finds
    <3>3. table.n_buckets \in Nat /\ i \in 0 .. table.n_buckets - 1
      BY <1>1, <3>1, BucketsAre DEF Sound
    <3> QED
      BY <3>2, <3>3
  <2>7. t.flags[x] # "live"
    <3> SUFFICES ASSUME t.flags[x] = "live" PROVE FALSE
      OBVIOUS
    <3>1. x \in With(t, "live")
      BY <2>2, <2>3, BucketsAre DEF With, Sound
    <3> QED
      BY <2>2, <2>4, <2>6, <3>1 DEF KeysOf
  <2>8. t.n_occupied = t.size
    BY <1>1, <2>3 DEF Keeps
  <2>9. t.flags[x] = "empty"
    <3>1. With(t, "deleted") = {}
      BY <2>3, <2>8, NoneDeleted
    <3>2. DOMAIN t.flags = 0 .. t.n_buckets - 1 /\ t.flags[x] \in BucketFlag
      BY <2>2, <2>3, BucketsAre DEF Sound, IsTable
    <3> QED
      BY <2>2, <2>7, <3>1, <3>2 DEF With, BucketFlag
  <2>10. /\ u.size = t.size + 1 /\ u.n_occupied = t.n_occupied + 1
         /\ u.vals = [t.vals EXCEPT ![x] = v]
    BY <2>2, <2>7, <2>9
  <2>11. /\ block' \in {block, block + 1} /\ (block' # block => t.n_buckets # table.n_buckets)
         /\ (t.n_buckets = table.n_buckets => block' = block)
    BY <1>1, <1>3 DEF MayMove
  <2>12. t.n_buckets \in Nat /\ table.n_buckets \in Nat
    BY <1>1, <2>3, SizesAre DEF Sound
  <2>13. block' \in 0 .. u.n_buckets
    <3> DEFINE n == table.n_buckets
               m == t.n_buckets
    <3>1. block \in 0 .. n /\ m >= n /\ m \in Nat /\ n \in Nat
      BY <1>1, <2>3, <2>12
    <3>2. block' = block \/ (block' = block + 1 /\ m # n)
      BY <2>11
    <3> HIDE DEF m, n
    <3>3. block' \in 0 .. m
      BY <3>1, <3>2
    <3> QED
      BY <2>5, <3>3 DEF m
  <2>14. Keeps(u, block')
    <3>1. u.n_occupied = u.size
      BY <2>8, <2>10
    <3>2. ASSUME u.size <= 3
          PROVE  u.n_buckets <= 4 /\ \A i \in With(u, "live") : u.vals[i] = <<block', i>>
      <4>1. table.size \in Nat /\ table.size <= 2 /\ table.n_buckets <= 4
            /\ \A i \in With(table, "live") : table.vals[i] = <<block, i>>
        <5>1. table.size \in Nat /\ table.size + 1 <= 3
          BY <1>1, <2>3, <2>10, <3>2, Few
        <5>2. table.size <= 3 /\ table.size <= 2
          BY <5>1
        <5> QED
          BY <1>1, <5>1, <5>2 DEF Keeps
      <4>2. u.vals[x] = v
        <5>1. DOMAIN t.vals = 0 .. t.n_buckets - 1
          BY <2>3 DEF Sound, IsTable
        <5> QED
          BY <2>2, <2>10, <5>1
      <4>3. ASSUME NEW i \in With(t, "live") PROVE i # x /\ u.vals[i] = t.vals[i]
        <5>1. i # x
          BY <2>7 DEF With
        <5>2. DOMAIN t.vals = 0 .. t.n_buckets - 1 /\ i \in 0 .. t.n_buckets - 1
          BY <2>3, BucketsAre DEF Sound, IsTable
        <5> QED
          BY <2>10, <5>1, <5>2
      <4>4. CASE table.n_buckets = 0
        <5>1. With(t, "live") = {}
          <6>1. With(table, "live") = {}
            BY <1>1, <4>4, BucketsAre DEF Sound
          <6> QED
            BY <2>4, <6>1 DEF KeysOf
        <5>2. u.n_buckets = 4
          BY <2>3, <2>5, <4>4
        <5> QED
          BY <2>2, <4>2, <5>1, <5>2 DEF v
      <4>5. CASE table.n_buckets # 0
        <5>1. table.n_buckets = 4
          <6>1. table.n_buckets \in Nat /\ table.n_buckets >= 4
            BY <1>1, <4>5, SizesAre DEF Sound
          <6> QED
            BY <4>1, <6>1
        <5>2. ~Full(table)
          <6>1. UpperBound(4) = 3 /\ table.n_occupied = table.size
            BY <1>1, Bounds DEF Keeps
          <6> QED
            BY <4>1, <5>1, <6>1 DEF Full
        <5>3. t = table /\ block' = block
          BY <2>3, <2>11, <5>2
        <5>4. u.n_buckets <= 4
          BY <2>5, <5>1, <5>3
        <5>5. \A i \in With(u, "live") : u.vals[i] = <<block', i>>
          BY <2>2, <4>1, <4>2, <4>3, <5>3 DEF v
        <5> QED
          BY <5>4, <5>5
      <4> QED
        BY <4>4, <4>5
    <3> QED
      BY <3>1, <3>2 DEF Keeps
  <2>15. HashInv'
    <3>1. ret' \in {-1, 0, 1, 2}
      BY <1>3, ResultIs
    <3> QED
      BY <1>1, <1>3, <2>5, <2>13, <2>14, <3>1 DEF HashInv, HashOK, KeyKind
  <2>16. IsWritten(HashContent(table), HashContent(table'), k)
    <3>1. v \in NewValue
      <4>1. u.n_buckets <= MaxBuckets /\ MaxBuckets \in Nat
        BY <2>5, TwoToGrows DEF Fits, HashAssumption
      <4>2. block' \in 0 .. MaxBuckets
        BY <2>5, <2>12, <2>13, <4>1
      <4> QED
        BY <2>1, <4>2 DEF NewValue, v
    <3>2. HashContent(table') = Extended(HashContent(table), k, v)
      BY <1>3, <2>1, <2>3 DEF IsStored
    <3> QED
      BY <3>1, <3>2, Writes
  <2> QED
    BY <2>15, <2>16
<1> QED
  BY <1>2, <1>3 DEF int_hash_get_or_create_list

\* kh_del
LEMMA DeleteKeeps ==
  ASSUME HashAssumption, HashInv, NEW k \in HashKey, kh_del(k), UNCHANGED of_lists
  PROVE  /\ HashInv'
         /\ HashContent(table') = Restrict(HashContent(table), DOMAIN HashContent(table) \ {k})
<1>1. /\ ~of_lists /\ Sound(table) /\ block = 0 /\ KeysOf(table) \subseteq HashKey /\ Fits(table)
      /\ kh_get(table, k) # table.n_buckets /\ block' = block /\ ret' = ret
      /\ ret \in {-1, 0, 1, 2} /\ block \in 0 .. table.n_buckets
  BY DEF HashInv, HashOK, KeyKind, kh_del
<1>2. table' = Lacking(table, k)
  BY DEF kh_del, Lacking
<1>3. /\ Sound(table') /\ table'.n_buckets = table.n_buckets
      /\ With(table', "live") \subseteq With(table, "live") /\ table'.keys = table.keys
      /\ HashContent(table') = Restrict(HashContent(table), DOMAIN HashContent(table) \ {k})
  BY <1>1, <1>2, Deletes
<1>4. KeysOf(table') \subseteq HashKey /\ Fits(table')
  BY <1>1, <1>3 DEF KeysOf, Fits
<1> QED
  BY <1>1, <1>3, <1>4 DEF HashInv, HashOK, KeyKind

\* kh_resize
LEMMA ResizeKeeps ==
  ASSUME HashAssumption, HashInv, NEW n \in ResizeTo, kh_resize(n), UNCHANGED of_lists
  PROVE  HashInv' /\ HashContent(table') = HashContent(table)
<1>1. /\ ~of_lists /\ Sound(table) /\ block = 0 /\ KeysOf(table) \subseteq HashKey /\ Fits(table)
      /\ table' = OfSize(table, n) /\ Fits(table') /\ block' = block /\ ret' = ret
      /\ ret \in {-1, 0, 1, 2}
  BY DEF HashInv, HashOK, KeyKind, kh_resize, MayMove
<1>2. n \in 0 .. TwoTo[30]
  BY DEF HashAssumption
<1>3. table' = table \/ IsRehashed(table', table, NewSize(n))
  BY <1>1, <1>2, ResizesTo
<1>4. Sound(table') /\ HashContent(table') = HashContent(table)
  BY <1>1, <1>3 DEF IsRehashed
<1>5. KeysOf(table') = KeysOf(table)
  <2>1. HashContent(table') = [j \in KeysOf(table') |-> HashContent(table')[j]]
        /\ HashContent(table) = [j \in KeysOf(table) |-> HashContent(table)[j]]
    BY <1>1, <1>4, ContentIs
  <2>2. DOMAIN HashContent(table') = KeysOf(table') /\ DOMAIN HashContent(table) = KeysOf(table)
    BY <2>1
  <2> QED
    BY <1>4, <2>2
<1>6. block' \in 0 .. table'.n_buckets /\ block' = 0
  BY <1>1, <1>4, SizesAre DEF Sound
<1> QED
  BY <1>1, <1>4, <1>5, <1>6 DEF HashInv, HashOK, KeyKind

\* kh_clear
LEMMA ClearKeeps ==
  ASSUME HashAssumption, HashInv, kh_clear, UNCHANGED of_lists
  PROVE  HashInv' /\ HashContent(table') = <<>>
<1>1. /\ ~of_lists /\ Sound(table) /\ block = 0 /\ Fits(table) /\ block' = block /\ ret' = ret
      /\ ret \in {-1, 0, 1, 2} /\ block \in 0 .. table.n_buckets
  BY DEF HashInv, HashOK, kh_clear
<1>2. table' = Cleared(table)
  BY DEF kh_clear, Cleared
<1>3. Sound(table') /\ table'.n_buckets = table.n_buckets /\ With(table', "live") = {}
      /\ HashContent(table') = <<>>
  BY <1>1, <1>2, Clears
<1>4. KeysOf(table') \subseteq HashKey /\ Fits(table')
  BY <1>1, <1>3 DEF KeysOf, Fits
<1> QED
  BY <1>1, <1>3, <1>4 DEF HashInv, HashOK, KeyKind

LEMMA HashSteps ==
  ASSUME HashAssumption, HashInv, [HashNext]_hashVars
  PROVE  HashInv' /\ [Map!Next]_(HashContent(table))
<1>1. ASSUME NEW k \in HashKey \cup ListKey,
             IsWritten(HashContent(table), HashContent(table'), k)
      PROVE  Map!Next
  BY <1>1 DEF IsWritten, NewValue, Map!Next, Map!Set
<1>2. ASSUME NEW k \in HashKey, kh_del(k), UNCHANGED of_lists
      PROVE  HashInv' /\ Map!Next
  BY <1>2, DeleteKeeps DEF Map!Next, Map!Remove, Restrict, Map!Restrict
<1>3. ASSUME NEW k \in HashKey, NEW v \in HashValue, int_hash_set(k, v), UNCHANGED of_lists
      PROVE  HashInv' /\ [Map!Next]_(HashContent(table))
  BY <1>1, <1>3, SetKeeps
<1>4. ASSUME NEW k \in ListKey, int_hash_get_or_create_list(k), UNCHANGED of_lists
      PROVE  HashInv' /\ [Map!Next]_(HashContent(table))
  BY <1>1, <1>4, ListKeeps
<1>5. ASSUME NEW n \in ResizeTo, kh_resize(n), UNCHANGED of_lists
      PROVE  HashInv' /\ [Map!Next]_(HashContent(table))
  BY <1>5, ResizeKeeps
<1>6. ASSUME kh_clear, UNCHANGED of_lists PROVE HashInv' /\ Map!Next
  BY <1>6, ClearKeeps DEF Map!Next, Map!Clear
<1>7. ASSUME UNCHANGED hashVars PROVE HashInv' /\ [Map!Next]_(HashContent(table))
  BY <1>7 DEF hashVars, HashInv
<1> QED
  BY <1>2, <1>3, <1>4, <1>5, <1>6, <1>7 DEF HashNext

LEMMA AlwaysHashInv ==
  ASSUME HashAssumption
  PROVE  HashSpec => []HashInv
<1>1. HashInit => HashInv
  BY HashStarts
<1>2. HashInv /\ [HashNext]_hashVars => HashInv'
  BY HashSteps
<1> QED
  BY <1>1, <1>2, PTL DEF HashSpec

\* Whatever is put into a hash table, deleted, rehashed, cleared or cannot be
\* allocated: the table is the map its calls describe.
THEOREM HashIsMap ==
  ASSUME HashAssumption
  PROVE  HashSpec => ImplementsMap
<1>1. HashInit => HashInv /\ Map!Init
  BY HashStarts DEF Map!Init
<1>2. HashInv /\ [HashNext]_hashVars => HashInv' /\ [Map!Next]_(HashContent(table))
  BY HashSteps
<1> QED
  BY <1>1, <1>2, PTL DEF HashSpec, ImplementsMap, Map!Spec

\* The counters of a table are those of its buckets, and the walk of kh_get comes to
\* every key before it comes to an empty bucket, of which there always is one.
THEOREM KeysAreMet ==
  ASSUME HashAssumption
  PROVE  HashSpec => [](HashTypeOK /\ EveryKeyIsMet)
<1>1. HashInv => HashTypeOK
  <2> SUFFICES ASSUME HashInv PROVE HashTypeOK
    OBVIOUS
  <2>1. /\ Sound(table) /\ Fits(table) /\ of_lists \in BOOLEAN /\ ret \in {-1, 0, 1, 2}
        /\ block \in 0 .. table.n_buckets /\ KeysOf(table) \subseteq KeyKind(of_lists)
    BY DEF HashInv, HashOK
  <2>2. table.n_buckets \in {0} \cup {TwoTo[j] : j \in 2 .. 29} /\ BucketsCounted(table) /\ IsTable(table)
    BY <2>1 DEF Sound, Sizes
  <2>3. table.flags \in [0 .. table.n_buckets - 1 -> {"empty", "live", "deleted"}]
    BY <2>2 DEF IsTable, BucketFlag
  <2>4. DOMAIN table.keys = DOMAIN table.flags /\ DOMAIN table.vals = DOMAIN table.flags
    BY <2>2 DEF IsTable
  <2>5. \A i \in With(table, "live") : table.keys[i] \in IF of_lists THEN ListKey ELSE HashKey
    BY <2>1 DEF KeysOf, KeyKind
  <2> QED
    BY <2>1, <2>2, <2>3, <2>4, <2>5 DEF HashTypeOK, BucketsCounted
<1>2. HashInv => EveryKeyIsMet
  <2> SUFFICES ASSUME HashInv PROVE EveryKeyIsMet
    OBVIOUS
  <2>1. Sound(table) /\ DOMAIN table.flags = 0 .. table.n_buckets - 1
    BY BucketsAre DEF HashInv, HashOK, Sound
  <2>2. ASSUME table.n_buckets # 0 PROVE With(table, "empty") # {}
    BY <2>1, <2>2, HasEmpty DEF With
  <2>3. ASSUME NEW i \in With(table, "live") PROVE kh_get(table, table.keys[i]) = i
    BY <2>1, Finds DEF Sound, Keyed
  <2> QED
    BY <2>2, <2>3 DEF EveryKeyIsMet
<1> QED
  BY <1>1, <1>2, AlwaysHashInv, PTL

\* A list head stays where it was initialised while there are no more than three.
THEOREM HeadsStay ==
  ASSUME HashAssumption
  PROVE  HashSpec => []FirstThreeStay
<1>1. HashInv => FirstThreeStay
  BY DEF HashInv, HashOK, Keeps, FirstThreeStay
<1> QED
  BY <1>1, AlwaysHashInv, PTL
=============================================================================
