------------------------------- MODULE MCData -------------------------------
(* The data structures and conversions below the engine, side by side.  They *)
(* share nothing, so a behaviour is about one of them while the others rest  *)
(* in their initial states.  The heap is the one of Heap, the vector the one *)
(* of Vec, the rings those of IntrusiveList, the id array the one of         *)
(* IdArray, and the calendar the one of DateTime.                            *)
EXTENDS Heap, Vec, IntrusiveList, IdArray, KHash, DateTime, TLC

CONSTANTS p, q, elem1, elem2, elem3

VARIABLES
    part,
    x, y

variantVars == <<x, y>>
dataVars ==
    <<part, heap, vecVars, vars, hashVars, listVars, today, variantVars>>

-----------------------------------------------------------------------------
(* The parts. *)

\* Eight nodes, two of them with the same key.
MCKey == [n \in Node |-> IF n = 8 THEN 7 ELSE n]

\* A cycle of 400 years, the years around the epoch and 2000, and the last.
MCYears == 1 .. 401 \cup 1899 .. 1901 \cup 1968 .. 2001 \cup {9999}

Text ==
    INSTANCE DateTime WITH
        Years <- {1, 1900, 2000, 2023, 2024, 9999}, Seconds <- {0, 3599, 86399},
        Usecs <- {0, 1, 999, 1000, 500000, 123456, 999999}, Offsets <- {-330, 0, 60, 1439}

Plain == INSTANCE Variant WITH Atom <- {}, MaxNodes <- 0, Sizes <- {}, Width <- 16

Values ==
    INSTANCE Variant WITH
        Atom <- {Plain!Nil, Plain!Boolean(TRUE), Plain!Integer(7), Plain!Integer(-12),
                 Plain!Float("0.000000"), Plain!Float("-0.000000"), Plain!Float("nan"),
                 Plain!Str(<<>>), Plain!Str(<<"print", "nul", "print">>),
                 Plain!Bin(<<"print", "quote", "other">>), Plain!Bin(<<"print", "print">>),
                 Plain!Ext(1, <<"print">>), Plain!Unknown(99)},
        MaxNodes <- 3, Sizes <- {0, 1, 2, 3, 4, 5, 8, 13, 20, 40}, Width <- 16

ASSUME
    /\ IdArrayAssumption /\ HeapAssumption /\ VecAssumption
    /\ HashAssumption /\ ListAssumption
    /\ DateTimeAssumption /\ Text!DateTimeAssumption
    /\ Values!VariantAssumption

-----------------------------------------------------------------------------

DataInit ==
    /\ part \in {"heap", "vec", "ids", "hash", "rings", "calendar", "text", "values"}
    /\ Init /\ HeapInit /\ VecInit /\ HashInit /\ ListInit
    /\ (part # "hash" => ~of_lists) /\ Values!Init
    /\ CASE part = "calendar" -> FirstDay
         [] part = "text" -> Text!FirstDay
         [] OTHER -> Text!FirstDay /\ year = 1

\* Everything rests but what is named.
HeapRests == UNCHANGED heap
VecRests == UNCHANGED vecVars
IdsRest == UNCHANGED vars
HashRests == UNCHANGED hashVars
RingsRest == UNCHANGED listVars
DayRests == UNCHANGED today
ValuesRest == UNCHANGED variantVars

HeapSteps ==
    /\ part = "heap" /\ HeapNext
    /\ UNCHANGED part /\ VecRests /\ IdsRest /\ HashRests /\ RingsRest /\ DayRests /\ ValuesRest

VecSteps ==
    /\ part = "vec" /\ VecNext
    /\ UNCHANGED part /\ HeapRests /\ IdsRest /\ HashRests /\ RingsRest /\ DayRests /\ ValuesRest

IdSteps ==
    /\ part = "ids" /\ Next
    /\ UNCHANGED part /\ HeapRests /\ VecRests /\ HashRests /\ RingsRest /\ DayRests /\ ValuesRest

HashSteps ==
    /\ part = "hash" /\ HashNext
    /\ UNCHANGED part /\ HeapRests /\ VecRests /\ IdsRest /\ RingsRest /\ DayRests /\ ValuesRest

RingSteps ==
    /\ part = "rings" /\ ListNext
    /\ UNCHANGED part /\ HeapRests /\ VecRests /\ IdsRest /\ HashRests /\ DayRests /\ ValuesRest

DaySteps ==
    /\ \/ part = "calendar" /\ NextDay
       \/ part = "text" /\ Text!NextDay
    /\ UNCHANGED part /\ HeapRests /\ VecRests /\ IdsRest /\ HashRests /\ RingsRest /\ ValuesRest

ValueSteps ==
    /\ part = "values" /\ Values!Next
    /\ UNCHANGED part /\ HeapRests /\ VecRests /\ IdsRest /\ HashRests /\ RingsRest /\ DayRests

DataNext ==
    \/ HeapSteps \/ VecSteps \/ IdSteps \/ HashSteps \/ RingSteps \/ DaySteps \/ ValueSteps

DataSpec == DataInit /\ [][DataNext]_dataVars

Interchangeable == Permutations({p, q}) \cup Permutations({elem1, elem2, elem3})

-----------------------------------------------------------------------------
(* The properties of the parts; ImplementsMinSet is Heap's own, IsTheList    *)
(* and SwapSpliceKeepsTheRest are Vec's, ListsHold is IntrusiveList's,       *)
(* GetsWhatWasSet IdArray's and CalendarIsRight DateTime's.                  *)

\* The shape of every structure: a heap is complete and ordered and linked both
\* ways, every key of a hash table is met before an empty bucket, and ids that
\* count up never meet memory that was not cleared.
ShapesHold ==
    CASE part = "heap" -> WholeHeap
      [] part = "vec" -> VecTypeOK
      [] part = "ids" -> TypeOK /\ CountingIsClean
      [] part = "hash" -> HashTypeOK /\ EveryKeyIsMet
      [] part = "rings" -> ListTypeOK
      [] OTHER -> TRUE

\* DateTime: formatting and parsing.
TextsComeBack == part = "text" => Text!TextComesBack

\* Variant: the printers.
BuffersAreRight == part = "values" => Values!BuffersAreRight

\* Variant: equality.
EqualIsEquality == part = "values" => Values!EqualIsEquality
=============================================================================
