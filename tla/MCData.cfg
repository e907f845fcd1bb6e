SPECIFICATION DataSpec

CONSTANTS
    NULL = NULL
    Junk = Junk
    Node = {1, 2, 3, 4, 5, 6, 7, 8}
    Key <- MCKey
    Item = {"a", "b", "c", "d"}
    MaxLength = 4
    Heads = {"head1", "head2"}
    Elem = {elem1, elem2, elem3}
    Id = {0, 1, 2, 3, 5, 8}  \* with gaps, at, on and beyond powers of two
    Value = {p, q}
    MinSize = 2
    HashKey = {3, 7, 11}  \* meet in one bucket
    HashValue = {p, q}
    ListKey = {0, 1, 3, 4, 8, 11}  \* so many that the table grows beyond its first size
    ResizeTo = {1, 8}
    MaxBuckets = 8
    Years <- MCYears
    Seconds = {0, 3599, 86399}
    Usecs = {}
    Offsets = {}
    p = p
    q = q
    elem1 = elem1
    elem2 = elem2
    elem3 = elem3

SYMMETRY Interchangeable

INVARIANTS ShapesHold IsTheList GetsWhatWasSet FirstThreeStay ListsHold CalendarIsRight TextsComeBack  EqualIsEquality

PROPERTIES ImplementsMinSet SwapSpliceKeepsTheRest 

CHECK_DEADLOCK FALSE
