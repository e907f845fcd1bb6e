SPECIFICATION FairSpec
CONSTANTS
    Producer = {p1, p2}
    Node = {n1, n2, n3}
    Sentinel = Sentinel
    NULL = NULL
INVARIANT ListIsWhole
PROPERTIES PopsInOrder EventuallyPopped
