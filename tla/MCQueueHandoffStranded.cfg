SPECIFICATION Spec
CONSTANTS
    q1 = q1
    q2 = q2
    Queue = {q1, q2}
    Limit = 2
    MaxPush = 3
    RegisterFirst = TRUE
SYMMETRY BothQueues
INVARIANT NothingStranded
CHECK_DEADLOCK FALSE
