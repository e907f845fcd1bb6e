SPECIFICATION Spec
CONSTANTS
    q1 = q1
    q2 = q2
    Queue = {q1, q2}
    Limit = 2
    MaxPush = 3
    RegisterFirst = FALSE
SYMMETRY BothQueues
INVARIANTS AssertionsHold LostOnlyByOverlap
PROPERTY StrandedForEver
CHECK_DEADLOCK FALSE
