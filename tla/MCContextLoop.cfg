SPECIFICATION Spec

CONSTANTS
    Callback = {callback1, callback2}
    Queue = {queue1}
    Timer = {timer1}
    MaxTime = 2
    NsPerTick = 2
    NULL = NULL

INVARIANTS HandledInOrder 

PROPERTY ReturnsInTime

CHECK_DEADLOCK FALSE
