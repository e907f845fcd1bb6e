SPECIFICATION EngineSpec

CONSTANTS
    Event = {tick1, close1, copy1}
    Timer = {}
    Repeating = {}
    Copy = {copy1}
    Silent = {close1}
    Capacity = 1
    NULL = NULL
    Queue = {1, 2, 3, 4}
    Bus = {bus1, bus2}
    NoBus = NoBus
    AttachCapacity = 2

INVARIANTS FreedOnlyUnowned OwnerlessIsFreed ForwardedOnce NoneOutOfSight

 

CHECK_DEADLOCK FALSE
