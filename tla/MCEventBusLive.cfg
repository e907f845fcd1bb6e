SPECIFICATION FairSpec
CONSTANTS
    m1 = m1
    m2 = m2
    x1 = x1
    tick1 = tick1
    tick2 = tick2
    tock2 = tock2
    open1 = open1
    progress1 = progress1
    stop2 = stop2
    exec1 = exec1
    local1 = local1
    exchange1 = exchange1
    NULL = NULL
    Queue = {m1, x1}
    Category <- MCCategory
    Event = {tick1, tick2, stop2, exec1}
    EventCategory <- MCEventCategory
    EventType <- MCEventType
    Stamp <- MCStamp
    Timer = {}
    ClockType <- MCClockType
    Repeat <- MCRepeat
    Mode = "simulation"
    MaxTime = 2
    MaxAttach = 1
    AttachCapacity = 1
    MaxCounter = 0
INVARIANT Conserved
 
