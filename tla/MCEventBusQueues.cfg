SPECIFICATION Spec
CONSTANTS
    m1 = m1
    m2 = m2
    x1 = x1
    tick1 = tick1
    tick2 = tick2
    tock2 = tock2
    open1 = open1
    progress1 = progress1
    stop2 = stop2
    exec1 = exec1
    local1 = local1
    exchange1 = exchange1
    NULL = NULL
    Queue = {m1, m2}
    Category <- MCCategory
    Event = {progress1, tick2, tock2, stop2}
    EventCategory <- MCEventCategory
    EventType <- MCEventType
    Stamp <- MCStamp
    Timer = {}
    ClockType <- MCClockType
    Repeat <- MCRepeat
    Mode = "realtime"
    MaxTime = 1
    MaxAttach = 0
    AttachCapacity = 1
    MaxCounter = 4
SYMMETRY MarketQueues
 
PROPERTY RoundRobin
