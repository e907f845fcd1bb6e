SPECIFICATION Spec
CONSTANTS
    m1 = m1
    m2 = m2
    x1 = x1
    tick1 = tick1
    tick2 = tick2
    tock2 = tock2
    open1 = open1
    progress1 = progress1
    stop2 = stop2
    exec1 = exec1
    local1 = local1
    exchange1 = exchange1
    NULL = NULL
    Queue = {m1}
    Category <- MCCategory
    Event = {tick1, tick2}
    EventCategory <- MCEventCategory
    EventType <- MCEventType
    Stamp <- MCStamp
    Timer = {local1, exchange1}
    ClockType <- MCClockType
    Repeat <- MCRepeat
    Mode = "simulation"
    MaxTime = 2
    MaxAttach = 0
    AttachCapacity = 1
    MaxCounter = 0
INVARIANT SavedNotLate
PROPERTY TimersBeforeMarket
