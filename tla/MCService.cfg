SPECIFICATION FairSpec

CONSTANTS
    Event = {event1, event2}
    Capacity = 1
    MaxDepth = 5
    MaxRef = 2
    MaxHistory = 2
    NULL = NULL

 

PROPERTIES LoopGoesOn  

CHECK_DEADLOCK FALSE
