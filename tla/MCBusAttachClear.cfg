SPECIFICATION AttachSpec
CONSTANTS
    Queue = {1, 2, 3, 4}
    Bus = {bus1, bus2}
    NoBus = NoBus
    AttachCapacity = 2
INVARIANT HeapQueuesHoldEvents
