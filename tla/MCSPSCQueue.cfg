SPECIFICATION Spec
CONSTANTS
    Capacity = 4
    Value = {v1, v2}
    NoValue = NoValue
INVARIANTS NoSlotRace ViewsBracketSize PeekedIsHead
PROPERTY ImplementsFIFO
