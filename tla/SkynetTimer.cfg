CONSTANTS
    NEAR_SHIFT = 1
    LEVEL_SHIFT = 1
    Event = {e1, e2}
    MaxDiff = 2

SPECIFICATION Spec
INVARIANTS
    NodesInPlace
PROPERTIES
    ImplementsAlarm
    TimeoutFires
