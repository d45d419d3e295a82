CONSTANTS
    NOBODY = NOBODY
    Thread = {a, b}
    Sync = {s, r}
    TIME = TIME
    DEFAULT = DEFAULT
    KeyLen = 2
SPECIFICATION KeySpec
INVARIANTS
    OnlyBornSpoils
PROPERTIES
    MutexReleased
