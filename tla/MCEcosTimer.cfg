CONSTANTS
    NULL = NULL
    Func = {f}
    HANDLE_BEGIN = 10
    MAX_TIMER_NUM = 3
    Interval = {1}
    Count <- OnceOrForever
    MaxUptime = 1
    MaxAdd = 4
    Addr = {a1, a2, a3}
SPECIFICATION Spec
INVARIANTS
    TypeOK
    HandlesDistinct
    WalkIsList
    ListInOrder
    PassOnList
PROPERTIES
    PassMovesForward
SYMMETRY AddrSymmetry
VIEW LiveView
