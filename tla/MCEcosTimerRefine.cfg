CONSTANTS
    NULL = NULL
    Func = {f}
    HANDLE_BEGIN = 10
    MAX_TIMER_NUM = 2
    Interval = {1}
    Count <- OnceOrForever
    MaxUptime = 1
    MaxAdd = 3
    Addr = {a1, a2}
SPECIFICATION Spec
PROPERTIES
    ImplementsTimerService
    DueIsCalled
