CONSTANTS
    NULL = NULL
    Func <- TheFuncs
    HANDLE_BEGIN = 10
    MAX_TIMER_NUM = 2
    Interval <- TheIntervals
    Count <- TheCounts
    MaxUptime = 6
    MaxAdd = 2
    Client = {c1}
    Request <- NetWrites
    Name <- TheNames
    IP <- TheIPs
    FileName = "tank"
    DefaultIP = "10.0.0.1"
    RcvBuf = 1
    MaxRequest = 3
    MaxRestart = 1
SPECIFICATION ESpec
INVARIANTS
    AppliedWhenQuiet
    ChangeIsPending
PROPERTIES
    RootConfigDebounced
    ConfigSettles
