CONSTANTS
    NULL = NULL
    Func <- TheFuncs
    HANDLE_BEGIN = 10
    MAX_TIMER_NUM = 2
    Interval <- TheIntervals
    Count <- TheCounts
    MaxUptime = 3
    MaxAdd = 2
    Client = {c1, c2}
    Request <- AllPaths
    Name <- TheNames
    IP <- TheIPs
    FileName = "tank"
    DefaultIP = "10.0.0.1"
    RcvBuf = 2
    MaxRequest = 3
    MaxRestart = 0
SPECIFICATION ESpec
INVARIANTS
    ReplyMatches
PROPERTIES
    EveryRequestAnswered
