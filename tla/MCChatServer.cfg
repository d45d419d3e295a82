CONSTANTS
    NULL = NULL
    alice = alice
    bob = bob
    p = p
    q = q
    User = {alice, bob}
    Passwd = {p, q}
    Fd = {5, 6}
    MaxConn = 3
    Typed <- TheTyped
    MaxRestart = 1
SPECIFICATION HSpec
INVARIANTS
    FdLiveUnlessLeft
    ListedUnlessShared
    
PROPERTIES
    SentUnlessMoved
    LoginKnewPasswd
VIEW ReadView
CHECK_DEADLOCK FALSE
