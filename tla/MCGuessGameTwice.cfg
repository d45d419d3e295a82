CONSTANTS
    c1 = c1
    c2 = c2
    c3 = c3
    r1 = r1
    r2 = r2
    r3 = r3
    Conn = {c1, c2, c3}
    Role = {r1, r2, r3}
    NoRole = NoRole
    Hall = Hall
    PLAYERS = 2
    UP_LIMIT = 2
    LoggedIn <- TheLogins
    Typed <- TheNames
    MaxCmd <- TheCmds
    MaxRoom = 2
SPECIFICATION Spec
INVARIANTS
    InOneGame
CHECK_DEADLOCK FALSE
