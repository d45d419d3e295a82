CONSTANTS
    NULL = NULL
    P1 = program_1
    Peer = {a, b, c}
    MaxRun = 3
SPECIFICATION Spec
INVARIANTS
    NeverOwnMessage
    NameIsCleanedUp
PROPERTIES
    TimelyReplyWakes
CHECK_DEADLOCK FALSE
