CONSTANTS
    DEFAULT_QUEUE_SIZE = 2
    NoMessage = NoMessage
    DEFAULT_SLOT_SIZE = 1
    HANDLE_MASK = 7
    Worker = {w1, w2}
    Timer = tm
    Weight <- TheWeights
    First = {2}
    MaxHandle = 3
    MaxMessage = 2
SPECIFICATION Spec
INVARIANTS
    QueueInOnePlace
    RefCounts
    QuitIsLast
PROPERTIES
    ImplementsMailbox
    MessagesHandled
    AllThreadsEnd
