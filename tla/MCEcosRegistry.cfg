CONSTANTS
    Mib = {1, 3, 5}
    Desc = {"name", "ip"}
    DescOf <- TheDescs
    TypeOf <- TheTypes
    Loaded = {1, 3}
    Data <- TheData
    Default <- TheDefault
    ROWS = 2
    Addr = {a1, a2, a3, a4}
    NULL = NULL
    Quote = Quote
    Backslash = Backslash
    KeyTag = KeyTag
    ValTag = ValTag
    Break = Break
    Char = Char
    MaxFailed = 1
SPECIFICATION Spec
INVARIANTS
    OnlyFailedLeak
    EscapedIsRead
    SavedIsLoaded
PROPERTIES
    ImplementsMap
VIEW RegistryView
