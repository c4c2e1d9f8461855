SPECIFICATION SpecAll
CONSTANTS
    BufSize = 3
    SocketSize = 2
    MaxInput = 5
    PieceSize = 2
    LineMax = 4
    Capacity = 1
    Limits = {0, 1, 2}
    MaxLines = 2
    IntWidth = 5
    LongWidth = 7
    ReadMax = 2
    Blocks = {b1, b2}
    NULL = null
    LINE_MAX_LEN = 5
    NameSize = 3
    MaxLength = 5
    ByteWidth = 2
    Q16_SHIFT = 2
    NAME_BYTES = 3
    LIMIT = 50
    ArrayLength = 4
    RecordSize = 2
    TextLength = 5
    Low = 2
    High = 11
INVARIANTS
    UpToDate
    WholeConversation
    
    NothingHeld
    ReloadIsAtomic
    
    WordsAreRight
    AlgorithmsAreRight
PROPERTIES
    ConversationEnds
\* A program that has ended takes no step.
CHECK_DEADLOCK FALSE
