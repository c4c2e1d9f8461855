SPECIFICATION FairSpec
CONSTANTS
    Chars = {x, y}
    Quit = q
    NoByte = none
    RX_SIZE = 3
    FifoSize = 2
    ReportTicks = 3
    TickWrap = 4
    WordSize = 2
    MaxTyped = 4
INVARIANTS
    IInv
    NoReentry
    SafeRead
PROPERTIES
    EveryByteCounted
    ImplementsQueue
    Served
