SPECIFICATION SpecAll
CONSTANTS
    Period = 10
    SensorTicks = 2
    ControlTicks = 1
    LogTicks = 16
    TakeTimeout = 5
    ReportAt = 20
    PrintTicks = 5
    QueueLength = 3
    MaxTicks = 65
    LOG_COST_TICKS = 5
    Duration = 30
    PROTO_MAX_LINE = 3
    TIMEOUT_TICKS = 3
    TickWidth = 3
    FifoSize = 2
    PollTicks = 2
    IdleTicks = 2
    MaxLines = 1
    TxSize = 2
    RxSize = 2
    MaxTyped = 3
INVARIANTS
    EveryPeriodServed
    GapsBounded
    LogNotStarved
    SerialLineIsRight
\* The superloop's two seconds end, and it then stops.
CHECK_DEADLOCK FALSE
