SPECIFICATION SpecAll
CONSTANTS
    Clients = {k1, k2, k3}
    NoClient = noClient
    PipeSize = 2
    Output = 4
    Naps = 2
    Bumpers = {t1, t2, t3}
    BUMPS = 2
    NoBumper = noBumper
INVARIANTS
    NoSpuriousFailure
    NothingLeftBehind
    OnlyTheRacyCounterLoses
PROPERTIES
    ChildrenAndConnectionsEnd
    CallReturns
\* A program that has ended takes no step, and a server nobody calls waits.
CHECK_DEADLOCK FALSE
