SPECIFICATION FairSpec
CONSTANTS
    Fds = {1, 2}
    Clients = {k1, k2}
    NoClient = noClient
    NoConn = noConn
    Listener = listener
    WakePipe = wakePipe
    MaxEvents = 2
    IdleLimit = 1
    SweepPeriod = 2
    WaitLimit = 1
    MaxSignals = 1
    MaxConnects = 3
INVARIANTS
    TableConsistent
    EventsHitTheirConnection
    IdleBounded
PROPERTY
    ShutsDown
\* The server ends after a signal.
CHECK_DEADLOCK FALSE
