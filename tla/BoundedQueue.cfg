SPECIFICATION FairSpec
CONSTANTS
    Producers = {p1, p2}
    Consumers = {c1, c2}
    Main = main
    NoThread = noThread
    NoValue = noValue
    Capacity = 2
    PerProducer = 2
    MaxSpurious = 1
INVARIANTS
    IInv
    Conservation
    NoLostWakeup
PROPERTIES
    ImplementsClosableQueue
    Termination
\* The program ends; Termination says that it does not stop before.
CHECK_DEADLOCK FALSE
