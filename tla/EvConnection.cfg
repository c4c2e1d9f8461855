SPECIFICATION FairSpec
CONSTANTS
    BufSize = 4
    SocketSize = 2
    MaxInput = 4
INVARIANT
    AnswersItsLines
PROPERTY
    Delivery
\* A closed connection takes no step, and an idle client need not write.
CHECK_DEADLOCK FALSE
