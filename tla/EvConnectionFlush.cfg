SPECIFICATION Spec
CONSTANTS
    BufSize = 4
    SocketSize = 2
    MaxInput = 3
INVARIANT FlushBeforeClosing
\* A closed connection takes no step, and an idle client need not write.
CHECK_DEADLOCK FALSE
