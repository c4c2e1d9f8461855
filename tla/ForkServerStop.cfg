SPECIFICATION FairSpec
CONSTANTS
    Clients = {k1}
    NoClient = noClient
PROPERTY StopsWhenAsked
\* A server that has stopped takes no step, and one nobody calls waits.
CHECK_DEADLOCK FALSE
