CONSTANTS
    c1 = c1
    c2 = c2
    Conns <- MCConns
    NReq = 2
    Pipelining = FALSE
    Malformed = {}
SPECIFICATION FairSpec
INVARIANTS
    TypeOK
    ServedInOrder
    FedIsConsumed
PROPERTIES
    RequestAnswered
\* When every client has finished, epoll_wait blocks with nothing ready.
CHECK_DEADLOCK FALSE
