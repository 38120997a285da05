CONSTANTS
    c1 = c1
    c2 = c2
    Conns <- MCOneConn
    NReq = 2
    Pipelining = FALSE
    Malformed <- MCOneConn
SPECIFICATION Spec
INVARIANT FedIsConsumed
\* When every client has finished, epoll_wait blocks with nothing ready.
CHECK_DEADLOCK FALSE
