CONSTANTS
    c1 = c1
    c2 = c2
    L = L
    Conns <- LiveConns
    Listen <- L
    MaxData <- MCMaxData
    MaxResp <- MCMaxResp
    KCap <- MCKCap
    ExitCb = TRUE

SPECIFICATION FairSpec

PROPERTY ResponseFlushed
PROPERTY GraceCloseCompletes
PROPERTY ExitHonoured

\* TCPServer::init may fail, and start() returns once exit() is true.
CHECK_DEADLOCK FALSE
