CONSTANTS
    c1 = c1
    c2 = c2
    L = L
    Conns <- LiveConns
    Listen <- L
    MaxData <- MCMaxData
    MaxResp <- MCMaxResp
    KCap <- MCKCap
    ExitCb = FALSE

SPECIFICATION FairSpec

PROPERTY InputEventuallyDelivered

\* TCPServer::init may fail, and start() returns once exit() is true.
CHECK_DEADLOCK FALSE
