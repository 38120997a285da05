\* One peer that may stop reading; only the loop thread is fair.  The
\* owner asks the loop to stop.
CONSTANTS
    c1 = c1
    c2 = c2
    L = L
    Conns <- LiveConns
    Listen <- L
    MaxData <- MCMaxData
    MaxResp <- MCMaxResp
    KCap <- MCKCap
    ExitCb = TRUE

SPECIFICATION LoopFairSpec

PROPERTY ExitHonoured

\* TCPServer::init may fail, and start() returns once exit() is true.
CHECK_DEADLOCK FALSE
