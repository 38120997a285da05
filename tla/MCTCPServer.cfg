CONSTANTS
    c1 = c1
    c2 = c2
    L = L
    Conns <- MCConns
    Listen <- L
    MaxData <- MCMaxData
    MaxResp <- MCMaxResp
    KCap <- MCKCap
    ExitCb = FALSE

SYMMETRY ConnSymmetry

SPECIFICATION Spec

INVARIANT TypeOK
INVARIANT TablesConsistent
INVARIANT InputAwaitsCallback
INVARIANT WriteInterestExact

PROPERTY NoDataDroppedOnClose

\* TCPServer::init may fail, and the owner then abandons the server.
CHECK_DEADLOCK FALSE
