---------------------------- MODULE MCHTTPServer ----------------------------
EXTENDS HTTPServer

CONSTANTS c1, c2

MCConns == {c1, c2}
MCOneConn == {c1}

ConnSymmetry == Permutations(MCConns)

====
