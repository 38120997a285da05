---------------------------- MODULE MCTCPServer ----------------------------
(* Model-checking instance of TCPServer: two peers, each sending up to two *)
(* bytes, callbacks writing up to two bytes per connection, and a kernel   *)
(* send queue of one byte, so that a response fills the socket and the     *)
(* loop meets EAGAIN.                                                      *)
EXTENDS TCPServer, TLC

CONSTANTS c1, c2, L

MCConns == {c1, c2}
MCMaxData == 2
MCMaxResp == 2
MCKCap == 1

ConnSymmetry == Permutations(MCConns)

\* Liveness runs: the properties are per connection, so one peer, with two
\* bytes each way so that a response fills the one-byte kernel queue.
LiveConns == {c1}

=============================================================================
