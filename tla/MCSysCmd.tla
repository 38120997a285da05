----------------------------- MODULE MCSysCmd -----------------------------
(* Model-checking instance of SysCmd: two threads, each running one       *)
(* command that writes up to one byte, with a one-second timeout.         *)
EXTENDS SysCmd

CONSTANTS a, b

MCCallers == {a, b}

=============================================================================
