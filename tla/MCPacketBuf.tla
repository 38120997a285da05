----------------------------- MODULE MCPacketBuf -----------------------------
(* Model-checking instance of PacketBuf: chunks of 2 bytes, so that a few  *)
(* writes span three chunks and consumes recycle chunks to the back.       *)
EXTENDS PacketBuf

MCC == 2
MCMinSize == 0
MCMaxWritten == 9

=============================================================================
