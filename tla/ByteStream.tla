----------------------------- MODULE ByteStream -----------------------------
(***************************************************************************)
(* What a PacketBuf promises its callers (spec 3, 4.1): one unbounded FIFO *)
(* byte stream.  Writers append a run of bytes at the tail; readers remove *)
(* a non-empty prefix from the head.  Nothing is lost, duplicated or       *)
(* reordered.  PacketBuf is shown to implement this module.                *)
(***************************************************************************)
EXTENDS Naturals, Sequences, SequencesExt

CONSTANT Bytes          \* the values a byte may take

VARIABLE stream         \* the unread bytes, oldest first

Init == stream = <<>>

\* Append a run of bytes at the tail: the old stream is a prefix of the new.
Put == IsPrefix(stream, stream')

\* Remove the first n bytes, 1 <= n <= Len(stream).
Take(n) ==
    /\ n \in 1..Len(stream)
    /\ stream' = SubSeq(stream, n + 1, Len(stream))

Next ==
    \/ Put
    \/ \E n \in 1..Len(stream) : Take(n)

TypeOK == stream \in Seq(Bytes)

Spec == Init /\ [][Next]_stream

=============================================================================
