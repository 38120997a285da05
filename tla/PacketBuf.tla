------------------------------ MODULE PacketBuf ------------------------------
(***************************************************************************)
(* PacketBuf (src/core/net/conn.cpp, src/inc/core/net/conn.hpp): a deque   *)
(* of fixed-capacity Buffers (chunks) forming one FIFO byte stream, with   *)
(* avail_write_buf_ indexing the chunk being written and total_bytes_      *)
(* counting unread bytes.  A chunk emptied by a consume is reset and moved *)
(* to the back of the deque for reuse.                                     *)
(*                                                                         *)
(* The callers never interleave two PacketBuf calls of one operation:      *)
(* Conn::read_bytes calls get_left_space then append_bytes(n) with n no    *)
(* larger than the space it reported; Conn::write_bytes repeats that pair  *)
(* until the whole message is in, all on the loop thread;                  *)
(* Conn::send_bytes and HTTPServerImpl::process_msg call peek_cur_data     *)
(* then consume_bytes(n) with 1 <= n <= the length it reported.  Those     *)
(* calls are the three actions.  Every written byte is its sequence number,  *)
(* so loss, duplication or reordering is visible.                          *)
(***************************************************************************)
EXTENDS Naturals, Sequences, SequencesExt

CONSTANTS
    C,            \* Buffer capacity (MSG_BUF_DEFAULT_SIZE)
    MinSize,      \* MSG_BUF_MIN_SIZE: a chunk is full when C - tail <= MinSize
    MaxWritten    \* bound: bytes written over the whole behaviour

ASSUME C \in Nat \ {0} /\ MinSize \in 0..(C - 1) /\ MaxWritten \in Nat

VARIABLES
    bufs,             \* bufs_: sequence of [head, tail, data]
    avail_write_buf,  \* avail_write_buf_: 0-based index of the write chunk
    total_bytes,      \* total_bytes_
    written,          \* history: bytes appended so far (next byte's value)
    peak              \* history: largest total_bytes seen

vars == <<bufs, avail_write_buf, total_bytes, written, peak>>

Bytes == 1..MaxWritten

\* Buffer(): head_ = tail_ = 0; data holds the bytes at positions 1..tail.
NewBuffer == [head |-> 0, tail |-> 0, data |-> <<>>]

\* Buffer::full: no writable space beyond the reserved minimum.
Full(b) == C - b.tail <= MinSize

\* The bytes a chunk holds between head_ and tail_.
Unread(b) == SubSeq(b.data, b.head + 1, b.tail)

\* The stream the deque represents: the chunks' unread runs in deque order.
Content == FlattenSeq([i \in 1..Len(bufs) |-> Unread(bufs[i])])

WriteChunk == bufs[avail_write_buf + 1]

\* Buffer::append_bytes: tail_ advances over the bytes s copied at tail_.
BufAppend(b, s) == [b EXCEPT !.tail = @ + Len(s), !.data = @ \o s]

\* Buffer::consume_bytes: head_ advances by n.
BufConsume(b, n) == [b EXCEPT !.head = @ + n]

\* Buffer::empty.
BufEmpty(b) == b.head = b.tail

Init ==
    /\ bufs = <<NewBuffer>>          \* PacketBuf(): alloc_new_buf()
    /\ avail_write_buf = 0
    /\ total_bytes = 0
    /\ written = 0
    /\ peak = 0

-----------------------------------------------------------------------------
(* Mutant of LeftSpaceOf: allocates a fresh chunk whenever the write      *)
(* chunk is full, never stepping onto a recycled one.                      *)
LeftSpaceOfAlwaysAlloc(bs, av) ==
    IF Full(bs[av + 1])
    THEN [bufs  |-> Append(bs, NewBuffer), avail |-> Len(bs)]
    ELSE [bufs |-> bs, avail |-> av]

(* get_left_space on the deque bs with write index av: if the write chunk  *)
(* is full, step to the next chunk, allocating one when the write chunk is *)
(* the last.  Yields the deque and write index after the call.             *)
LeftSpaceOf(bs, av) ==
    IF Full(bs[av + 1])
    THEN [bufs  |-> IF av = Len(bs) - 1 THEN Append(bs, NewBuffer) ELSE bs,
          avail |-> av + 1]
    ELSE [bufs |-> bs, avail |-> av]

GetLeftSpace == LeftSpaceOf(bufs, avail_write_buf)

(* Mutant of AppendBytes: total_bytes_ grows by the reported space, not   *)
(* by the bytes appended.                                                  *)
AppendBytesCountsSpace(n) ==
    LET g     == GetLeftSpace
        w     == g.avail + 1
        space == C - g.bufs[w].tail
        s     == [i \in 1..n |-> written + i]
    IN  /\ n <= space
        /\ written + n <= MaxWritten
        /\ bufs' = [g.bufs EXCEPT ![w] = [@ EXCEPT !.tail = @ + n,
                                                    !.data = @ \o s]]
        /\ avail_write_buf' = g.avail
        /\ total_bytes' = total_bytes + space
        /\ written' = written + n
        /\ peak' = IF total_bytes + n > peak THEN total_bytes + n ELSE peak

(* get_left_space followed by append_bytes(n), n <= the reported space.    *)
(* n = 0 is the caller's recv failing after get_left_space ran.            *)
AppendBytes(n) ==
    LET g     == GetLeftSpace
        w     == g.avail + 1
        space == C - g.bufs[w].tail
        s     == [i \in 1..n |-> written + i]
    IN  /\ n <= space
        /\ written + n <= MaxWritten
        /\ bufs' = [g.bufs EXCEPT ![w] = BufAppend(@, s)]
        /\ avail_write_buf' = g.avail
        /\ total_bytes' = total_bytes + n
        /\ written' = written + n
        /\ peak' = IF total_bytes + n > peak THEN total_bytes + n ELSE peak

(* remove_front_buf: pop the front chunk; the write index, if not 0,       *)
(* moves down with the chunk it names.                                     *)
RemoveFrontBuf ==
    [bufs  |-> Tail(bufs),
     avail |-> IF avail_write_buf > 0 THEN avail_write_buf - 1 ELSE 0]

(* peek_cur_data: the unread run of the front chunk only.                  *)
PeekLen == bufs[1].tail - bufs[1].head

(* Mutant of ConsumeBytes: the BUG_ON(head_ > tail_) bound is dropped.    *)
ConsumeBytesNoBound(n) ==
    LET b == [bufs[1] EXCEPT !.head = @ + n]
        emptied == b.head = b.tail
    IN  /\ IF emptied /\ Len(bufs) > 1
           THEN /\ bufs' = Append(Tail(bufs), NewBuffer)
                /\ avail_write_buf' = IF avail_write_buf > 0
                                      THEN avail_write_buf - 1 ELSE 0
           ELSE /\ bufs' = [bufs EXCEPT ![1] = IF emptied THEN NewBuffer ELSE b]
                /\ UNCHANGED avail_write_buf
        /\ total_bytes' = total_bytes - n
        /\ UNCHANGED <<written, peak>>

(* Mutant of ConsumeBytes: an emptied front chunk is reset in place and    *)
(* never moved to the back.                                                *)
ConsumeBytesNoRecycle(n) ==
    LET b == [bufs[1] EXCEPT !.head = @ + n]
        emptied == b.head = b.tail
    IN  /\ n \in 1..PeekLen
        /\ bufs' = [bufs EXCEPT ![1] = IF emptied THEN NewBuffer ELSE b]
        /\ UNCHANGED avail_write_buf
        /\ total_bytes' = total_bytes - n
        /\ UNCHANGED <<written, peak>>

(* Mutant of ConsumeBytes: advances head_ of bufs_[avail_write_buf_]      *)
(* instead of bufs_[0], as append_bytes addresses its chunk.               *)
ConsumeBytesAtWriteChunk(n) ==
    LET w == avail_write_buf + 1
        b == [bufs[w] EXCEPT !.head = @ + n]
    IN  /\ n \in 1..PeekLen
        /\ n <= bufs[w].tail - bufs[w].head
        /\ bufs' = [bufs EXCEPT ![w] = b]
        /\ UNCHANGED avail_write_buf
        /\ total_bytes' = total_bytes - n
        /\ UNCHANGED <<written, peak>>

(* consume_bytes(n) after peek_cur_data, 1 <= n <= PeekLen.  A front chunk *)
(* left empty is reset; if it is not the only chunk it is popped           *)
(* (remove_front_buf, which decrements a non-zero avail_write_buf_) and    *)
(* pushed to the back.                                                     *)
ConsumeBytes(n) ==
    LET b == BufConsume(bufs[1], n)
        emptied == BufEmpty(b)
    IN  /\ n \in 1..PeekLen
        /\ IF emptied /\ Len(bufs) > 1
           THEN /\ bufs' = Append(RemoveFrontBuf.bufs, NewBuffer)
                /\ avail_write_buf' = RemoveFrontBuf.avail
           ELSE /\ bufs' = [bufs EXCEPT ![1] = IF emptied THEN NewBuffer ELSE b]
                /\ UNCHANGED avail_write_buf
        /\ total_bytes' = total_bytes - n
        /\ UNCHANGED <<written, peak>>

-----------------------------------------------------------------------------
(* Conn::write_bytes, on a state record [bufs, avail, written, left].      *)

\* One pass of the loop: get_left_space, copy min(left_size, size) bytes,
\* append_bytes(copy_size).
WriteStep(st) ==
    LET g == LeftSpaceOf(st.bufs, st.avail)
        w == g.avail + 1
        k == Min({st.left, C - g.bufs[w].tail})
    IN  [bufs    |-> [g.bufs EXCEPT ![w] =
                        BufAppend(@, [i \in 1..k |-> st.written + i])],
         avail   |-> g.avail,
         written |-> st.written + k,
         left    |-> st.left - k]

\* while (write_size < data_len) { ... }
RECURSIVE WriteLoop(_)
WriteLoop(st) == IF st.left = 0 THEN st ELSE WriteLoop(WriteStep(st))

\* write_bytes(data, n), n >= 1: the message goes in whole, split over as
\* many chunks as it needs; total_bytes_ grows by every append.
WriteBytes(n) ==
    LET r == WriteLoop([bufs |-> bufs, avail |-> avail_write_buf,
                        written |-> written, left |-> n])
    IN  /\ written + n <= MaxWritten
        /\ bufs' = r.bufs
        /\ avail_write_buf' = r.avail
        /\ total_bytes' = total_bytes + n
        /\ written' = r.written
        /\ peak' = IF total_bytes + n > peak THEN total_bytes + n ELSE peak

Next ==
    \/ \E n \in 0..C : AppendBytes(n)
    \/ \E n \in 1..(2 * C + 1) : WriteBytes(n)
    \/ \E n \in 1..C : ConsumeBytes(n)

Spec == Init /\ [][Next]_vars

-----------------------------------------------------------------------------
(* Type invariant.                                                         *)
TypeOK ==
    /\ bufs \in Seq([head : 0..C, tail : 0..C, data : Seq(Bytes)])
    /\ Len(bufs) >= 1
    /\ avail_write_buf \in 0..(Len(bufs) - 1)
    /\ total_bytes \in Nat
    /\ \A i \in 1..Len(bufs) : bufs[i].head <= bufs[i].tail

(* total_bytes_, which empty() and total_size() report and on which        *)
(* TCPServer's wait_read/wait_write bookkeeping rests, is always the exact *)
(* number of unread bytes held across all chunks (spec 8, first property). *)
TotalIsUnread == total_bytes = Len(Content)

(* Whenever the PacketBuf is non-empty, peek_cur_data reports at least one *)
(* byte.  Conn::send_bytes stops at a zero-length peek and                 *)
(* HTTPServerImpl::process_msg asserts BUG_ON(data_len == 0), so an empty  *)
(* front chunk in front of data would strand it or crash the server.       *)
PeekSeesData == total_bytes > 0 => PeekLen > 0

(* Ring reuse bounds allocation: the deque never holds more chunks than    *)
(* the largest backlog ever buffered needs, plus the chunk being written.  *)
ChunksBounded == Len(bufs) <= 2 + (peak - 1) \div C

(* PacketBuf implements ByteStream: the unread bytes, read chunk by chunk  *)
(* through peek/consume, are exactly the bytes appended, in order, however *)
(* writes and reads are split (spec 8, round-trip property).               *)
Stream == INSTANCE ByteStream WITH stream <- Content

StreamRefinement == Stream!Spec

=============================================================================
