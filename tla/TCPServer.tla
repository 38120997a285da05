------------------------------ MODULE TCPServer ------------------------------
(***************************************************************************)
(* TCPServer's event loop (src/src/base/server/task_server.cpp,            *)
(* src/inc/base/server/task_server.hpp) with its connections               *)
(* (src/inc/core/net/conn.hpp, src/src/core/net/conn.cpp), against peers   *)
(* and a kernel that act concurrently with it.                             *)
(*                                                                         *)
(* Loop: pc = "init" is before TCPServer::init, "failed" after it failed, *)
(* "stopped" after start() returned because exit() was true; pc = "poll" *)
(* is the `while (!exit())` test and epoll_wait; "io" works through the ready list in   *)
(* any order (epoll's order is unspecified); "send" is the do/while loop   *)
(* of Conn::send_bytes inside conn_write_data for conn cur; "msgs" is      *)
(* process_msgs visiting the connections left in todo.  Buffers are byte   *)
(* counts: PacketBuf is shown separately to be a FIFO byte stream.         *)
(* Callbacks are the application's: on connect and on message they may     *)
(* write a response, grace_close() or force_close() the connection.        *)
(***************************************************************************)
EXTENDS Naturals, FiniteSets

CONSTANTS
    Conns,      \* peers that may connect (each at most once)
    Listen,     \* the listening socket's descriptor
    MaxData,    \* bound: bytes one peer sends
    MaxResp,    \* bound: bytes the callbacks write to one connection
    KCap,       \* kernel send-buffer capacity of a socket, in bytes
    ExitCb      \* whether the owner set an exit callback (exit_cb_)

ASSUME MaxData \in Nat /\ MaxResp \in Nat /\ KCap \in Nat \ {0} /\ ExitCb \in BOOLEAN
ASSUME Listen \notin Conns

VARIABLES
    peer,   \* peer[c]: "idle" | "open" | "fin" (shut its write side) | "reset"
    kin,    \* kin[c]: bytes in the kernel receive queue of c's socket
    kout,   \* kout[c]: bytes in the kernel send queue, unread by the peer
    sent,   \* sent[c]: bytes the peer has sent so far
    conn,   \* conn[c]: the server's Conn and its place in the loop's tables
    pc,     \* the loop's position
    ready,  \* ready list of the current epoll_wait: [fd, out] records
    cur,    \* conn whose send buffer conn_write_data is sending
    todo,   \* conns process_msgs has still to visit in this pass
    exitReq \* what exit_cb_ returns: the owner's stop flag, set once

peerVars == <<peer, kin, kout, sent>>
loopVars == <<pc, ready, cur, todo>>
vars == <<peerVars, conn, loopVars, exitReq>>

(***************************************************************************)
(* conn[c] fields.  fd: "none" (no connection), "backlog" (in the listen   *)
(* queue), "open" (accepted, fd_ valid), "closed" (fd_ = -1).  rcv, snd:   *)
(* bytes in rcv_buf_ and send_buf_.  force, lfin, rfin: force_close_,      *)
(* local_fin_, remote_fin_.  reg: epoll registration "none" | "IN" |       *)
(* "INOUT" | "INRDHUP".  tbl, rd, wr: membership of conns_,                *)
(* wait_read_conns_, wait_write_conns_.  wrote: bytes the callbacks wrote  *)
(* (bounded by MaxResp).                                                   *)
(***************************************************************************)
NoConn == [fd |-> "none", rcv |-> 0, snd |-> 0, force |-> FALSE,
           lfin |-> FALSE, rfin |-> FALSE, reg |-> "none", tbl |-> FALSE,
           rd |-> FALSE, wr |-> FALSE, wrote |-> 0]

Table == {c \in Conns : conn[c].tbl}

Init ==
    /\ peer = [c \in Conns |-> "idle"]
    /\ kin = [c \in Conns |-> 0]
    /\ kout = [c \in Conns |-> 0]
    /\ sent = [c \in Conns |-> 0]
    /\ conn = [c \in Conns |-> NoConn]
    /\ pc = "init"
    /\ ready = {}
    /\ cur = Listen
    /\ todo = {}
    /\ exitReq = FALSE

-----------------------------------------------------------------------------
(* Operations on one Conn record, composed as the code calls them.         *)

\* Conn::close(): closes an open fd and sets local_fin_ and remote_fin_.
Close(k) ==
    IF k.fd = "open"
    THEN [k EXCEPT !.fd = "closed", !.lfin = TRUE, !.rfin = TRUE]
    ELSE k

\* epoll_del_fd(fd); conns_.erase(fd); conn->close().  With fd_ = -1 the
\* first two address descriptor -1 and change nothing.
Release(k) ==
    IF k.fd = "open"
    THEN Close([k EXCEPT !.reg = "none", !.tbl = FALSE])
    ELSE k

\* Mutant of CloseConn: no deferral, the conn is torn down at once.
CloseConnNoDefer(k) ==
    Release([k EXCEPT !.wr = IF k.snd > 0 THEN FALSE ELSE @, !.rd = FALSE])

\* TCPServer::close_conn: a non-empty send buffer of a connection not
\* force-closed defers the close by setting remote_fin_.
CloseConn(k) ==
    LET k1 == [k EXCEPT !.wr = IF k.snd > 0 THEN FALSE ELSE @, !.rd = FALSE]
    IN  IF k.snd = 0 \/ k.force THEN Release(k1)
                                ELSE [k1 EXCEPT !.rfin = TRUE]

\* add_conn_wait_write
AddWaitWrite(k) == [k EXCEPT !.wr = TRUE, !.reg = "INOUT"]

\* Mutant of RemoveWaitWrite: a deferred close only calls conn->close(),
\* leaving the fd in epoll and the Conn in conns_.
RemoveWaitWriteNoErase(k) ==
    LET k1 == [k EXCEPT !.wr = FALSE]
    IN  IF k.rfin THEN Close(k1) ELSE [k1 EXCEPT !.reg = "INRDHUP"]

\* remove_conn_wait_write
RemoveWaitWrite(k) ==
    LET k1 == [k EXCEPT !.wr = FALSE]
    IN  IF k.rfin THEN Release(k1) ELSE [k1 EXCEPT !.reg = "INRDHUP"]

\* The effect of an application callback on the connection: it may write
\* w bytes (Conn::write_bytes), grace_close() and force_close().
Callback(k, w, grace, force) ==
    [k EXCEPT !.snd = @ + w, !.wrote = @ + w,
              !.lfin = @ \/ grace, !.force = @ \/ force]

CbChoices(k) == (0..(MaxResp - k.wrote)) \X BOOLEAN \X BOOLEAN

-----------------------------------------------------------------------------
(* Readiness as the kernel reports it for a registered connection socket.  *)
Readable(c) == kin[c] > 0 \/ peer[c] \in {"fin", "reset"}
Writable(c) == kout[c] < KCap \/ peer[c] = "reset"
OutReady(c) == conn[c].reg = "INOUT" /\ Writable(c)

\* IN (or RDHUP) when readable, OUT when registered and writable; ERR and
\* HUP of a reset socket are reported whatever the registration.
Reported(c) ==
    /\ conn[c].reg /= "none"
    /\ Readable(c) \/ OutReady(c)

ReadyList ==
    {[fd |-> c, out |-> OutReady(c)] : c \in {d \in Conns : Reported(d)}}
    \cup (IF \E c \in Conns : conn[c].fd = "backlog"
          THEN {[fd |-> Listen, out |-> FALSE]} ELSE {})

-----------------------------------------------------------------------------
(* The event loop, TCPServer::start.                                       *)

\* TCPServer::init: socket open, bind, listen and epoll setup, any of which
\* may fail; init returns false and the owner abandons the server.
ServerInit ==
    /\ pc = "init"
    /\ \E ok \in BOOLEAN : pc' = IF ok THEN "poll" ELSE "failed"
    /\ UNCHANGED <<peerVars, conn, ready, cur, todo, exitReq>>

\* TaskServer::exit: an exit callback is set and returns true.
exit == ExitCb /\ exitReq

\* Mutant of LoopExit: exit() tested only after an epoll_wait that
\* returned descriptors.
LoopExitAfterEvents ==
    /\ pc = "poll"
    /\ exit
    /\ ReadyList /= {}
    /\ pc' = "stopped"
    /\ UNCHANGED <<peerVars, conn, ready, cur, todo, exitReq>>

\* `while (!exit())`: start() returns.
LoopExit ==
    /\ pc = "poll"
    /\ exit
    /\ pc' = "stopped"
    /\ UNCHANGED <<peerVars, conn, ready, cur, todo, exitReq>>

\* epoll_wait returns nothing: `continue` straight back to epoll_wait,
\* skipping process_signals, process_msgs and process_timer.
PollIdle ==
    /\ pc = "poll"
    /\ ~exit
    /\ ReadyList = {}
    /\ UNCHANGED vars

\* epoll_wait returns the ready descriptors.
Poll ==
    /\ pc = "poll"
    /\ ~exit
    /\ ReadyList /= {}
    /\ ready' = ReadyList
    /\ pc' = "io"
    /\ UNCHANGED <<peerVars, conn, cur, todo, exitReq>>

\* An OUT event: conn_write_data looks the fd up in conns_ and runs
\* Conn::send_bytes; an fd no longer in conns_ is logged and skipped.
ConnWriteData(e) ==
    /\ pc = "io"
    /\ e \in ready
    /\ e.out
    /\ ready' = ready \ {e}
    /\ IF conn[e.fd].tbl
       THEN pc' = "send" /\ cur' = e.fd
       ELSE UNCHANGED <<pc, cur>>
    /\ UNCHANGED <<peerVars, conn, todo, exitReq>>

\* accept_new_conn: accept4 takes a connection from the listen queue and
\* epoll_add_fd registers it for IN; if registration fails the fd is
\* closed.  Otherwise the Conn enters conns_, the CONN_CONNECTED callback
\* runs, and the connection is closed if the callback force-closed it, or
\* registered for writing if it wrote data or grace-closed it.
Accept(e) ==
    /\ pc = "io"
    /\ e \in ready
    /\ e.fd = Listen
    /\ ready' = ready \ {e}
    /\ \/ UNCHANGED conn   \* accept4 fails: EAGAIN on an empty backlog, or
                            \* EMFILE/ENFILE with the connection left queued
       \/ \E c \in Conns :
            /\ conn[c].fd = "backlog"
            /\ \/ conn' = [conn EXCEPT ![c].fd = "closed"]  \* epoll_add_fd fails
               \/ \E ch \in CbChoices(NoConn) :
                    LET k0 == [NoConn EXCEPT !.fd = "open", !.reg = "IN", !.tbl = TRUE]
                        k1 == Callback(k0, ch[1], ch[2], ch[3])
                    IN  conn' = [conn EXCEPT ![c] =
                                    IF k1.force THEN CloseConn(k1)
                                    ELSE IF k1.snd > 0 \/ k1.lfin THEN AddWaitWrite(k1)
                                    ELSE k1]
    /\ UNCHANGED <<peerVars, pc, cur, todo, exitReq>>

\* The read outcome of conn_read_data failing (recv returning 0 or -1): the
\* CONN_DISCONNECTED callback (which leaves the Conn as it is), then
\* close_conn.
Disconnect(k) ==
    CloseConn(k)

\* Mutant of ConnReadData: emptiness of the receive buffer tested after
\* read_bytes instead of before it.
ConnReadDataStaleEmpty(e) ==
    LET c == e.fd
        k == conn[c]
    IN
    /\ pc = "io"
    /\ e \in ready
    /\ ~e.out
    /\ e.fd /= Listen
    /\ ready' = ready \ {e}
    /\ \/ /\ ~k.tbl
          /\ UNCHANGED <<conn, kin>>
       \/ /\ k.tbl
          /\ peer[c] /= "reset"
          /\ kin[c] > 0
          /\ \E n \in 1..kin[c] :
                /\ kin' = [kin EXCEPT ![c] = @ - n]
                /\ conn' = [conn EXCEPT ![c].rcv = @ + n,
                                        ![c].rd = @ \/ k.rcv + n = 0]
       \/ /\ k.tbl
          /\ peer[c] = "reset" \/ kin[c] = 0
          /\ conn' = [conn EXCEPT ![c] = Disconnect(k)]
          /\ UNCHANGED kin
    /\ UNCHANGED <<peer, kout, sent, pc, cur, todo, exitReq>>

\* conn_read_data: Conn::read_bytes reads what the socket holds into the
\* receive buffer; a connection whose receive buffer was empty before the
\* read joins wait_read_conns_.  recv returning 0 (peer FIN), or -1 (reset,
\* or nothing to read) is a disconnect.
ConnReadData(e) ==
    LET c == e.fd
        k == conn[c]
    IN
    /\ pc = "io"
    /\ e \in ready
    /\ ~e.out
    /\ e.fd /= Listen
    /\ ready' = ready \ {e}
    /\ \/ /\ ~k.tbl
          /\ UNCHANGED <<conn, kin>>
       \/ /\ k.tbl
          /\ peer[c] /= "reset"
          /\ kin[c] > 0
          /\ \E n \in 1..kin[c] :
                /\ kin' = [kin EXCEPT ![c] = @ - n]
                /\ conn' = [conn EXCEPT ![c].rcv = @ + n,
                                        ![c].rd = @ \/ k.rcv = 0]
       \/ /\ k.tbl
          /\ peer[c] = "reset" \/ kin[c] = 0
          /\ conn' = [conn EXCEPT ![c] = Disconnect(k)]
          /\ UNCHANGED kin
    /\ UNCHANGED <<peer, kout, sent, pc, cur, todo, exitReq>>

\* One send() of Conn::send_bytes: n of the send buffer's bytes enter the
\* kernel send queue.  With the queue full and the peer alive, send()
\* fails with EAGAIN and the loop `continue`s: no step of the loop is
\* enabled until the peer reads.
SendStep(c, n) ==
    /\ pc = "send"
    /\ cur = c
    /\ peer[c] /= "reset"
    /\ n \in 1..conn[c].snd
    /\ kout[c] + n <= KCap
    /\ conn' = [conn EXCEPT ![c].snd = @ - n]
    /\ kout' = [kout EXCEPT ![c] = @ + n]
    /\ UNCHANGED <<peer, kin, sent, loopVars, exitReq>>

SendProgress(c) == \E n \in 1..KCap : SendStep(c, n)

\* Mutant of SendDone: a drained local_fin_ connection is not closed.
SendDoneIgnoresLocalFin(c) ==
    LET k0 == conn[c]
        k  == IF k0.snd > 0 /\ peer[c] = "reset"
              THEN [k0 EXCEPT !.force = TRUE] ELSE k0
    IN
    /\ pc = "send"
    /\ cur = c
    /\ k0.snd = 0 \/ peer[c] = "reset" \/ kout[c] < KCap
    /\ conn' = [conn EXCEPT ![c] =
                   IF k.snd = 0 THEN RemoveWaitWrite(k)
                   ELSE IF k.force THEN CloseConn(k)
                   ELSE k]
    /\ pc' = "io"
    /\ UNCHANGED <<peerVars, ready, cur, todo, exitReq>>

\* send_bytes stops: the buffer is empty, send() fails with ECONNRESET or
\* EPIPE (force_close), or with another error.  The rest of
\* conn_write_data: an empty buffer leaves wait_write (closing a conn whose
\* close was deferred) and a local_fin_ conn is closed; a conn left with
\* data is closed only if force-closed.
SendDone(c) ==
    LET k0 == conn[c]
        k  == IF k0.snd > 0 /\ peer[c] = "reset"
              THEN [k0 EXCEPT !.force = TRUE] ELSE k0
        k1 == RemoveWaitWrite(k)
    IN
    /\ pc = "send"
    /\ cur = c
    /\ k0.snd = 0 \/ peer[c] = "reset" \/ kout[c] < KCap   \* the last: other errors
    /\ conn' = [conn EXCEPT ![c] =
                   IF k.snd = 0 THEN (IF k1.lfin THEN CloseConn(k1) ELSE k1)
                   ELSE IF k.force THEN CloseConn(k)
                   ELSE k]
    /\ pc' = "io"
    /\ UNCHANGED <<peerVars, ready, cur, todo, exitReq>>

\* The ready list is done: process_msgs visits wait_read_conns_.
EndIO ==
    /\ pc = "io"
    /\ ready = {}
    /\ pc' = "msgs"
    /\ todo' = {c \in Conns : conn[c].rd}
    /\ UNCHANGED <<peerVars, conn, ready, cur, exitReq>>

\* Mutant of MsgStep: the callback consumes one byte more than it was given.
MsgStepOverConsume(c) ==
    LET k == conn[c]
        sendEmpty == k.snd = 0
    IN
    /\ pc = "msgs"
    /\ c \in todo
    /\ \E used \in 1..k.rcv, ch \in CbChoices(k) :
         LET k1 == Callback([k EXCEPT !.rcv = @ - (used + 1)], ch[1], ch[2], ch[3])
             k2 == IF k1.rcv = 0 THEN [k1 EXCEPT !.rd = FALSE] ELSE k1
         IN  conn' = [conn EXCEPT ![c] =
                         IF k2.force THEN CloseConn(k2)
                         ELSE IF (k2.snd > 0 /\ sendEmpty) \/ k2.lfin
                              THEN AddWaitWrite(k2)
                              ELSE k2]
    /\ todo' = todo \ {c}
    /\ UNCHANGED <<peerVars, pc, ready, cur, exitReq>>

\* Mutant of MsgStep: send_buf_empty() sampled after the callback ran.
MsgStepLateSendEmpty(c) ==
    LET k == conn[c]
    IN
    /\ pc = "msgs"
    /\ c \in todo
    /\ \E used \in 1..k.rcv, ch \in CbChoices(k) :
         LET k1 == Callback([k EXCEPT !.rcv = @ - used], ch[1], ch[2], ch[3])
             k2 == IF k1.rcv = 0 THEN [k1 EXCEPT !.rd = FALSE] ELSE k1
         IN  conn' = [conn EXCEPT ![c] =
                         IF k2.force THEN CloseConn(k2)
                         ELSE IF (k2.snd > 0 /\ k2.snd = 0) \/ k2.lfin
                              THEN AddWaitWrite(k2)
                              ELSE k2]
    /\ todo' = todo \ {c}
    /\ UNCHANGED <<peerVars, pc, ready, cur, exitReq>>

\* Mutant of MsgStep: only a grace-closing conn is registered for writing.
MsgStepNoWriteInterest(c) ==
    LET k == conn[c]
    IN
    /\ pc = "msgs"
    /\ c \in todo
    /\ \E used \in 1..k.rcv, ch \in CbChoices(k) :
         LET k1 == Callback([k EXCEPT !.rcv = @ - used], ch[1], ch[2], ch[3])
             k2 == IF k1.rcv = 0 THEN [k1 EXCEPT !.rd = FALSE] ELSE k1
         IN  conn' = [conn EXCEPT ![c] =
                         IF k2.force THEN CloseConn(k2)
                         ELSE IF k2.lfin THEN AddWaitWrite(k2)
                              ELSE k2]
    /\ todo' = todo \ {c}
    /\ UNCHANGED <<peerVars, pc, ready, cur, exitReq>>

\* process_msgs, one connection: the message callback consumes some of the
\* receive buffer and may respond or close; a conn with an empty receive
\* buffer leaves wait_read_conns_; a force-closed conn is closed, and one
\* whose send buffer became non-empty, or that is local_fin_, is
\* registered for writing.
MsgStep(c) ==
    LET k == conn[c]
        sendEmpty == k.snd = 0
    IN
    /\ pc = "msgs"
    /\ c \in todo
    /\ \E used \in 1..k.rcv, ch \in CbChoices(k) :
         LET k1 == Callback([k EXCEPT !.rcv = @ - used], ch[1], ch[2], ch[3])
             k2 == IF k1.rcv = 0 THEN [k1 EXCEPT !.rd = FALSE] ELSE k1
         IN  conn' = [conn EXCEPT ![c] =
                         IF k2.force THEN CloseConn(k2)
                         ELSE IF (k2.snd > 0 /\ sendEmpty) \/ k2.lfin
                              THEN AddWaitWrite(k2)
                              ELSE k2]
    /\ todo' = todo \ {c}
    /\ UNCHANGED <<peerVars, pc, ready, cur, exitReq>>

\* The pass is over: back to epoll_wait.
EndMsgs ==
    /\ pc = "msgs"
    /\ todo = {}
    /\ pc' = "poll"
    /\ UNCHANGED <<peerVars, conn, ready, cur, todo, exitReq>>

LoopNext ==
    \/ LoopExit
    \/ PollIdle
    \/ Poll
    \/ \E e \in ready : ConnWriteData(e) \/ Accept(e) \/ ConnReadData(e)
    \/ \E c \in Conns : SendProgress(c) \/ SendDone(c) \/ MsgStep(c)
    \/ EndIO
    \/ EndMsgs

-----------------------------------------------------------------------------
(* Peers and the kernel.                                                   *)

\* The peer connects once the server listens; the connection waits in the
\* listen queue.
PeerConnect(c) ==
    /\ peer[c] = "idle"
    /\ pc \notin {"init", "failed"}
    /\ peer' = [peer EXCEPT ![c] = "open"]
    /\ conn' = [conn EXCEPT ![c].fd = "backlog"]
    /\ UNCHANGED <<kin, kout, sent, loopVars, exitReq>>

PeerSend(c) ==
    /\ peer[c] = "open"
    /\ conn[c].fd \in {"backlog", "open"}
    /\ sent[c] < MaxData
    /\ kin' = [kin EXCEPT ![c] = @ + 1]
    /\ sent' = [sent EXCEPT ![c] = @ + 1]
    /\ UNCHANGED <<peer, kout, conn, loopVars, exitReq>>

PeerRead(c) ==
    /\ kout[c] > 0
    /\ kout' = [kout EXCEPT ![c] = @ - 1]
    /\ UNCHANGED <<peer, kin, sent, conn, loopVars, exitReq>>

\* shutdown(SHUT_WR): the server reads end-of-file once kin is drained.
PeerFin(c) ==
    /\ peer[c] = "open"
    /\ conn[c].fd \in {"backlog", "open"}
    /\ peer' = [peer EXCEPT ![c] = "fin"]
    /\ UNCHANGED <<kin, kout, sent, conn, loopVars, exitReq>>

\* The peer aborts: queued data in both directions is discarded.
PeerReset(c) ==
    /\ peer[c] \in {"open", "fin"}
    /\ conn[c].fd \in {"backlog", "open"}
    /\ peer' = [peer EXCEPT ![c] = "reset"]
    /\ kin' = [kin EXCEPT ![c] = 0]
    /\ kout' = [kout EXCEPT ![c] = 0]
    /\ UNCHANGED <<sent, conn, loopVars, exitReq>>

PeerNext ==
    \E c \in Conns :
        PeerConnect(c) \/ PeerSend(c) \/ PeerRead(c) \/ PeerFin(c) \/ PeerReset(c)

\* The owner's thread makes the exit callback return true.
RequestExit ==
    /\ ExitCb
    /\ ~exitReq
    /\ exitReq' = TRUE
    /\ UNCHANGED <<peerVars, conn, loopVars>>

Next == ServerInit \/ LoopNext \/ PeerNext \/ RequestExit

Spec == Init /\ [][Next]_vars

\* The loop is one thread that keeps running; a send() the socket can
\* take is not failed by a transient error forever; clients read what the
\* server sends them.
Fairness ==
    /\ WF_vars(ServerInit) /\ WF_vars(LoopNext)
    /\ \A c \in Conns : SF_vars(SendProgress(c)) /\ WF_vars(PeerRead(c))

FairSpec == Spec /\ Fairness

\* Only the loop is fair: peers may stop reading.
LoopFairSpec == Spec /\ WF_vars(ServerInit) /\ WF_vars(LoopNext)

-----------------------------------------------------------------------------
(* Properties.                                                             *)

ConnRec ==
    [fd : {"none", "backlog", "open", "closed"}, rcv : Nat, snd : Nat,
     force : BOOLEAN, lfin : BOOLEAN, rfin : BOOLEAN,
     reg : {"none", "IN", "INOUT", "INRDHUP"}, tbl : BOOLEAN,
     rd : BOOLEAN, wr : BOOLEAN, wrote : Nat]

TypeOK ==
    /\ peer \in [Conns -> {"idle", "open", "fin", "reset"}]
    /\ kin \in [Conns -> Nat] /\ sent \in [Conns -> 0..MaxData]
    /\ kout \in [Conns -> 0..KCap]
    /\ conn \in [Conns -> ConnRec]
    /\ pc \in {"init", "failed", "poll", "io", "send", "msgs", "stopped"}
    /\ ready \subseteq [fd : Conns \cup {Listen}, out : BOOLEAN]
    /\ cur \in Conns \cup {Listen}
    /\ todo \subseteq Conns
    /\ exitReq \in BOOLEAN

(* conns_, the epoll registrations and wait_read_conns_ never refer to a  *)
(* closed Conn, and every accepted, still open Conn is in conns_: whatever *)
(* order accept, reads, writes, deferred closes and callbacks happen in,   *)
(* no descriptor is leaked and none is used after close().                 *)
TablesConsistent ==
    \A c \in Conns :
        /\ conn[c].tbl <=> conn[c].fd = "open"
        /\ (conn[c].rd \/ conn[c].reg /= "none") => conn[c].tbl

(* Spec 3: a connection is in wait_write_conns_ iff it is registered for   *)
(* write readiness; the two never diverge (in particular a closed Conn is  *)
(* not kept in wait_write_conns_).                                         *)
WaitWriteMatchesEpoll ==
    \A c \in Conns : conn[c].wr <=> conn[c].reg = "INOUT"

(* Bytes read into an open connection's receive buffer are always awaiting *)
(* the message callback: the conn is in wait_read_conns_ unless its close  *)
(* was deferred after the peer went away (remote_fin_).                    *)
InputAwaitsCallback ==
    \A c \in Conns :
        (conn[c].tbl /\ conn[c].rcv > 0 /\ ~conn[c].rfin) => conn[c].rd

(* Spec 8: outside conn_write_data's own send loop, a connection is        *)
(* registered for write readiness exactly when it has unsent bytes or is   *)
(* closing gracefully (local_fin_): no response is stranded without a      *)
(* write event, and no idle connection spins on EPOLLOUT.                  *)
WriteInterestExact ==
    \A c \in Table :
        ~(pc = "send" /\ cur = c) =>
            (conn[c].reg = "INOUT" <=> (conn[c].snd > 0 \/ conn[c].lfin))

(* A connection leaves conns_ with unsent bytes only if it was             *)
(* force-closed: grace closes and peer disconnects wait for the send       *)
(* buffer to drain (spec 8, keep-alive=false flushes before close).        *)
NoDataDroppedOnClose ==
    [][\A c \in Conns :
         (conn[c].tbl /\ ~conn'[c].tbl) => (conn'[c].snd = 0 \/ conn'[c].force)
      ]_vars

(* Every byte the callbacks queue is eventually sent to a peer that keeps  *)
(* reading, unless the connection is closed or start() returns first.    *)
ResponseFlushed ==
    \A c \in Conns :
        conn[c].snd > 0 ~> (conn[c].snd = 0 \/ conn[c].fd = "closed" \/ pc = "stopped")

(* A connection closed gracefully (grace_close, local_fin_) is eventually  *)
(* removed from conns_ and its descriptor closed, unless start() returns. *)
GraceCloseCompletes ==
    \A c \in Conns : (conn[c].tbl /\ conn[c].lfin) ~> (~conn[c].tbl \/ pc = "stopped")

(* Spec 4.2, steps 1-5: every iteration runs the drain pass, so bytes left *)
(* in a receive buffer by a callback that consumed part of them (as the    *)
(* HTTP adapter does, one chunk per call) are handed to the callback again *)
(* without the peer having to send anything more.                          *)
InputEventuallyDelivered ==
    \A c \in Conns :
        (conn[c].tbl /\ conn[c].rcv > 0) ~> (conn[c].rcv = 0 \/ ~conn[c].tbl)

(* Spec 5: once the exit callback returns true, start() returns: the     *)
(* iteration under way (its ready list, sends and drain pass) completes   *)
(* and the `while (!exit())` test is reached again, whatever the          *)
(* callbacks do, as long as every peer keeps reading (FairSpec's          *)
(* WF PeerRead).  That assumption is needed: send_bytes `continue`s on    *)
(* EAGAIN, so a peer that stops reading holds the loop in a send for      *)
(* ever; the tcp_send_spin run checks this property without it.          *)
ExitHonoured == exitReq ~> pc \in {"stopped", "failed"}

=============================================================================
