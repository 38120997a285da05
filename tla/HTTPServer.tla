------------------------------ MODULE HTTPServer ------------------------------
(***************************************************************************)
(* HTTPServerImpl (src/src/base/server/http_server.cpp,                    *)
(* src/inc/base/server/http_server_impl.hpp) over the TCPServer loop:      *)
(* the connection callback process_conn keeps one HTTPRequest per          *)
(* connection in conn_reqs_; the message callback process_msg feeds the    *)
(* receive buffer to HTTPRequestImpl::parse_msg, runs the request callback *)
(* on a complete request and resets the accumulator.                       *)
(*                                                                         *)
(* A request is a few tokens: U (the request line, reported by on_url),    *)
(* B (body bytes, on_body), E (the end of the message, on_message_complete) *)
(* and X (a byte the HTTP grammar refuses).  Tokens carry the number of    *)
(* the client's request they belong to, so a URI shows which requests it   *)
(* was assembled from.  The TCP layer is TCPServer's: its Conn record and  *)
(* the helpers close_conn, add/remove_conn_wait_write are instantiated.    *)
(***************************************************************************)
EXTENDS Naturals, Sequences, Functions, TLC

CONSTANTS
    Conns,      \* clients that may connect (each at most once)
    NReq,       \* bound: requests one client sends
    Pipelining, \* clients may send a request before the previous answer
    Malformed   \* clients that may send a request the grammar refuses

ASSUME NReq \in Nat \ {0} /\ Pipelining \in BOOLEAN /\ Malformed \subseteq Conns

VARIABLES
    client,     \* client[c]: [next: request it sends next, got: answers read, fin]
    net,        \* net[c]: tokens sent and not yet read by the server
    stream,     \* stream[c]: every token client c sent (history)
    conn,       \* conn[c]: TCPServer's Conn record; rcv is a token sequence
    conn_reqs,  \* HTTPServerImpl::conn_reqs_: the accumulator of each conn
    pc,         \* the loop: "poll" (epoll_wait) or "msgs" (process_msgs)
    todo,       \* conns the current process_msgs pass has still to visit
    consumed,   \* consumed[c]: tokens process_msg consumed from rcv (history)
    served      \* served[c]: the uri_ of each request req_cb_ got (history)

vars == <<client, net, stream, conn, conn_reqs, pc, todo, consumed, served>>

\* The TCP layer's record operators (CloseConn, AddWaitWrite, ...); the
\* TCP module's own peers, kernel queues and loop are not used.
TCP == INSTANCE TCPServer
           WITH Listen <- "listen", MaxData <- 0, MaxResp <- 0, KCap <- 1,
                peer <- [c \in Conns |-> "open"], kin <- [c \in Conns |-> 0],
                kout <- [c \in Conns |-> 0], sent <- [c \in Conns |-> 0],
                ready <- {}, cur <- "listen", ExitCb <- FALSE, exitReq <- FALSE

-----------------------------------------------------------------------------
(* The tokenizer (http-parser, not part of the repository), as the         *)
(* callback contract HTTPParseSetting registers: one token at a time.      *)

Token == [k : {"U", "B", "E", "X"}, r : 1..NReq]

\* The tokens of request r in each form a client may send.
Request(r, form) ==
    LET t(k) == [k |-> k, r |-> r]
    IN  CASE form = "plain" -> <<t("U"), t("E")>>
          [] form = "body"  -> <<t("U"), t("B"), t("E")>>
          [] form = "bad"   -> <<t("U"), t("X")>>

Forms(c) == {"plain", "body"} \cup (IF c \in Malformed THEN {"bad"} ELSE {})

\* One token through the parser: on_uri_cb appends to uri_, on_body_cb to
\* body_, on_message_complete_cb sets is_completed_ and the parser waits for
\* the next request (keep-alive); anything else sets http_errno.
Step(q, t) ==
    CASE q.ps = "start" /\ t.k = "U" -> [q EXCEPT !.ps = "msg", !.uri = Append(@, t.r)]
      [] q.ps = "msg" /\ t.k = "B"   -> [q EXCEPT !.body = @ + 1]
      [] q.ps = "msg" /\ t.k = "E"   -> [q EXCEPT !.ps = "start", !.is_completed = TRUE]
      [] OTHER                       -> [q EXCEPT !.ps = "error"]

\* http_parser_execute(&parser_, setting_, s, len): runs on after a
\* complete message, stops at the first refused token, and parses nothing
\* once http_errno is set.  n is the number of tokens it parsed.
RECURSIVE Execute(_, _, _)
Execute(q, s, n) ==
    IF n = Len(s) \/ q.ps = "error" THEN [q |-> q, n |-> n]
    ELSE LET q1 == Step(q, s[n + 1])
         IN  IF q1.ps = "error" THEN [q |-> q1, n |-> n]
             ELSE Execute(q1, s, n + 1)

-----------------------------------------------------------------------------
(* HTTPRequestImpl: bytes_, unread_pos_, left_bytes_, the parser's state   *)
(* ps, uri_, body_ (a count) and is_completed_.  Headers are not modelled. *)

\* Mutant of Clear: uri_ is not emptied.
ClearKeepsUri(q) == [q EXCEPT !.ps = "start", !.is_completed = FALSE, !.body = 0]

\* HTTPRequestImpl::clear: re-initialises the parser and empties the
\* request, but leaves bytes_, unread_pos_ and left_bytes_ as they are.
Clear(q) == [q EXCEPT !.ps = "start", !.is_completed = FALSE, !.uri = <<>>, !.body = 0]

\* HTTPRequestImpl::HTTPRequestImpl
NewRequest ==
    Clear([bytes |-> <<>>, unread_pos |-> 0, left_bytes |-> 0, ps |-> "start",
           uri |-> <<>>, body |-> 0, is_completed |-> FALSE])

\* Mutant of ParseMsg: left_bytes_ is not increased by data_len.
ParseMsgNoLeftAdd(q, data) ==
    LET q1 == [q EXCEPT !.bytes = @ \o data]
        x  == Execute(q1, SubSeq(q1.bytes, q1.unread_pos + 1,
                                 q1.unread_pos + Len(data)), 0)
        q2 == [x.q EXCEPT !.unread_pos = @ + x.n, !.left_bytes = @ - x.n]
    IN  [q |-> q2, err |-> q2.ps = "error", done |-> q2.is_completed]

\* HTTPRequestImpl::parse_msg: appends data to bytes_, parses the
\* left_bytes_ bytes from unread_pos_, and advances unread_pos_ by what
\* was parsed; throws (err) when http_errno is set, and otherwise returns
\* whether a request is complete.
ParseMsg(q, data) ==
    LET q1 == [q EXCEPT !.bytes = @ \o data, !.left_bytes = @ + Len(data)]
        x  == Execute(q1, SubSeq(q1.bytes, q1.unread_pos + 1,
                                 q1.unread_pos + q1.left_bytes), 0)
        q2 == [x.q EXCEPT !.unread_pos = @ + x.n, !.left_bytes = @ - x.n]
    IN  [q |-> q2, err |-> q2.ps = "error", done |-> q2.is_completed]

-----------------------------------------------------------------------------
(* The server.  One step of the loop dispatches one ready descriptor and   *)
(* then runs the process_msgs pass (pc = "msgs") over wait_read_conns_.    *)
(* Connections share no HTTP state, so an epoll_wait that returns several  *)
(* descriptors is several such steps for the properties below.  send()     *)
(* takes a whole response: the kernel send queue is TCPServer's concern.   *)

NoConn == [TCP!NoConn EXCEPT !.rcv = <<>>]

\* The loop has handled an event: the process_msgs pass follows.
Pass(cn) == pc' = "msgs" /\ todo' = {c \in Conns : cn[c].rd}

\* HTTPServerImpl::process_conn: CONN_CONNECTED puts a new HTTPRequest in
\* conn_reqs_, anything else erases the connection's entry.
ProcessConn(c, event) ==
    IF event = "CONN_CONNECTED" THEN conn_reqs @@ (c :> NewRequest)
    ELSE Restrict(conn_reqs, DOMAIN conn_reqs \ {c})

\* accept_new_conn: an fd epoll cannot register is closed; otherwise the
\* Conn joins conns_ and the connection callback runs.  process_conn neither
\* writes nor closes, so nothing is registered for writing.
Accept(c) ==
    /\ pc = "poll"
    /\ conn[c].fd = "backlog"
    /\ \/ /\ conn' = [conn EXCEPT ![c].fd = "closed"]
          /\ UNCHANGED conn_reqs
       \/ /\ conn' = [conn EXCEPT ![c] = [@ EXCEPT !.fd = "open", !.reg = "IN", !.tbl = TRUE]]
          /\ conn_reqs' = ProcessConn(c, "CONN_CONNECTED")
    /\ Pass(conn')
    /\ UNCHANGED <<client, net, stream, consumed, served>>

\* Mutant of ConnReadData: emptiness of rcv_buf_ tested after read_bytes.
ConnReadDataStaleEmpty(c) ==
    LET k == conn[c]
    IN
    /\ pc = "poll"
    /\ k.tbl /\ k.reg \in {"IN", "INRDHUP"}
    /\ \/ \E n \in 1..Len(net[c]) :
            /\ net' = [net EXCEPT ![c] = SubSeq(@, n + 1, Len(@))]
            /\ conn' = [conn EXCEPT ![c].rcv = @ \o SubSeq(net[c], 1, n),
                                    ![c].rd = @ \/ k.rcv \o SubSeq(net[c], 1, n) = <<>>]
            /\ UNCHANGED conn_reqs
       \/ /\ net[c] = <<>> /\ client[c].fin
          /\ conn_reqs' = ProcessConn(c, "CONN_DISCONNECTED")
          /\ conn' = [conn EXCEPT ![c] = TCP!Disconnect(k)]
          /\ UNCHANGED net
    /\ Pass(conn')
    /\ UNCHANGED <<client, stream, consumed, served>>

\* conn_read_data on an IN event (an fd registered for OUT reports OUT,
\* which goes to conn_write_data): recv() reads some of what the client
\* sent, and a conn whose receive buffer was empty joins wait_read_conns_;
\* end-of-file runs CONN_DISCONNECTED and close_conn.
ConnReadData(c) ==
    LET k == conn[c]
    IN
    /\ pc = "poll"
    /\ k.tbl /\ k.reg \in {"IN", "INRDHUP"}
    /\ \/ \E n \in 1..Len(net[c]) :
            /\ net' = [net EXCEPT ![c] = SubSeq(@, n + 1, Len(@))]
            /\ conn' = [conn EXCEPT ![c].rcv = @ \o SubSeq(net[c], 1, n),
                                    ![c].rd = @ \/ k.rcv = <<>>]
            /\ UNCHANGED conn_reqs
       \/ /\ net[c] = <<>> /\ client[c].fin
          /\ conn_reqs' = ProcessConn(c, "CONN_DISCONNECTED")
          /\ conn' = [conn EXCEPT ![c] = TCP!Disconnect(k)]
          /\ UNCHANGED net
    /\ Pass(conn')
    /\ UNCHANGED <<client, stream, consumed, served>>

\* conn_write_data on an OUT event: send_bytes sends the responses; the
\* emptied conn leaves wait_write_conns_ (a close deferred by remote_fin_
\* happens there) and a grace-closed conn is closed by close_conn.  No
\* callback runs, so conn_reqs_ is not told.
ConnWriteData(c) ==
    LET k1 == TCP!RemoveWaitWrite([conn[c] EXCEPT !.snd = 0])
    IN
    /\ pc = "poll"
    /\ conn[c].tbl /\ conn[c].reg = "INOUT"
    /\ client' = [client EXCEPT ![c].got = @ + conn[c].snd]
    /\ conn' = [conn EXCEPT ![c] = IF k1.lfin THEN TCP!CloseConn(k1) ELSE k1]
    /\ Pass(conn')
    /\ UNCHANGED <<net, stream, conn_reqs, consumed, served>>

\* Mutant of ProcessMsg: consume_bytes only once a request is complete.
ProcessMsgConsumeOnDone(c, keep, resp) ==
    LET k == conn[c]
        r == ParseMsg(conn_reqs[c], k.rcv)
    IN  IF c \notin DOMAIN conn_reqs
        THEN [k |-> k, reqs |-> conn_reqs, used |-> 0, calls |-> <<>>]
        ELSE IF r.err \/ ~r.done
        THEN [k |-> k, reqs |-> [conn_reqs EXCEPT ![c] = r.q], used |-> 0, calls |-> <<>>]
        ELSE [k |-> [k EXCEPT !.rcv = <<>>, !.snd = @ + (IF resp THEN 1 ELSE 0),
                              !.lfin = @ \/ ~keep],
              reqs |-> [conn_reqs EXCEPT ![c] = Clear(r.q)],
              used |-> Len(k.rcv), calls |-> <<r.q.uri>>]

\* HTTPServerImpl::process_msg on conn c: nothing happens without an entry
\* in conn_reqs_.  Otherwise the front run of the receive buffer goes to
\* parse_msg; it is all of rcv, since every pass consumes what it is given
\* and one recv() fills one chunk.  A throw returns before consume_bytes.
\* A complete request goes to req_cb_, which may write a response (resp)
\* and ask to close (~keep, grace_close); the accumulator is then cleared.
ProcessMsg(c, keep, resp) ==
    LET k == conn[c]
        r == ParseMsg(conn_reqs[c], k.rcv)
    IN  IF c \notin DOMAIN conn_reqs
        THEN [k |-> k, reqs |-> conn_reqs, used |-> 0, calls |-> <<>>]
        ELSE IF r.err
        THEN [k |-> k, reqs |-> [conn_reqs EXCEPT ![c] = r.q], used |-> 0, calls |-> <<>>]
        ELSE [k |-> [k EXCEPT !.rcv = <<>>,
                              !.snd = @ + (IF r.done /\ resp THEN 1 ELSE 0),
                              !.lfin = @ \/ (r.done /\ ~keep)],
              reqs |-> [conn_reqs EXCEPT ![c] = IF r.done THEN Clear(r.q) ELSE r.q],
              used |-> Len(k.rcv),
              calls |-> IF r.done THEN <<r.q.uri>> ELSE <<>>]

\* process_msgs, one connection of wait_read_conns_: the message callback,
\* then a conn whose receive buffer is empty leaves wait_read_conns_, a
\* force-closed one is closed, and one whose send buffer became non-empty
\* or that is local_fin_ is registered for writing.
ProcessMsgs(c) ==
    /\ pc = "msgs"
    /\ c \in todo
    /\ \E keep, resp \in BOOLEAN :
         LET x  == ProcessMsg(c, keep, resp)
             k2 == IF x.k.rcv = <<>> THEN [x.k EXCEPT !.rd = FALSE] ELSE x.k
         IN  /\ conn' = [conn EXCEPT ![c] =
                           IF k2.force THEN TCP!CloseConn(k2)
                           ELSE IF (k2.snd > 0 /\ conn[c].snd = 0) \/ k2.lfin
                                THEN TCP!AddWaitWrite(k2)
                                ELSE k2]
             /\ conn_reqs' = x.reqs
             /\ consumed' = [consumed EXCEPT ![c] = @ + x.used]
             /\ served' = [served EXCEPT ![c] = @ \o x.calls]
    /\ todo' = todo \ {c}
    /\ UNCHANGED <<client, net, stream, pc>>

\* The pass is over: back to epoll_wait.
EndMsgs ==
    /\ pc = "msgs"
    /\ todo = {}
    /\ pc' = "poll"
    /\ UNCHANGED <<client, net, stream, conn, conn_reqs, todo, consumed, served>>

-----------------------------------------------------------------------------
(* Clients.                                                                *)

ClientConnect(c) ==
    /\ conn[c].fd = "none"
    /\ conn' = [conn EXCEPT ![c].fd = "backlog"]
    /\ UNCHANGED <<client, net, stream, conn_reqs, pc, todo, consumed, served>>

\* The next request, in one of the client's forms; without pipelining only
\* once every earlier request has been answered.
ClientSend(c) ==
    /\ conn[c].fd \in {"backlog", "open"}
    /\ ~client[c].fin
    /\ client[c].next <= NReq
    /\ Pipelining \/ client[c].got >= client[c].next - 1
    /\ \E f \in Forms(c) :
         LET m == Request(client[c].next, f)
         IN  /\ net' = [net EXCEPT ![c] = @ \o m]
             /\ stream' = [stream EXCEPT ![c] = @ \o m]
    /\ client' = [client EXCEPT ![c].next = @ + 1]
    /\ UNCHANGED <<conn, conn_reqs, pc, todo, consumed, served>>

\* shutdown(SHUT_WR): the server reads end-of-file after the data.
ClientFin(c) ==
    /\ conn[c].fd \in {"backlog", "open"}
    /\ ~client[c].fin
    /\ client' = [client EXCEPT ![c].fin = TRUE]
    /\ UNCHANGED <<net, stream, conn, conn_reqs, pc, todo, consumed, served>>

-----------------------------------------------------------------------------
Init ==
    /\ client = [c \in Conns |-> [next |-> 1, got |-> 0, fin |-> FALSE]]
    /\ net = [c \in Conns |-> <<>>]
    /\ stream = [c \in Conns |-> <<>>]
    /\ conn = [c \in Conns |-> NoConn]
    /\ conn_reqs = [c \in {} |-> NewRequest]
    /\ pc = "poll"
    /\ todo = {}
    /\ consumed = [c \in Conns |-> 0]
    /\ served = [c \in Conns |-> <<>>]

ServerStep(c) == Accept(c) \/ ConnReadData(c) \/ ConnWriteData(c) \/ ProcessMsgs(c)

ClientStep(c) == ClientConnect(c) \/ ClientSend(c) \/ ClientFin(c)

Next == EndMsgs \/ \E c \in Conns : ServerStep(c) \/ ClientStep(c)

Spec == Init /\ [][Next]_vars

\* The step of the process_msgs pass that visits c: only ProcessMsgs(c)
\* takes it, and it is enabled exactly when ProcessMsgs(c) is.
VisitConn(c) == pc = "msgs" /\ c \in todo /\ todo' = todo \ {c}

\* The loop is one thread that keeps running.  Level-triggered epoll
\* reports a descriptor in every epoll_wait while it is ready, so one that
\* is ready at infinitely many polls is handled (strong fairness; it is
\* not ready during a process_msgs pass), and a pass visits every conn it
\* started with.  Clients need no fairness: one may stop sending or never
\* close.
FairSpec ==
    /\ Spec
    /\ WF_vars(EndMsgs)
    /\ \A c \in Conns : /\ SF_vars(Accept(c) \/ ConnReadData(c) \/ ConnWriteData(c))
                        /\ WF_todo(VisitConn(c))

-----------------------------------------------------------------------------
(* Properties.                                                             *)

ReqRec ==
    [bytes : Seq(Token), unread_pos : Nat, left_bytes : Nat,
     ps : {"start", "msg", "error"}, uri : Seq(1..NReq), body : Nat,
     is_completed : BOOLEAN]

TypeOK ==
    /\ client \in [Conns -> [next : 1..NReq + 1, got : Nat, fin : BOOLEAN]]
    /\ net \in [Conns -> Seq(Token)] /\ stream \in [Conns -> Seq(Token)]
    /\ \A c \in Conns : conn[c].rcv \in Seq(Token) /\ conn[c].snd \in Nat
    /\ DOMAIN conn_reqs \subseteq Conns
    /\ \A c \in DOMAIN conn_reqs : conn_reqs[c] \in ReqRec
    /\ pc \in {"poll", "msgs"} /\ todo \subseteq Conns
    /\ consumed \in [Conns -> Nat] /\ served \in [Conns -> Seq(Seq(1..NReq))]

(* Each call of the request callback gets the URI of exactly one request,  *)
(* the client's requests in the order sent and none skipped, however the   *)
(* requests are split across recv() calls and process_msg passes and       *)
(* however the accumulator is reused after clear() (spec 4.4, 8).          *)
ServedInOrder ==
    \A c \in Conns : \A i \in 1..Len(served[c]) : served[c][i] = <<i>>

(* Spec 4.4: process_msg consumes exactly the bytes it fed to the          *)
(* accumulator, whatever parse_msg returned: the accumulator's byte log is *)
(* the client's stream up to what was consumed from the receive buffer.    *)
FedIsConsumed ==
    \A c \in DOMAIN conn_reqs :
        conn_reqs[c].bytes = SubSeq(stream[c], 1, consumed[c])

(* Spec 4.4 and 3: an accumulator lives while its connection does; once   *)
(* a connection is closed, conn_reqs_ no longer holds it.                 *)
ReqsFreed ==
    \A c \in DOMAIN conn_reqs : conn[c].fd = "open"

(* Every request a well-formed client sent is eventually passed to the     *)
(* request callback, unless the connection was closed.                    *)
RequestAnswered ==
    \A c \in Conns \ Malformed : \A i \in 1..NReq :
        client[c].next > i ~> (Len(served[c]) >= i \/ conn[c].fd = "closed")

====
