----------------------------- MODULE LoopTimers -----------------------------
(***************************************************************************)
(* The non-connection descriptors of TCPServer's loop                      *)
(* (src/src/base/server/task_server.cpp, src/inc/base/server/             *)
(* task_server.hpp): the signal fd, the periodic timer and the oneshot     *)
(* timers, from the owner's setup calls through start() and every loop     *)
(* iteration.  Connection I/O is TCPServer.tla's; here a connection event  *)
(* only makes a poll non-empty.  Every callback (signal, periodic,        *)
(* oneshot, message) may call set_period_timer_interval or                 *)
(* add_oneshot_timer, as the API allows from inside the loop.  An         *)
(* exception thrown anywhere ends start(): pc = "stopped", err its cause. *)
(***************************************************************************)
EXTENDS TimerFd, FiniteSets

CONSTANTS
    Signals,    \* signal numbers the owner may register
    Oneshots,   \* identities of the oneshot timers the callbacks may add
    Intervals,  \* delays and periods the owner and callbacks pass, in clock units
    MaxTime,    \* bound: the clock stops here
    MaxFds,     \* descriptors the process may still open (RLIMIT_NOFILE)
    MaxRaise,   \* bound: times each signal is raised
    SharedSignals \* another thread can take the process's pending signals:
                  \* a ServerSet sibling's signalfd, or a thread whose mask
                  \* (set only in start()'s thread) does not block them

ASSUME Intervals \subseteq Nat \ {0} /\ MaxTime \in Nat /\ MaxFds \in Nat
ASSUME MaxRaise \in Nat /\ SharedSignals \in BOOLEAN

VARIABLES
    now,        \* the monotonic clock
    pending,    \* signals pending for the process (standard signals coalesce)
    raised,     \* raised[s]: times s was raised (history)
    handled,    \* handled[s]: times sig_cb_ got s (history)
    taken,      \* taken[s]: times another thread took s (history)
    sigs,       \* signals_
    sigcb,      \* sig_cb_ is set
    ptcb,       \* period_timer_cb_ is set
    sigfd,      \* sig_fd_ is open and registered with epoll
    tm,         \* timer state the callbacks change, and the pending exception
    firedAt,    \* firedAt[i]: when oneshot i's callback last ran (history)
    fires,      \* fires[i]: times oneshot i's callback ran (history)
    pc,         \* "setup" | "poll" | "io" | "sig" | "msgs" | "timer" | "stopped"
    ready,      \* the current ready list
    recvSignal, \* start()'s recv_signal
    recvTimer   \* start()'s recv_timer

vars == <<now, pending, raised, handled, taken, sigs, sigcb, ptcb, sigfd, tm,
          firedAt, fires, pc, ready, recvSignal, recvTimer>>

(***************************************************************************)
(* tm: pt and ptset (period_timer_ and whether it is non-null), os and     *)
(* osState (each oneshot timer: "unused", "armed" while in                 *)
(* oneshot_timers_ and epoll, "fired" once erased), fds (descriptors       *)
(* open: the signal fd and every timerfd), err (the exception thrown,      *)
(* "none" while there is none).                                            *)
(***************************************************************************)
TM0 == [pt |-> NewTimer(0, TRUE), ptset |-> FALSE,
        os |-> [i \in Oneshots |-> NewTimer(0, FALSE)],
        osState |-> [i \in Oneshots |-> "unused"],
        fds |-> 0, err |-> "none"]

Init ==
    /\ now = 0
    /\ pending = {}
    /\ raised = [s \in Signals |-> 0]
    /\ handled = [s \in Signals |-> 0]
    /\ taken = [s \in Signals |-> 0]
    /\ sigs = {}
    /\ sigcb = FALSE
    /\ ptcb = FALSE
    /\ sigfd = FALSE
    /\ tm = TM0
    /\ firedAt = [i \in Oneshots |-> 0]
    /\ fires = [i \in Oneshots |-> 0]
    /\ pc = "setup"
    /\ ready = {}
    /\ recvSignal = FALSE
    /\ recvTimer = FALSE

-----------------------------------------------------------------------------
(* The API a callback or the owner calls, as transformers of tm.          *)

\* TCPServer::set_period_timer_interval: re-arm the existing timer, or
\* create one (started later by create_timer_fd).
SetPeriodTimerInterval(S, iv) ==
    IF S.ptset
    THEN LET r == SetTimerInterval(S.pt, iv, now)
         IN  [S EXCEPT !.pt = r.t, !.err = r.err]
    ELSE [S EXCEPT !.pt = NewTimer(iv, TRUE), !.ptset = TRUE]

\* Mutant of AddOneshotTimer: the descriptor limit is not respected.
AddOneshotTimerNoFdLimit(S, i, iv, epollOk) ==
    LET r == Start(NewTimer(iv, FALSE), now, TRUE)
    IN  IF r.err /= "none" THEN [S EXCEPT !.fds = @ + 1, !.err = r.err]
        ELSE IF ~epollOk THEN [S EXCEPT !.fds = @ + 1, !.err = "EPOLL"]
        ELSE [S EXCEPT !.os[i] = r.t, !.osState[i] = "armed", !.fds = @ + 1]

\* TCPServer::add_oneshot_timer: a new SysTimerFd is started, its fd added
\* to epoll (throwing if that fails) and the timer stored.  A timer whose
\* start() or epoll_add_fd threw is dropped with its fd still open.
AddOneshotTimer(S, i, iv, epollOk) ==
    LET r    == Start(NewTimer(iv, FALSE), now, S.fds < MaxFds)
        fds1 == IF r.err = "EMFILE" THEN S.fds ELSE S.fds + 1
    IN  IF r.err /= "none" THEN [S EXCEPT !.fds = fds1, !.err = r.err]
        ELSE IF ~epollOk THEN [S EXCEPT !.fds = fds1, !.err = "EPOLL"]
        ELSE [S EXCEPT !.os[i] = r.t, !.osState[i] = "armed", !.fds = fds1]

\* What one callback does: nothing, re-arm the periodic timer, or add a
\* oneshot timer (a timer identity is used once).
Effects(S) ==
    {[op |-> "none"]}
    \cup {[op |-> "rearm", iv |-> v] : v \in Intervals}
    \cup {[op |-> "oneshot", id |-> i, iv |-> v, ok |-> b] :
            i \in {j \in Oneshots : S.osState[j] = "unused"}, v \in Intervals,
            b \in BOOLEAN}

ApplyEffect(S, e) ==
    CASE e.op = "none"  -> S
      [] e.op = "rearm" -> SetPeriodTimerInterval(S, e.iv)
      [] OTHER          -> AddOneshotTimer(S, e.id, e.iv, e.ok)

\* An exception thrown by the step stops the loop.
Continue(S, next) == IF S.err = "none" THEN next ELSE "stopped"

-----------------------------------------------------------------------------
(* Setup, before start().                                                  *)

\* TCPServer::add_signal
AddSignal(s) ==
    /\ pc = "setup"
    /\ sigs' = sigs \cup {s}
    /\ UNCHANGED <<now, pending, raised, handled, taken, sigcb, ptcb, sigfd, tm,
                   firedAt, fires, pc, ready, recvSignal, recvTimer>>

\* TCPServer::set_signal_callback
SetSignalCallback ==
    /\ pc = "setup"
    /\ sigcb' = TRUE
    /\ UNCHANGED <<now, pending, raised, handled, taken, sigs, ptcb, sigfd, tm,
                   firedAt, fires, pc, ready, recvSignal, recvTimer>>

\* TCPServer::set_period_timer_callback
SetPeriodTimerCallback ==
    /\ pc = "setup"
    /\ ptcb' = TRUE
    /\ UNCHANGED <<now, pending, raised, handled, taken, sigs, sigcb, sigfd, tm,
                   firedAt, fires, pc, ready, recvSignal, recvTimer>>

\* The owner calls set_period_timer_interval or add_oneshot_timer; an
\* exception reaches the owner and the server is never started.
OwnerCall ==
    /\ pc = "setup"
    /\ \E e \in Effects(tm) \ {[op |-> "none"]} :
         LET S == ApplyEffect(tm, e)
         IN  /\ tm' = S
             /\ pc' = Continue(S, "setup")
    /\ UNCHANGED <<now, pending, raised, handled, taken, sigs, sigcb, ptcb, sigfd,
                   firedAt, fires, ready, recvSignal, recvTimer>>

\* create_signal_fd: a callback without signals or signals without a
\* callback throw; otherwise the signals are blocked, signalfd opens a
\* descriptor (EMFILE when none is left) and it is added to epoll.
CreateSignalFd(S, epollOk) ==
    IF ~sigcb /\ sigs = {} THEN [S EXCEPT !.err = "none"]
    ELSE IF ~(sigcb /\ sigs /= {}) THEN [S EXCEPT !.err = "SIGSPEC"]
    ELSE IF S.fds >= MaxFds THEN [S EXCEPT !.err = "EMFILE"]
    ELSE IF ~epollOk THEN [S EXCEPT !.fds = @ + 1, !.err = "EPOLL"]
    ELSE [S EXCEPT !.fds = @ + 1]

\* create_timer_fd: with both a periodic callback and a periodic timer,
\* the timer is started and its fd added to epoll.
CreateTimerFd(S, epollOk) ==
    IF ~(ptcb /\ S.ptset) THEN S
    ELSE LET r    == Start(S.pt, now, S.fds < MaxFds)
             fds1 == IF r.err = "EMFILE" THEN S.fds ELSE S.fds + 1
         IN  IF r.err /= "none" THEN [S EXCEPT !.pt = r.t, !.fds = fds1, !.err = r.err]
             ELSE IF ~epollOk THEN [S EXCEPT !.pt = r.t, !.fds = fds1, !.err = "EPOLL"]
             ELSE [S EXCEPT !.pt = r.t, !.fds = fds1]

\* TCPServer::start up to its loop: create_signal_fd, then create_timer_fd.
StartServer ==
    /\ pc = "setup"
    /\ \E ok1, ok2 \in BOOLEAN :
         LET S1 == CreateSignalFd(tm, ok1)
             S2 == IF S1.err = "none" THEN CreateTimerFd(S1, ok2) ELSE S1
         IN  /\ tm' = S2
             /\ sigfd' = (S1.fds > tm.fds /\ S1.err = "none")
             /\ pc' = Continue(S2, "poll")
    /\ UNCHANGED <<now, pending, raised, handled, taken, sigs, sigcb, ptcb, firedAt, fires,
                   ready, recvSignal, recvTimer>>

-----------------------------------------------------------------------------
(* The loop, TCPServer::start.                                             *)

\* Descriptors epoll reports: the signal fd while a signal of its mask is
\* pending, a timerfd with expirations, and possibly connection sockets.
SigReady == sigfd /\ pending \cap sigs /= {}
PtReady  == tm.ptset /\ Ready(tm.pt, now)
\* Mutant of OsReady: oneshot timerfds never reported (not registered).
OsReadyUnregistered == {}

OsReady  == {i \in Oneshots : tm.osState[i] = "armed" /\ Ready(tm.os[i], now)}

ReadySet(conn) ==
    (IF SigReady THEN {"sig"} ELSE {}) \cup (IF PtReady THEN {"pt"} ELSE {})
    \cup OsReady \cup (IF conn THEN {"conn"} ELSE {})

\* epoll_wait returned nothing: `continue`.
PollIdle ==
    /\ pc = "poll"
    /\ ReadySet(FALSE) = {}
    /\ UNCHANGED vars

Poll ==
    /\ pc = "poll"
    /\ \E conn \in BOOLEAN :
         /\ ReadySet(conn) /= {}
         /\ ready' = ReadySet(conn)
    /\ pc' = "io"
    /\ UNCHANGED <<now, pending, raised, handled, taken, sigs, sigcb, ptcb, sigfd,
                   tm, firedAt, fires, recvSignal, recvTimer>>

\* Mutant of FlagEvent: the signal fd's event does not set recv_signal.
FlagEventNoSignal(x) ==
    /\ pc = "io"
    /\ x \in ready \ Oneshots
    /\ ready' = ready \ {x}
    /\ recvSignal' = recvSignal
    /\ recvTimer' = (recvTimer \/ x = "pt")
    /\ UNCHANGED <<now, pending, raised, handled, taken, sigs, sigcb, ptcb, sigfd,
                   tm, firedAt, fires, pc>>

\* The dispatch of a signal fd or periodic timer event: only a flag is set.
\* A connection event is TCPServer.tla's business.
FlagEvent(x) ==
    /\ pc = "io"
    /\ x \in ready \ Oneshots
    /\ ready' = ready \ {x}
    /\ recvSignal' = (recvSignal \/ x = "sig")
    /\ recvTimer' = (recvTimer \/ x = "pt")
    /\ UNCHANGED <<now, pending, raised, handled, taken, sigs, sigcb, ptcb, sigfd,
                   tm, firedAt, fires, pc>>

\* Mutant of ProcessOneshotTimer: the timer is left in oneshot_timers_ and
\* epoll after its callback.
ProcessOneshotTimerNoErase(i) ==
    /\ pc = "io"
    /\ i \in ready \cap Oneshots
    /\ ready' = ready \ {i}
    /\ \E e \in Effects(tm) :
         LET S == ApplyEffect(tm, e)
         IN  /\ tm' = S
             /\ pc' = Continue(S, "io")
    /\ firedAt' = [firedAt EXCEPT ![i] = now]
    /\ fires' = [fires EXCEPT ![i] = IF @ < 2 THEN @ + 1 ELSE 2]
    /\ UNCHANGED <<now, pending, raised, handled, taken, sigs, sigcb, ptcb, sigfd,
                   recvSignal, recvTimer>>

\* process_oneshot_timer: the callback runs, then the timer is erased from
\* oneshot_timers_ and its fd removed from epoll.  The fd is never closed:
\* SysTimerFd has no destructor (sys_utils.hpp declares a second
\* constructor where the destructor was meant).
ProcessOneshotTimer(i) ==
    /\ pc = "io"
    /\ i \in ready \cap Oneshots
    /\ ready' = ready \ {i}
    /\ \E e \in Effects(tm) :
         LET S == ApplyEffect(tm, e)
         IN  /\ tm' = IF S.err = "none" THEN [S EXCEPT !.osState[i] = "fired"] ELSE S
             /\ pc' = Continue(S, "io")
    /\ firedAt' = [firedAt EXCEPT ![i] = now]
    /\ fires' = [fires EXCEPT ![i] = IF @ < 2 THEN @ + 1 ELSE 2]
    /\ UNCHANGED <<now, pending, raised, handled, taken, sigs, sigcb, ptcb, sigfd,
                   recvSignal, recvTimer>>

\* The ready list is done.
EndIO ==
    /\ pc = "io"
    /\ ready = {}
    /\ pc' = "sig"
    /\ UNCHANGED <<now, pending, raised, handled, taken, sigs, sigcb, ptcb, sigfd,
                   tm, firedAt, fires, ready, recvSignal, recvTimer>>

\* process_signals when recv_signal is set: read() one signalfd_siginfo
\* (a short read throws) and call sig_cb_ with it.
ProcessSignals ==
    /\ pc = "sig"
    /\ recvSignal' = FALSE
    /\ IF ~recvSignal
       THEN UNCHANGED <<pending, handled, taken, tm>> /\ pc' = "msgs"
       ELSE IF pending \cap sigs = {}
       THEN /\ tm' = [tm EXCEPT !.err = "SIGREAD"]
            /\ pc' = "stopped"
            /\ UNCHANGED <<pending, handled, taken>>
       ELSE \E s \in pending \cap sigs, e \in Effects(tm) :
              LET S == ApplyEffect(tm, e)
              IN  /\ pending' = pending \ {s}
                  /\ handled' = [handled EXCEPT ![s] = @ + 1]
                  /\ UNCHANGED taken
                  /\ tm' = S
                  /\ pc' = Continue(S, "msgs")
    /\ UNCHANGED <<now, raised, sigs, sigcb, ptcb, sigfd, firedAt, fires, ready,
                   recvTimer>>

\* process_msgs: the message callbacks of connections with input.
ProcessMsgs ==
    /\ pc = "msgs"
    /\ \E e \in Effects(tm) :
         LET S == ApplyEffect(tm, e)
         IN  /\ tm' = S
             /\ pc' = Continue(S, "timer")
    /\ UNCHANGED <<now, pending, raised, handled, taken, sigs, sigcb, ptcb, sigfd,
                   firedAt, fires, ready, recvSignal, recvTimer>>

\* process_timer when recv_timer is set: get_expired_cnt (which throws if
\* read() fails) and period_timer_cb_ with the count.
ProcessTimer ==
    /\ pc = "timer"
    /\ recvTimer' = FALSE
    /\ IF ~recvTimer
       THEN UNCHANGED tm /\ pc' = "poll"
       ELSE LET r == GetExpiredCnt(tm.pt, now)
            IN  IF r.err /= "none"
                THEN tm' = [tm EXCEPT !.pt = r.t, !.err = r.err] /\ pc' = "stopped"
                ELSE \E e \in Effects(tm) :
                       LET S == ApplyEffect([tm EXCEPT !.pt = [r.t EXCEPT !.got = @ + r.cnt]], e)
                       IN  tm' = S /\ pc' = Continue(S, "poll")
    /\ UNCHANGED <<now, pending, raised, handled, taken, sigs, sigcb, ptcb, sigfd,
                   firedAt, fires, ready, recvSignal>>

-----------------------------------------------------------------------------
(* The environment: time passes, signals are raised.                       *)

Tick ==
    /\ now < MaxTime
    /\ now' = now + 1
    /\ UNCHANGED <<pending, raised, handled, taken, sigs, sigcb, ptcb, sigfd, tm,
                   firedAt, fires, pc, ready, recvSignal, recvTimer>>

\* A signal of the blocked mask becomes pending (a second one coalesces).
Raise(s) ==
    /\ sigfd /\ s \in sigs
    /\ raised[s] < MaxRaise
    /\ pending' = pending \cup {s}
    /\ raised' = [raised EXCEPT ![s] = @ + 1]
    /\ UNCHANGED <<now, handled, taken, sigs, sigcb, ptcb, sigfd, tm, firedAt, fires, pc,
                   ready, recvSignal, recvTimer>>

\* Another thread takes a pending signal first: a server of the same
\* ServerSet reading its own signalfd on the same signals, or a thread of
\* the process that does not block it (start() masks only its own thread).
OtherReader(s) ==
    /\ SharedSignals
    /\ s \in pending
    /\ pending' = pending \ {s}
    /\ taken' = [taken EXCEPT ![s] = @ + 1]
    /\ UNCHANGED <<now, raised, handled, sigs, sigcb, ptcb, sigfd, tm, firedAt,
                   fires, pc, ready, recvSignal, recvTimer>>

SetupNext ==
    \/ \E s \in Signals : AddSignal(s)
    \/ SetSignalCallback \/ SetPeriodTimerCallback \/ OwnerCall
    \/ StartServer

LoopNext ==
    \/ PollIdle \/ Poll
    \/ \E x \in ready : FlagEvent(x) \/ ProcessOneshotTimer(x)
    \/ EndIO \/ ProcessSignals \/ ProcessMsgs \/ ProcessTimer

Next == SetupNext \/ LoopNext \/ Tick \/ \E s \in Signals : Raise(s) \/ OtherReader(s)

Spec == Init /\ [][Next]_vars

\* The owner that configured the server starts it; the loop thread runs;
\* time passes.
FairSpec == Spec /\ WF_vars(StartServer) /\ WF_vars(LoopNext) /\ WF_vars(Tick)

-----------------------------------------------------------------------------
(* Properties.                                                             *)

TimerRec ==
    [fd : BOOLEAN, nsecs : Nat, period : BOOLEAN, started : BOOLEAN,
     armed : BOOLEAN, at : Nat, iv : Nat, setAt : Nat, got : Nat]

TypeOK ==
    /\ now \in 0..MaxTime
    /\ pending \subseteq Signals
    /\ raised \in [Signals -> 0..MaxRaise] /\ handled \in [Signals -> Nat]
    /\ taken \in [Signals -> Nat]
    /\ sigs \subseteq Signals /\ sigcb \in BOOLEAN /\ ptcb \in BOOLEAN
    /\ sigfd \in BOOLEAN
    /\ tm.pt \in TimerRec /\ tm.ptset \in BOOLEAN
    /\ tm.os \in [Oneshots -> TimerRec]
    /\ tm.osState \in [Oneshots -> {"unused", "armed", "fired"}]
    /\ tm.fds \in 0..MaxFds
    /\ firedAt \in [Oneshots -> 0..MaxTime] /\ fires \in [Oneshots -> 0..2]
    /\ pc \in {"setup", "poll", "io", "sig", "msgs", "timer", "stopped"}
    /\ ready \subseteq Oneshots \cup {"sig", "pt", "conn"}

(* Spec 4.2: a oneshot timer armed for a delay D fires after at least D    *)
(* has elapsed, measured from add_oneshot_timer on the monotonic clock.   *)
OneshotAfterDelay ==
    \A i \in Oneshots :
        tm.osState[i] = "fired" => firedAt[i] >= tm.os[i].setAt + tm.os[i].nsecs

(* Spec 4.2, 8: a oneshot timer's callback runs exactly once: after it ran   *)
(* the timer is out of oneshot_timers_ and epoll and never fires again.   *)
OneshotFiredOnce ==
    \A i \in Oneshots : fires[i] <= 1

(* A oneshot timer added while the loop runs is eventually fired (if its  *)
(* deadline is within the clock's bound), unless the loop stopped.         *)
OneshotEventuallyFires ==
    \A i \in Oneshots :
        (tm.osState[i] = "armed" /\ tm.os[i].at <= MaxTime)
            ~> (tm.osState[i] = "fired" \/ pc = "stopped")

(* Spec 4.2: a signal of the mask that becomes pending is eventually      *)
(* consumed: read from the signal fd by process_signals and handed to      *)
(* sig_cb_, or taken by another thread of the process (SharedSignals),    *)
(* unless start() ended with an exception.  process_signals reads one      *)
(* signalfd_siginfo per iteration and the fd stays readable while others   *)
(* are pending, so with several signals pending each must wait for a later *)
(* iteration to be reported again.  The count handled + taken must grow:   *)
(* a signal that stays pending with no reader fails it.                    *)
SignalEventuallyHandled ==
    \A s \in Signals, n \in 0..MaxRaise :
        (s \in pending /\ handled[s] + taken[s] = n)
            ~> (handled[s] + taken[s] > n \/ pc = "stopped")

(* Spec 4.2: set_period_timer_interval and add_oneshot_timer arm a timer    *)
(* for any delay: timerfd_settime never refuses the deadline set_interval  *)
(* computes.                                                               *)
SetIntervalAccepted == tm.err /= "EINVAL"

(* Spec 4.2 step 5: process_timer reads the expiration count of a timer    *)
(* the poll reported ready without failing, whatever the callbacks that    *)
(* ran before it in the iteration did.                                     *)
TimerReadSucceeds == tm.err /= "EAGAIN"

(* Spec 4.2: a fired oneshot timer is discarded: while the loop runs, the   *)
(* open descriptors are the signal fd, the periodic timer's and those of   *)
(* the oneshot timers still armed.                                         *)
TimerFdsReleased ==
    pc \notin {"setup", "stopped"} =>
        tm.fds = (IF sigfd THEN 1 ELSE 0) + (IF tm.pt.fd THEN 1 ELSE 0)
                 + Cardinality({i \in Oneshots : tm.osState[i] = "armed"})

=============================================================================
