------------------------------- MODULE TimerFd -------------------------------
(***************************************************************************)
(* SysTimerFd (src/inc/base/utils/sys_utils.hpp, src/src/base/utils/      *)
(* sys_utils.cpp) over a timerfd of the kernel, as operators on a record.  *)
(* Time is an integer count of clock units, NS of them to a second, so the *)
(* code's split of a deadline into tv_sec and tv_nsec is kept.             *)
(*                                                                         *)
(* A timer record: fd (fd_ /= -1), nsecs (nsecs_), period (period_),       *)
(* started (start_), and the kernel's setting of the fd: armed, at (the    *)
(* next deadline) and iv (the interval, 0 for a oneshot).  setAt and got   *)
(* are history: when the timer was last set, and the expirations handed   *)
(* to the timer's callback since then.                                     *)
(***************************************************************************)
EXTENDS Naturals

CONSTANT NS     \* clock units per second (10^9 in the code)

ASSUME NS \in Nat \ {0}

\* SysTimerFd(nsecs, period): no descriptor until start().
NewTimer(nsecs, period) ==
    [fd |-> FALSE, nsecs |-> nsecs, period |-> period, started |-> FALSE,
     armed |-> FALSE, at |-> 0, iv |-> 0, setAt |-> 0, got |-> 0]

\* Expirations the kernel counts for t at time now (what read() returns).
Expirations(t, now) ==
    IF ~t.armed \/ now < t.at THEN 0
    ELSE IF t.iv = 0 THEN 1
    ELSE (now - t.at) \div t.iv + 1

\* Mutant of SetInterval: the deadline passed as if it were relative,
\* without adding the clock's current value.
SetIntervalRelative(t, now) ==
    LET at == t.nsecs
    IN  IF ~t.fd THEN [t |-> t, err |-> "EBADF"]
        ELSE [t |-> [t EXCEPT !.armed = TRUE, !.at = at,
                               !.iv = IF t.period THEN t.nsecs ELSE 0,
                               !.setAt = now, !.got = 0],
              err |-> "none"]

\* SysTimerFd::set_interval: the deadline now + nsecs_ as an absolute
\* itimerspec {tv_sec, tv_nsec}, the interval nsecs_ for a periodic timer,
\* and timerfd_settime(TFD_TIMER_ABSTIME).  tv_nsec is the sum of the two
\* nanosecond parts, not normalised: the kernel refuses tv_nsec >= 10^9
\* with EINVAL, and fd_ = -1 with EBADF; either is thrown.  A successful
\* settime resets the kernel's expiration count; a zero deadline disarms.
SetInterval(t, now) ==
    LET tvSec  == (now \div NS) + (t.nsecs \div NS)
        tvNsec == (now % NS) + (t.nsecs % NS)
        at     == tvSec * NS + tvNsec
    IN  IF ~t.fd THEN [t |-> t, err |-> "EBADF"]
        ELSE IF tvNsec >= NS THEN [t |-> t, err |-> "EINVAL"]
        ELSE [t |-> [t EXCEPT !.armed = at /= 0, !.at = at,
                               !.iv = IF t.period THEN t.nsecs ELSE 0,
                               !.setAt = now, !.got = 0],
              err |-> "none"]

\* SysTimerFd::start: timerfd_create (failing with EMFILE when the process
\* is out of descriptors), then set_interval; start_ is set only if
\* set_interval did not throw, while the created fd is kept either way.
Start(t, now, canCreate) ==
    IF ~canCreate THEN [t |-> t, err |-> "EMFILE"]
    ELSE LET r == SetInterval([t EXCEPT !.fd = TRUE], now)
         IN  IF r.err = "none" THEN [r EXCEPT !.t.started = TRUE] ELSE r

\* SysTimerFd::set_timer_interval: refused (false) for a started oneshot;
\* otherwise nsecs_ is replaced and set_interval re-arms, whether or not
\* the timer was ever started.
SetTimerInterval(t, nsecs, now) ==
    IF ~t.period /\ t.started THEN [t |-> t, err |-> "none"]
    ELSE SetInterval([t EXCEPT !.nsecs = nsecs], now)

\* SysTimerFd::get_expired_cnt: read() of the 8-byte count.  The fd is
\* non-blocking: with no expiration pending read() fails with EAGAIN and
\* the code throws.  A successful read resets the count: the next deadline
\* moves past now, and a oneshot is disarmed.
GetExpiredCnt(t, now) ==
    LET n == Expirations(t, now)
    IN  IF ~t.fd THEN [t |-> t, err |-> "EBADF", cnt |-> 0]
        ELSE IF n = 0 THEN [t |-> t, err |-> "EAGAIN", cnt |-> 0]
        ELSE [t |-> [t EXCEPT !.at = IF t.iv = 0 THEN @ ELSE @ + n * t.iv,
                              !.armed = t.iv /= 0],
              err |-> "none", cnt |-> n]

\* The timerfd is readable.
Ready(t, now) == t.fd /\ Expirations(t, now) > 0

=============================================================================
