------------------------------- MODULE Logger --------------------------------
(***************************************************************************)
(* The process-wide logger g_logger (src/src/base/utils/ik_logger.cpp)     *)
(* from the start of the process: Logger() sets the defaults, threads may  *)
(* log before log_init (to stdout), and log_init runs once.  Writer        *)
(* threads run log_base ->                                                 *)
(* write_log: the level test without the lock, then under locker_ the      *)
(* fallback to stdout, check_size (which may rotate the file) and the      *)
(* fprintf.  log_init's timer thread runs delete_old once a day; a SIGHUP  *)
(* runs sig_handle; a D_DEAD record ends in exit(), whose ~Logger closes   *)
(* fp_ while the other threads still run.                                  *)
(*                                                                         *)
(* fp is what fp_ points to: "null", "stdout" or "file" (the FILE opened   *)
(* on log_full_).  dir is the log directory: Full (log_full_) and the      *)
(* rotated files, named by their timestamp and log_idx_, each mapped to    *)
(* the number of records in it.  Time is a count of clock units, U to a    *)
(* day; a unit stands for the second the rotated names are stamped with.   *)
(***************************************************************************)
EXTENDS Naturals, Functions, TLC

CONSTANTS Threads,      \* threads that log
          U,            \* clock units per day
          Days,         \* log_days_ given to log_init
          LogSize,      \* log_size_ * 1024, counted in records
          MaxIdx,       \* the wrap of log_idx_ (999 in the code)
          LogLevel,     \* the level given to log_init
          DefaultSize,  \* Logger()'s log_size_ (5120) * 1024, in records
          MkdirOk,      \* outcomes check_dir's mkdir may have (TRUE: made or EEXIST)
          OpenOk,       \* outcomes fopen may have (FALSE: EMFILE, EACCES...)
          ThreadOk,     \* outcomes pthread_create may have
          StdoutTTY,    \* isatty(fileno(stdout))
          MaxTime,      \* bound on the clock
          MaxWrites,    \* bound on log calls
          NoThread      \* no holder of locker_

D_TRAC == 0
D_DBUG == 1
D_INFO == 2
D_WARN == 3
D_ERRO == 4
D_DEAD == 5
Levels == D_TRAC..D_DEAD

ASSUME /\ U \in Nat \ {0} /\ Days \in Nat /\ LogSize \in Nat
       /\ MaxIdx \in Nat \ {0} /\ LogLevel \in Levels
       /\ OpenOk \subseteq BOOLEAN /\ OpenOk /= {} /\ StdoutTTY \in BOOLEAN
       /\ DefaultSize \in Nat
       /\ MkdirOk \subseteq BOOLEAN /\ MkdirOk /= {}
       /\ ThreadOk \subseteq BOOLEAN /\ ThreadOk /= {}
       /\ NoThread \notin Threads

NoLevel == -1

VARIABLES level,    \* log_level_
          fp,       \* fp_
          stdoutOpen, \* stdout not yet fclose()d
          out,      \* records written to stdout (its offset, for ftell)
          dir,      \* the log directory
          idx,      \* log_idx_
          mutex,    \* the holder of locker_
          th,       \* per thread: pc, the record's level, a pending set_level
          now,      \* the clock
          wake,     \* when the timer thread's sleep(24 * 3600) ends
          proc,     \* "running", "exiting" (exit() under way) or "dead"
          writes,   \* log calls made (bounded by MaxWrites)
          size,     \* log_size_ * 1024, in records
          phase,    \* log_init: "before", "ok" (returned 0) or "failed" (-1)
          timer     \* the timer thread exists

startup == <<size, phase, timer>>

vars == <<level, fp, stdoutOpen, out, dir, idx, mutex, th, now, wake, proc,
          writes, startup>>

Date(t) == t \div U

\* log_full_, among the names of the directory
Full == [t |-> -1, i |-> 0]

Rotated == DOMAIN dir \ {Full}

\* Mutant of CheckSize: isatty() asked of stdout rather than of fp_.
CheckSizeStdoutTTY(f, ok) ==
    LET tty  == StdoutTTY
        pos  == IF f = "file" THEN dir[Full] ELSE IF stdoutOpen THEN out ELSE -1
        new  == [t |-> now, i |-> idx]
        renamed == [n \in Rotated \cup {new} |->
                        IF n = new THEN dir[Full] ELSE dir[n]]
    IN  IF tty \/ pos <= size
        THEN [fp |-> f, so |-> stdoutOpen, dir |-> dir, idx |-> idx]
        ELSE [fp  |-> IF Full \in DOMAIN dir /\ ok THEN "file" ELSE "null",
              so  |-> stdoutOpen /\ f /= "stdout",
              dir |-> IF Full \notin DOMAIN dir THEN dir
                      ELSE IF ok THEN renamed @@ (Full :> 0) ELSE renamed,
              idx |-> IF idx + 1 > MaxIdx THEN 1 ELSE idx + 1]

\* Mutant of CheckSize: log_idx_ wrapped one step late.
CheckSizeIdxLate(f, ok) ==
    LET tty  == f = "stdout" /\ StdoutTTY
        pos  == IF f = "file" THEN dir[Full] ELSE IF stdoutOpen THEN out ELSE -1
        new  == [t |-> now, i |-> idx]
        renamed == [n \in Rotated \cup {new} |->
                        IF n = new THEN dir[Full] ELSE dir[n]]
    IN  IF tty \/ pos <= size
        THEN [fp |-> f, so |-> stdoutOpen, dir |-> dir, idx |-> idx]
        ELSE [fp  |-> IF Full \in DOMAIN dir /\ ok THEN "file" ELSE "null",
              so  |-> stdoutOpen /\ f /= "stdout",
              dir |-> IF Full \notin DOMAIN dir THEN dir
                      ELSE IF ok THEN renamed @@ (Full :> 0) ELSE renamed,
              idx |-> IF idx + 1 > MaxIdx + 1 THEN 1 ELSE idx + 1]

\* Logger::check_size, under the lock with fp_ already non-NULL: a stream
\* that is not a terminal (ftell of a closed stdout is -1) and holds more than log_size_ * 1024 bytes is
\* closed, fp_ becomes NULL, log_idx_ advances (wrapping past 999), the
\* file is renamed to <file>_<timestamp>_<idx>.log (over any file of that
\* name) and reopened.  A failed rename returns with fp_ still NULL.
CheckSize(f, ok) ==
    LET tty  == f = "stdout" /\ StdoutTTY
        pos  == IF f = "file" THEN dir[Full] ELSE IF stdoutOpen THEN out ELSE -1
        new  == [t |-> now, i |-> idx]
        renamed == [n \in Rotated \cup {new} |->
                        IF n = new THEN dir[Full] ELSE dir[n]]
    IN  IF tty \/ pos <= size
        THEN [fp |-> f, so |-> stdoutOpen, dir |-> dir, idx |-> idx]
        ELSE [fp  |-> IF Full \in DOMAIN dir /\ ok THEN "file" ELSE "null",
              so  |-> stdoutOpen /\ f /= "stdout",
              dir |-> IF Full \notin DOMAIN dir THEN dir
                      ELSE IF ok THEN renamed @@ (Full :> 0) ELSE renamed,
              idx |-> IF idx + 1 > MaxIdx THEN 1 ELSE idx + 1]

Idle == [pc |-> "idle", lvl |-> NoLevel, then |-> NoLevel]

\* Logger::Logger, the static constructor of g_logger: D_DBUG, 5120 KiB,
\* log_idx_ 1, fp_ NULL (a static object is zeroed), no log directory yet.
Init ==
    /\ level = D_DBUG
    /\ fp = "null"
    /\ dir = [n \in {} |-> 0]
    /\ size = DefaultSize
    /\ phase = "before"
    /\ timer = FALSE
    /\ stdoutOpen = TRUE
    /\ out = 0
    /\ idx = 1
    /\ mutex = NoThread
    /\ th = [t \in Threads |-> Idle]
    /\ now = 0
    /\ wake = 0
    /\ proc = "running"
    /\ writes = 0

\* log_init -> Logger::init, once, on a thread of its own: a name too long
\* for log_dir_/log_file_, or check_dir's mkdir failing other than EEXIST,
\* returns -1 with nothing shared set (mk = FALSE); the level, days
\* and size stored; fp_ = fopen(log_full_, "a") without the lock (NULL when
\* it fails); the timer thread created, its first delete_old due at once
\* (failing returns -1); and, on 0, signal(SIGHUP, sig_handle).
LogInit ==
    /\ proc /= "dead" /\ phase = "before"
    /\ \E mk \in MkdirOk, ok \in OpenOk, thr \in ThreadOk :
         IF ~mk
         THEN /\ phase' = "failed"
              /\ UNCHANGED <<level, fp, dir, size, timer, wake>>
         ELSE /\ level' = LogLevel
              /\ size' = LogSize
              /\ fp' = IF ok THEN "file" ELSE "null"
              /\ dir' = IF ok /\ Full \notin DOMAIN dir THEN dir @@ (Full :> 0)
                        ELSE dir
              /\ timer' = thr
              /\ wake' = now
              /\ phase' = IF thr THEN "ok" ELSE "failed"
    /\ UNCHANGED <<stdoutOpen, out, idx, mutex, th, now, proc, writes>>

\* log_base -> Logger::logging -> write_log: a record below log_level_ is
\* dropped before the lock; otherwise the thread goes for locker_.
LogBase(t, lvl) ==
    /\ proc /= "dead" /\ th[t].pc = "idle" /\ writes < MaxWrites
    /\ writes' = writes + 1
    /\ th' = IF level > lvl THEN th
             ELSE [th EXCEPT ![t] = [pc |-> "lock", lvl |-> lvl, then |-> NoLevel]]
    /\ UNCHANGED <<level, fp, stdoutOpen, out, dir, idx, mutex, now, wake, proc,
                   startup>>

\* reset_log_level: LOG_INFO("Set log level as %s") and then set_level; an
\* unknown name sets D_INFO, so every level can be the result.
ResetLogLevel(t, l) ==
    /\ proc /= "dead" /\ th[t].pc = "idle" /\ writes < MaxWrites
    /\ writes' = writes + 1
    /\ IF level > D_INFO
       THEN level' = l /\ UNCHANGED th
       ELSE /\ th' = [th EXCEPT ![t] = [pc |-> "lock", lvl |-> D_INFO, then |-> l]]
            /\ UNCHANGED level
    /\ UNCHANGED <<fp, stdoutOpen, out, dir, idx, mutex, now, wake, proc,
                   startup>>

\* write_log up to the fprintf: pthread_mutex_lock, fp_ = stdout when it is
\* NULL, the time of day, and check_size.
WriteLogLock(t) ==
    /\ proc /= "dead" /\ th[t].pc = "lock" /\ mutex = NoThread
    /\ \E ok \in OpenOk :
          LET r == CheckSize(IF fp = "null" THEN "stdout" ELSE fp, ok)
          IN  /\ fp' = r.fp /\ stdoutOpen' = r.so /\ dir' = r.dir /\ idx' = r.idx
    /\ mutex' = t
    /\ th' = [th EXCEPT ![t].pc = "print"]
    /\ UNCHANGED <<level, out, now, wake, proc, writes,
                   startup>>

\* The rest of write_log and log_base: fprintf and fflush on fp_ (on NULL,
\* a segmentation fault ends the process), the unlock, the set_level of
\* reset_log_level, and exit() after a D_DEAD record.
WriteLogPrint(t) ==
    /\ proc /= "dead" /\ th[t].pc = "print"
    /\ IF fp = "null"
       THEN proc' = "dead" /\ UNCHANGED <<level, out, dir, mutex, th>>
       ELSE /\ dir' = IF fp = "file" THEN [dir EXCEPT ![Full] = @ + 1] ELSE dir
            /\ out' = IF fp = "stdout" /\ stdoutOpen THEN out + 1 ELSE out
            /\ mutex' = NoThread
            /\ level' = IF th[t].then = NoLevel THEN level ELSE th[t].then
            /\ th' = [th EXCEPT ![t] = IF th[t].lvl = D_DEAD
                                       THEN [Idle EXCEPT !.pc = "exit"] ELSE Idle]
            /\ UNCHANGED proc
    /\ UNCHANGED <<fp, stdoutOpen, idx, now, wake, writes,
                   startup>>

\* exit(EXIT_FAILURE): the static destructor ~Logger closes fp_ and sets it
\* to NULL, without the lock, while the other threads keep running.
Exit(t) ==
    /\ proc /= "dead" /\ th[t].pc = "exit"
    /\ fp' = "null"
    /\ stdoutOpen' = (stdoutOpen /\ fp /= "stdout")
    /\ proc' = "exiting"
    /\ th' = [th EXCEPT ![t].pc = "done"]
    /\ UNCHANGED <<level, out, dir, idx, mutex, now, wake, writes,
                   startup>>

\* The end of exit(): the process and its threads are gone.
Terminate ==
    /\ proc = "exiting"
    /\ proc' = "dead"
    /\ UNCHANGED <<level, fp, stdoutOpen, out, dir, idx, mutex, th, now, wake, writes,
                   startup>>

\* Logger::timer: delete_old, then sleep(24 * 3600).  delete_old removes
\* every file whose name holds the date log_days_ days ago (pattern
\* "*YYYYMMDD*"), and nothing when log_days_ is 0.
DeleteOld ==
    /\ proc /= "dead" /\ timer /\ now >= wake
    /\ dir' = IF Days = 0 THEN dir
              ELSE Restrict(dir, {n \in DOMAIN dir :
                                    n = Full \/ Date(n.t) /= Date(now - Days * U)})
    /\ wake' = now + U
    /\ UNCHANGED <<level, fp, stdoutOpen, out, idx, mutex, th, now, proc, writes,
                   startup>>

\* sig_handle for SIGHUP toggles log_level_ between D_DBUG and D_INFO.  When
\* the handler runs on the timer thread its sleep() returns early, and the
\* loop runs delete_old again at once.
SigHandle ==
    /\ proc /= "dead" /\ phase = "ok"
    /\ level' = IF level <= D_INFO THEN D_DBUG ELSE D_INFO
    /\ \E onTimer \in BOOLEAN : wake' = IF onTimer THEN now ELSE wake
    /\ UNCHANGED <<fp, stdoutOpen, out, dir, idx, mutex, th, now, proc, writes,
                   startup>>

\* The clock advances.  Nothing makes the timer thread run the moment its
\* sleep ends: it is scheduled like any thread, and each delete_old takes
\* time before the next sleep(24 * 3600) starts, so its runs drift later.
Tick ==
    /\ proc /= "dead" /\ now < MaxTime
    /\ now' = now + 1
    /\ UNCHANGED <<level, fp, stdoutOpen, out, dir, idx, mutex, th, wake, proc, writes,
                   startup>>

Next ==
    \/ \E t \in Threads :
          \/ \E lvl \in Levels : LogBase(t, lvl)
          \/ \E l \in Levels : ResetLogLevel(t, l)
          \/ WriteLogLock(t)
          \/ WriteLogPrint(t)
          \/ Exit(t)
    \/ LogInit
    \/ Terminate
    \/ DeleteOld
    \/ SigHandle
    \/ Tick

Spec == Init /\ [][Next]_vars

-----------------------------------------------------------------------------

TypeOK ==
    /\ level \in Levels
    /\ fp \in {"null", "stdout", "file"}
    /\ stdoutOpen \in BOOLEAN /\ out \in Nat
    /\ Full \in DOMAIN dir => dir[Full] \in Nat
    /\ \A n \in Rotated : n \in [t : 0..MaxTime, i : 1..MaxIdx] /\ dir[n] \in Nat
    /\ idx \in 1..MaxIdx
    /\ mutex \in Threads \cup {NoThread}
    /\ th \in [Threads -> [pc : {"idle", "lock", "print", "exit", "done"},
                           lvl : Levels \cup {NoLevel}, then : Levels \cup {NoLevel}]]
    /\ now \in 0..MaxTime /\ wake \in Nat
    /\ proc \in {"running", "exiting", "dead"}
    /\ size \in {DefaultSize, LogSize} /\ phase \in {"before", "ok", "failed"}
    /\ timer \in BOOLEAN

\* Retention: check_size stamps a rotated file with the time it was made,
\* and the timer thread's delete_old removes the files dated log_days_ ago.
\* Once log_init has started the timer thread with log_days_ > 0, no
\* rotated file is still there once log_days_ + 1 whole days have passed
\* after the day it was made.  delete_old matches one date per run and the
\* runs are a day's sleep apart plus the time delete_old and the scheduler
\* take, so a late run skips a date whose files are then never removed.
\* No run states it; TLC finds it violated under Spec.
RotatedLogsExpire ==
    Days > 0 /\ timer => \A n \in Rotated : now < (Date(n.t) + Days + 1) * U

\* check_size runs under the lock before every fprintf to the log file, so
\* the open log file never holds more than one record beyond log_size_.
LogSizeBounded ==
    fp = "file" => dir[Full] <= size + 1

\* write_log never reaches fprintf with fp_ NULL: check_size has reopened
\* the log file, or fp_ fell back to stdout.
NoNullWrite ==
    \A t \in Threads : th[t].pc = "print" => fp /= "null"
====
