\* Two threads log with log_size_ 0 (every write after the first rotates), a
\* day of two clock units, logs kept one day, log_idx_ wrapping after 2.
CONSTANTS
    t1 = t1
    t2 = t2
    NoThread = NoThread
    Threads <- MCThreads
    U = 2
    Days = 1
    LogSize = 0
    MaxIdx = 2
    LogLevel = 2
    DefaultSize = 1
    MkdirOk = {TRUE, FALSE}
    ThreadOk = {TRUE, FALSE}
    OpenOk = {TRUE}
    StdoutTTY = TRUE
    MaxTime = 6
    MaxWrites = 4
SPECIFICATION Spec
INVARIANTS TypeOK LogSizeBounded
\* The process ends: exit() after a D_DEAD record, or a crash.
CHECK_DEADLOCK FALSE
