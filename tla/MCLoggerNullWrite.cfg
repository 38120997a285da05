\* One thread, stdout redirected to a file, fopen that may fail.
CONSTANTS
    t1 = t1
    t2 = t2
    NoThread = NoThread
    Threads <- MCOneThread
    U = 2
    Days = 1
    LogSize = 1
    MaxIdx = 2
    LogLevel = 2
    DefaultSize = 1
    MkdirOk = {TRUE, FALSE}
    ThreadOk = {TRUE, FALSE}
    OpenOk = {TRUE, FALSE}
    StdoutTTY = FALSE
    MaxTime = 2
    MaxWrites = 4
SPECIFICATION Spec
INVARIANT NoNullWrite
CHECK_DEADLOCK FALSE
