\* Two threads call get_result at overlapping times; every system call
\* succeeds and no signal interrupts select().
CONSTANTS
    a = a
    b = b
    Callers <- MCCallers
    MaxCalls = 1
    Timeout = 1
    MaxBytes = 1
    Infinite = Infinite
    MaxOut = 1
    SysOk = {TRUE}
    ExecOk = {TRUE}
    Interrupts = FALSE
    MaxTime = 2
SPECIFICATION Spec
INVARIANT SigchldRestored
\* Both calls return and their commands exit: nothing is left to happen.
CHECK_DEADLOCK FALSE
