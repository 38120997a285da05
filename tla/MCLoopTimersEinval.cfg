CONSTANTS
    s1 = s1
    s2 = s2
    o1 = o1
    Signals <- MCSignals
    Oneshots <- MCOneshots
    NS <- MCNS
    Intervals <- MCIntervals
    MaxTime <- MCMaxTime
    MaxFds <- MCMaxFds
    MaxRaise <- MCMaxRaise
    SharedSignals = FALSE
SPECIFICATION Spec
INVARIANT SetIntervalAccepted
\* An exception that escapes start() ends the loop: a stopped server has no
\* next step.
CHECK_DEADLOCK FALSE
