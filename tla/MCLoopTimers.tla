---------------------------- MODULE MCLoopTimers ----------------------------
EXTENDS LoopTimers

CONSTANTS s1, s2, o1

MCSignals == {s1, s2}
MCOneshots == {o1}
\* Two clock units to a second: an interval of 1 is half a second, 2 a
\* whole second, so deadlines both with and without a nanosecond part occur.
MCNS == 2
MCIntervals == {1, 2}
MCMaxTime == 4
MCMaxFds == 2
MCMaxRaise == 1

=============================================================================
