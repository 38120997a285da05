------------------------------ MODULE MCLogger -------------------------------
EXTENDS Logger

CONSTANTS t1, t2

MCThreads == {t1, t2}
MCOneThread == {t1}
====
