----------------------------- MODULE MCPcieKmem -----------------------------
EXTENDS PcieKmem

CONSTANTS t1, t2, p1

\* Two threads of one process.
TwoThreads == {t1, t2}
OneProcess == {p1}
BothInOne  == [t \in TwoThreads |-> p1]
=============================================================================
