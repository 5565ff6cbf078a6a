----------------------------- MODULE MCPcieUmem -----------------------------
EXTENDS PcieUmem, TLC

CONSTANTS t1, t2, o1, o2

MCThreads == {t1, t2}
MCObjs    == {o1, o2}

\* Pages of four bytes; the frames of pages 0 and 1 follow each other.
MCPages == 0 .. 2
MCFrame == [p \in MCPages |-> IF p < 2 THEN 4 + p ELSE 1]

\* A buffer that straddles as many pages as its size allows, and one on its
\* middle page.
MCBufs == {[vma |-> 3, size |-> 6], [vma |-> 6, size |-> 1]}

Symmetric == Permutations(MCThreads) \cup Permutations(MCObjs)
=============================================================================
