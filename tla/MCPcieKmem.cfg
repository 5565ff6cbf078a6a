SPECIFICATION Spec
CONSTANTS
    t1 = t1
    t2 = t2
    p1 = p1
    None = None
    Threads <- TwoThreads
    Processes <- OneProcess
    ProcessOf <- BothInOne
    Addrs = {a1, a2}
    Bars = {0, 1}
    MaxAllocs = 3
INVARIANTS TypeOK BarMapped NoLeak DistinctAreas FreeFindsEntry
CHECK_DEADLOCK FALSE
