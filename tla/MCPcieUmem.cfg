SPECIFICATION Spec
CONSTANTS
    t1 = t1
    t2 = t2
    o1 = o1
    o2 = o2
    Threads <- MCThreads
    Sysfs = Sysfs
    Objs <- MCObjs
    PAGE_SIZE = 4
    Pages <- MCPages
    Frame <- MCFrame
    Reserved = {2}
    Bufs <- MCBufs
    MaxMaps = 3
    None = None
INVARIANTS TypeOK PinnedWhileMapped QuietClean SgExact CppHasRoom
SYMMETRY Symmetric
CHECK_DEADLOCK FALSE
