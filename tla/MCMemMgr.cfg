SPECIFICATION Spec
CONSTANTS
    HeaderSize = 8
    Pool = 6
    MIN_POOL_ALLOC_QUANTAS = 2
    base <- BaseBelow
    NULL = NULL
    WordQuantas = 536870912
    Requests = {0, 8, 9}
INVARIANTS TypeOK Disjoint NothingLost
PROPERTIES Returns KeepsPromise
