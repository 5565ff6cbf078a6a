SPECIFICATION Spec
CONSTANTS
    Waiters = {w1, w2, w3}
    Sources = {0, 1}
INVARIANTS TypeOK CounterBalanced NoReturnByWaiters
