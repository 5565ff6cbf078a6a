SPECIFICATION SyncSpec
CONSTANTS
    DivRange = 8
    Divs = {0, 2, 3, 5}
    DeswapDelay = 1
    RfDelay = 2
    Turns = 2
INVARIANT StaysInPhase
PROPERTY EvenHalves
