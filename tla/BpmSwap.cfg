SPECIFICATION Spec
CONSTANTS
    DivRange = 4
    Divs = {0, 2}
    DeswapDelay = 1
    RfDelay = 2
INVARIANTS TypeOK CountBounded DeswapExact
