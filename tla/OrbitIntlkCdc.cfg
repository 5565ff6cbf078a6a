SPECIFICATION FairSpec
CONSTANTS
    BPMs = {DS, US}
    Chans = {X, Y}
    Chan0 = X
    Size = 4
    Drift = 2
    MaxWrites = 8
INVARIANTS TypeOK PairAligned ChannelLag
PROPERTIES PairEventuallyRead FreshPair NoBurst
CHECK_DEADLOCK FALSE
