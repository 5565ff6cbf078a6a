SPECIFICATION MonSpec
CONSTANTS
    Half = 4
    AdderLatency = 2
    MinGap = 3
    Chans <- MCChans
    Ctrls <- OnCtrls
    Limits <- MCLimits
    Samples <- MCSamples
INVARIANT SmallSumNeverTrips
