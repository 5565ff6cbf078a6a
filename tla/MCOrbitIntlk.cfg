SPECIFICATION MonSpec
CONSTANTS
    Half = 4
    AdderLatency = 2
    MinGap = 3
    Chans <- MCChans
    Ctrls <- MCCtrls
    Limits <- MCLimits
    Samples <- MCSamples
INVARIANTS TypeOK VerdictExact TripWithinDeadline TripHasCause LatchCoversLevel
