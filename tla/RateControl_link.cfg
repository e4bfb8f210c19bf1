\* Delays in ticks: 250 ms, 1 s, 1.5 s and 4 s in their order.
SPECIFICATION RateSpec
CONSTANTS
    FullRate = 4
    FrameDelay = 1
    Second = 2
    Stall = 3
    RaiseAfter = 4
    LossPer = 2
    MinSample = 2
    MaxOut = 3
PROPERTIES BacksOff Recovers CutHasCauseOrCapture
