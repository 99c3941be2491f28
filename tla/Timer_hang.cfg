CONSTANTS
    Modulus = 12
    MaxGap = 3
    Usecs <- Delays
    Cap = 10
SPECIFICATION TimerFairSpec
PROPERTY DelayEnds
