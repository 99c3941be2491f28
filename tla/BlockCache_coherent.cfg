CONSTANTS
    NumBlocks = 4
    Value = {a, b}
    Junk = junk
    MaxRun = 2
    Faults <- ReadFaults
    CacheBlocks = 3
    NoBlock = 9
    MultiRead = TRUE
    ErrorCount = 2
SPECIFICATION FairSpec
INVARIANT Coherent
PROPERTY IsDevice
PROPERTY RequestEnds
