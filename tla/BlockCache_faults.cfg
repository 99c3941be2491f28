CONSTANTS
    NumBlocks = 4
    Value = {a, b}
    Junk = junk
    MaxRun = 2
    Faults <- AllFaults
    CacheBlocks = 3
    NoBlock = 9
    MultiRead = FALSE
    ErrorCount = 2
SPECIFICATION Spec
INVARIANT StaleOnlyAfterFailedWrite
