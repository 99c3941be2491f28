CONSTANTS
    BlockSize = 2
    NumBlocks = 3
    Word = 64
    Byte <- Bytes
    Junk = 99
    Contents <- OneFile
    Payloads <- OnePayload
    MaxBytes = 5
    MaxCalls = 3
    Faults <- AllFaults
SPECIFICATION FairSpec
INVARIANT ReadReturnsFile
INVARIANT WriteStoresAll
INVARIANT WriteStaysInRange
INVARIANT AppendKeepsContents
INVARIANT PositionInFile
PROPERTY CallEnds
