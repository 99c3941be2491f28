CONSTANTS
    Cards <- AllCards
    Faulty <- Anything
    MaxFaults = 2
    MaxSwaps = 1
    None = None
SPECIFICATION FairSpec
INVARIANT RightUnit
INVARIANT FirstTryInTran
INVARIANT FailureForgetsCard
PROPERTY CallEnds
PROPERTY Recovers
