CONSTANTS
    MaxCluster = 4
    Bad = 9
    SectorsPerCluster = 2
    RootDirSectors = 4
    Word = 64
    FatTypes <- AllTypes
    Tables <- AnyTable
    MaxBlock = 3
    Faults <- AllFaults
SPECIFICATION FairSpec
INVARIANT AnswersFollowChain
INVARIANT EofIsEndOfChain
INVARIANT DirReadsItsSectors
PROPERTY WalksEnd
