CONSTANTS
    Volumes <- TwoVolumes
    Sector = 2
    Super = 4
    PtrSize = 2
    Direct = 2
    Word = 512
SPECIFICATION Ext2Spec
INVARIANT FileReadFromItsBlocks
