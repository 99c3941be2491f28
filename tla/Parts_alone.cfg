CONSTANTS
    Modulus = 12
    MaxGap = 3
    Usecs <- Delays
    Cap = 10
    Volumes <- TwoVolumes
    Sector = 2
    Super = 4
    PtrSize = 2
    Direct = 2
    Word = 512
    MaxHandles = 5
    Struct = {s1, s2, s3}
    CardFile = {"f", "g"}
    FileLen <- Lengths
    NULL = NULL
    MaxCount = 2
    ReadsFail = TRUE
    HexFile <- Image
    MaxLost = 2
    MaxTransfers = 2
    Package = {"p", "q"}
    Missing = "m"
    BootFile <- BootFiles
    MaxDepth = 4
    MaxRequires = 2
    Size <- TagSizes
    Foreign = {9}
    PtWords = 16
    MaxTags = 2
    Answer = {5, 0}
    MaxOther = 1
    Columns = 2
    Rows = 3
    CharH = 3
    Below = 1
    Glyph = {"a", "b"}
SPECIFICATION PartsSpec
INVARIANT PartsTypeOK
INVARIANT KeepsTime
INVARIANT IndexFollowsTree
INVARIANT DirListsEntries
INVARIANT LostOnlyWhenFull
INVARIANT WholeLineIsStored
INVARIANT ImageLoaded
INVARIANT RunOnce
INVARIANT GetReturnsAnswer
INVARIANT ShowsText
PROPERTY WaitsEnd
PROPERTY TaskEnds
PROPERTY IsDescriptorTable
PROPERTY PromptComes
CHECK_DEADLOCK FALSE
