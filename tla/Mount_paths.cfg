CONSTANTS
    Cards <- TwoCards
    NoCard = NoCard
    DeviceName <- PartitionNames
    Dirs <- Folders
    Files <- Plain
    Paths <- AnyPath
    MaxDevNames = 4
    MaxInits = 2
SPECIFICATION Spec
INVARIANT TypeOK
INVARIANT OpenFindsFile
INVARIANT MountsAll
