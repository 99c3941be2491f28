CONSTANTS
    Size <- TagSizes
    Foreign = {9}
    PtWords = 16
    MaxTags = 2
    Answer = {5, 0}
    MaxOther = 1
SPECIFICATION TagSpec
INVARIANT AbsentTagIsNotFound
