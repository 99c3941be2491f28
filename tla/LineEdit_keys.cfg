CONSTANTS
    Char <- Chars
    Space = "_"
    NUL = NUL
    Junk = Junk
    BufLen = 3
    LuaLines <- Added
    Completions <- Offered
    MaxLens <- Short
SPECIFICATION Spec
INVARIANT TypeOK
INVARIANT NulAfterLine
PROPERTY IsEditor
PROPERTY OnlyShownEntryChanges
