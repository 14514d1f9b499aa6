SPECIFICATION Spec
CONSTANTS
    Names <- MCNames
    ShortNames = {}
    Paths <- OnePath
    Values = {"1.0", "1.00000001", "word", "words"}
    NoValue = NoValue
    NoNode = NoNode
    ChannelNames = {"app", "panel"}
    Lower <- MCLower
    SysTree <- MCSysTree
    SysLocked <- MCUnlocked
    InitFiles <- MCInitFiles
    Arrays = {"1.0", "words"}
    Unwritable = {"word"}
    Unsavable = {"words"}
    Reread <- MCReread
    DiskFails = TRUE
    WriteTimeout = 2
    NoFile = NoFile
    NotLoaded = NotLoaded
INVARIANTS
    DirtyIsScheduled
PROPERTIES
    ImplementsStore
    ChangesGetSaved
