SPECIFICATION Spec
CONSTANTS
    Names <- MCNames
    ShortNames = {}
    Paths <- MCPaths
    Values = {"1.0", "1.00000001", "word", "words"}
    NoValue = NoValue
    NoNode = NoNode
    ChannelNames = {"app"}
    Lower <- MCLower
    SysTree <- MCSysTree
    SysLocked <- MCUnlocked
    InitFiles <- MCInitFiles
    Arrays = {"words"}
    Unwritable = {"word"}
    Unsavable = {"words"}
    Reread <- MCReread
    DiskFails = FALSE
    WriteTimeout = 2
    NoFile = NoFile
    NotLoaded = NotLoaded
INVARIANTS
    TypeOK
    LockedHoldsNoUserValue
    CleanIsSaved
    LockedReadsSystem
    RepliesAgree
PROPERTIES
    ResetChangesOne
    ImplementsStore
