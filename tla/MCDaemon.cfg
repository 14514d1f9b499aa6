SPECIFICATION DaemonSpec
CONSTANTS
    Names <- MCNames
    ShortNames = {}
    Paths <- MCPaths
    Values = {"x", "y", "float", "word"}
    NoValue = NoValue
    NoNode = NoNode
    ChannelNames = {"app"}
    Lower <- MCLower
    SysTree <- MCSysTree
    SysLocked <- MCUnlocked
    InitFiles <- MCInitFiles
    Arrays = {"y"}
    Unwritable = {"word"}
    Unsavable = {}
    Reread <- MCReread
    DiskFails = FALSE
    WriteTimeout = 2
    NoFile = NoFile
    NotLoaded = NotLoaded
    Unsendable = {"float"}
    MaxIdles = 3
INVARIANTS
    EveryChangeAnnounced
PROPERTIES
    SubscribersLearn
