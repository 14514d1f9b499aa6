SPECIFICATION DaemonSpec
CONSTANTS
    Names <- MCNames
    ShortNames = {}
    Paths <- MCPaths
    Values = {"x", "y", "float", "word"}
    NoValue = NoValue
    NoNode = NoNode
    ChannelNames = {"app"}
    Lower <- MCLower
    SysTree <- MCSysTree
    SysLocked <- MCUnlocked
    InitFiles <- MCInitFiles
    Arrays = {"y"}
    Unwritable = {"word"}
    Unsavable = {}
    Reread <- MCReread
    DiskFails = FALSE
    WriteTimeout = 1
    NoFile = NoFile
    NotLoaded = NotLoaded
    Unsendable = {"float"}
    MaxIdles = 3
PROPERTIES
    QuitSaves
