SPECIFICATION Spec
CONSTANTS
    Names <- MCNames
    ShortNames = {}
    Paths <- MCPaths
    Values = {"x", "y"}
    NoValue = NoValue
    NoNode = NoNode
    ChannelNames = {"app"}
    Lower <- MCLower
    SysTree <- LockOnlyTree
    SysLocked <- NoneLocked
    InitFiles <- NoFiles
    Arrays = {}
    Unwritable = {}
    Unsavable = {}
    Reread <- MCReread
    DiskFails = FALSE
    WriteTimeout = 1
    NoFile = NoFile
    NotLoaded = NotLoaded
INVARIANTS
    LocksStay
