SPECIFICATION SaveSpec
CONSTANTS
    Names <- MCNames
    ShortNames = {}
    Paths <- MCPaths
    Values <- MCValues
    NoValue = NoValue
    NoNode = NoNode
    Whole = Whole
    Double = Double
    Int16 = Int16
    Scalars = {Whole, Double, Int16}
    Zero = Whole
    BadType = BadType
    Unparsable = Unparsable
    NoList = NoList
    NoArray = NoArray
    User = "me"
    Members <- MCMembers
    LockLists <- MCLists
    SystemFiles = 2
    MaxElements = 6
    MaxArray = 2
    Unwritable = {Int16}
    Rewritten <- MCRewritten
INVARIANTS
    TypeOK
    UserFileRespectsAdmin
    LockedChannelLocksAll
    ListIsOpenArray
    SavedFileReadsBack
CHECK_DEADLOCK FALSE
