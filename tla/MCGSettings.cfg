SPECIFICATION GSettingsSpec
CONSTANTS
    P = P
    Q = Q
    R = R
    Host = "a"
    Clients = {"a"}
    Props = {P, Q, R}
    Values = {"x", "y"}
    None = None
    Root = Root
    Subtree <- EachItself
    Default <- QHasDefault
    Locked = {Q}
    Unsendable = {}
    Strays = {}
    MaxInFlight = 2
    Subscriptions = {"/app/"}
    Prefixed <- MCPrefixed
    Rejected = {R}
    Tags = {"tag"}
    Trees <- MCTrees
    KeyOrder <- MCKeyOrder
    NoTag = NoTag
    Told = Told
    Unheard = Unheard
INVARIANTS
    ListenersKnow
PROPERTIES
    TreesAreWhole
    ListenersLearn
CHECK_DEADLOCK FALSE
