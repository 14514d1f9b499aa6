SPECIFICATION BindingSpec
CONSTANTS
    P = P
    Q = Q
    R = R
    N = N
    M = M
    L = L
    Host = "a"
    Clients = {"a"}
    Props = {P, Q, R}
    Values = {"x", "y", "u"}
    None = None
    Root = Root
    Subtree <- EachItself
    Default <- QHasDefault
    Locked = {Q}
    Unsendable = {}
    Strays = {}
    MaxInFlight = 2
    Names = {N, M, L}
    RealProp <- Below
    ChannelName <- Announcing
    Objects = {"first", "second", "third"}
    BoundTo <- MCBoundTo
    ObjectDefault <- MCObjectDefault
    Unconvertible = {"u"}
    Users = {app, plugin}
    Shared = {P, Q, R}
INVARIANT BindingsFollow
SYMMETRY UserSymmetry
CHECK_DEADLOCK FALSE
