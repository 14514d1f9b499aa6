SPECIFICATION BindingSpec
CONSTANTS
    P = P
    Q = Q
    R = R
    N = N
    M = M
    L = L
    Host = "a"
    Clients = {"a"}
    Props = {P, Q, R}
    Values = {"x", "y", "u"}
    None = None
    Root = Root
    Subtree <- EachItself
    Default <- QHasDefault
    Locked = {Q}
    Unsendable = {"u"}
    Strays = {"a"}
    MaxInFlight = 2
    Names = {N, M, L}
    RealProp <- Below
    ChannelName <- Announcing
    Objects = {"first", "second", "twin"}
    BoundTo <- MCBoundTo
    ObjectDefault <- MCObjectDefault
    Unconvertible = {"u"}
    Users = {app, plugin}
    Shared = {R}
INVARIANTS
    BindingsWhole
    LibraryServesUsers
    BoundObjectsAgree
SYMMETRY UserSymmetry
CHECK_DEADLOCK FALSE
