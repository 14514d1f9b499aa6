SPECIFICATION Spec
CONSTANTS
    P = P
    Q = Q
    Clients = {"a", "b"}
    Props = {P, Q}
    Values = {"x", "y"}
    None = None
    Root = Root
    Subtree <- NestedSubtree
    Default <- DefaultOfQ
    Locked = {Q}
    Unsendable = {}
    Strays = {"b"}
    MaxInFlight = 2
INVARIANTS
    TypeOK
    Coherent
    MutedOnlyWhileCalling
    NoUseAfterFinalize
    CallsAccounted
PROPERTIES
    EventuallyCoherent
CHECK_DEADLOCK FALSE
