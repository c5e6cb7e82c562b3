SPECIFICATION Spec
CONSTANTS
    Threads = {t1, t2}
    Handles = {x, y}
    Servers = {s1, s2}
    b = b
    Blocks = {b}
    Dimensions <- Shapes
    ElementSize <- Sizes
    SizeBound = 13
    MaxRequests = 2
    MaxIteration = 1
    Values = {0, 1}
    NoRequest = NoRequest
    NoValue = NoValue
SYMMETRY Symmetry
INVARIANTS TypeOK OwnedWhileInFlight FailuresSurface   StoredWhole
