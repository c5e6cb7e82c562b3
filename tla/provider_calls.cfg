SPECIFICATION Spec
CONSTANTS
    Names = {p}
    Handlers = {h1, h2}
    Leavers = {l1}
    Ops <- AllOps
    MaxGeneration = 2
    MaxIteration = 2
    MaxCount = 2
    Synchronous = TRUE
    NoObject = NoObject
    NoHandler = NoHandler
    NoRequest = NoRequest
SYMMETRY HandlerSymmetry
INVARIANTS CallsInsideIteration NoStrandedData StartedMeansActive
PROPERTIES AtomicSpec
