SPECIFICATION Spec
CONSTANTS
    Names = {p}
    Handlers = {h1, h2}
    Leavers = {l1}
    Ops <- AllOps
    MaxGeneration = 2
    MaxIteration = 1
    MaxCount = 2
    Synchronous = TRUE
    NoObject = NoObject
    NoHandler = NoHandler
    NoRequest = NoRequest
INVARIANTS ActiveRegistered
