SPECIFICATION FairSpec
CONSTANTS
    Names = {p, q}
    Handlers = {h1, h2}
    Leavers = {l1}
    Ops <- CountingOps
    MaxGeneration = 1
    MaxIteration = 1
    MaxCount = 2
    Synchronous = TRUE
    NoObject = NoObject
    NoHandler = NoHandler
    NoRequest = NoRequest
INVARIANTS TypeOK CountExact NoLostWakeup
PROPERTIES LeaveOnlyWhenIdle GuardSpec InactiveLeave
