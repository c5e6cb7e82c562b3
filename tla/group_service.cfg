SPECIFICATION FairSpec
CONSTANTS
    Servers = {1, 2, 3}
    Founders = {1, 2}
    Configured = {1, 2}
    Incapable = {3}
    Iterating = {2}
    Ranks = {r0, r1}
    Root = r0
    Operations = {"create", "destroy", "leave", "shutdown"}
    MaxOperations = 1
    MaxChanges = 2
INVARIANTS TypeOK AdminReports HandlesAgree CheckedHandle
CHECK_DEADLOCK FALSE
PROPERTIES ConstructionEnds
