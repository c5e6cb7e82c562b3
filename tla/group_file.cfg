SPECIFICATION Spec
CONSTANTS
    Servers = {1, 2, 3}
    Founders = {1, 3}
    Configured = {1, 3}
    Incapable = {}
    Iterating = {}
    Ranks = {r0, r1}
    Root = r0
    Operations = {"create", "destroy", "leave", "shutdown"}
    MaxOperations = 0
    MaxChanges = 2
INVARIANTS FileCurrent
CHECK_DEADLOCK FALSE
