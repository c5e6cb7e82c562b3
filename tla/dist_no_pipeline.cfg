SPECIFICATION Spec
CONSTANTS
    Ranks = {r0, r1}
    Root = r0
    Servers = {s1, s2, s3, s4}
    Founders = {s1, s2}
    Configured = {s1, s2}
    Fallible = {}
    FirstIteration = 1
    LastIteration = 1
    MaxIteration = 4
    MaxPending = 2
    MaxChanges = 1
    MayLeave = FALSE
INVARIANTS CollectivesMatch
