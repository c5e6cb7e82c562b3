SPECIFICATION FairSpec
CONSTANTS
    Ranks = {r0, r1}
    Root = r0
    Servers = {s1, s2, s3}
    Founders = {s1, s2}
    Configured = {s1, s2, s3}
    Fallible = {s2}
    FirstIteration = 1
    LastIteration = 2
    MaxIteration = 4
    MaxPending = 2
    MaxChanges = 2
    MayLeave = TRUE
PROPERTIES AllIterationsRun
