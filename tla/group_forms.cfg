SPECIFICATION FairSpec
CONSTANTS
    Servers = {s1, s2, s3}
    Founders = {s1, s2}
    Serving = {s1, s2, s3}
    Hosts = {s1}
    MayLeave = TRUE
    MaxChanges = 1
INVARIANTS TypeOK HashIsView EveryMemberKnown NoWaitCycle
PROPERTIES GroupForms
