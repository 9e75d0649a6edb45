CONSTANTS
    k1 = k1
    k2 = k2
    c1 = c1
    c2 = c2
    None = None
    MaxId = 2
    Keys = {k1, k2}
    Clients = {c1, c2}
    Kinds = {"stop", "resume", "apply", "check", "list"}
    MaxAttempts = 2
    MaxAliases = 1
    MaxJobs = 3
    MaxPending = 3
    MaxFaults = 1
    MaxRestarts = 1
    MaxEdits = 1
SPECIFICATION FairSpec

PROPERTIES CancelIsHonoured
CONSTRAINTS Few WithStop InOrder
CHECK_DEADLOCK FALSE
