\* The same service without anything that goes wrong but a plan that is not ready.
CONSTANTS
    n1 = n1
    n2 = n2
    None = None
    w1 = w1
    w2 = w2
    Nodes = {n1, n2}
    Networks = {w1, w2}
    Limit = 1
    Hour = 2
    Gap = 1
    Cooldown = 2
    Interval = 1
    Retry = 1
    Checks = 2
    Kept = 4
    MaxTime = 3
    MaxFaults = 0
    MaxCrashes = 0
    MaxRequests = 0
    MaxEpoch = 0
SPECIFICATION Spec
SYMMETRY Symmetry
INVARIANT UnstartedApplicationIsRepeated
CHECK_DEADLOCK FALSE
