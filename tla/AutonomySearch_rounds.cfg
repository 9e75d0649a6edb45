\* Two candidates and two networks; the clock ends after three ticks, so that the
\* window of the budget (two) passes within a run.
CONSTANTS
    n1 = n1
    n2 = n2
    None = None
    w1 = w1
    w2 = w2
    Nodes = {n1, n2}
    Networks = {w1, w2}
    Limit = 1
    Hour = 2
    Gap = 1
    Cooldown = 2
    Interval = 1
    Retry = 1
    Checks = 2
    Kept = 4
    MaxTime = 3
    MaxFaults = 1
    MaxCrashes = 1
    MaxRequests = 1
    MaxEpoch = 1
SPECIFICATION Spec
SYMMETRY Symmetry
INVARIANTS DoubtEndsTheSearch SwitchesStayWithinBudget FailureIsConfirmed RejectedCandidateCoolsDown UnrecordedRouteIsKept
CONSTRAINT Few
CHECK_DEADLOCK FALSE
