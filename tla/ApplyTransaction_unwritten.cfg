SPECIFICATION Spec
CONSTANTS
    nfq = nfq
    sing = sing
    gate = gate
    none = none
    basic = basic
    other = other
    mixed = mixed
    stop = stop
    lan = lan
    NoPlan = none
    Gate = gate
    Plans = {basic, other}
    Adapters = {nfq}
    AdaptersOf <- RetryAdapters
    NeedsProof <- RetryProof
    LanPlans = {}
    Reviewable = {nfq}
    MaxFaults = 3
    MaxCrashes = 3
INVARIANTS
    UnfinishedRollbackIsRecorded
CHECK_DEADLOCK FALSE
