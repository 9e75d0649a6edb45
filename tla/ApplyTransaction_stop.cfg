SPECIFICATION Spec
CONSTANTS
    nfq = nfq
    sing = sing
    gate = gate
    none = none
    basic = basic
    other = other
    mixed = mixed
    stop = stop
    lan = lan
    NoPlan = none
    Gate = gate
    Plans = {basic, mixed, stop}
    Adapters = {nfq, sing}
    AdaptersOf <- MixedAdapters
    NeedsProof <- MixedProof
    LanPlans = {}
    Reviewable = {nfq, sing}
    MaxFaults = 1
    MaxCrashes = 2
INVARIANTS
    StoppedSafeModeIsClearable
CHECK_DEADLOCK FALSE
