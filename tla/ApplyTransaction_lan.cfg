SPECIFICATION FairSpec
CONSTANTS
    nfq = nfq
    sing = sing
    gate = gate
    none = none
    basic = basic
    other = other
    mixed = mixed
    stop = stop
    lan = lan
    NoPlan = none
    Gate = gate
    Plans = {basic, lan}
    Adapters = {nfq, gate}
    AdaptersOf <- LanAdapters
    NeedsProof <- LanProof
    LanPlans = {lan}
    Reviewable = {nfq}
    MaxFaults = 2
    MaxCrashes = 2
INVARIANTS
    GateCoversConsumers
PROPERTIES
    EveryOperationEnds
CHECK_DEADLOCK FALSE
