SPECIFICATION Spec
CONSTANTS
    nfq = nfq
    sing = sing
    gate = gate
    none = none
    basic = basic
    other = other
    mixed = mixed
    stop = stop
    lan = lan
    NoPlan = none
    Gate = gate
    Plans = {basic, other, stop}
    Adapters = {nfq, sing}
    AdaptersOf <- SharedAdapters
    NeedsProof <- SharedProof
    LanPlans = {}
    Reviewable = {nfq, sing}
    MaxFaults = 2
    MaxCrashes = 2
INVARIANTS
    SettledJournalNamesTheRuntime
    AppliedMatchesCommitted
    OpenGateHasSettledJournal
    CommittedJournalIsBootable
PROPERTIES
    RolledBackRestoresEverything
CHECK_DEADLOCK FALSE
