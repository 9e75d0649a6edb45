\* Two goroutines, two callbacks, three admissions.
SPECIFICATION FairSpec
CONSTANTS
    Ops = {o1, o2}
    Uses = {u1, u2}
    MaxGeneration = 3
INVARIANTS
    LeaseExclusion
    CallbackUnderLease
    ObservationIsFresh
PROPERTIES
    CloseCompletes
