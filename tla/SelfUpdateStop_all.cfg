\* Two processes stop two transactions; writes fail, a process dies, the power
\* goes once.
CONSTANTS
    Procs = {p1, p2}
    Installations = {i1, i2}
    None = None
    Requests <- TwoTransactions
    MaxFaults = 2
    MaxCrashes = 1
    MaxOutages = 1
SPECIFICATION Spec
SYMMETRY Symmetry
INVARIANTS EffectHoldsAuthority ConfirmedStopIsQuiet AcknowledgedStopStands
PROPERTIES AuthorityNeverResets
