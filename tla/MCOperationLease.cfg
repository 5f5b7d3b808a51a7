\* One operation, two workers, leases of two ticks, time for two takeovers.
CONSTANTS
    Ops = {o1}
    Workers = {w1, w2}
    NoOwner = NoOwner
    NoOp = NoOp
    LeaseDuration = 2
    MaxNow = 4
    MaxAttempt = 3
SYMMETRY Symmetry
SPECIFICATION Spec
INVARIANTS
    LeaseExclusion
    FenceIsCurrent
    AuditMatchesOutcome
PROPERTIES
    StatesSpec
CHECK_DEADLOCK FALSE
