SPECIFICATION Spec
CONSTANTS
    Ops = {1, 2}
    Workers = {w1, w2}
    NoOwner = NoOwner
    NoOp = NoOp
    Retention = 2
    MaxTime = 1
    MaxFaults = 1
SYMMETRY Symmetry
INVARIANTS
    InactiveRepoHasNoSession
    PurgedIsGone
    EndedOperationFreesFence
PROPERTIES
    RemovalUnderFence
CHECK_DEADLOCK FALSE
