SPECIFICATION Spec
CONSTANTS
    Ops = {1, 2}
    Workers = {w1, w2}
    NoOwner = NoOwner
    NoOp = NoOp
    Retention = 2
    MaxTime = 1
    MaxFaults = 1
SYMMETRY Symmetry
INVARIANT RepoInUseHasStorage
CHECK_DEADLOCK FALSE
