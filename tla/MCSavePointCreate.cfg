SPECIFICATION Spec
CONSTANTS
    Ops = {o1, o2}
    Workers = {w1, w2}
    NoOwner = NoOwner
    NoOp = NoOp
    MaxStop = 1
    MaxStall = 1
INVARIANTS
    SuccessNamesOwnSave
    FailureLeavesNoHead
PROPERTIES
    Settles
CHECK_DEADLOCK FALSE
