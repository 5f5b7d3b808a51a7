SPECIFICATION Spec
CONSTANTS
    Ops = {o1, o2}
    Workers = {w1, w2}
    NoOwner = NoOwner
    NoOp = NoOp
    v1 = v1
    v2 = v2
    r0 = r0
    r1 = r1
    t0 = t0
    t1 = t1
    Volumes = {v1, v2}
    Ids = {r0, r1, t0, t1}
    NoId = NoId
    Requests <- MCRequests
    NoRequest = NoRequest
    SourceRepo = r0
    SourceTemplate = t0
    MaxFaults = 1
INVARIANTS
    RowMatchesStorage
    EndedFreesFences
    OrphanHasOwner
PROPERTIES
    Settles
CHECK_DEADLOCK FALSE
