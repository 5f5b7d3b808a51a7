SPECIFICATION Spec
CONSTANTS
    lib = lib
    new = new
    none = none
    Requests <- MCRequests
    Handlers = {h1, h2}
    Repos0 = {lib}
    Workers = {w1, w2}
    NoOwner = NoOwner
    NoRequest = NoRequest
    MaxOps = 2
    MaxClock = 2
    Limit = 1
    Enabled = {"save_point_create", "repo_archive"}
    MaxFaults = 1
INVARIANTS
    OneOperationPerKey
    ExclusiveUse
PROPERTIES
    QueuedIsTaken
    AuditDelivered
