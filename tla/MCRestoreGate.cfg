SPECIFICATION Spec
CONSTANTS
    Sessions = {s1}
    Requests = {r1}
    NoSession = NoSession
    SessionTTL = 1
    HeartbeatTTL = 2
    LastTraffic = 1
    MaxNow = 3
    Workers = {w1, w2}
    NoOwner = NoOwner
    MaxStop = 1
    MaxStall = 1
INVARIANTS
    WriterDuringRestoreHasCause
    FenceFollowsOperation
CHECK_DEADLOCK FALSE
