SPECIFICATION Spec
CONSTANTS
    Sessions = {s1}
    Requests = {r1}
    NoSession = NoSession
    SessionTTL = 1
    HeartbeatTTL = 2
    LastTraffic = 0
    MaxNow = 0
    Workers = {w1, w2}
    NoOwner = NoOwner
    MaxStop = 1
    MaxStall = 1
INVARIANT
    NoWriterDuringRestore
CHECK_DEADLOCK FALSE
