SPECIFICATION Spec
CONSTANTS
    Sessions = {s1}
    Requests = {r1, r2}
    NoSession = NoSession
    SessionTTL = 1
    HeartbeatTTL = 1
    LastTraffic = 0
    MaxNow = 2
    Workers = {w1}
    NoOwner = NoOwner
    MaxStop = 1
    MaxStall = 0
INVARIANTS
    WriterDuringRestoreHasCause
    CountsMatchLedger
    TerminalIsQuiet
    DrainedMeansNoWrite
PROPERTIES
    RevocationCompletes
    RestoreSettles
CHECK_DEADLOCK FALSE
