CONSTANTS
    Mounts = {m1}
    Reports = {"pending", "active", "released", "revoked", "expired", "failed"}
    MaxPending = 2
SPECIFICATION Spec
INVARIANTS
    NoMountDuringExclusiveUse
    EvidenceIsHonest
PROPERTIES
    ReleaseCompletes
    ImplementsRepoSession
CHECK_DEADLOCK FALSE
