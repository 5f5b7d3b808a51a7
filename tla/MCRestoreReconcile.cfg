\* Two targets, the second with an id the evidence filter refuses, and two
\* workers whose passes overlap.
SPECIFICATION Spec
CONSTANTS
    LastRepo = 2
    Workers = {w1, w2}
    Sensitive = {2}
    MaxLifecycle = 1
    MaxStop = 1
INVARIANTS
    PurgedTargetBlocks
    CompletionIsTrue
    BlockIsExplained
PROPERTIES
    RunSettles
CHECK_DEADLOCK FALSE
