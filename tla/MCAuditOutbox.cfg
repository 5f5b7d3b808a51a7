CONSTANTS
    Deliverers = {d1, d2}
    LastEvent = 3
    Limit = 2
    MaxAttempts = 2
    MaxFaults = 1
SPECIFICATION Spec
INVARIANTS DeliveredWasAccepted PostsWithinAttempts
PROPERTIES Settles
