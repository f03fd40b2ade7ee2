SPECIFICATION FairSpec
CONSTANTS
    MaxPending = 3
    MaxInFlight = 2
    MaxAttempts = 3
    MaxDelay = 3
    Second = 1
    IntSize = 8
    Statuses = {0, 404}
    RetryAfters = {2, 5}
    MaxFrames = 5
INVARIANTS
    RetryNeverDropped
    EachFrameOnce
    BackoffHonoured
PROPERTIES
    EveryFrameResolved
