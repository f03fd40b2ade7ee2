SPECIFICATION FairSpec
CONSTANTS
    MaxQueuedFrames = 2
    MaxFrames = 3
    MaxClears = 2
    Decodes = {TRUE, FALSE}
    Saves = {TRUE, FALSE}
    MaxFaults = 1
INVARIANTS
    ClearedImageNeverShown
    FramesAccounted
PROPERTIES
    FinishReturns
    PreviewCatchesUp
