SPECIFICATION LiveSpec
CONSTANTS
    MaxPending = 3
    MaxPerTick = 2
    MaxFrames = 7
    MaxInbox = 3
    Sends = {"sent", "failed", "lost"}
INVARIANTS
    NothingMiscounted
    ReconnectScheduled
PROPERTIES
    NoFrameWaitsForever
