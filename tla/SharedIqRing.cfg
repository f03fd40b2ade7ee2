SPECIFICATION FairSpec
CONSTANTS
    Capacity = 3
    MaximumLatency = 2
    MaxOutput = 2
    MaxBlock = 4
    MaxIndex = 6
INVARIANTS
    PositionExplained
PROPERTIES
    TornOnlyByUnpublished
    ImplementsStream
    CatchesUp
