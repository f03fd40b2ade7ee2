SPECIFICATION RecorderLiveSpec
CONSTANTS
    MaxQueued = 3
    MaxSegment = 2
    MaxWork = 4
    MaxTaken = 9
    FilesFail = TRUE
INVARIANTS
    RecordingFaithful
PROPERTIES
    WriterWakes
