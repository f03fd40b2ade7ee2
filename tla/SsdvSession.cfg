SPECIFICATION SessionSpec
CONSTANTS
    Images = {a, b}
    LastId = 2
    Contents = {x}
    MaxJump = 1
    MaxFrames = 3
    MaxFaults = 1
SYMMETRY Symmetry
INVARIANTS
    BinFileCurrent
PROPERTIES
    NewImageJustified
    VerifiedStays
    ReplacedImageSaved
