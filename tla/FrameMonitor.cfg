SPECIFICATION MonitorFairSpec
CONSTANTS
    Handlers = {h1}
    Keys = {k1, k2}
    Variants = {good, bad}
    Window = 2
    Arbitration = 1
    MaxTime = 4
    MaxMessages = 3
INVARIANTS
    CopiesSuppressed
    SuccessWins
    BestCandidateWaits
PROPERTIES
    CandidatesLeave
