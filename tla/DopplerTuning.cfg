SPECIFICATION FairSpec
CONSTANTS
    Targets = {20, 22}
    Offset = 10
    Recenter = 2
    Elsewhere = 90
INVARIANT SourceInStep
PROPERTIES TargetIsARecord CenterFollows Reconnects
CONSTRAINT Apart
