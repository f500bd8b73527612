SPECIFICATION Spec
CONSTANTS
    FirstVersion <- MCFirstVersion
    MaxPart = 1
    MaxPulls = 3
    MaxReruns = 1
INVARIANTS
    TypeOK
    GreenRunReleased
PROPERTIES
    LatestFollowsGroup
    EveryRunEnds
