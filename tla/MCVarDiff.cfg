\* A window of two share targets, a burst of two shares within a tick, a cap
\* below the largest difficulty.
CONSTANTS
    ShareTarget = 2
    VardiffInterval = 4
    FastWindow = 1
    FastShares = 2
    MinimumDifficulty = 2
    MaximumDifficulty = 12
    NetworkDifficulty = 9
    Requested <- RequestedSet
    Rates <- RateSet
    MaxShares = 4
    MaxAge = 8
    MaxChanges = 2
SPECIFICATION FairSpec
INVARIANTS
    TypeOK
    WindowMatches
PROPERTIES
    StepsAreBounded
    Settles
