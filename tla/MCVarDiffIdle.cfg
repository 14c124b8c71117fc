\* As MCVarDiff, without a change of rate.
CONSTANTS
    ShareTarget = 2
    VardiffInterval = 4
    FastWindow = 1
    FastShares = 2
    MinimumDifficulty = 2
    MaximumDifficulty = 12
    NetworkDifficulty = 9
    Requested <- RequestedSet
    Rates <- RateSet
    MaxShares = 4
    MaxAge = 8
    MaxChanges = 0
SPECIFICATION FairSpec
PROPERTY IdleStepsDown
