\* Two candidates, one visited per pass, a chain of five blocks, finality after
\* two.
CONSTANTS
    b1 = b1
    b2 = b2
    Block <- TwoBlocks
    MaturityBlocks = 2
    OrphanDepth = 2
    PendingLimit = 1
    MaxReorg = 2
    MaxLag = 1
    MaxHeight = 5
    MaxCrashes = 1
    NoObs = NoObs
SPECIFICATION FairSpec
INVARIANTS
    TypeOK
    MatureIsCanonical
    OrphanIsOffChain
    AccountedBeforeSubmitted
PROPERTIES
    SettledForGood
    EveryBlockSettles
