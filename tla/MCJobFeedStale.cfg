\* A template checked before the tip moved and set after it.
CONSTANTS
    c1 = c1
    Client <- One
    Difficulty <- OneDifficulty
    InitialDifficulty = 1
    ParentOf <- Tips
    MaxRememberedJobs = 2
    MaxEvents = 1
SPECIFICATION FairSpec
\* With every miner gone and the node silent the server waits in its long poll.
CHECK_DEADLOCK FALSE
PROPERTIES
    WorkIsCurrent
