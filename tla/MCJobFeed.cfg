\* One connection with all of its threads, a moving tip and an outage that
\* ends or lasts.
CONSTANTS
    c1 = c1
    Client <- One
    Difficulty <- OneDifficulty
    InitialDifficulty = 1
    ParentOf <- Tips
    MaxRememberedJobs = 2
    MaxEvents = 2
SPECIFICATION FairSpec
\* With every miner gone and the node silent the server waits in its long poll.
CHECK_DEADLOCK FALSE
INVARIANTS
    TypeOK
    SentJobsAreKnown
    NeverAheadOfPool
PROPERTIES
    AuthorizedGetsWork
    OutageStopsWork
