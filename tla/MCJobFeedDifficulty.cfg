\* Two threads publish jobs of different difficulties.
CONSTANTS
    c1 = c1
    Client <- One
    Difficulty <- Difficulties
    InitialDifficulty = 1
    ParentOf <- Tips
    MaxRememberedJobs = 2
    MaxEvents = 2
SPECIFICATION Spec
\* With every miner gone and the node silent the server waits in its long poll.
CHECK_DEADLOCK FALSE
INVARIANTS
    DifficultyIsKnown
