\* Two blocks, final after one, one address, two batches, a crash.
\* Locks: two connections; two goroutines at once, besides the workers of
\* templateLoop.
CONSTANTS
    b1 = b1
    b2 = b2
    Block <- Blocks
    MaturityBlocks = 1
    OrphanDepth = 1
    PendingLimit = 1
    MaxReorg = 1
    MaxLag = 1
    MaxHeight = 3
    NoObs = NoObs
    Address <- Addresses
    Award <- Awards
    MaxUnit = 1
    Minimum <- MinimumOne
    PayoutFee <- FeeOne
    MaxOutputs = 1
    ActiveLimit = 1
    MaxPayouts = 2
    NoRequest = NoRequest
    MaxCrashes = 1
    Conn = {c1, c2}
    MaxActive = 2
SPECIFICATION FairSpecAll
INVARIANTS
    WaitsEnd
    PaidFromSelectedChain
PROPERTIES
    EarningsArrive
    PayoutSpec
