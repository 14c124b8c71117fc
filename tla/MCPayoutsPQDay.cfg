\* One batch in flight while PQ Day changes the unit.
CONSTANTS
    b1 = b1
    b2 = b2
    Address <- Addresses
    Block <- Blocks
    Award <- EvenAward
    MaxUnit = 2
    Minimum <- MinimumBoth
    PayoutFee <- FeeBoth
    MaxOutputs = 2
    ActiveLimit = 1
    MaxPayouts = 1
    MaxCrashes = 0
    NoRequest = NoRequest
SPECIFICATION FairSpec
PROPERTY EveryBatchConfirms
