\* Two addresses, two blocks, one output a batch, a crash, no PQ Day.
CONSTANTS
    b1 = b1
    b2 = b2
    Address <- Addresses
    Block <- Blocks
    Award <- EvenAward
    MaxUnit = 1
    Minimum <- MinimumOne
    PayoutFee <- FeeOne
    MaxOutputs = 1
    ActiveLimit = 1
    MaxPayouts = 4
    MaxCrashes = 1
    NoRequest = NoRequest
SPECIFICATION FairSpec
PROPERTIES
    EveryBatchConfirms
    MaturedIsPaid
