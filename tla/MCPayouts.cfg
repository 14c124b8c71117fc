\* Two addresses, two blocks, two batches, one output a batch, PQ Day, a crash.
CONSTANTS
    b1 = b1
    b2 = b2
    Address <- Addresses
    Block <- Blocks
    Award <- Awards
    MaxUnit = 2
    Minimum <- MinimumBoth
    PayoutFee <- FeeBoth
    MaxOutputs = 1
    ActiveLimit = 1
    MaxPayouts = 2
    MaxCrashes = 1
    NoRequest = NoRequest
SPECIFICATION Spec
INVARIANTS
    TypeOK
    NeverOverReserved
    PaidWithinCredit
    AtMostOneActive
    BooksFollowNode
    ReserveCoversFees
PROPERTIES
    BatchIsFrozen
    AccountSpec
