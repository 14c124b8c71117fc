\* Divisions of up to eighteen units by up to five of work each; texts of five
\* characters; targets below 32.  Window of two, retention of three windows, a duplicate map of one entry.
CONSTANTS
    Address <- Addresses
    FeeBase = 7
    FeeBPS = 1
    Miner <- Miners
    Hash <- Solutions
    OwnerOf <- Owners
    AddressOf <- AddressesOf
    WorkOf <- Works
    ParentOf <- Parents
    BlockHash <- Blocks
    Reward = 9
    NoHash = 0
    WindowWork = 2
    RetentionFactor = 3
    MaxSubmissions = 1
    MaxParent = 3
    MaxWork = 5
    MaxReward = 18
    Base = 3
    MaxText = 5
    MaxAtomic = 250
    MaxDecimals = 3
    HashSpace = 32
    One = 9
    Precision = 4
SPECIFICATION SpecAll
INVARIANTS
    CreditedOnce
    FrozenAtCutoff
    RetainsEnough
    SumsToCredit
    DivisionIsFair
    AmountsAreExact
    NoWorkIsRefused
    SolvedIsHashed
