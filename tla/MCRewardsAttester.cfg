SPECIFICATION AttesterSpec
CONSTANTS
    Rewards = {1, 2, 3, 4}
    Block <- MCBlock
    Place <- MCBlock
    Solana = {4}
    Denied = {}
    Claimable = {2}
    Hideable = {1}
    Overrides = {0, 1}
    BatchSize = 2
    MaxRetries = 2
    PageLimit = 2
    CacheSize = 2
    MaxFaults = 1
INVARIANTS
    NothingPassedOver
PROPERTIES
    AllAttested
CHECK_DEADLOCK FALSE
