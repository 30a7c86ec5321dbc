SPECIFICATION AttesterSpec
CONSTANTS
    Rewards = {1, 2, 3, 4}
    Block <- MCThree
    Place <- MCOrder
    Solana = {}
    Denied = {1}
    Claimable = {3}
    Hideable = {}
    Overrides = {0}
    BatchSize = 2
    MaxRetries = 2
    PageLimit = 3
    CacheSize = 2
    MaxFaults = 1
PROPERTIES
    AllAttested
CHECK_DEADLOCK FALSE
