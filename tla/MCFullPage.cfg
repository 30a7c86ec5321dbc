SPECIFICATION AttesterSpec
CONSTANTS
    Rewards = {1, 2, 3}
    Block <- MCSlots
    Place <- MCApart
    Solana = {1, 2, 3}
    Denied = {}
    Claimable = {}
    Hideable = {}
    Overrides = {}
    BatchSize = 2
    MaxRetries = 1
    PageLimit = 2
    CacheSize = 2
    MaxFaults = 0
PROPERTIES
    AllAttested
CHECK_DEADLOCK FALSE
