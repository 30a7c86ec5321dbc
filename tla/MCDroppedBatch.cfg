SPECIFICATION AttesterSpec
CONSTANTS
    Rewards = {1, 2, 3}
    Block <- MCApart
    Place <- MCApart
    Solana = {}
    Denied = {}
    Claimable = {}
    Hideable = {}
    Overrides = {}
    BatchSize = 1
    MaxRetries = 1
    PageLimit = 3
    CacheSize = 3
    MaxFaults = 1
INVARIANTS
    BatchesSettled
CHECK_DEADLOCK FALSE
