SPECIFICATION AttesterSpec
CONSTANTS
    Rewards = {1, 2, 3, 4}
    Block <- MCOneBlock
    Place <- MCOrder
    Solana = {}
    Denied = {}
    Claimable = {}
    Hideable = {}
    Overrides = {}
    BatchSize = 2
    MaxRetries = 1
    PageLimit = 4
    CacheSize = 4
    MaxFaults = 1
INVARIANTS
    OnlyFailuresPassed
CHECK_DEADLOCK FALSE
