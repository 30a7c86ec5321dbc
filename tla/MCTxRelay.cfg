SPECIFICATION FairRelaySpec
CONSTANTS
    Requests = {r1, r2, r3}
    Workers = {k1, k2}
    Wallets = {w1}
    Payloads = {p1, p2}
    Payload <- MCPayload
    Serving <- MCServing
    Reconfigurations = {p2}
    ReconfigurationLimit = 1
    NoWallet = NoWallet
    NoReceipt = NoReceipt
    MaxFaults = 1
    MaxCrashes = 1
    MaxRestarts = 1
    MaxTrouble = 1
    r1 = r1
    r2 = r2
    r3 = r3
    k1 = k1
    k2 = k2
    p1 = p1
    p2 = p2
    w1 = w1
    w2 = w2
INVARIANTS
    WalletExclusive
    NoDisplacement
    AnswerRecorded
PROPERTIES
    RequestEnds
CHECK_DEADLOCK FALSE
