SPECIFICATION Spec
CONSTANTS
    ServiceProviders = {sp1, sp2}
    Delegators = {d1}
    NoProvider = NoProvider
    MaxBlock = 3
    InitialWallet <- MCWallet22
    FundingRoundBlockDiff = 1
    FundingAmounts = {5}
    ServiceTypes = {node}
    TypeMin <- MCTypeMin
    TypeMax <- MCTypeMax
    Endpoints = {e1, e2}
    DeployerCutBase = 100
    Cuts = {}
    DecreaseStakeLockup = 1
    DeployerCutLockup = 2
    MaxDelegators = 2
    MinDelegationAmount = 1
    UndelegateLockup = 1
    RemoveDelegatorLockup = 1
    RemoveDelegatorEval = 2
    StakeAmounts = {2}
    DelegateAmounts = {1}
    SlashAmounts = {2}
    TransferAmounts = {}
    MinimumAmounts = {}
    Removable = {}
CONSTRAINT MCClaimBound
ACTION_CONSTRAINT MCClaimsLater
VIEW MCView
SYMMETRY MCSymmetryTwo
INVARIANTS
    LockSums
    RoundWithinFunding
PROPERTIES
    ImplementsLedger
CHECK_DEADLOCK FALSE
