SPECIFICATION Spec
CONSTANTS
    ServiceProviders = {sp1}
    Delegators = {d1, d2}
    NoProvider = NoProvider
    MaxBlock = 3
    InitialWallet <- MCWallet32
    FundingRoundBlockDiff = 1
    FundingAmounts = {4}
    ServiceTypes = {node}
    TypeMin <- MCTypeMin
    TypeMax <- MCTypeMax
    Endpoints = {e1}
    DeployerCutBase = 100
    Cuts = {}
    DecreaseStakeLockup = 1
    DeployerCutLockup = 2
    MaxDelegators = 2
    MinDelegationAmount = 1
    UndelegateLockup = 1
    RemoveDelegatorLockup = 1
    RemoveDelegatorEval = 2
    StakeAmounts = {3}
    DelegateAmounts = {2}
    SlashAmounts = {2}
    TransferAmounts = {}
    MinimumAmounts = {}
    Removable = {}
CONSTRAINT MCClaimBound
VIEW MCView
SYMMETRY MCSymmetry
INVARIANTS
    StakeSplit
    DelegationSums
    VaultCovers
    DelegatorsListed
    ClaimSettles
    SlashAbsorbed
    BoundsFlagCurrent
CHECK_DEADLOCK FALSE
