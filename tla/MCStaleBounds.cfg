SPECIFICATION Spec
CONSTANTS
    ServiceProviders = {sp1}
    Delegators = {d1}
    NoProvider = NoProvider
    MaxBlock = 4
    InitialWallet <- MCWallet32
    FundingRoundBlockDiff = 1
    FundingAmounts = {4}
    ServiceTypes = {node}
    TypeMin <- MCTypeMin
    TypeMax <- MCTypeMax
    Endpoints = {e1}
    DeployerCutBase = 100
    Cuts = {}
    DecreaseStakeLockup = 1
    DeployerCutLockup = 2
    MaxDelegators = 2
    MinDelegationAmount = 1
    UndelegateLockup = 1
    RemoveDelegatorLockup = 1
    RemoveDelegatorEval = 2
    StakeAmounts = {3}
    DelegateAmounts = {2}
    SlashAmounts = {}
    TransferAmounts = {}
    MinimumAmounts = {}
    Removable = {d1}
CONSTRAINT MCClaimBound
INVARIANTS
    BoundsFlagCurrent
CHECK_DEADLOCK FALSE
