SPECIFICATION Spec
CONSTANTS
    ServiceProviders = {sp1}
    Delegators = {d1}
    NoProvider = NoProvider
    MaxBlock = 4
    InitialWallet <- MCWallet32
    FundingRoundBlockDiff = 1
    FundingAmounts = {2, 5}
    ServiceTypes = {node}
    TypeMin <- MCTypeMin
    TypeMax <- MCTypeMax
    Endpoints = {e1}
    DeployerCutBase = 100
    Cuts = {50, 150}
    DecreaseStakeLockup = 1
    DeployerCutLockup = 2
    MaxDelegators = 2
    MinDelegationAmount = 1
    UndelegateLockup = 1
    RemoveDelegatorLockup = 1
    RemoveDelegatorEval = 2
    StakeAmounts = {3}
    DelegateAmounts = {2}
    SlashAmounts = {2}
    TransferAmounts = {1}
    MinimumAmounts = {2}
    Removable = {d1}
CONSTRAINT MCChangeOrRemove
ACTION_CONSTRAINT MCClaimsLater
VIEW MCView
INVARIANTS
    TypeOK
    LockSums
    RequestCovered
CHECK_DEADLOCK FALSE
