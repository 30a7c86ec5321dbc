SPECIFICATION GovernedSpec
CONSTANTS
    ServiceProviders = {sp1}
    Delegators = {d1}
    NoProvider = NoProvider
    MaxBlock = 5
    InitialWallet <- MCWallet21
    FundingRoundBlockDiff = 9
    FundingAmounts = {4, 5}
    ServiceTypes = {node}
    TypeMin <- MCTypeMin
    TypeMax <- MCTypeMax
    Endpoints = {e1}
    DeployerCutBase = 100
    Cuts = {}
    DecreaseStakeLockup = 2
    DeployerCutLockup = 2
    MaxDelegators = 2
    MinDelegationAmount = 1
    UndelegateLockup = 2
    RemoveDelegatorLockup = 2
    RemoveDelegatorEval = 3
    StakeAmounts = {1, 2}
    DelegateAmounts = {1}
    SlashAmounts = {1}
    TransferAmounts = {1}
    MinimumAmounts = {}
    Removable = {d1}
    ProposalCalls <- MCFundingCalls
    GuardianCalls = {}
    Guardians = {}
    FirstGuardian = d1
    FirstSettings <- MCSettings1
    OtherAddresses = {}
    MaxProposals = 1
VIEW MCGovernedView
INVARIANTS
    VotesWithinSupply
CHECK_DEADLOCK FALSE
