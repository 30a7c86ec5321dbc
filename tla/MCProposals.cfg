SPECIFICATION GovernedSpec
CONSTANTS
    ServiceProviders = {sp1}
    Delegators = {d1}
    NoProvider = NoProvider
    MaxBlock = 4
    InitialWallet <- MCWallet21
    FundingRoundBlockDiff = 9
    FundingAmounts = {4, 5}
    ServiceTypes = {node}
    TypeMin <- MCTypeMin
    TypeMax <- MCTypeMax
    Endpoints = {e1}
    DeployerCutBase = 100
    Cuts = {}
    DecreaseStakeLockup = 2
    DeployerCutLockup = 2
    MaxDelegators = 2
    MinDelegationAmount = 1
    UndelegateLockup = 2
    RemoveDelegatorLockup = 2
    RemoveDelegatorEval = 2
    StakeAmounts = {2}
    DelegateAmounts = {1}
    SlashAmounts = {1}
    TransferAmounts = {}
    MinimumAmounts = {}
    Removable = {}
    ProposalCalls <- MCNestedCalls
    GuardianCalls = {}
    Guardians = {}
    FirstGuardian = d1
    FirstSettings <- MCSettings1
    OtherAddresses = {}
    MaxProposals = 2
CONSTRAINT MCNoRequestsSameGuardian
ACTION_CONSTRAINT MCStakesEarly
VIEW MCGovernedView
INVARIANTS
    InProgressListed
    BurnedByVote
PROPERTIES
    OutcomesFinal
CHECK_DEADLOCK FALSE
