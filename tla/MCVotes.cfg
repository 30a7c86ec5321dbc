SPECIFICATION GovernedSpec
CONSTANTS
    ServiceProviders = {sp1}
    Delegators = {d1}
    NoProvider = NoProvider
    MaxBlock = 5
    InitialWallet <- MCWallet21
    FundingRoundBlockDiff = 9
    FundingAmounts = {4, 5}
    ServiceTypes = {node}
    TypeMin <- MCTypeMin
    TypeMax <- MCTypeMax
    Endpoints = {e1}
    DeployerCutBase = 100
    Cuts = {}
    DecreaseStakeLockup = 3
    DeployerCutLockup = 2
    MaxDelegators = 2
    MinDelegationAmount = 1
    UndelegateLockup = 3
    RemoveDelegatorLockup = 3
    RemoveDelegatorEval = 2
    StakeAmounts = {1, 2}
    DelegateAmounts = {1}
    SlashAmounts = {1}
    TransferAmounts = {1}
    MinimumAmounts = {}
    Removable = {}
    ProposalCalls <- MCConfigCalls
    GuardianCalls <- MCRegistryCalls
    Guardians = {g}
    FirstGuardian = g
    FirstSettings <- MCSettings2
    OtherAddresses = {2, 3}
    MaxProposals = 1
CONSTRAINT MCConfiguredApart
ACTION_CONSTRAINT MCConfiguredStill
VIEW MCGovernedView
INVARIANTS
    GovernanceTypeOK
    VotesWithinSupply
    TalliesMatch
    DecisionStands
PROPERTIES
    OnlyByProposal
CHECK_DEADLOCK FALSE
