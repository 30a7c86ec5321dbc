------------------------------ MODULE Governance ------------------------------
(***************************************************************************)
(* The Governance contract in its deployed version                         *)
(* (eth-contracts/contracts/GovernanceV2.sol): proposals, stake-weighted   *)
(* votes, evaluation, and what the guardian may do.                        *)
(*                                                                         *)
(* A proposal carries a call.  Calls are records [kind, sp, value]: slash  *)
(* sp by value, set the funding amount, one of the contract's own          *)
(* settings, evaluate another proposal, add, change or remove the registry *)
(* entry of some other contract, or call that contract, of which nothing   *)
(* is known but whether the call succeeded.  The protocol's own contracts  *)
(* stay registered at their address and are upgraded behind it.            *)
(***************************************************************************)
EXTENDS StakingSystem, Sequences

CONSTANTS
    ProposalCalls,    \* calls that proposals carry
    GuardianCalls,    \* calls that the guardian makes
    Guardians,        \* addresses that may become guardian
    FirstGuardian,    \* guardianAddress given to initialize
    FirstSettings,    \* the settings given to initialize
    OtherAddresses,   \* addresses at which the other contract may be
    MaxProposals      \* bound on the number of proposals

SettingNames ==
    {"votingPeriod", "executionDelay", "votingQuorumPercent", "maxInProgressProposals"}
Settings == [votingPeriod : Nat, executionDelay : Nat, votingQuorumPercent : Nat,
             maxInProgressProposals : Nat]

\* What initialize and the setters require of a setting.
SettingAllowed(name, value) ==
    /\ name # "executionDelay" => value > 0
    /\ name = "votingQuorumPercent" => value <= 100

NoAddress       == 0
ProtocolAddress == 1

Calls ==
    [kind : {"slash"}, sp : ServiceProviders, value : SlashAmounts]
    \cup [kind : {"fundingAmount"}, sp : {NoProvider}, value : FundingAmounts]
    \cup [kind : SettingNames \cup {"evaluate"}, sp : {NoProvider}, value : Nat]
    \cup [kind : {"addContract", "upgradeContract"}, sp : {NoProvider}, value : OtherAddresses]
    \cup [kind : {"removeContract", "other"}, sp : {NoProvider}, value : {NoAddress}]

\* An evaluation that another evaluation executes would evaluate a third
\* proposal: with two there is none left in progress.
ASSUME GovernanceAssumption ==
    /\ ProposalCalls \subseteq Calls
    /\ GuardianCalls \subseteq {c \in Calls : c.kind # "evaluate"}
    /\ FirstSettings \in Settings
    /\ \A name \in SettingNames : SettingAllowed(name, FirstSettings[name])
    /\ FirstGuardian # NoProvider
    /\ OtherAddresses \subseteq Nat \ {NoAddress, ProtocolAddress}
    /\ MaxProposals \in Nat
    /\ (\E c \in ProposalCalls : c.kind = "evaluate") => MaxProposals <= 2

VARIABLES
    proposals,            \* sequence of proposals, by id
    inProgressProposals,  \* sequence of the ids of those in progress
    settings,             \* votingPeriod, executionDelay, ...
    guardianAddress,      \* guardianAddress
    otherAddress,         \* the registry's entry for the other contract
    destroyed             \* addresses that have lost their code

votingVars   == <<proposals, inProgressProposals>>
configVars   == <<settings, otherAddress>>
governedVars == <<votingVars, configVars, guardianAddress, destroyed>>

-----------------------------------------------------------------------------
(* Stake and votes.                                                        *)

\* Direct stake that a has not asked to withdraw.
ActiveDeployerStake(a) ==
    IF a \in ServiceProviders THEN deployerStake[a] - decreaseRequest[a].amount ELSE 0

\* Delegations that a has not asked to withdraw.
ActiveDelegatorStake(a) ==
    IF a \in Delegators THEN delegatorTotalStake[a] - undelegateRequest[a].amount ELSE 0

\* Variant of ActiveStake: what is locked counts as well.
WholeStake(a) ==
    (IF a \in ServiceProviders THEN deployerStake[a] ELSE 0)
    + (IF a \in Delegators THEN delegatorTotalStake[a] ELSE 0)

\* _calculateAddressActiveStake.
ActiveStake(a) == ActiveDeployerStake(a) + ActiveDelegatorStake(a)

\* Its subtractions do not revert.
HasActiveStake(a) == ActiveDeployerStake(a) >= 0 /\ ActiveDelegatorStake(a) >= 0

\* The last block in which p may be voted on.
VotingEnd(p) == p.submissionBlockNumber + settings.votingPeriod

\* The period is the present one, also for proposals submitted before it was
\* set, and the outcome of the proposal is not looked at.
VotingOpen(p) == p.submissionBlockNumber < now /\ now <= VotingEnd(p)

\* Variant of VotingOver: the period is not added.
DelayOver(p) == now > p.submissionBlockNumber + settings.executionDelay

\* The period and the delay are over.
VotingOver(p) == now > p.submissionBlockNumber + settings.votingPeriod
                                               + settings.executionDelay

-----------------------------------------------------------------------------
(* Proposals and their calls.                                              *)

\* What the registry returns for the contract a call is for.
TargetAddress(call) == IF call.kind = "other" THEN otherAddress ELSE ProtocolAddress

\* _getCodeHash: whether there is code.
CodeHash(address) == address \notin destroyed

\* inProgressProposalsAreUpToDate.
InProgressProposalsAreUpToDate ==
    \A i \in DOMAIN inProgressProposals : ~VotingOver(proposals[inProgressProposals[i]])

\* _quorumMet, relative to the stake at the block of submission.
QuorumMet(p) ==
    ((p.voteMagnitudeYes + p.voteMagnitudeNo) * 100)
        \div TotalStakedAt(p.submissionBlockNumber) >= settings.votingQuorumPercent

TargetUnchanged(p) ==
    /\ TargetAddress(p.call) = p.targetContractAddress
    /\ CodeHash(p.targetContractAddress) = p.contractHash

\* Variant of Passed: a tie is enough.
PassedOnTie(p) == QuorumMet(p) /\ p.voteMagnitudeYes >= p.voteMagnitudeNo

\* p is to be executed.
Passed(p) == QuorumMet(p) /\ p.voteMagnitudeYes > p.voteMagnitudeNo

\* The outcome of a proposal that is not executed.
ClosedAs(p) ==
    CASE TargetAddress(p.call) # p.targetContractAddress -> "TargetContractAddressChanged"
      [] TargetAddress(p.call) = p.targetContractAddress /\ ~TargetUnchanged(p)
             -> "TargetContractCodeHashChanged"
      [] TargetUnchanged(p) /\ ~QuorumMet(p) -> "QuorumNotMet"
      [] OTHER -> "Rejected"

\* Variant of Evaluable: closed proposals may be evaluated again.
EvaluableAgain(p) ==
    VotingOver(p) /\ (TargetUnchanged(p) => TotalStakedAt(p.submissionBlockNumber) > 0)

\* evaluateProposalOutcome does not revert; the quorum is a division by the
\* stake at the block of submission.
Evaluable(p) ==
    /\ p.outcome = "InProgress"
    /\ VotingOver(p)
    /\ TargetUnchanged(p) => TotalStakedAt(p.submissionBlockNumber) > 0

\* Variant of SettingOutcomes: the setter does not look at the value.
SettingAlways(call) == {TRUE}

SettingOutcomes(call) == {SettingAllowed(call.kind, call.value)}

RegistryKinds == {"addContract", "upgradeContract", "removeContract"}

\* A contract is added once, and changed or removed when it is there.
RegistryOutcomes(call) == {(call.kind = "addContract") <=> (otherAddress = NoAddress)}

\* Whether a call succeeds.  The other contract may do either; a call to an
\* address without code succeeds.  A call to evaluate that gets here is one
\* to evaluate a proposal that is not in progress (see EvaluateNested).
CallOutcomes(call) ==
    CASE call.kind = "slash" -> {SlashAllowed(call.sp, call.value)}
      [] call.kind = "fundingAmount" -> {TRUE}
      [] call.kind \in SettingNames -> SettingOutcomes(call)
      [] call.kind = "evaluate" -> {FALSE}
      [] call.kind \in RegistryKinds -> RegistryOutcomes(call)
      [] call.kind = "other" -> IF CodeHash(otherAddress) THEN BOOLEAN ELSE {TRUE}

SlashByCall(call) ==
    /\ Slash(call.sp, call.value)
    /\ UNCHANGED <<chainVars, claimsVars, configVars>>

FundingByCall(call) ==
    /\ UpdateFundingAmount(call.value)
    /\ UNCHANGED configVars

SettingByCall(call) ==
    /\ settings' = [settings EXCEPT ![call.kind] = call.value]
    /\ UNCHANGED <<vars, otherAddress>>

RegistryByCall(call) ==
    /\ otherAddress' = call.value
    /\ UNCHANGED <<vars, settings>>

\* What a call does that succeeds.
CallEffect(call) ==
    \/ call.kind = "slash" /\ SlashByCall(call)
    \/ call.kind = "fundingAmount" /\ FundingByCall(call)
    \/ call.kind \in SettingNames /\ SettingByCall(call)
    \/ call.kind \in RegistryKinds /\ RegistryByCall(call)
    \/ call.kind = "other" /\ UNCHANGED <<vars, configVars>>

\* _executeTransaction: a call that fails changes nothing.
ExecuteTransaction(call, success) ==
    IF success THEN CallEffect(call) ELSE UNCHANGED <<vars, configVars>>

\* Variant of RemoveFromInProgress: the first of the list goes.
RemoveFirstInProgress(list, id) == Tail(list)

\* _removeFromInProgressProposals: the last takes the place of id, or of the
\* first if id is not listed.
RemoveFromInProgress(list, id) ==
    LET listed == {i \in DOMAIN list : list[i] = id}
        index  == IF listed = {} THEN 1 ELSE CHOOSE i \in listed : \A j \in listed : i <= j
    IN  SubSeq([list EXCEPT ![index] = list[Len(list)]], 1, Len(list) - 1)

\* Proposal id ends with an outcome.
Close(id, outcome) ==
    /\ proposals' = [proposals EXCEPT ![id].outcome = outcome]
    /\ inProgressProposals' = RemoveFromInProgress(inProgressProposals, id)

-----------------------------------------------------------------------------
(* Operations.                                                             *)

\* submitProposal, by a staker or the guardian.
SubmitProposal(a, call) ==
    /\ Len(proposals) < MaxProposals
    /\ InProgressProposalsAreUpToDate
    /\ Len(inProgressProposals) < settings.maxInProgressProposals
    /\ HasActiveStake(a)
    /\ ActiveStake(a) > 0 \/ a = guardianAddress
    /\ TargetAddress(call) # NoAddress
    /\ proposals' = Append(proposals,
           [submissionBlockNumber |-> now,
            call                  |-> call,
            targetContractAddress |-> TargetAddress(call),
            contractHash          |-> CodeHash(TargetAddress(call)),
            outcome               |-> "InProgress",
            voteMagnitudeYes      |-> 0,
            voteMagnitudeNo       |-> 0,
            numVotes              |-> 0,
            votes                 |-> [v \in Accounts |-> "None"],
            voteMagnitudes        |-> [v \in Accounts |-> 0]])
    /\ inProgressProposals' = Append(inProgressProposals, Len(proposals) + 1)
    /\ UNCHANGED <<configVars, guardianAddress, destroyed>>

\* submitVote: one vote per account, with the stake it has active now.
SubmitVote(a, id, vote) ==
    /\ VotingOpen(proposals[id])
    /\ HasActiveStake(a)
    /\ ActiveStake(a) > 0
    /\ proposals[id].votes[a] = "None"
    /\ proposals' = [proposals EXCEPT
           ![id].votes[a] = vote,
           ![id].voteMagnitudes[a] = ActiveStake(a),
           ![id].voteMagnitudeYes = IF vote = "Yes" THEN @ + ActiveStake(a) ELSE @,
           ![id].voteMagnitudeNo = IF vote = "No" THEN @ + ActiveStake(a) ELSE @,
           ![id].numVotes = @ + 1]
    /\ UNCHANGED <<inProgressProposals, configVars, guardianAddress, destroyed>>

\* Variant of MovedMagnitude: the vote moves with the stake of now.
MovedActiveStake(a, p) == ActiveStake(a)

\* What updateVote moves from one side to the other: the stake at the time of
\* the first vote.
MovedMagnitude(a, p) == p.voteMagnitudes[a]

\* updateVote; the same vote again changes nothing.
UpdateVote(a, id, vote) ==
    LET p     == proposals[id]
        moved == MovedMagnitude(a, p)
    IN  /\ VotingOpen(p)
        /\ p.votes[a] \notin {"None", vote}
        /\ IF vote = "Yes"
             THEN /\ moved <= p.voteMagnitudeNo
                  /\ proposals' = [proposals EXCEPT
                         ![id].votes[a] = vote,
                         ![id].voteMagnitudeYes = @ + moved,
                         ![id].voteMagnitudeNo = @ - moved]
             ELSE /\ moved <= p.voteMagnitudeYes
                  /\ proposals' = [proposals EXCEPT
                         ![id].votes[a] = vote,
                         ![id].voteMagnitudeYes = @ - moved,
                         ![id].voteMagnitudeNo = @ + moved]
        /\ UNCHANGED <<inProgressProposals, configVars, guardianAddress, destroyed>>

\* The proposal, other than id, that the execution of id evaluates.
Nested(id) ==
    {q \in DOMAIN proposals \ {id} :
        /\ TargetUnchanged(proposals[id]) /\ Passed(proposals[id])
        /\ proposals[id].call.kind = "evaluate"
        /\ proposals[id].call.value = q
        /\ Evaluable(proposals[q])}

\* Proposal id comes to an outcome, and its call is executed if it passed.
Decide(id, outcome) ==
    LET p == proposals[id]
    IN  \/ /\ ~(TargetUnchanged(p) /\ Passed(p))
           /\ outcome = ClosedAs(p)
           /\ UNCHANGED <<vars, configVars>>
        \/ /\ TargetUnchanged(p)
           /\ Passed(p)
           /\ \E call \in ProposalCalls : \E success \in CallOutcomes(call) :
                 /\ call = p.call
                 /\ ExecuteTransaction(call, success)
                 /\ outcome = IF success THEN "ApprovedExecuted"
                                         ELSE "ApprovedExecutionFailed"

Outcomes ==
    {"InProgress", "Rejected", "ApprovedExecuted", "QuorumNotMet",
     "ApprovedExecutionFailed", "Vetoed", "TargetContractAddressChanged",
     "TargetContractCodeHashChanged"}

\* evaluateProposalOutcome, by anyone.
EvaluateProposalOutcome(id) ==
    /\ Evaluable(proposals[id])
    /\ Nested(id) = {}
    /\ \E outcome \in Outcomes : Decide(id, outcome) /\ Close(id, outcome)
    /\ UNCHANGED <<guardianAddress, destroyed>>

\* evaluateProposalOutcome of a proposal whose call evaluates q: q closes
\* while id is marked as being evaluated, then id does.
EvaluateNested(id, q) ==
    /\ Evaluable(proposals[id])
    /\ q \in Nested(id)
    /\ \E outcome \in Outcomes :
          /\ Decide(q, outcome)
          /\ proposals' = [proposals EXCEPT ![q].outcome = outcome,
                                            ![id].outcome = "ApprovedExecuted"]
    /\ inProgressProposals' =
           RemoveFromInProgress(RemoveFromInProgress(inProgressProposals, q), id)
    /\ UNCHANGED <<guardianAddress, destroyed>>

\* vetoProposal, by the guardian.
VetoProposal(id) ==
    /\ guardianAddress # NoProvider
    /\ proposals[id].outcome = "InProgress"
    /\ Close(id, "Vetoed")
    /\ UNCHANGED <<configVars, guardianAddress, destroyed>>

\* guardianExecuteTransaction: reverts when the call fails.
GuardianExecuteTransaction(call) ==
    /\ guardianAddress # NoProvider
    /\ TargetAddress(call) # NoAddress
    /\ TRUE \in CallOutcomes(call)
    /\ CallEffect(call)
    /\ UNCHANGED <<votingVars, guardianAddress, destroyed>>

\* transferGuardianship; the new guardian may be address(0).
TransferGuardianship(g) ==
    /\ guardianAddress # NoProvider
    /\ guardianAddress' = g
    /\ UNCHANGED <<votingVars, configVars, destroyed>>

\* The other contract destroys itself.
DestroyOther ==
    /\ otherAddress \notin destroyed \cup {NoAddress}
    /\ destroyed' = destroyed \cup {otherAddress}
    /\ UNCHANGED <<votingVars, configVars, guardianAddress>>

-----------------------------------------------------------------------------
GovernanceInit ==
    /\ proposals = <<>>
    /\ inProgressProposals = <<>>
    /\ settings = FirstSettings
    /\ guardianAddress = FirstGuardian
    /\ otherAddress \in OtherAddresses \cup {NoAddress}
    /\ destroyed = {}

Proposal ==
    [submissionBlockNumber : Nat, call : ProposalCalls,
     targetContractAddress : Nat, contractHash : BOOLEAN, outcome : Outcomes,
     voteMagnitudeYes : Nat, voteMagnitudeNo : Nat, numVotes : Nat,
     votes : [Accounts -> {"None", "No", "Yes"}],
     voteMagnitudes : [Accounts -> Nat]]

GovernanceTypeOK ==
    /\ proposals \in Seq(Proposal)
    /\ inProgressProposals \in Seq(DOMAIN proposals)
    /\ settings \in Settings
    /\ \A name \in SettingNames : SettingAllowed(name, settings[name])
    /\ otherAddress \in OtherAddresses \cup {NoAddress}
    /\ destroyed \subseteq OtherAddresses
=============================================================================
