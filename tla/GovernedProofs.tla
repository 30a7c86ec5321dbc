---------------------------- MODULE GovernedProofs ----------------------------
(***************************************************************************)
(* Theorems of the staking protocol under governance.                      *)
(*                                                                         *)
(* The calls of executed proposals are operations of the staking           *)
(* contracts, so that their invariant holds under governance (Governed).   *)
(* The invariant of governance is GovInv.  The proposals that may be       *)
(* closed must be listed, or closing one would drop another from the list: *)
(* GovernanceTypeOK alone would not give InProgressListed.  On top of it   *)
(* the tallies are sums of the votes (Tallies), what is decided stays      *)
(* decided (Decisions), stake is burned by proposals only (Proposed), and  *)
(* the tokens there are and those that were burned add up (NoneLost,       *)
(* AllFound).  That no token votes twice rests on the lockups: a vote is   *)
(* covered by stake that stays for one lockup after the submission         *)
(* (VotesCovered), which is longer than the vote (BallotInv).              *)
(***************************************************************************)
EXTENDS GovernedStaking, BookProofs

GovInv == TypeOK /\ GovernanceTypeOK /\ InProgressListed

\* What has ended stays as it ended.
EndedKept ==
    \A i \in DOMAIN proposals :
        proposals[i].outcome # "InProgress" => proposals'[i].outcome = proposals[i].outcome

-----------------------------------------------------------------------------
(* Governance and staking.                                                 *)

\* A call has the fields of its kind.
LEMMA CallFields ==
    ASSUME NEW call \in Calls
    PROVE  /\ call.kind = "slash" => call.sp \in ServiceProviders /\ call.value \in SlashAmounts
           /\ call.kind = "fundingAmount" => call.value \in FundingAmounts
           /\ call.kind \in SettingNames => call.value \in Nat
           /\ call.kind \in {"addContract", "upgradeContract", "removeContract"} =>
                 call.value \in OtherAddresses \cup {NoAddress}
BY DEF Calls, SettingNames

\* A call does to the staking contracts what their specification allows.
LEMMA CallStep ==
    ASSUME NEW call \in Calls, CallEffect(call)
    PROVE  GovernanceTx \/ UNCHANGED vars
<1>1. CASE call.kind = "slash" /\ SlashByCall(call)
  BY <1>1, CallFields DEF SlashByCall, GovernanceTx, SlashTx
<1>2. CASE call.kind = "fundingAmount" /\ UpdateFundingAmount(call.value)
  BY <1>2, CallFields DEF GovernanceTx
<1>3. QED
  BY <1>1, <1>2 DEF CallEffect, FundingByCall, SettingByCall, RegistryByCall, RegistryKinds, SlashByCall

\* So does the decision on a proposal.
LEMMA DecideStep ==
    ASSUME NEW id, NEW outcome, Decide(id, outcome)
    PROVE  GovernanceTx \/ UNCHANGED vars
<1>1. CASE UNCHANGED <<vars, configVars>>
  BY <1>1
<1>2. CASE \E call \in ProposalCalls, success \in CallOutcomes(proposals[id].call) :
              ExecuteTransaction(call, success)
  <2>1. PICK call \in ProposalCalls : CallEffect(call) \/ UNCHANGED vars
    BY <1>2 DEF ExecuteTransaction
  <2>2. call \in Calls
    BY GovernanceAssumption
  <2>3. QED
    BY <2>1, <2>2, CallStep
<1>3. QED
  BY <1>1, <1>2 DEF Decide

\* Every step under governance is a step of the staking protocol or none.
LEMMA GovernedStep == [GovernedNext]_allVars => [Next]_vars
<1> SUFFICES ASSUME [GovernedNext]_allVars
             PROVE  Next \/ UNCHANGED vars
  OBVIOUS
<1>1. CASE AccountStep
  BY <1>1 DEF AccountStep, Next
<1>2. CASE VotingStep
  BY <1>2 DEF VotingStep, ProposalVote, Guardianship
<1>3. CASE EvaluationStep
  BY <1>3, DecideStep DEF EvaluationStep, EvaluateProposalOutcome, EvaluateNested, Next
<1>4. CASE GuardianStep
  <2>1. PICK call \in GuardianCalls : CallEffect(call)
    BY <1>4 DEF GuardianStep, GuardianExecuteTransaction
  <2>2. call \in Calls
    BY GovernanceAssumption
  <2>3. QED
    BY <2>1, <2>2, CallStep DEF Next
<1>5. CASE UNCHANGED allVars
  BY <1>5 DEF allVars
<1>6. QED
  BY <1>1, <1>2, <1>3, <1>4, <1>5 DEF GovernedNext

\* Calls of governance are modelled by the operations of the staking contracts
\* themselves, so what holds of every behaviour of those holds here.
LEMMA Governed == GovernedSpec => Spec
<1>1. GovernedInit => Init
  BY DEF GovernedInit
<1>2. QED
  BY <1>1, GovernedStep, PTL DEF GovernedSpec, Spec

\* The books of the staking contracts agree whatever governance decides.
THEOREM GovernedStakesAgree == GovernedSpec => []StakeSplit
BY Governed, StakesAgree, PTL

-----------------------------------------------------------------------------
(* The list of proposals in progress.                                      *)

Distinct(list) == \A i, j \in DOMAIN list : list[i] = list[j] => i = j
Members(list)  == {list[i] : i \in DOMAIN list}

\* A listed proposal is removed from the list, and no other one.
LEMMA RemoveListed ==
    ASSUME NEW S, NEW list \in Seq(S), Distinct(list), NEW id \in Members(list)
    PROVE  /\ RemoveFromInProgress(list, id) \in Seq(S)
           /\ Distinct(RemoveFromInProgress(list, id))
           /\ Members(RemoveFromInProgress(list, id)) = Members(list) \ {id}
<1> DEFINE result == RemoveFromInProgress(list, id)
<1>1. \A other, x : x \in Members(other) <=> \E i \in DOMAIN other : other[i] = x
  BY DEF Members
<1>2. PICK n \in Nat \ {0} : n = Len(list) /\ DOMAIN list = 1..n
  BY DEF Members
<1>3. PICK index \in 1..n : list[index] = id
  BY <1>2 DEF Members
<1>4. \A i \in 1..n :
         /\ list[i] \in S
         /\ list[i] = id => i = index
         /\ i # n => i \in 1..(n - 1)
  BY <1>2, <1>3 DEF Distinct
<1>5. {i \in DOMAIN list : list[i] = id} = {index}
  <2>1. DOMAIN list = 1..n /\ index \in 1..n /\ list[index] = id
    BY <1>2, <1>3
  <2>2. \A i \in 1..n : list[i] = id => i = index
    BY <1>4
  <2>3. QED
    BY <2>1, <2>2, Zenon
<1>6. (CHOOSE i \in {index} : \A j \in {index} : i <= j) = index
  BY <1>3
<1>7. result = SubSeq([list EXCEPT ![index] = list[n]], 1, n - 1)
  BY <1>2, <1>5, <1>6 DEF RemoveFromInProgress
<1> HIDE DEF result
<1>8. [list EXCEPT ![index] = list[n]] \in Seq(S)
  BY <1>2, <1>3, <1>4
<1>9. /\ result \in Seq(S)
      /\ DOMAIN result = 1..(n - 1)
      /\ \A i \in 1..(n - 1) : result[i] = IF i = index THEN list[n] ELSE list[i]
  BY <1>2, <1>3, <1>7, <1>8
<1>10. Distinct(result)
  <2>1. ASSUME NEW i \in 1..(n - 1), NEW j \in 1..(n - 1), result[i] = result[j]
        PROVE  i = j
    <3>1. i \in 1..n /\ j \in 1..n /\ n \in 1..n /\ i # n /\ j # n
      BY <1>2
    <3>2. \A k, l \in 1..n : list[k] = list[l] => k = l
      BY <1>2 DEF Distinct
    <3>3. QED
      BY <1>9, <2>1, <3>1, <3>2
  <2>2. QED
    BY <1>9, <2>1 DEF Distinct
<1>11. Members(result) = Members(list) \ {id}
  <2>1. ASSUME NEW i \in 1..(n - 1)
        PROVE  result[i] \in Members(list) \ {id}
    <3>1. i \in 1..n /\ n \in 1..n /\ i # n
      BY <1>2
    <3>2. PICK j \in 1..n : result[i] = list[j] /\ j # index
      BY <1>9, <3>1
    <3>3. QED
      BY <1>1, <1>2, <1>4, <3>2
  <2>2. ASSUME NEW i \in 1..n, i # index
        PROVE  \E j \in 1..(n - 1) : result[j] = list[i]
    <3>1. CASE i = n
      <4>1. index \in 1..(n - 1)
        BY <1>3, <1>4, <2>2, <3>1
      <4>2. result[index] = list[i]
        BY <1>9, <3>1, <4>1
      <4>3. QED
        BY <4>1, <4>2
    <3>2. CASE i # n
      <4>1. i \in 1..(n - 1)
        BY <1>4, <3>2
      <4>2. result[i] = list[i]
        BY <1>9, <2>2, <4>1
      <4>3. QED
        BY <4>1, <4>2
    <3>3. QED
      BY <3>1, <3>2
  <2>3. QED
    <3>1. \A x : x \in Members(list) \ {id} => x \in Members(result)
      BY <1>1, <1>2, <1>3, <1>9, <2>2
    <3>2. \A x : x \in Members(result) => x \in Members(list) \ {id}
      BY <1>1, <1>9, <2>1
    <3>3. QED
      BY <3>1, <3>2
<1>12. QED
  BY <1>9, <1>10, <1>11 DEF result

-----------------------------------------------------------------------------
(* Types and the list, by operation.                                       *)

Listed(props, list) ==
    /\ Distinct(list)
    /\ Members(list) = {id \in DOMAIN props : props[id].outcome = "InProgress"}

\* The configuration part of GovernanceTypeOK.
ConfigOK ==
    /\ settings \in Settings
    /\ \A name \in SettingNames : SettingAllowed(name, settings[name])
    /\ otherAddress \in OtherAddresses \cup {NoAddress}

\* A proposal in progress that ends leaves the list, and keeps its other fields.
LEMMA CloseListed ==
    ASSUME NEW props \in Seq(Proposal), NEW list \in Seq(DOMAIN props), Listed(props, list),
           NEW id \in DOMAIN props, props[id].outcome = "InProgress",
           NEW outcome \in Outcomes \ {"InProgress"}
    PROVE  LET after == [props EXCEPT ![id].outcome = outcome]
           IN  /\ after \in Seq(Proposal)
               /\ DOMAIN after = DOMAIN props
               /\ after[id].outcome = outcome
               /\ \A other \in DOMAIN props : other # id => after[other] = props[other]
               /\ RemoveFromInProgress(list, id) \in Seq(DOMAIN props)
               /\ Listed(after, RemoveFromInProgress(list, id))
<1> DEFINE after == [props EXCEPT ![id].outcome = outcome]
<1>1. props[id] \in Proposal /\ DOMAIN props = 1..Len(props)
  OBVIOUS
<1>2. [props[id] EXCEPT !.outcome = outcome] \in Proposal
  BY <1>1 DEF Proposal
<1>3. after = [props EXCEPT ![id] = [props[id] EXCEPT !.outcome = outcome]]
  OBVIOUS
<1>4. after \in Seq(Proposal) /\ DOMAIN after = DOMAIN props
  BY <1>2, <1>3
<1>5. after[id].outcome = outcome
  BY <1>1, <1>3 DEF Proposal
<1>6. \A other \in DOMAIN props : other # id => after[other] = props[other]
  BY <1>3
<1> HIDE DEF after
<1>7. id \in Members(list)
  BY DEF Listed
<1>8. /\ RemoveFromInProgress(list, id) \in Seq(DOMAIN props)
      /\ Distinct(RemoveFromInProgress(list, id))
      /\ Members(RemoveFromInProgress(list, id)) = Members(list) \ {id}
  BY <1>7, RemoveListed DEF Listed
<1>9. {i \in DOMAIN after : after[i].outcome = "InProgress"}
        = {i \in DOMAIN props : props[i].outcome = "InProgress"} \ {id}
  BY <1>4, <1>5, <1>6
<1>10. Listed(after, RemoveFromInProgress(list, id))
  BY <1>8, <1>9 DEF Listed
<1>11. QED
  BY <1>4, <1>5, <1>6, <1>8, <1>10 DEF after

\* The stake that counts for a vote is a natural number.
LEMMA ActiveStakeNat ==
    ASSUME TypeOK, NEW a, HasActiveStake(a)
    PROVE  ActiveStake(a) \in Nat
<1>1. ActiveDeployerStake(a) \in Int
  BY DEF TypeOK, ProviderTypeOK, ActiveDeployerStake
<1>2. ActiveDelegatorStake(a) \in Int
  BY DEF TypeOK, DelegateTypeOK, ActiveDelegatorStake
<1>3. QED
  BY <1>1, <1>2 DEF HasActiveStake, ActiveStake

\* submitProposal appends a proposal in progress to both sequences.
LEMMA SubmitProposalInv ==
    ASSUME GovInv, NEW a, NEW call \in ProposalCalls, SubmitProposal(a, call)
    PROVE  GovernanceTypeOK' /\ InProgressListed' /\ EndedKept
<1> DEFINE id  == Len(proposals) + 1
           new == [submissionBlockNumber |-> now,
                   call                  |-> call,
                   targetContractAddress |-> TargetAddress(call),
                   contractHash          |-> CodeHash(TargetAddress(call)),
                   outcome               |-> "InProgress",
                   voteMagnitudeYes      |-> 0,
                   voteMagnitudeNo       |-> 0,
                   numVotes              |-> 0,
                   votes                 |-> [v \in Accounts |-> "None"],
                   voteMagnitudes        |-> [v \in Accounts |-> 0]]
<1>1. /\ proposals' = Append(proposals, new)
      /\ inProgressProposals' = Append(inProgressProposals, id)
      /\ UNCHANGED <<settings, otherAddress, destroyed>>
  BY DEF SubmitProposal, configVars
<1>2. /\ TargetAddress(call) \in Nat
      /\ CodeHash(TargetAddress(call)) \in BOOLEAN
      /\ now \in Nat
  BY GovernanceAssumption DEF GovInv, TypeOK, StakingTypeOK, GovernanceTypeOK, TargetAddress,
                              CodeHash, NoAddress, ProtocolAddress
<1>3. new \in Proposal
  BY <1>2 DEF Proposal, Outcomes
<1>4. new.outcome = "InProgress"
  OBVIOUS
<1> HIDE DEF new
<1>5. /\ proposals \in Seq(Proposal)
      /\ inProgressProposals \in Seq(DOMAIN proposals)
      /\ Listed(proposals, inProgressProposals)
  BY DEF GovInv, GovernanceTypeOK, InProgressListed, Listed, Distinct, Members
<1>6. /\ proposals' \in Seq(Proposal)
      /\ DOMAIN proposals' = DOMAIN proposals \cup {id}
      /\ id \notin DOMAIN proposals
      /\ \A i \in DOMAIN proposals : proposals'[i] = proposals[i]
      /\ proposals'[id] = new
  BY <1>1, <1>3, <1>5
<1>7. /\ inProgressProposals' \in Seq(DOMAIN proposals \cup {id})
      /\ DOMAIN inProgressProposals' =
            DOMAIN inProgressProposals \cup {Len(inProgressProposals) + 1}
      /\ \A i \in DOMAIN inProgressProposals :
            /\ i # Len(inProgressProposals) + 1
            /\ inProgressProposals'[i] = inProgressProposals[i]
            /\ inProgressProposals[i] \in DOMAIN proposals
      /\ inProgressProposals'[Len(inProgressProposals) + 1] = id
  <2>1. inProgressProposals \in Seq(DOMAIN proposals \cup {id})
    BY <1>5
  <2>2. QED
    BY <1>1, <1>5, <2>1
<1>8. Distinct(inProgressProposals)'
  BY <1>5, <1>6, <1>7 DEF Listed, Distinct
<1>9. Members(inProgressProposals)' = Members(inProgressProposals) \cup {id}
  BY <1>7 DEF Members
<1>10. {i \in DOMAIN proposals' : proposals'[i].outcome = "InProgress"}
          = {i \in DOMAIN proposals : proposals[i].outcome = "InProgress"} \cup {id}
  BY <1>4, <1>6
<1>11. InProgressListed'
  BY <1>5, <1>8, <1>9, <1>10 DEF Listed, InProgressListed, Distinct, Members
<1>12. GovernanceTypeOK'
  BY <1>1, <1>6, <1>7 DEF GovInv, GovernanceTypeOK
<1>13. EndedKept
  BY <1>6 DEF EndedKept
<1>14. QED
  BY <1>11, <1>12, <1>13

\* Replacing a proposal by one with the same outcome keeps types and list.
LEMMA ReplaceInv ==
    ASSUME GovInv, NEW id \in DOMAIN proposals, NEW new \in Proposal,
           new.outcome = proposals[id].outcome,
           proposals' = [proposals EXCEPT ![id] = new],
           UNCHANGED <<inProgressProposals, configVars, destroyed>>
    PROVE  GovernanceTypeOK' /\ InProgressListed' /\ EndedKept
<1>1. /\ proposals' \in Seq(Proposal)
      /\ DOMAIN proposals' = DOMAIN proposals
      /\ \A i \in DOMAIN proposals : proposals'[i].outcome = proposals[i].outcome
  BY DEF GovInv, GovernanceTypeOK
<1>2. GovernanceTypeOK'
  BY <1>1 DEF GovInv, GovernanceTypeOK, configVars
<1>3. InProgressListed'
  BY <1>1 DEF GovInv, InProgressListed
<1>4. QED
  BY <1>1, <1>2, <1>3 DEF EndedKept

\* submitVote and updateVote.
LEMMA VoteInv ==
    ASSUME GovInv, NEW id \in DOMAIN proposals, NEW a \in Accounts, NEW vote \in {"No", "Yes"},
           SubmitVote(a, id, vote) \/ UpdateVote(a, id, vote)
    PROVE  GovernanceTypeOK' /\ InProgressListed' /\ EndedKept
<1> DEFINE p == proposals[id]
<1>1. p \in Proposal
  BY DEF GovInv, GovernanceTypeOK
<1>2. CASE SubmitVote(a, id, vote)
  <2> DEFINE stake == ActiveStake(a)
             new   == [p EXCEPT !.votes[a] = vote,
                                !.voteMagnitudes[a] = stake,
                                !.voteMagnitudeYes = IF vote = "Yes" THEN @ + stake ELSE @,
                                !.voteMagnitudeNo = IF vote = "No" THEN @ + stake ELSE @,
                                !.numVotes = @ + 1]
  <2>1. stake \in Nat
    BY <1>2, ActiveStakeNat DEF SubmitVote, GovInv
  <2>2. proposals' = [proposals EXCEPT ![id] = new]
    BY <1>2 DEF SubmitVote
  <2>3. UNCHANGED <<inProgressProposals, configVars, destroyed>>
    BY <1>2 DEF SubmitVote
  <2> HIDE DEF stake
  <2>4. /\ [p.votes EXCEPT ![a] = vote] \in [Accounts -> {"None", "No", "Yes"}]
        /\ [p.voteMagnitudes EXCEPT ![a] = stake] \in [Accounts -> Nat]
        /\ (IF vote = "Yes" THEN p.voteMagnitudeYes + stake ELSE p.voteMagnitudeYes) \in Nat
        /\ (IF vote = "No" THEN p.voteMagnitudeNo + stake ELSE p.voteMagnitudeNo) \in Nat
        /\ p.numVotes + 1 \in Nat
    BY <1>1, <2>1 DEF Proposal
  <2>5. new = [p EXCEPT
                 !.votes = [p.votes EXCEPT ![a] = vote],
                 !.voteMagnitudes = [p.voteMagnitudes EXCEPT ![a] = stake],
                 !.voteMagnitudeYes =
                     IF vote = "Yes" THEN p.voteMagnitudeYes + stake ELSE p.voteMagnitudeYes,
                 !.voteMagnitudeNo =
                     IF vote = "No" THEN p.voteMagnitudeNo + stake ELSE p.voteMagnitudeNo,
                 !.numVotes = p.numVotes + 1]
    BY <1>1 DEF Proposal
  <2>6. new \in Proposal /\ new.outcome = p.outcome
    BY <1>1, <2>4, <2>5 DEF Proposal
  <2>7. QED
    BY <2>2, <2>3, <2>6, ReplaceInv
<1>3. CASE UpdateVote(a, id, vote)
  <2> DEFINE moved == MovedMagnitude(a, p)
             toYes == [p EXCEPT !.votes[a] = vote,
                                !.voteMagnitudeYes = @ + moved,
                                !.voteMagnitudeNo = @ - moved]
             toNo  == [p EXCEPT !.votes[a] = vote,
                                !.voteMagnitudeYes = @ - moved,
                                !.voteMagnitudeNo = @ + moved]
  <2>1. moved \in Nat
    BY <1>1 DEF MovedMagnitude, Proposal
  <2>2. /\ \/ /\ moved <= p.voteMagnitudeNo
              /\ proposals' = [proposals EXCEPT ![id] = toYes]
           \/ /\ moved <= p.voteMagnitudeYes
              /\ proposals' = [proposals EXCEPT ![id] = toNo]
      /\ UNCHANGED <<inProgressProposals, configVars, destroyed>>
    BY <1>3 DEF UpdateVote
  <2> HIDE DEF moved
  <2>3. [p.votes EXCEPT ![a] = vote] \in [Accounts -> {"None", "No", "Yes"}]
    BY <1>1 DEF Proposal
  <2>4. ASSUME moved <= p.voteMagnitudeNo
        PROVE  toYes \in Proposal /\ toYes.outcome = p.outcome
    <3>1. p.voteMagnitudeYes + moved \in Nat /\ p.voteMagnitudeNo - moved \in Nat
      BY <1>1, <2>1, <2>4 DEF Proposal
    <3>2. toYes = [p EXCEPT !.votes = [p.votes EXCEPT ![a] = vote],
                            !.voteMagnitudeYes = p.voteMagnitudeYes + moved,
                            !.voteMagnitudeNo = p.voteMagnitudeNo - moved]
      BY <1>1 DEF Proposal
    <3>3. QED
      BY <1>1, <2>3, <3>1, <3>2 DEF Proposal
  <2>5. ASSUME moved <= p.voteMagnitudeYes
        PROVE  toNo \in Proposal /\ toNo.outcome = p.outcome
    <3>1. p.voteMagnitudeYes - moved \in Nat /\ p.voteMagnitudeNo + moved \in Nat
      BY <1>1, <2>1, <2>5 DEF Proposal
    <3>2. toNo = [p EXCEPT !.votes = [p.votes EXCEPT ![a] = vote],
                           !.voteMagnitudeYes = p.voteMagnitudeYes - moved,
                           !.voteMagnitudeNo = p.voteMagnitudeNo + moved]
      BY <1>1 DEF Proposal
    <3>3. QED
      BY <1>1, <2>3, <3>1, <3>2 DEF Proposal
  <2>6. QED
    BY <2>2, <2>4, <2>5, ReplaceInv
<1>4. QED
  BY <1>2, <1>3

\* A call that succeeds leaves settings that are allowed.
LEMMA CallConfig ==
    ASSUME ConfigOK, NEW call \in Calls, TRUE \in CallOutcomes(call), CallEffect(call)
    PROVE  ConfigOK'
<1>1. CASE UNCHANGED configVars
  BY <1>1 DEF ConfigOK, configVars
<1>2. CASE call.kind \in SettingNames /\ settings' = [settings EXCEPT ![call.kind] = call.value]
           /\ UNCHANGED otherAddress
  <2>1. call.value \in Nat
    BY <1>2, CallFields
  <2>2. SettingAllowed(call.kind, call.value)
    BY <1>2 DEF CallOutcomes, RegistryOutcomes, RegistryKinds, SettingOutcomes, SettingNames
  <2>3. /\ settings \in Settings
        /\ \A name \in SettingNames : SettingAllowed(name, settings[name])
    BY DEF ConfigOK
  <2>4. settings' \in Settings
    BY <1>2, <2>1, <2>3 DEF Settings, SettingNames
  <2>5. \A name \in SettingNames :
           settings'[name] = IF name = call.kind THEN call.value ELSE settings[name]
    BY <1>2, <2>3 DEF Settings, SettingNames
  <2>6. QED
    BY <1>2, <2>2, <2>3, <2>4, <2>5 DEF ConfigOK
<1>3. CASE /\ call.kind \in {"addContract", "upgradeContract", "removeContract"}
           /\ otherAddress' = call.value
           /\ UNCHANGED settings
  BY <1>3, CallFields DEF ConfigOK
<1>4. QED
  BY <1>1, <1>2, <1>3 DEF CallEffect, FundingByCall, SettingByCall, RegistryByCall, RegistryKinds, SlashByCall, configVars

\* An evaluation ends a proposal, with a configuration that is allowed.
LEMMA DecideInv ==
    ASSUME ConfigOK, NEW id, NEW outcome, Decide(id, outcome)
    PROVE  ConfigOK' /\ outcome \in Outcomes \ {"InProgress"}
<1> DEFINE p == proposals[id]
<1>1. CASE outcome = ClosedAs(p) /\ UNCHANGED <<vars, configVars>>
  <2>1. ConfigOK'
    BY <1>1 DEF ConfigOK, configVars
  <2>2. QED
    BY <1>1, <2>1 DEF ClosedAs, Outcomes
<1>2. CASE \E call \in ProposalCalls : \E success \in CallOutcomes(call) :
              /\ ExecuteTransaction(call, success)
              /\ outcome = IF success THEN "ApprovedExecuted" ELSE "ApprovedExecutionFailed"
  <2>0. PICK call \in ProposalCalls : \E success \in CallOutcomes(call) :
               /\ ExecuteTransaction(call, success)
               /\ outcome = IF success THEN "ApprovedExecuted" ELSE "ApprovedExecutionFailed"
    BY <1>2
  <2>1. PICK success \in CallOutcomes(call) :
               /\ ExecuteTransaction(call, success)
               /\ outcome = IF success THEN "ApprovedExecuted" ELSE "ApprovedExecutionFailed"
    BY <2>0
  <2>2. call \in Calls /\ CallOutcomes(call) \subseteq BOOLEAN
    <3>1. call \in Calls
      BY GovernanceAssumption
    <3>2. QED
      BY <3>1 DEF Calls, CallOutcomes, RegistryOutcomes, RegistryKinds, SettingOutcomes, SettingAllowed, SlashAllowed, SettingNames
  <2>3. ConfigOK'
    <3>1. CASE success = TRUE
      BY <2>1, <2>2, <3>1, CallConfig DEF ExecuteTransaction
    <3>2. CASE success = FALSE
      BY <2>1, <3>2 DEF ExecuteTransaction, ConfigOK, configVars
    <3>3. QED
      BY <2>1, <2>2, <3>1, <3>2
  <2>4. QED
    BY <2>1, <2>3 DEF Outcomes
<1>3. QED
  BY <1>1, <1>2 DEF Decide
\* A proposal in progress that ends: types, list and the others.
LEMMA EndInv ==
    ASSUME GovInv, NEW id \in DOMAIN proposals, proposals[id].outcome = "InProgress",
           NEW outcome \in Outcomes \ {"InProgress"}, Close(id, outcome),
           ConfigOK', UNCHANGED destroyed
    PROVE  GovernanceTypeOK' /\ InProgressListed' /\ EndedKept
<1>1. /\ proposals \in Seq(Proposal)
      /\ inProgressProposals \in Seq(DOMAIN proposals)
      /\ Listed(proposals, inProgressProposals)
  BY DEF GovInv, GovernanceTypeOK, InProgressListed, Listed, Distinct, Members
<1>2. /\ proposals' \in Seq(Proposal)
      /\ DOMAIN proposals' = DOMAIN proposals
      /\ \A other \in DOMAIN proposals : other # id => proposals'[other] = proposals[other]
      /\ inProgressProposals' \in Seq(DOMAIN proposals)
      /\ Listed(proposals', inProgressProposals')
  BY <1>1, CloseListed DEF Close
<1>3. GovernanceTypeOK'
  BY <1>2 DEF GovernanceTypeOK, GovInv, ConfigOK
<1>4. InProgressListed'
  BY <1>2 DEF InProgressListed, Listed, Distinct, Members
<1>5. EndedKept
  BY <1>2 DEF EndedKept
<1>6. QED
  BY <1>3, <1>4, <1>5

\* evaluateProposalOutcome.
LEMMA EvaluateInv ==
    ASSUME GovInv, NEW id \in DOMAIN proposals, EvaluateProposalOutcome(id)
    PROVE  GovernanceTypeOK' /\ InProgressListed' /\ EndedKept
<1>1. PICK outcome : Decide(id, outcome) /\ Close(id, outcome)
  BY DEF EvaluateProposalOutcome
<1>2. ConfigOK
  BY DEF GovInv, GovernanceTypeOK, ConfigOK
<1>3. ConfigOK' /\ outcome \in Outcomes \ {"InProgress"}
  BY <1>1, <1>2, DecideInv
<1>4. proposals[id].outcome = "InProgress" /\ UNCHANGED destroyed
  BY DEF EvaluateProposalOutcome, Evaluable
<1>5. QED
  BY <1>1, <1>3, <1>4, EndInv

\* evaluateProposalOutcome executed by evaluateProposalOutcome: two
\* proposals end, each leaves the list once.
LEMMA EvaluateNestedInv ==
    ASSUME GovInv, NEW id \in DOMAIN proposals, NEW q \in DOMAIN proposals,
           EvaluateNested(id, q)
    PROVE  GovernanceTypeOK' /\ InProgressListed' /\ EndedKept
<1>1. PICK outcome :
         /\ Decide(q, outcome)
         /\ proposals' = [proposals EXCEPT ![q].outcome = outcome,
                                           ![id].outcome = "ApprovedExecuted"]
  BY DEF EvaluateNested
<1>2. ConfigOK
  BY DEF GovInv, GovernanceTypeOK, ConfigOK
<1>3. ConfigOK' /\ outcome \in Outcomes \ {"InProgress"}
  BY <1>1, <1>2, DecideInv
<1>4. /\ q # id
      /\ proposals[q].outcome = "InProgress"
      /\ proposals[id].outcome = "InProgress"
      /\ UNCHANGED destroyed
      /\ inProgressProposals' =
            RemoveFromInProgress(RemoveFromInProgress(inProgressProposals, q), id)
  BY DEF EvaluateNested, Nested, Evaluable
<1>5. /\ proposals \in Seq(Proposal)
      /\ inProgressProposals \in Seq(DOMAIN proposals)
      /\ Listed(proposals, inProgressProposals)
  BY DEF GovInv, GovernanceTypeOK, InProgressListed, Listed, Distinct, Members
<1> DEFINE props == [proposals EXCEPT ![q].outcome = outcome]
           list  == RemoveFromInProgress(inProgressProposals, q)
<1>6. /\ props \in Seq(Proposal)
      /\ DOMAIN props = DOMAIN proposals
      /\ \A other \in DOMAIN proposals : other # q => props[other] = proposals[other]
      /\ list \in Seq(DOMAIN proposals)
      /\ Listed(props, list)
  BY <1>3, <1>4, <1>5, CloseListed
<1>7. proposals' = [props EXCEPT ![id].outcome = "ApprovedExecuted"]
  BY <1>1
<1>8. inProgressProposals' = RemoveFromInProgress(list, id)
  BY <1>4
<1> HIDE DEF props, list
<1>9. "ApprovedExecuted" \in Outcomes \ {"InProgress"}
  BY DEF Outcomes
<1>10. /\ proposals' \in Seq(Proposal)
       /\ DOMAIN proposals' = DOMAIN props
       /\ \A other \in DOMAIN props : other # id => proposals'[other] = props[other]
       /\ inProgressProposals' \in Seq(DOMAIN props)
       /\ Listed(proposals', inProgressProposals')
  <2>1. id \in DOMAIN props /\ props[id].outcome = "InProgress" /\ list \in Seq(DOMAIN props)
    BY <1>4, <1>6
  <2>2. props \in Seq(Proposal) /\ Listed(props, list)
    BY <1>6
  <2>3. QED
    BY <1>7, <1>8, <1>9, <2>1, <2>2, CloseListed
<1>11. GovernanceTypeOK'
  BY <1>3, <1>4, <1>6, <1>10 DEF GovernanceTypeOK, GovInv, ConfigOK
<1>12. InProgressListed'
  BY <1>10 DEF InProgressListed, Listed, Distinct, Members
<1>13. EndedKept
  BY <1>4, <1>6, <1>10 DEF EndedKept
<1>14. QED
  BY <1>11, <1>12, <1>13

\* Every step under governance keeps the invariant, and keeps what has ended.
LEMMA GovernedInvStep ==
    ASSUME GovInv, [GovernedNext]_allVars
    PROVE  GovernanceTypeOK' /\ InProgressListed' /\ EndedKept
<1>1. CASE UNCHANGED governedVars
  <2>1. UNCHANGED <<proposals, inProgressProposals, settings, otherAddress, destroyed>>
    BY <1>1 DEF governedVars, votingVars, configVars
  <2>2. GovernanceTypeOK'
    BY <2>1 DEF GovInv, GovernanceTypeOK
  <2>3. InProgressListed'
    BY <2>1 DEF GovInv, InProgressListed
  <2>4. QED
    BY <2>1, <2>2, <2>3 DEF EndedKept
<1>2. ASSUME NEW a, NEW call \in ProposalCalls, SubmitProposal(a, call)
      PROVE  GovernanceTypeOK' /\ InProgressListed' /\ EndedKept
  BY <1>2, SubmitProposalInv
<1>3. ASSUME NEW id \in DOMAIN proposals, NEW a \in Accounts, NEW vote \in {"No", "Yes"},
             SubmitVote(a, id, vote) \/ UpdateVote(a, id, vote)
      PROVE  GovernanceTypeOK' /\ InProgressListed' /\ EndedKept
  BY <1>3, VoteInv
<1>4. ASSUME NEW id \in DOMAIN proposals, VetoProposal(id)
      PROVE  GovernanceTypeOK' /\ InProgressListed' /\ EndedKept
  <2>1. /\ proposals[id].outcome = "InProgress"
        /\ Close(id, "Vetoed")
        /\ UNCHANGED <<configVars, destroyed>>
    BY <1>4 DEF VetoProposal
  <2>2. ConfigOK'
    BY <2>1 DEF GovInv, GovernanceTypeOK, ConfigOK, configVars
  <2>3. "Vetoed" \in Outcomes \ {"InProgress"}
    BY DEF Outcomes
  <2>4. QED
    BY <2>1, <2>2, <2>3, EndInv
<1>5. ASSUME NEW g, TransferGuardianship(g) \/ DestroyOther
      PROVE  GovernanceTypeOK' /\ InProgressListed' /\ EndedKept
  <2>1. /\ UNCHANGED <<proposals, inProgressProposals, settings, otherAddress>>
        /\ destroyed' \subseteq OtherAddresses
    BY <1>5 DEF TransferGuardianship, DestroyOther, votingVars, configVars, GovInv,
                GovernanceTypeOK
  <2>2. GovernanceTypeOK'
    BY <2>1 DEF GovInv, GovernanceTypeOK
  <2>3. InProgressListed'
    BY <2>1 DEF GovInv, InProgressListed
  <2>4. QED
    BY <2>1, <2>2, <2>3 DEF EndedKept
<1>6. ASSUME NEW call \in GuardianCalls, GuardianExecuteTransaction(call)
      PROVE  GovernanceTypeOK' /\ InProgressListed' /\ EndedKept
  <2>1. /\ TRUE \in CallOutcomes(call)
        /\ CallEffect(call)
        /\ UNCHANGED <<proposals, inProgressProposals, destroyed>>
    BY <1>6 DEF GuardianExecuteTransaction, votingVars
  <2>2. call \in Calls
    BY GovernanceAssumption
  <2>3. ConfigOK
    BY DEF GovInv, GovernanceTypeOK, ConfigOK
  <2>4. ConfigOK'
    BY <2>1, <2>2, <2>3, CallConfig
  <2>5. GovernanceTypeOK'
    BY <2>1, <2>4 DEF GovInv, GovernanceTypeOK, ConfigOK
  <2>6. InProgressListed'
    BY <2>1 DEF GovInv, InProgressListed
  <2>7. QED
    BY <2>1, <2>5, <2>6 DEF EndedKept
<1>7. CASE AccountStep
  BY <1>1, <1>7 DEF AccountStep
<1>8. CASE VotingStep
  BY <1>2, <1>3, <1>4, <1>5, <1>8 DEF VotingStep, ProposalVote, Guardianship
<1>9. CASE EvaluationStep
  BY <1>9, EvaluateInv, EvaluateNestedInv DEF EvaluationStep
<1>10. CASE GuardianStep
  BY <1>6, <1>10 DEF GuardianStep
<1>11. CASE UNCHANGED allVars
  BY <1>1, <1>11 DEF allVars
<1>12. QED
  BY <1>7, <1>8, <1>9, <1>10, <1>11 DEF GovernedNext

\* The state in which governance is initialised.
LEMMA GovernedInvInit == GovernedInit => GovernanceTypeOK /\ InProgressListed
<1> SUFFICES ASSUME GovernedInit
             PROVE  GovernanceTypeOK /\ InProgressListed
  OBVIOUS
<1>1. /\ proposals = <<>>
      /\ inProgressProposals = <<>>
      /\ settings = FirstSettings
      /\ otherAddress \in OtherAddresses \cup {NoAddress}
      /\ destroyed = {}
  BY DEF GovernedInit, GovernanceInit
<1>2. GovernanceTypeOK
  BY <1>1, GovernanceAssumption DEF GovernanceTypeOK
<1>3. InProgressListed
  BY <1>1 DEF InProgressListed
<1>4. QED
  BY <1>2, <1>3

-----------------------------------------------------------------------------
(* Theorems.                                                               *)

\* The invariant holds of every behaviour.
LEMMA GovernedInvariant == GovernedSpec => []GovInv
<1>1. GovernedSpec => []TypeOK
  BY Governed, TypeCorrect, PTL
<1>2. GovernedInit => GovernanceTypeOK /\ InProgressListed
  BY GovernedInvInit
<1>3. TypeOK /\ (GovernanceTypeOK /\ InProgressListed) /\ [GovernedNext]_allVars
         => (GovernanceTypeOK /\ InProgressListed)'
  BY GovernedInvStep DEF GovInv
<1>4. GovInv <=> TypeOK /\ (GovernanceTypeOK /\ InProgressListed)
  BY DEF GovInv
<1>5. QED
  BY <1>1, <1>2, <1>3, <1>4, PTL DEF GovernedSpec

\* Proposals, tallies, settings and registry stay what they may be: no
\* magnitude becomes negative when votes change sides, and no sequence of
\* proposals brings the settings where the setters do not allow them.
THEOREM GovernanceTypeCorrect == GovernedSpec => []GovernanceTypeOK
<1>1. GovInv => GovernanceTypeOK
  BY DEF GovInv
<1>2. QED
  BY <1>1, GovernedInvariant, PTL

\* The array of proposals in progress is exact, however many proposals there
\* are and whatever they execute.
THEOREM ListExact == GovernedSpec => []InProgressListed
<1>1. GovInv => InProgressListed
  BY DEF GovInv
<1>2. QED
  BY <1>1, GovernedInvariant, PTL

\* A proposal that has come to an outcome keeps it.
THEOREM OutcomesNeverChange == GovernedSpec => OutcomesFinal
<1>1. GovInv /\ [GovernedNext]_allVars =>
        [\A id \in DOMAIN proposals :
            proposals[id].outcome # "InProgress" =>
                proposals'[id].outcome = proposals[id].outcome]_allVars
  BY GovernedInvStep DEF EndedKept
<1>2. QED
  BY <1>1, GovernedInvariant, PTL DEF GovernedSpec, OutcomesFinal

-----------------------------------------------------------------------------
(* Tallies.                                                                *)

Voters(p, vote) == {a \in Accounts : p.votes[a] = vote}

TallyMatches(p) ==
    /\ p.voteMagnitudeYes = Total(p.voteMagnitudes, Voters(p, "Yes"))
    /\ p.voteMagnitudeNo = Total(p.voteMagnitudes, Voters(p, "No"))
    /\ p.numVotes = Cardinality(Voters(p, "Yes") \cup Voters(p, "No"))

Tallies == \A id \in DOMAIN proposals : TallyMatches(proposals[id])

LEMMA TalliesAreTallies == Tallies <=> TalliesMatch
BY DEF Tallies, TalliesMatch, TallyMatches, Voters

\* Two proposals with the same votes.
SameVotes(p, q) ==
    /\ q.votes = p.votes /\ q.voteMagnitudes = p.voteMagnitudes
    /\ q.voteMagnitudeYes = p.voteMagnitudeYes /\ q.voteMagnitudeNo = p.voteMagnitudeNo
    /\ q.numVotes = p.numVotes

\* How the step of a proposal, a vote or an evaluation changes the proposals.
Submitted ==
    \E new \in Proposal :
        /\ proposals' = Append(proposals, new)
        /\ new.votes = [v \in Accounts |-> "None"]
        /\ new.voteMagnitudeYes = 0 /\ new.voteMagnitudeNo = 0 /\ new.numVotes = 0
        /\ new.submissionBlockNumber = now /\ new.outcome = "InProgress"
        /\ new.call \in ProposalCalls

Voted ==
    \E id \in DOMAIN proposals, a \in Accounts, vote \in {"No", "Yes"} :
        SubmitVote(a, id, vote) \/ UpdateVote(a, id, vote)

\* Nothing but outcomes changes from one sequence of proposals to another.
SamePolls(props, after) ==
    /\ DOMAIN after = DOMAIN props
    /\ \A id \in DOMAIN props :
          /\ SameVotes(props[id], after[id])
          /\ after[id].submissionBlockNumber = props[id].submissionBlockNumber
          /\ after[id].call = props[id].call

Recorded == SamePolls(proposals, proposals')

LEMMA Unrecorded == ASSUME UNCHANGED proposals PROVE Recorded
BY DEF Recorded, SamePolls, SameVotes

LEMMA RecordedTwice ==
    ASSUME NEW first, NEW second, NEW third, SamePolls(first, second), SamePolls(second, third)
    PROVE  SamePolls(first, third)
BY DEF SamePolls, SameVotes

\* An outcome is set.
LEMMA OutcomeRecorded ==
    ASSUME NEW props \in Seq(Proposal), NEW id \in DOMAIN props, NEW outcome, NEW after,
           after = [props EXCEPT ![id].outcome = outcome]
    PROVE  SamePolls(props, after)
<1>1. props[id] \in Proposal /\ DOMAIN after = DOMAIN props
  OBVIOUS
<1>2. after[id] = [props[id] EXCEPT !.outcome = outcome]
  OBVIOUS
<1>3. \A i \in DOMAIN props \ {id} : after[i] = props[i]
  OBVIOUS
<1>4. /\ SameVotes(props[id], after[id])
      /\ after[id].submissionBlockNumber = props[id].submissionBlockNumber
      /\ after[id].call = props[id].call
  BY <1>1, <1>2 DEF Proposal, SameVotes
<1>5. \A i \in DOMAIN props \ {id} : /\ SameVotes(props[i], after[i])
                                     /\ after[i].submissionBlockNumber = props[i].submissionBlockNumber
                                     /\ after[i].call = props[i].call
  BY <1>3 DEF SameVotes
<1>6. QED
  BY <1>1, <1>4, <1>5 DEF SamePolls

LEMMA SubmissionAdds ==
    ASSUME GovInv, NEW a, NEW call \in ProposalCalls, SubmitProposal(a, call)
    PROVE  Submitted
<1> DEFINE new == [submissionBlockNumber |-> now,
                   call                  |-> call,
                   targetContractAddress |-> TargetAddress(call),
                   contractHash          |-> CodeHash(TargetAddress(call)),
                   outcome               |-> "InProgress",
                   voteMagnitudeYes      |-> 0,
                   voteMagnitudeNo       |-> 0,
                   numVotes              |-> 0,
                   votes                 |-> [v \in Accounts |-> "None"],
                   voteMagnitudes        |-> [v \in Accounts |-> 0]]
<1>1. proposals' = Append(proposals, new)
  BY DEF SubmitProposal
<1>2. /\ TargetAddress(call) \in Nat
      /\ CodeHash(TargetAddress(call)) \in BOOLEAN
      /\ now \in Nat
  BY GovernanceAssumption DEF GovInv, TypeOK, StakingTypeOK, GovernanceTypeOK, TargetAddress,
                              CodeHash, NoAddress, ProtocolAddress
<1>3. new \in Proposal
  BY <1>2 DEF Proposal, Outcomes
<1>4. /\ new.votes = [v \in Accounts |-> "None"]
      /\ new.voteMagnitudeYes = 0 /\ new.voteMagnitudeNo = 0 /\ new.numVotes = 0
      /\ new.submissionBlockNumber = now /\ new.outcome = "InProgress" /\ new.call = call
  OBVIOUS
<1> HIDE DEF new
<1>5. QED
  BY <1>1, <1>3, <1>4 DEF Submitted

LEMMA EvaluationRecords ==
    ASSUME GovInv, EvaluationStep
    PROVE  Recorded
<1>1. proposals \in Seq(Proposal)
  BY DEF GovInv, GovernanceTypeOK
<1>2. ASSUME NEW id \in DOMAIN proposals, NEW outcome, Close(id, outcome)
      PROVE  Recorded
  BY <1>1, <1>2, OutcomeRecorded DEF Close, Recorded
<1>3. ASSUME NEW id \in DOMAIN proposals, NEW q \in DOMAIN proposals, EvaluateNested(id, q)
      PROVE  Recorded
  <2>1. PICK outcome \in Outcomes :
           /\ Decide(q, outcome)
           /\ proposals' = [proposals EXCEPT ![q].outcome = outcome,
                                             ![id].outcome = "ApprovedExecuted"]
    BY <1>3 DEF EvaluateNested
  <2> DEFINE props == [proposals EXCEPT ![q].outcome = outcome]
  <2>2. props \in Seq(Proposal) /\ proposals' = [props EXCEPT ![id].outcome = "ApprovedExecuted"]
    <3>0. proposals[q] \in Proposal
      BY <1>1
    <3>1. [proposals[q] EXCEPT !.outcome = outcome] \in Proposal
      BY <2>1, <3>0 DEF Proposal
    <3>2. props = [proposals EXCEPT ![q] = [proposals[q] EXCEPT !.outcome = outcome]]
      OBVIOUS
    <3>3. props \in Seq(Proposal)
      BY <1>1, <3>1, <3>2
    <3>4. QED
      BY <2>1, <3>3
  <2>3. SamePolls(proposals, props)
    BY <1>1, OutcomeRecorded
  <2>4. id \in DOMAIN props
    OBVIOUS
  <2> HIDE DEF props
  <2>5. SamePolls(props, proposals')
    BY <2>2, <2>4, OutcomeRecorded
  <2>6. QED
    BY <2>3, <2>5, RecordedTwice DEF Recorded
<1>4. QED
  BY <1>2, <1>3 DEF EvaluationStep, EvaluateProposalOutcome

\* A step submits a proposal, casts or changes a vote, or sets outcomes.
LEMMA GovernedMoves ==
    ASSUME GovInv, [GovernedNext]_allVars
    PROVE  Submitted \/ (Voted /\ UNCHANGED vars) \/ Recorded
<1>1. proposals \in Seq(Proposal)
  BY DEF GovInv, GovernanceTypeOK
<1>2. CASE UNCHANGED proposals
  BY <1>2, Unrecorded
<1>3. CASE VotingStep
  <2>1. CASE \E a \in Accounts \cup Guardians, call \in ProposalCalls : SubmitProposal(a, call)
    BY <2>1, SubmissionAdds
  <2>2. CASE \E id \in DOMAIN proposals : VetoProposal(id)
    BY <1>1, <2>2, OutcomeRecorded DEF VetoProposal, Close, Recorded
  <2>3. CASE (\E g \in Guardians \cup {NoProvider} : TransferGuardianship(g)) \/ DestroyOther
    BY <1>2, <2>3 DEF TransferGuardianship, DestroyOther, votingVars
  <2>4. QED
    BY <1>3, <2>1, <2>2, <2>3 DEF VotingStep, ProposalVote, Guardianship, Voted
<1>4. CASE EvaluationStep
  BY <1>4, EvaluationRecords
<1>5. CASE AccountStep \/ GuardianStep \/ UNCHANGED allVars
  BY <1>2, <1>5 DEF AccountStep, GuardianStep, GuardianExecuteTransaction, allVars, governedVars,
                    votingVars
<1>6. QED
  BY <1>3, <1>4, <1>5 DEF GovernedNext

\* A new proposal has no votes.
LEMMA NoVotesMatch ==
    ASSUME NEW p, p.votes = [v \in Accounts |-> "None"],
           p.voteMagnitudeYes = 0, p.voteMagnitudeNo = 0, p.numVotes = 0
    PROVE  TallyMatches(p)
<1>1. Voters(p, "Yes") = {} /\ Voters(p, "No") = {} /\ {} \cup {} = {}
  BY DEF Voters
<1>2. Cardinality({}) = 0
  BY FS_EmptySet
<1>3. QED
  BY <1>1, <1>2, SumEmpty DEF TallyMatches, Total

LEMMA AccountsFinite == IsFiniteSet(Accounts)
BY DelegateAssumption, FS_Union DEF Accounts

LEMMA VotersFinite ==
    ASSUME NEW p, NEW vote
    PROVE  IsFiniteSet(Voters(p, vote))
BY AccountsFinite, FS_Subset DEF Voters

\* From p to q, a votes for the first time, or changes its vote.
Casts(p, q, a, side, stake) ==
    /\ a \in Accounts /\ side \in {"No", "Yes"} /\ stake \in Nat
    /\ p.votes \in [Accounts -> {"None", "No", "Yes"}]
    /\ p.voteMagnitudes \in [Accounts -> Nat]
    /\ p.votes[a] = "None"
    /\ q.votes = [p.votes EXCEPT ![a] = side]
    /\ q.voteMagnitudes = [p.voteMagnitudes EXCEPT ![a] = stake]

Changes(p, q, a, side, old) ==
    /\ a \in Accounts /\ side \in {"No", "Yes"} /\ old \in {"No", "Yes"}
    /\ p.votes \in [Accounts -> {"None", "No", "Yes"}]
    /\ p.voteMagnitudes \in [Accounts -> Nat]
    /\ p.votes[a] = old /\ side # old
    /\ q.votes = [p.votes EXCEPT ![a] = side]
    /\ q.voteMagnitudes = p.voteMagnitudes

\* A first vote adds its voter to one side.
LEMMA VoteAdds ==
    ASSUME NEW p, NEW q, NEW a, NEW side, NEW stake, Casts(p, q, a, side, stake)
    PROVE  /\ Total(q.voteMagnitudes, Voters(q, side))
                 = Total(p.voteMagnitudes, Voters(p, side)) + stake
           /\ \A other \in {"No", "Yes"} \ {side} :
                 Total(q.voteMagnitudes, Voters(q, other))
                    = Total(p.voteMagnitudes, Voters(p, other))
           /\ Cardinality(Voters(q, "Yes") \cup Voters(q, "No"))
                 = Cardinality(Voters(p, "Yes") \cup Voters(p, "No")) + 1
<1> DEFINE f == p.voteMagnitudes
           g == q.voteMagnitudes
<1>1. /\ Voters(q, side) = Voters(p, side) \cup {a}
      /\ \A other \in {"No", "Yes"} \ {side} : Voters(q, other) = Voters(p, other)
      /\ \A other \in {"No", "Yes"} : a \notin Voters(p, other) /\ Voters(p, other) \subseteq Accounts
  BY DEF Voters, Casts
<1>2. /\ \A x \in Accounts : f[x] \in Nat /\ g[x] \in Nat /\ (x # a => g[x] = f[x])
      /\ g[a] = stake /\ stake \in Nat /\ side \in {"No", "Yes"}
  BY DEF Casts
<1> HIDE DEF f, g
<1>3. ASSUME NEW other \in {"No", "Yes"}
      PROVE  SumFunctionOnSet(g, Voters(p, other)) = SumFunctionOnSet(f, Voters(p, other))
  <2>1. \A x \in Voters(p, other) : f[x] \in Nat /\ g[x] = f[x]
    BY <1>1, <1>2
  <2>2. QED
    BY <2>1, VotersFinite, SumSame
<1>4. SumFunctionOnSet(g, Voters(p, side) \cup {a})
         = SumFunctionOnSet(f, Voters(p, side)) + stake
  <2> DEFINE S == Voters(p, side) \cup {a}
  <2>1. IsFiniteSet(S) /\ a \in S /\ S \ {a} = Voters(p, side)
    BY <1>1, <1>2, VotersFinite, FS_AddElement
  <2>2. \A x \in S : g[x] \in Nat
    BY <1>1, <1>2
  <2> HIDE DEF S
  <2>3. /\ SumFunctionOnSet(g, S) = g[a] + SumFunctionOnSet(g, S \ {a})
        /\ SumFunctionOnSet(g, S \ {a}) \in Nat
    BY <2>1, <2>2, SumSplit
  <2>4. SumFunctionOnSet(g, Voters(p, side)) = SumFunctionOnSet(f, Voters(p, side))
    BY <1>2, <1>3
  <2>5. SumFunctionOnSet(g, S) = SumFunctionOnSet(f, Voters(p, side)) + stake
    <3>1. SumFunctionOnSet(g, S \ {a}) = SumFunctionOnSet(f, Voters(p, side))
      BY <2>1, <2>4
    <3>2. SumFunctionOnSet(g, S) = stake + SumFunctionOnSet(g, S \ {a})
      BY <1>2, <2>3
    <3>3. QED
      BY <1>2, <2>3, <3>1, <3>2
  <2>6. QED
    BY <2>5 DEF S
<1>5. Cardinality(Voters(q, "Yes") \cup Voters(q, "No"))
         = Cardinality(Voters(p, "Yes") \cup Voters(p, "No")) + 1
  <2> DEFINE all == Voters(p, "Yes") \cup Voters(p, "No")
  <2>1. IsFiniteSet(all) /\ a \notin all
    BY <1>1, VotersFinite, FS_Union
  <2>2. Voters(q, "Yes") \cup Voters(q, "No") = all \cup {a}
    BY <1>1, <1>2
  <2>3. QED
    BY <2>1, <2>2, FS_AddElement
<1>6. QED
  BY <1>1, <1>3, <1>4, <1>5 DEF Total, f, g

\* A changed vote takes what it counted from one side to the other.
LEMMA VoteMoves ==
    ASSUME NEW p, NEW q, NEW a, NEW side, NEW old, Changes(p, q, a, side, old)
    PROVE  /\ Total(q.voteMagnitudes, Voters(q, side))
                 = Total(p.voteMagnitudes, Voters(p, side)) + p.voteMagnitudes[a]
           /\ Total(q.voteMagnitudes, Voters(q, old))
                 = Total(p.voteMagnitudes, Voters(p, old)) - p.voteMagnitudes[a]
           /\ Voters(q, "Yes") \cup Voters(q, "No") = Voters(p, "Yes") \cup Voters(p, "No")
<1> DEFINE f == p.voteMagnitudes
<1>1. /\ Voters(q, side) = Voters(p, side) \cup {a}
      /\ Voters(q, old) = Voters(p, old) \ {a}
      /\ a \notin Voters(p, side) /\ a \in Voters(p, old)
      /\ Voters(q, side) \subseteq Accounts /\ Voters(p, old) \subseteq Accounts
  BY DEF Voters, Changes
<1>2. a \in Accounts /\ \A x \in Accounts : f[x] \in Nat
  BY DEF Changes
<1>3. f = q.voteMagnitudes
  BY DEF Changes
<1> HIDE DEF f
<1>4. SumFunctionOnSet(f, Voters(q, side)) = SumFunctionOnSet(f, Voters(p, side)) + f[a]
  <2> DEFINE S == Voters(q, side)
  <2>1. IsFiniteSet(S) /\ a \in S /\ S \ {a} = Voters(p, side) /\ \A x \in S : f[x] \in Nat
    BY <1>1, <1>2, VotersFinite
  <2> HIDE DEF S
  <2>2. /\ SumFunctionOnSet(f, S) = f[a] + SumFunctionOnSet(f, S \ {a})
        /\ SumFunctionOnSet(f, S \ {a}) \in Nat
    BY <2>1, SumSplit
  <2>3. f[a] \in Nat
    BY <1>2
  <2>4. SumFunctionOnSet(f, S) = SumFunctionOnSet(f, S \ {a}) + f[a]
    BY <2>2, <2>3
  <2>5. QED
    BY <2>1, <2>4 DEF S
<1>5. SumFunctionOnSet(f, Voters(q, old)) = SumFunctionOnSet(f, Voters(p, old)) - f[a]
  <2> DEFINE S == Voters(p, old)
  <2>1. IsFiniteSet(S) /\ a \in S /\ S \ {a} = Voters(q, old) /\ \A x \in S : f[x] \in Nat
    BY <1>1, <1>2, VotersFinite
  <2> HIDE DEF S
  <2>2. /\ SumFunctionOnSet(f, S) = f[a] + SumFunctionOnSet(f, S \ {a})
        /\ SumFunctionOnSet(f, S \ {a}) \in Nat
    BY <2>1, SumSplit
  <2>3. f[a] \in Nat
    BY <1>2
  <2>4. SumFunctionOnSet(f, S \ {a}) = SumFunctionOnSet(f, S) - f[a]
    BY <2>2, <2>3
  <2>5. QED
    BY <2>1, <2>4 DEF S
<1>6. Voters(q, "Yes") \cup Voters(q, "No") = Voters(p, "Yes") \cup Voters(p, "No")
  BY DEF Changes, Voters
<1>7. QED
  BY <1>3, <1>4, <1>5, <1>6 DEF Total, f

\* p after a vote, and after a vote was changed.
WithVote(p, a, vote, stake) ==
    [p EXCEPT !.votes[a] = vote,
              !.voteMagnitudes[a] = stake,
              !.voteMagnitudeYes = IF vote = "Yes" THEN @ + stake ELSE @,
              !.voteMagnitudeNo = IF vote = "No" THEN @ + stake ELSE @,
              !.numVotes = @ + 1]

WithUpdate(p, a, vote) ==
    IF vote = "Yes"
      THEN [p EXCEPT !.votes[a] = vote,
                     !.voteMagnitudeYes = @ + p.voteMagnitudes[a],
                     !.voteMagnitudeNo = @ - p.voteMagnitudes[a]]
      ELSE [p EXCEPT !.votes[a] = vote,
                     !.voteMagnitudeYes = @ - p.voteMagnitudes[a],
                     !.voteMagnitudeNo = @ + p.voteMagnitudes[a]]

LEMMA VotedProposal ==
    ASSUME NEW p \in Proposal, NEW a \in Accounts, NEW vote \in {"No", "Yes"},
           NEW stake \in Nat, TallyMatches(p), p.votes[a] = "None"
    PROVE  TallyMatches(WithVote(p, a, vote, stake))
<1> DEFINE q == WithVote(p, a, vote, stake)
<1>1. /\ q.votes = [p.votes EXCEPT ![a] = vote]
      /\ q.voteMagnitudes = [p.voteMagnitudes EXCEPT ![a] = stake]
      /\ q.voteMagnitudeYes = IF vote = "Yes" THEN p.voteMagnitudeYes + stake
                                              ELSE p.voteMagnitudeYes
      /\ q.voteMagnitudeNo = IF vote = "No" THEN p.voteMagnitudeNo + stake ELSE p.voteMagnitudeNo
      /\ q.numVotes = p.numVotes + 1
  BY DEF Proposal, WithVote
<1>2. p.votes \in [Accounts -> {"None", "No", "Yes"}] /\ p.voteMagnitudes \in [Accounts -> Nat]
  BY DEF Proposal
<1> HIDE DEF q
<1>3. /\ Total(q.voteMagnitudes, Voters(q, vote))
            = Total(p.voteMagnitudes, Voters(p, vote)) + stake
      /\ \A other \in {"No", "Yes"} \ {vote} :
            Total(q.voteMagnitudes, Voters(q, other)) = Total(p.voteMagnitudes, Voters(p, other))
      /\ Cardinality(Voters(q, "Yes") \cup Voters(q, "No"))
            = Cardinality(Voters(p, "Yes") \cup Voters(p, "No")) + 1
  <2>1. Casts(p, q, a, vote, stake)
    BY <1>1, <1>2 DEF Casts
  <2>2. QED
    BY <2>1, VoteAdds
<1>4. QED
  BY <1>1, <1>3 DEF TallyMatches, q

LEMMA UpdatedProposal ==
    ASSUME NEW p \in Proposal, NEW a \in Accounts, NEW vote \in {"No", "Yes"},
           TallyMatches(p), p.votes[a] \notin {"None", vote}
    PROVE  TallyMatches(WithUpdate(p, a, vote))
<1> DEFINE old == p.votes[a]
           q   == WithUpdate(p, a, vote)
<1>1. p.votes \in [Accounts -> {"None", "No", "Yes"}] /\ p.voteMagnitudes \in [Accounts -> Nat]
  BY DEF Proposal
<1>2. old \in {"No", "Yes"} /\ old # vote
  BY <1>1
<1>3. /\ q.votes = [p.votes EXCEPT ![a] = vote]
      /\ q.voteMagnitudes = p.voteMagnitudes
      /\ q.numVotes = p.numVotes
      /\ vote = "Yes" => /\ q.voteMagnitudeYes = p.voteMagnitudeYes + p.voteMagnitudes[a]
                         /\ q.voteMagnitudeNo = p.voteMagnitudeNo - p.voteMagnitudes[a]
      /\ vote = "No" => /\ q.voteMagnitudeYes = p.voteMagnitudeYes - p.voteMagnitudes[a]
                        /\ q.voteMagnitudeNo = p.voteMagnitudeNo + p.voteMagnitudes[a]
  BY DEF Proposal, WithUpdate
<1> HIDE DEF q
<1>4. /\ Total(q.voteMagnitudes, Voters(q, vote))
            = Total(p.voteMagnitudes, Voters(p, vote)) + p.voteMagnitudes[a]
      /\ Total(q.voteMagnitudes, Voters(q, old))
            = Total(p.voteMagnitudes, Voters(p, old)) - p.voteMagnitudes[a]
      /\ Voters(q, "Yes") \cup Voters(q, "No") = Voters(p, "Yes") \cup Voters(p, "No")
  <2>1. Changes(p, q, a, vote, old)
    BY <1>1, <1>2, <1>3 DEF Changes
  <2> HIDE DEF old
  <2>2. QED
    BY <2>1, VoteMoves
<1> HIDE DEF old
<1>5. q.numVotes = Cardinality(Voters(q, "Yes") \cup Voters(q, "No"))
  BY <1>3, <1>4 DEF TallyMatches
<1>6. /\ q.voteMagnitudeYes = Total(q.voteMagnitudes, Voters(q, "Yes"))
      /\ q.voteMagnitudeNo = Total(q.voteMagnitudes, Voters(q, "No"))
  <2>1. CASE vote = "Yes"
    <3>1. old = "No"
      BY <1>2, <2>1
    <3>2. QED
      BY <1>3, <1>4, <2>1, <3>1 DEF TallyMatches
  <2>2. CASE vote = "No"
    <3>1. old = "Yes"
      BY <1>2, <2>2
    <3>2. QED
      BY <1>3, <1>4, <2>2, <3>1 DEF TallyMatches
  <2>3. QED
    BY <2>1, <2>2
<1>7. QED
  BY <1>5, <1>6 DEF TallyMatches, q

LEMMA VotesTally ==
    ASSUME GovInv, Tallies, Voted
    PROVE  Tallies'
<1>1. PICK id \in DOMAIN proposals, a \in Accounts, vote \in {"No", "Yes"} :
         SubmitVote(a, id, vote) \/ UpdateVote(a, id, vote)
  BY DEF Voted
<1> DEFINE p == proposals[id]
           q == proposals'[id]
<1>2. p \in Proposal /\ TallyMatches(p) /\ proposals \in Seq(Proposal)
  BY DEF GovInv, GovernanceTypeOK, Tallies
<1>3. TallyMatches(q) /\ DOMAIN proposals' = DOMAIN proposals
      /\ \A i \in DOMAIN proposals \ {id} : proposals'[i] = proposals[i]
  <2>1. CASE SubmitVote(a, id, vote)
    <3>1. ActiveStake(a) \in Nat
      BY <2>1, ActiveStakeNat DEF SubmitVote, GovInv
    <3>2. q = WithVote(p, a, vote, ActiveStake(a)) /\ p.votes[a] = "None"
      BY <2>1 DEF SubmitVote, WithVote
    <3>3. DOMAIN proposals' = DOMAIN proposals
          /\ \A i \in DOMAIN proposals \ {id} : proposals'[i] = proposals[i]
      BY <2>1 DEF SubmitVote
    <3> HIDE DEF p, q
    <3>4. TallyMatches(q)
      BY <1>2, <3>1, <3>2, VotedProposal
    <3>5. QED
      BY <3>3, <3>4
  <2>2. CASE UpdateVote(a, id, vote)
    <3>1. q = WithUpdate(p, a, vote) /\ p.votes[a] \notin {"None", vote}
      BY <2>2 DEF UpdateVote, MovedMagnitude, WithUpdate
    <3>2. DOMAIN proposals' = DOMAIN proposals
          /\ \A i \in DOMAIN proposals \ {id} : proposals'[i] = proposals[i]
      BY <2>2 DEF UpdateVote
    <3> HIDE DEF p, q
    <3>3. TallyMatches(q)
      BY <1>2, <3>1, UpdatedProposal
    <3>4. QED
      BY <3>2, <3>3
  <2>3. QED
    BY <1>1, <2>1, <2>2
<1> HIDE DEF q
<1>4. \A i \in DOMAIN proposals \ {id} : TallyMatches(proposals'[i])
  BY <1>3 DEF Tallies
<1>5. TallyMatches(proposals'[id])
  BY <1>3 DEF q
<1>6. \A i \in DOMAIN proposals' : TallyMatches(proposals'[i])
  BY <1>3, <1>4, <1>5
<1>7. QED
  BY <1>6 DEF Tallies, TallyMatches, Voters, Accounts

LEMMA TalliesStep ==
    ASSUME GovInv, Tallies, [GovernedNext]_allVars
    PROVE  Tallies'
<1>1. proposals \in Seq(Proposal)
  BY DEF GovInv, GovernanceTypeOK
<1>2. CASE Submitted
  <2>1. PICK new \in Proposal :
           /\ proposals' = Append(proposals, new)
           /\ new.votes = [v \in Accounts |-> "None"]
           /\ new.voteMagnitudeYes = 0 /\ new.voteMagnitudeNo = 0 /\ new.numVotes = 0
    BY <1>2 DEF Submitted
  <2>2. TallyMatches(new)
    BY <2>1, NoVotesMatch
  <2>3. /\ DOMAIN proposals' = DOMAIN proposals \cup {Len(proposals) + 1}
        /\ \A i \in DOMAIN proposals : proposals'[i] = proposals[i]
        /\ proposals'[Len(proposals) + 1] = new
    BY <1>1, <2>1
  <2>4. \A i \in DOMAIN proposals' : TallyMatches(proposals'[i])
    BY <2>2, <2>3 DEF Tallies
  <2>5. QED
    BY <2>4 DEF Tallies, TallyMatches, Voters, Accounts
<1>3. CASE Voted
  BY <1>3, VotesTally
<1>4. CASE Recorded
  <2>1. ASSUME NEW p, NEW q, SameVotes(p, q), TallyMatches(p)
        PROVE  TallyMatches(q)
    BY <2>1 DEF SameVotes, TallyMatches, Voters
  <2>2. \A i \in DOMAIN proposals' : TallyMatches(proposals'[i])
    BY <1>4, <2>1 DEF Recorded, SamePolls, Tallies
  <2>3. QED
    BY <2>2 DEF Tallies, TallyMatches, Voters, Accounts
<1>5. QED
  BY <1>2, <1>3, <1>4, GovernedMoves

\* The magnitudes of a proposal are the sums over its voters of the stake each
\* had when it voted, however often votes change and stake moves.
THEOREM TalliesAreSums == GovernedSpec => []TalliesMatch
<1>1. GovernedInit => Tallies
  BY DEF GovernedInit, GovernanceInit, Tallies
<1>2. GovInv /\ Tallies /\ [GovernedNext]_allVars => Tallies'
  BY TalliesStep
<1>3. Tallies => TalliesMatch
  BY TalliesAreTallies
<1>4. QED
  BY <1>1, <1>2, <1>3, GovernedInvariant, PTL DEF GovernedSpec

-----------------------------------------------------------------------------
(* Decisions.                                                              *)

DecidedOutcomes == {"ApprovedExecuted", "ApprovedExecutionFailed", "Rejected", "QuorumNotMet"}
Decided(p) == p.outcome \in DecidedOutcomes

\* VotingOver and QuorumMet, by block, total stake and settings.
OverAt(p, block, s) == block > p.submissionBlockNumber + s.votingPeriod + s.executionDelay
QuorumAt(p, total, s) ==
    ((p.voteMagnitudeYes + p.voteMagnitudeNo) * 100) \div total >= s.votingQuorumPercent

\* The outcome is what the votes and the quorum say.
Holds(p, quorum) ==
    /\ p.outcome \in {"ApprovedExecuted", "ApprovedExecutionFailed"} =>
          quorum /\ p.voteMagnitudeYes > p.voteMagnitudeNo
    /\ p.outcome = "Rejected" => p.voteMagnitudeYes <= p.voteMagnitudeNo
    /\ p.outcome = "QuorumNotMet" => ~quorum

\* A decision stands when voting is over: then nobody can vote any more, and
\* the total stake at the block of submission is past.
DecisionOK(p, block, total, s) ==
    /\ Decided(p) => OverAt(p, block, s)
    /\ Holds(p, QuorumAt(p, total, s))

StakeAtSubmission(p) == TotalStakedAt(p.submissionBlockNumber)

Decisions ==
    \A id \in DOMAIN proposals :
        /\ proposals[id].submissionBlockNumber \in Blocks
        /\ DecisionOK(proposals[id], now, StakeAtSubmission(proposals[id]), settings)

LEMMA DecisionsStanding == Decisions => DecisionStands
BY DEF Decisions, DecisionOK, Holds, QuorumAt, StakeAtSubmission, DecisionStands, QuorumMet

\* The same votes and the same outcome, later.
LEMMA DecisionKept ==
    ASSUME NEW p \in Proposal, NEW q, NEW block \in Nat, NEW later \in Nat, NEW total, NEW after,
           NEW s \in Settings, DecisionOK(p, block, total, s), SameVotes(p, q),
           q.submissionBlockNumber = p.submissionBlockNumber, q.outcome = p.outcome,
           later >= block, OverAt(p, block, s) => after = total
    PROVE  DecisionOK(q, later, after, s)
<1>1. /\ p.submissionBlockNumber \in Nat
      /\ s.votingPeriod \in Nat /\ s.executionDelay \in Nat
  BY DEF Proposal, Settings
<1>2. Decided(q) <=> Decided(p)
  BY DEF Decided
<1>3. OverAt(p, block, s) => OverAt(q, later, s)
  BY <1>1 DEF OverAt
<1>4. CASE ~Decided(p)
  BY <1>2, <1>4 DEF DecisionOK, Holds, Decided, DecidedOutcomes
<1>5. CASE Decided(p)
  <2>1. OverAt(p, block, s) /\ Holds(p, QuorumAt(p, total, s))
    BY <1>5 DEF DecisionOK
  <2>2. QuorumAt(q, after, s) <=> QuorumAt(p, total, s)
    BY <2>1 DEF QuorumAt, SameVotes
  <2>3. Holds(q, QuorumAt(q, after, s))
    BY <2>1, <2>2 DEF Holds, SameVotes
  <2>4. QED
    BY <1>3, <2>1, <2>3 DEF DecisionOK
<1>6. QED
  BY <1>4, <1>5

\* A proposal that is not decided.
LEMMA UndecidedOK ==
    ASSUME NEW p, NEW block, NEW total, NEW s, ~Decided(p)
    PROVE  DecisionOK(p, block, total, s)
BY DEF DecisionOK, Holds, Decided, DecidedOutcomes

\* An evaluation decides as the votes say.
LEMMA DecideHolds ==
    ASSUME NEW id, NEW outcome, Decide(id, outcome), proposals[id] \in Proposal
    PROVE  /\ outcome \in {"ApprovedExecuted", "ApprovedExecutionFailed"} => Passed(proposals[id])
           /\ outcome = "Rejected" =>
                 proposals[id].voteMagnitudeYes <= proposals[id].voteMagnitudeNo
           /\ outcome = "QuorumNotMet" => ~QuorumMet(proposals[id])
<1> DEFINE p == proposals[id]
<1>1. p.voteMagnitudeYes \in Nat /\ p.voteMagnitudeNo \in Nat
  BY DEF Proposal
<1>2. CASE ~(TargetUnchanged(p) /\ Passed(p)) /\ outcome = ClosedAs(p)
  <2>1. CASE TargetAddress(p.call) # p.targetContractAddress
    BY <1>2, <2>1 DEF ClosedAs
  <2>2. CASE TargetAddress(p.call) = p.targetContractAddress /\ ~TargetUnchanged(p)
    BY <1>2, <2>2 DEF ClosedAs, TargetUnchanged
  <2>3. CASE TargetUnchanged(p) /\ ~QuorumMet(p)
    BY <1>2, <2>3 DEF ClosedAs, TargetUnchanged
  <2>4. CASE TargetUnchanged(p) /\ QuorumMet(p)
    BY <1>1, <1>2, <2>4 DEF ClosedAs, TargetUnchanged, Passed
  <2>5. QED
    BY <2>1, <2>2, <2>3, <2>4 DEF TargetUnchanged
<1>3. CASE Passed(p) /\ outcome \in {"ApprovedExecuted", "ApprovedExecutionFailed"}
  BY <1>3
<1>4. QED
  BY <1>2, <1>3 DEF Decide

\* While the settings stay as they are, decisions stand.
LEMMA DecisionsStep ==
    ASSUME GovInv, Inv, Inv', Decisions, [GovernedNext]_allVars, UNCHANGED settings
    PROVE  Decisions'
<1> DEFINE At(p)  == totalStakedHistory'[p.submissionBlockNumber]
           Good(p) == p.submissionBlockNumber \in Blocks /\ DecisionOK(p, now', At(p), settings)
           Ends(id, outcome) == proposals' = [proposals EXCEPT ![id].outcome = outcome]
<1>1. /\ proposals \in Seq(Proposal) /\ settings \in Settings
      /\ now \in Nat /\ now' \in Nat /\ Blocks \subseteq Nat /\ now \in Blocks
  <2>1. now \in 1..MaxBlock /\ now' \in 1..MaxBlock /\ MaxBlock \in Nat
    BY BlockAssumption DEF Inv, SystemOK, TypeOK, StakingTypeOK
  <2>2. proposals \in Seq(Proposal) /\ settings \in Settings
    BY DEF GovInv, GovernanceTypeOK
  <2>3. QED
    BY <2>1, <2>2 DEF Blocks
<1>2. now' >= now /\ PastKept
  BY GovernedStep, PastStays, RoundMoves
<1> DEFINE length == settings.votingPeriod + settings.executionDelay
<1>0. /\ length \in Nat
      /\ \A p : p.submissionBlockNumber \in Blocks =>
            /\ p.submissionBlockNumber \in Nat
            /\ OverAt(p, now, settings) <=> now > p.submissionBlockNumber + length
            /\ OverAt(p, now', settings) <=> now' > p.submissionBlockNumber + length
            /\ VotingOver(p) <=> OverAt(p, now, settings)
            /\ VotingOpen(p) => ~OverAt(p, now, settings)
  <2>1. settings.votingPeriod \in Nat /\ settings.executionDelay \in Nat
    BY <1>1 DEF Settings
  <2>2. ASSUME NEW p, p.submissionBlockNumber \in Blocks
        PROVE  /\ p.submissionBlockNumber \in Nat
               /\ OverAt(p, now, settings) <=> now > p.submissionBlockNumber + length
               /\ OverAt(p, now', settings) <=> now' > p.submissionBlockNumber + length
               /\ VotingOver(p) <=> OverAt(p, now, settings)
               /\ VotingOpen(p) => ~OverAt(p, now, settings)
    <3>1. p.submissionBlockNumber \in Nat
      BY <1>1, <2>2
    <3>2. p.submissionBlockNumber + settings.votingPeriod + settings.executionDelay
             = p.submissionBlockNumber + length
      BY <2>1, <3>1
    <3>3. VotingOpen(p) => ~(now > p.submissionBlockNumber + length)
      <4>1. \A b, n, x, y \in Nat : n <= b + x => ~(n > b + (x + y))
        OBVIOUS
      <4>2. QED
        BY <1>1, <2>1, <3>1, <4>1 DEF VotingOpen, VotingEnd
    <3>4. QED
      BY <3>1, <3>2, <3>3 DEF OverAt, VotingOver
  <2>3. QED
    BY <2>1, <2>2
<1> HIDE DEF length
<1>3. \A b \in Blocks : b < now => totalStakedHistory'[b] = totalStakedHistory[b]
  BY <1>2 DEF PastKept, TotalStakedAt
<1>4. ASSUME NEW p \in Proposal, NEW q, p.submissionBlockNumber \in Blocks,
             DecisionOK(p, now, StakeAtSubmission(p), settings), SameVotes(p, q),
             q.submissionBlockNumber = p.submissionBlockNumber, q.outcome = p.outcome
      PROVE  Good(q)
  <2>1. ASSUME OverAt(p, now, settings)
        PROVE  At(q) = StakeAtSubmission(p)
    <3>1. p.submissionBlockNumber < now
      BY <1>0, <1>1, <1>4, <2>1
    <3>2. QED
      BY <1>3, <1>4, <3>1 DEF StakeAtSubmission, TotalStakedAt
  <2> HIDE DEF At
  <2>2. DecisionOK(q, now', At(q), settings)
    BY <1>1, <1>2, <1>4, <2>1, DecisionKept
  <2>3. QED
    BY <1>4, <2>2
<1>5. ASSUME NEW i \in DOMAIN proposals, UNCHANGED proposals[i]
      PROVE  Good(proposals[i])
  <2>1. proposals[i] \in Proposal /\ SameVotes(proposals[i], proposals[i])
    BY <1>1 DEF SameVotes
  <2>2. /\ proposals[i].submissionBlockNumber \in Blocks
        /\ DecisionOK(proposals[i], now, StakeAtSubmission(proposals[i]), settings)
    BY DEF Decisions
  <2> HIDE DEF Good
  <2>3. QED
    BY <1>4, <2>1, <2>2
<1>6. ASSUME \A i \in DOMAIN proposals' : Good(proposals'[i])
      PROVE  Decisions'
  BY <1>6 DEF Decisions, StakeAtSubmission, TotalStakedAt
<1>7. ASSUME NEW p \in Proposal, NEW q, NEW outcome, p.submissionBlockNumber \in Blocks,
             VotingOver(p), SameVotes(p, q), q.submissionBlockNumber = p.submissionBlockNumber,
             q.outcome = outcome,
             outcome \in {"ApprovedExecuted", "ApprovedExecutionFailed"} => Passed(p),
             outcome = "Rejected" => p.voteMagnitudeYes <= p.voteMagnitudeNo,
             outcome = "QuorumNotMet" => ~QuorumMet(p)
      PROVE  Good(q)
  <2>1. OverAt(p, now, settings) /\ p.submissionBlockNumber < now
    BY <1>0, <1>1, <1>7
  <2>2. At(q) = StakeAtSubmission(p)
    BY <1>3, <1>7, <2>1 DEF StakeAtSubmission, TotalStakedAt
  <2>3. OverAt(q, now', settings)
    BY <1>0, <1>1, <1>2, <1>7, <2>1
  <2>4. QuorumAt(q, At(q), settings) <=> QuorumMet(p)
    BY <1>7, <2>2 DEF QuorumAt, QuorumMet, SameVotes, StakeAtSubmission
  <2> HIDE DEF At
  <2>5. Holds(q, QuorumAt(q, At(q), settings))
    BY <1>7, <2>4 DEF Holds, SameVotes, Passed
  <2>6. QED
    BY <1>7, <2>3, <2>5 DEF DecisionOK
<1>8. ASSUME NEW q, q.submissionBlockNumber \in Blocks, ~Decided(q)
      PROVE  Good(q)
  BY <1>8, UndecidedOK
<1> HIDE DEF Good
<1>9. CASE Submitted
  <2>1. PICK new \in Proposal :
           /\ proposals' = Append(proposals, new)
           /\ new.submissionBlockNumber = now /\ new.outcome = "InProgress"
    BY <1>9 DEF Submitted
  <2>2. Good(new)
    BY <1>1, <1>8, <2>1 DEF Decided, DecidedOutcomes
  <2>3. /\ DOMAIN proposals' = DOMAIN proposals \cup {Len(proposals) + 1}
        /\ \A i \in DOMAIN proposals : proposals'[i] = proposals[i]
        /\ proposals'[Len(proposals) + 1] = new
    BY <1>1, <2>1
  <2>4. QED
    BY <1>5, <1>6, <2>2, <2>3
<1>10. CASE Voted
  <2>1. PICK id \in DOMAIN proposals, a \in Accounts, vote \in {"No", "Yes"} :
           SubmitVote(a, id, vote) \/ UpdateVote(a, id, vote)
    BY <1>10 DEF Voted
  <2>2. proposals[id] \in Proposal /\ VotingOpen(proposals[id])
    BY <1>1, <2>1 DEF SubmitVote, UpdateVote
  <2>3. ~Decided(proposals[id])
    <3>1. ~OverAt(proposals[id], now, settings)
      BY <1>0, <2>2 DEF Decisions
    <3>2. QED
      BY <3>1 DEF Decisions, DecisionOK
  <2>4. /\ DOMAIN proposals' = DOMAIN proposals
        /\ \A i \in DOMAIN proposals \ {id} : proposals'[i] = proposals[i]
        /\ proposals'[id].outcome = proposals[id].outcome
        /\ proposals'[id].submissionBlockNumber = proposals[id].submissionBlockNumber
    <3>1. CASE SubmitVote(a, id, vote)
      BY <1>1, <2>2, <3>1 DEF SubmitVote, Proposal
    <3>2. CASE UpdateVote(a, id, vote)
      <4>1. /\ DOMAIN proposals' = DOMAIN proposals
            /\ \A i \in DOMAIN proposals \ {id} : proposals'[i] = proposals[i]
            /\ proposals'[id] = WithUpdate(proposals[id], a, vote)
        BY <3>2 DEF UpdateVote, MovedMagnitude, WithUpdate
      <4>2. /\ WithUpdate(proposals[id], a, vote).outcome = proposals[id].outcome
            /\ WithUpdate(proposals[id], a, vote).submissionBlockNumber
                  = proposals[id].submissionBlockNumber
        BY <2>2 DEF WithUpdate, Proposal
      <4>3. QED
        BY <4>1, <4>2
    <3>3. QED
      BY <2>1, <3>1, <3>2
  <2>5. Good(proposals'[id])
    BY <1>8, <2>3, <2>4 DEF Decisions, Decided
  <2>6. QED
    BY <1>5, <1>6, <2>4, <2>5
<1>11. ASSUME NEW id \in DOMAIN proposals, NEW outcome, Ends(id, outcome),
              outcome = "Vetoed" \/ (VotingOver(proposals[id]) /\ Decide(id, outcome))
       PROVE  Decisions'
  <2>1. /\ DOMAIN proposals' = DOMAIN proposals
        /\ SameVotes(proposals[id], proposals'[id])
        /\ proposals'[id].submissionBlockNumber = proposals[id].submissionBlockNumber
    <3>1. SamePolls(proposals, proposals')
      BY <1>1, <1>11, OutcomeRecorded
    <3>2. QED
      BY <3>1 DEF SamePolls
  <2>2. /\ \A i \in DOMAIN proposals \ {id} : proposals'[i] = proposals[i]
        /\ proposals'[id].outcome = outcome
        /\ proposals[id] \in Proposal
    <3>1. proposals[id] \in Proposal /\ id \in DOMAIN proposals
      BY <1>1
    <3>2. proposals'[id] = [proposals[id] EXCEPT !.outcome = outcome]
      BY <1>11
    <3>3. proposals'[id].outcome = outcome
      BY <3>1, <3>2 DEF Proposal
    <3>4. QED
      BY <1>11, <3>1, <3>3
  <2>3. Good(proposals'[id])
    <3>1. proposals[id].submissionBlockNumber \in Blocks
      BY DEF Decisions
    <3>2. CASE outcome = "Vetoed"
      BY <1>8, <2>1, <2>2, <3>1, <3>2 DEF Decided, DecidedOutcomes
    <3>3. CASE VotingOver(proposals[id]) /\ Decide(id, outcome)
      BY <1>7, <2>1, <2>2, <3>1, <3>3, DecideHolds
    <3>4. QED
      BY <1>11, <3>2, <3>3
  <2>4. QED
    BY <1>5, <1>6, <2>1, <2>2, <2>3
<1>12. ASSUME NEW id \in DOMAIN proposals, NEW q \in DOMAIN proposals, EvaluateNested(id, q)
       PROVE  Decisions'
  <2>1. PICK outcome \in Outcomes :
           /\ Decide(q, outcome)
           /\ proposals' = [proposals EXCEPT ![q].outcome = outcome,
                                             ![id].outcome = "ApprovedExecuted"]
    BY <1>12 DEF EvaluateNested
  <2>2. /\ VotingOver(proposals[id]) /\ VotingOver(proposals[q])
        /\ Passed(proposals[id]) /\ q # id
    BY <1>12 DEF EvaluateNested, Evaluable, Nested
  <2>3. Recorded
    BY <1>12, EvaluationRecords DEF EvaluationStep
  <2>4. /\ \A i \in DOMAIN proposals \ {id, q} : proposals'[i] = proposals[i]
        /\ proposals'[id].outcome = "ApprovedExecuted" /\ proposals'[q].outcome = outcome
        /\ proposals[id] \in Proposal /\ proposals[q] \in Proposal
    <3>1. proposals[id] \in Proposal /\ proposals[q] \in Proposal
      BY <1>1
    <3>2. /\ proposals'[id] = [proposals[id] EXCEPT !.outcome = "ApprovedExecuted"]
          /\ proposals'[q] = [proposals[q] EXCEPT !.outcome = outcome]
      BY <2>1, <2>2
    <3>3. proposals'[id].outcome = "ApprovedExecuted" /\ proposals'[q].outcome = outcome
      BY <3>1, <3>2 DEF Proposal
    <3>4. QED
      BY <2>1, <3>1, <3>3
  <2>5. Good(proposals'[id])
    BY <1>7, <2>2, <2>3, <2>4 DEF Recorded, SamePolls, Decisions
  <2>6. Good(proposals'[q])
    <3>1. /\ outcome \in {"ApprovedExecuted", "ApprovedExecutionFailed"} => Passed(proposals[q])
          /\ outcome = "Rejected" => proposals[q].voteMagnitudeYes <= proposals[q].voteMagnitudeNo
          /\ outcome = "QuorumNotMet" => ~QuorumMet(proposals[q])
      BY <2>1, <2>4, DecideHolds
    <3>2. QED
      BY <1>7, <2>2, <2>3, <2>4, <3>1 DEF Recorded, SamePolls, Decisions
  <2>7. DOMAIN proposals' = DOMAIN proposals
    BY <2>3 DEF Recorded, SamePolls
  <2>8. QED
    BY <1>5, <1>6, <2>4, <2>5, <2>6, <2>7
<1>13. CASE UNCHANGED proposals
  BY <1>5, <1>6, <1>13
<1>14. CASE VotingStep
  <2>1. CASE \E id \in DOMAIN proposals : VetoProposal(id)
    <3>1. PICK id \in DOMAIN proposals : Ends(id, "Vetoed")
      BY <2>1 DEF VetoProposal, Close
    <3> HIDE DEF Ends
    <3>2. QED
      BY <1>11, <3>1
  <2>2. CASE (\E g \in Guardians \cup {NoProvider} : TransferGuardianship(g)) \/ DestroyOther
    BY <1>13, <2>2 DEF TransferGuardianship, DestroyOther, votingVars
  <2>3. CASE \E a \in Accounts \cup Guardians, call \in ProposalCalls : SubmitProposal(a, call)
    BY <1>9, <2>3, SubmissionAdds
  <2>4. QED
    BY <1>10, <1>14, <2>1, <2>2, <2>3 DEF VotingStep, ProposalVote, Guardianship, Voted
<1>15. CASE EvaluationStep
  <2>1. ASSUME NEW id \in DOMAIN proposals, EvaluateProposalOutcome(id)
        PROVE  Decisions'
    BY <1>11, <2>1 DEF EvaluateProposalOutcome, Evaluable, Close
  <2>2. QED
    BY <1>12, <1>15, <2>1 DEF EvaluationStep
<1>16. CASE AccountStep \/ GuardianStep \/ UNCHANGED allVars
  BY <1>13, <1>16 DEF AccountStep, GuardianStep, GuardianExecuteTransaction, allVars, governedVars,
                      votingVars
<1>17. QED
  BY <1>14, <1>15, <1>16 DEF GovernedNext

\* As long as the settings stay as they are, a decision stands: what was
\* executed has a majority and the quorum ever after, what was rejected for a
\* lack of votes has not, whatever happens to the stake meanwhile.
THEOREM DecisionsStand == GovernedSpec /\ [][UNCHANGED settings]_allVars => []DecisionStands
<1>1. GovernedSpec => []Inv
  BY Governed, Invariance, PTL
<1>2. GovernedInit => Decisions
  BY DEF GovernedInit, GovernanceInit, Decisions
<1>3. GovInv /\ Inv /\ Inv' /\ Decisions /\ [GovernedNext]_allVars /\ [UNCHANGED settings]_allVars
         => Decisions'
  BY DecisionsStep DEF allVars, governedVars, configVars
<1>4. Decisions => DecisionStands
  BY DecisionsStanding
<1>5. QED
  BY <1>1, <1>2, <1>3, <1>4, GovernedInvariant, PTL DEF GovernedSpec

-----------------------------------------------------------------------------
(* The supply.                                                             *)

\* The balance of one account changes.
LEMMA BalanceChange ==
    ASSUME NEW f \in [Accounts -> Nat], NEW g \in [Accounts -> Nat], NEW a \in Accounts,
           \A x \in Accounts \ {a} : g[x] = f[x]
    PROVE  Total(g, Accounts) - g[a] = Total(f, Accounts) - f[a]
BY AccountsFinite, SumChange DEF Total

LEMMA BalancesNat ==
    ASSUME NEW f \in [Accounts -> Nat]
    PROVE  Total(f, Accounts) \in Nat
BY AccountsFinite, SumIsCount DEF Total

\* Tokens that become stake, or stake that becomes tokens.
LEMMA ExchangeSupply ==
    ASSUME StakingTypeOK, StakingTypeOK', NEW a \in Accounts, NEW change \in Int,
           wallet' = [wallet EXCEPT ![a] = @ - change], vault' = vault + change
    PROVE  Supply' = Supply
<1>1. /\ wallet \in [Accounts -> Nat] /\ wallet' \in [Accounts -> Nat]
      /\ vault \in Nat /\ vault' \in Nat
  BY DEF StakingTypeOK, Accounts
<1>2. Total(wallet', Accounts) - wallet'[a] = Total(wallet, Accounts) - wallet[a]
  BY <1>1, BalanceChange
<1>3. /\ Total(wallet, Accounts) \in Nat /\ Total(wallet', Accounts) \in Nat
      /\ wallet[a] \in Nat /\ wallet'[a] = wallet[a] - change
  BY <1>1, BalancesNat
<1>4. Total(wallet', Accounts) + vault' = Total(wallet, Accounts) + vault
  BY <1>1, <1>2, <1>3
<1>5. QED
  BY <1>4 DEF Supply, Total, Accounts

LEMMA StakeForSupply ==
    ASSUME StakingTypeOK, StakingTypeOK', NEW sp, NEW a \in Accounts, NEW amount \in Nat,
           StakeFor(sp, a, amount)
    PROVE  Supply' = Supply
<1>1. wallet' = [wallet EXCEPT ![a] = @ - amount] /\ vault' = vault + amount
  BY DEF StakeFor
<1>2. amount \in Int
  OBVIOUS
<1>3. QED
  BY <1>1, <1>2, ExchangeSupply

LEMMA UnstakeForSupply ==
    ASSUME StakingTypeOK, StakingTypeOK', NEW sp, NEW a \in Accounts, NEW amount \in Nat,
           UnstakeFor(sp, a, amount)
    PROVE  Supply' = Supply
<1>1. wallet' = [wallet EXCEPT ![a] = @ + amount] /\ vault' = vault - amount
  BY DEF UnstakeFor
<1>2. wallet \in [Accounts -> Nat] /\ vault \in Nat
  BY DEF StakingTypeOK, Accounts
<1>3. wallet[a] + amount = wallet[a] - (-amount) /\ vault - amount = vault + (-amount)
  BY <1>2
<1>4. wallet' = [wallet EXCEPT ![a] = @ - (-amount)] /\ vault' = vault + (-amount)
  BY <1>1, <1>3
<1>5. -amount \in Int
  OBVIOUS
<1>6. QED
  BY <1>4, <1>5, ExchangeSupply

LEMMA TransferSupply ==
    ASSUME StakingTypeOK, StakingTypeOK', NEW from \in Accounts, NEW to \in Accounts,
           TransferTx(from, to)
    PROVE  Supply' = Supply
<1>1. PICK amount \in TransferAmounts :
         /\ amount <= wallet[from]
         /\ wallet' = [wallet EXCEPT ![from] = @ - amount, ![to] = @ + amount]
  BY DEF TransferTx
<1>2. /\ amount \in Nat /\ from # to /\ UNCHANGED vault
      /\ wallet \in [Accounts -> Nat] /\ wallet' \in [Accounts -> Nat]
  BY <1>1, AmountAssumption DEF TransferTx, StakingTypeOK, Accounts
<1> DEFINE middle == [wallet EXCEPT ![from] = @ - amount]
<1>3. wallet[from] - amount \in Nat
  BY <1>1, <1>2
<1>4. /\ middle \in [Accounts -> Nat]
      /\ middle[from] = wallet[from] - amount /\ middle[to] = wallet[to]
      /\ \A x \in Accounts \ {from} : middle[x] = wallet[x]
  BY <1>2, <1>3
<1>5. wallet'[to] = wallet[to] + amount /\ \A x \in Accounts \ {to} : wallet'[x] = middle[x]
  BY <1>1, <1>2
<1> HIDE DEF middle
<1>6. /\ Total(middle, Accounts) - middle[from] = Total(wallet, Accounts) - wallet[from]
      /\ Total(wallet', Accounts) - wallet'[to] = Total(middle, Accounts) - middle[to]
  BY <1>2, <1>4, <1>5, BalanceChange
<1>7. /\ Total(middle, Accounts) \in Nat /\ Total(wallet, Accounts) \in Nat
      /\ Total(wallet', Accounts) \in Nat /\ wallet[from] \in Nat /\ wallet[to] \in Nat
  BY <1>2, <1>4, BalancesNat
<1>8. Total(wallet', Accounts) = Total(wallet, Accounts)
  BY <1>2, <1>4, <1>5, <1>6, <1>7
<1>9. QED
  BY <1>2, <1>8 DEF Supply, Total, Accounts

\* A claim mints its reward.
LEMMA ClaimSupply ==
    ASSUME Inv, NEW sp \in ServiceProviders, ClaimRewards(sp)
    PROVE  Supply' >= Supply /\ (UNCHANGED totalClaimedInRound => Supply' = Supply)
<1> DEFINE reward == MintedReward(sp, LockedStake(sp), validBounds[sp])
<1>1. ProcessClaim(sp, LockedStake(sp), validBounds[sp])
  BY DEF ClaimRewards
<1>2. /\ wallet \in [Accounts -> Nat] /\ vault \in Nat /\ totalClaimedInRound \in Nat
      /\ LockedStake(sp) \in Nat /\ StakingTypeOK /\ ClaimsTypeOK
  BY DEF Inv, SystemOK, TypeOK, StakingTypeOK, ClaimsTypeOK, ProviderTypeOK, DelegateTypeOK,
         LockedStake, Accounts
<1>3. reward \in Nat
  BY <1>1, <1>2, RewardNat DEF ProcessClaim
<1>4. \/ UNCHANGED vault
      \/ vault' = vault + reward /\ reward > 0 /\ totalClaimedInRound' = totalClaimedInRound + reward
  BY <1>1 DEF ProcessClaim, UpdateClaimHistory, StakeRewards
<1>5. UNCHANGED wallet
  BY <1>1 DEF ProcessClaim, UpdateClaimHistory, StakeRewards
<1> HIDE DEF reward
<1>6. Total(wallet, Accounts) \in Nat /\ Total(wallet', Accounts) = Total(wallet, Accounts)
  BY <1>2, <1>5, BalancesNat
<1>7. /\ Total(wallet', Accounts) + vault' >= Total(wallet, Accounts) + vault
      /\ UNCHANGED totalClaimedInRound =>
            Total(wallet', Accounts) + vault' = Total(wallet, Accounts) + vault
  BY <1>2, <1>3, <1>4, <1>6
<1>8. QED
  BY <1>7 DEF Supply, Total, Accounts

\* What accounts do burns nothing.
LEMMA AccountSupply ==
    ASSUME Inv, Inv', AccountNext
    PROVE  Supply' >= Supply /\ (UNCHANGED totalClaimedInRound => Supply' = Supply)
<1>1. StakingTypeOK /\ StakingTypeOK' /\ Supply \in Nat
  <2>1. wallet \in [Accounts -> Nat] /\ vault \in Nat
    BY DEF Inv, SystemOK, TypeOK, StakingTypeOK, Accounts
  <2>2. QED
    BY <2>1, BalancesNat DEF Inv, SystemOK, TypeOK, Supply
<1>2. CASE UNCHANGED <<wallet, vault>>
  BY <1>1, <1>2 DEF Supply, Total, Accounts
<1>3. CASE Supply' = Supply
  BY <1>1, <1>3
<1>4. ServiceProviders \subseteq Accounts /\ Delegators \subseteq Accounts
  BY DEF Accounts
<1>5. CASE \E from, to \in Accounts : TransferTx(from, to)
  BY <1>1, <1>3, <1>5, TransferSupply
<1>6. CASE \E s \in Service : ServiceTx(s)
  <2>1. PICK s \in Service : ServiceTx(s)
    BY <1>6
  <2>2. \/ UNCHANGED <<wallet, vault>>
        \/ \E amount \in Nat : StakeFor(s.owner, s.owner, amount)
    BY <2>1, AmountAssumption
       DEF ServiceTx, Register, DeregisterOne, DeregisterLast, stakingVars
  <2>3. s.owner \in Accounts
    BY <1>4 DEF Service
  <2>4. QED
    BY <1>1, <1>2, <1>3, <2>2, <2>3, StakeForSupply
<1>7. CASE \E sp \in ServiceProviders : ProviderStakeTx(sp)
  <2>1. PICK sp \in ServiceProviders : ProviderStakeTx(sp)
    BY <1>7
  <2>2. \E amount \in Nat : StakeFor(sp, sp, amount) \/ UnstakeFor(sp, sp, amount)
    BY <2>1, AmountAssumption
       DEF ProviderStakeTx, IncreaseStake, DecreaseStake, Inv, SystemOK, TypeOK, ProviderTypeOK
  <2>3. QED
    BY <1>1, <1>3, <1>4, <2>2, StakeForSupply, UnstakeForSupply
<1>8. CASE \E d \in Delegators, sp \in ServiceProviders :
              DelegateTx(d, sp) \/ UndelegateTx(d, sp) \/ RemovalTx(sp, d)
  <2>1. PICK d \in Delegators, sp \in ServiceProviders :
           DelegateTx(d, sp) \/ UndelegateTx(d, sp) \/ RemovalTx(sp, d)
    BY <1>8
  <2>2. undelegateRequest[d].amount \in Nat /\ delegateInfo[d][sp] \in Nat
    BY DEF Inv, SystemOK, TypeOK, DelegateTypeOK
  <2>3. \E amount \in Nat : StakeFor(sp, d, amount) \/ UnstakeFor(sp, d, amount)
    BY <2>1, <2>2, AmountAssumption
       DEF DelegateTx, UndelegateTx, RemovalTx, DelegateStake, UndelegateStake, RemoveDelegator
  <2>4. QED
    BY <1>1, <1>3, <1>4, <2>3, StakeForSupply, UnstakeForSupply
<1>9. CASE \E sp \in ServiceProviders : ClaimTx(sp)
  BY <1>9, ClaimSupply DEF ClaimTx
<1>10. CASE \/ NextBlock \/ InitiateRound
            \/ \E sp \in ServiceProviders : ProviderRequestTx(sp) \/ RemovalRequestTx(sp)
            \/ \E d \in Delegators : DelegatorRequestTx(d)
  BY <1>2, <1>10 DEF NextBlock, InitiateRound, ProviderRequestTx, RemovalRequestTx,
                     DelegatorRequestTx, stakingVars
<1>11. QED
  BY <1>5, <1>6, <1>7, <1>8, <1>9, <1>10 DEF AccountNext

\* A slash burns what it slashes.
LEMMA SlashSupply ==
    ASSUME Inv, NEW sp, NEW amount \in Nat, Slash(sp, amount)
    PROVE  Supply' = Supply - amount /\ amount > 0 /\ Supply \in Nat
<1>1. UNCHANGED wallet /\ vault' = vault - amount /\ amount > 0
  BY DEF Slash, BurnFor
<1>2. wallet \in [Accounts -> Nat] /\ vault \in Nat
  BY DEF Inv, SystemOK, TypeOK, StakingTypeOK, Accounts
<1>3. Total(wallet, Accounts) \in Nat /\ Total(wallet', Accounts) = Total(wallet, Accounts)
  BY <1>1, <1>2, BalancesNat
<1>4. Total(wallet', Accounts) + vault' = Total(wallet, Accounts) + vault - amount
  BY <1>1, <1>2, <1>3
<1>5. QED
  BY <1>1, <1>2, <1>3, <1>4 DEF Supply, Total, Accounts

LEMMA SupplyNat == ASSUME Inv PROVE Supply \in Nat
<1>1. wallet \in [Accounts -> Nat] /\ vault \in Nat
  BY DEF Inv, SystemOK, TypeOK, StakingTypeOK, Accounts
<1>2. QED
  BY <1>1, BalancesNat DEF Supply

LEMMA SupplyKept == ASSUME UNCHANGED vars PROVE Supply' = Supply
BY DEF Supply, Total, Accounts, vars, stakingVars

-----------------------------------------------------------------------------
(* What only a proposal does.                                              *)

\* A proposal for just that, which has a majority and whose voting period is
\* over, is executed.
ExecutedNow(kind, value) ==
    \E id \in DOMAIN proposals :
        /\ proposals[id].outcome = "InProgress"
        /\ proposals'[id].outcome = "ApprovedExecuted"
        /\ proposals[id].call.kind = kind /\ proposals[id].call.value = value
        /\ proposals[id].voteMagnitudeYes > proposals[id].voteMagnitudeNo
        /\ now > VotingEnd(proposals[id])

Proposed ==
    /\ Supply' < Supply => ExecutedNow("slash", Supply - Supply')
    /\ fundingAmount' # fundingAmount => ExecutedNow("fundingAmount", fundingAmount')
    /\ \A name \in SettingNames :
          settings'[name] # settings[name] => ExecutedNow(name, settings'[name])

LEMMA NothingBurned ==
    ASSUME Inv, Supply' >= Supply, UNCHANGED <<fundingAmount, settings>>, Supply' \in Nat
    PROVE  Proposed
BY SupplyNat DEF Proposed

LEMMA NothingDone ==
    ASSUME Inv, UNCHANGED <<vars, settings>>
    PROVE  Proposed
<1>1. Supply' = Supply /\ Supply \in Nat
  BY SupplyNat, SupplyKept
<1>2. QED
  BY <1>1 DEF Proposed, vars, claimsVars

\* What the execution of a passed proposal does is what it is for.
LEMMA ExecutionProposed ==
    ASSUME Inv, GovInv, NEW id \in DOMAIN proposals, Evaluable(proposals[id]),
           Passed(proposals[id]), CallEffect(proposals[id].call),
           proposals'[id].outcome = "ApprovedExecuted"
    PROVE  Proposed
<1> DEFINE p    == proposals[id]
           call == p.call
<1>1. p \in Proposal /\ call \in ProposalCalls /\ call \in Calls
  <2>1. p \in Proposal
    BY DEF GovInv, GovernanceTypeOK
  <2>2. call \in ProposalCalls
    BY <2>1 DEF Proposal
  <2>3. QED
    BY <2>1, <2>2, GovernanceAssumption
<1>2. now > VotingEnd(p)
  <2>1. /\ now \in Nat /\ p.submissionBlockNumber \in Nat
        /\ settings.votingPeriod \in Nat /\ settings.executionDelay \in Nat
    BY <1>1 DEF GovInv, TypeOK, StakingTypeOK, GovernanceTypeOK, Proposal, Settings
  <2>2. now > p.submissionBlockNumber + settings.votingPeriod + settings.executionDelay
    BY DEF Evaluable, VotingOver
  <2>3. QED
    BY <2>1, <2>2 DEF VotingEnd
<1>3. p.outcome = "InProgress" /\ p.voteMagnitudeYes > p.voteMagnitudeNo
  BY DEF Evaluable, Passed
<1>4. ExecutedNow(call.kind, call.value)
  BY <1>2, <1>3 DEF ExecutedNow
<1>5. CASE call.kind = "slash" /\ SlashByCall(call) /\ UNCHANGED configVars
  <2>1. call.value \in Nat
    BY <1>1, <1>5, CallFields, AmountAssumption
  <2>2. Slash(call.sp, call.value) /\ UNCHANGED <<fundingAmount, settings>>
    BY <1>5 DEF SlashByCall, claimsVars, configVars
  <2> HIDE DEF call
  <2>3. Supply' = Supply - call.value /\ Supply \in Nat
    BY <2>1, <2>2, SlashSupply
  <2>4. Supply - Supply' = call.value
    BY <2>1, <2>3
  <2>5. QED
    BY <1>4, <1>5, <2>2, <2>4 DEF Proposed
<1>6. CASE call.kind = "fundingAmount" /\ UpdateFundingAmount(call.value) /\ UNCHANGED configVars
  <2>1. UNCHANGED settings /\ fundingAmount' = call.value /\ UNCHANGED <<wallet, vault>>
    BY <1>6 DEF UpdateFundingAmount, SetFundingAmount, configVars, stakingVars
  <2>2. Supply' = Supply /\ Supply \in Nat
    BY <2>1, SupplyNat DEF Supply, Total, Accounts
  <2>3. QED
    BY <1>4, <1>6, <2>1, <2>2 DEF Proposed
<1>7. CASE /\ call.kind \in SettingNames
           /\ settings' = [settings EXCEPT ![call.kind] = call.value]
           /\ UNCHANGED <<vars, otherAddress>>
  <2>1. Supply' = Supply /\ Supply \in Nat /\ UNCHANGED fundingAmount
    BY <1>7, SupplyNat, SupplyKept DEF vars, claimsVars
  <2>2. settings \in Settings
    BY DEF GovInv, GovernanceTypeOK
  <2>3. \A name \in SettingNames :
           settings'[name] = IF name = call.kind THEN call.value ELSE settings[name]
    BY <1>7, <2>2 DEF Settings, SettingNames
  <2>4. QED
    BY <1>4, <2>1, <2>3 DEF Proposed
<1>8. CASE UNCHANGED <<vars, settings>>
  BY <1>8, NothingDone
<1>9. QED
  BY <1>5, <1>6, <1>7, <1>8 DEF CallEffect, FundingByCall, SettingByCall, RegistryByCall, RegistryKinds, SlashByCall, configVars

LEMMA SupplyNatNext == ASSUME Inv' PROVE Supply' \in Nat
<1>1. wallet' \in [Accounts -> Nat] /\ vault' \in Nat
  BY DEF Inv, SystemOK, TypeOK, StakingTypeOK, Accounts
<1>2. Total(wallet', Accounts) \in Nat
  BY <1>1, BalancesNat
<1>3. Total(wallet', Accounts) + vault' \in Nat
  BY <1>1, <1>2
<1>4. QED
  BY <1>3 DEF Supply, Total, Accounts

LEMMA AccountFunding == ASSUME AccountNext PROVE UNCHANGED fundingAmount
<1>1. CASE \E sp \in ServiceProviders : ClaimTx(sp)
  BY <1>1 DEF ClaimTx, ClaimRewards, ProcessClaim, claimsVars
<1>2. CASE NextBlock \/ InitiateRound \/ \E from, to \in Accounts : TransferTx(from, to)
  BY <1>2 DEF NextBlock, InitiateRound, StartRound, TransferTx, claimsVars
<1>3. CASE \/ \E s \in Service : ServiceTx(s)
           \/ \E sp \in ServiceProviders :
                 ProviderStakeTx(sp) \/ ProviderRequestTx(sp) \/ RemovalRequestTx(sp)
  BY <1>3 DEF ServiceTx, ProviderStakeTx, ProviderRequestTx, RemovalRequestTx, claimsVars
<1>4. CASE \/ \E d \in Delegators : DelegatorRequestTx(d)
           \/ \E d \in Delegators, sp \in ServiceProviders :
                 DelegateTx(d, sp) \/ UndelegateTx(d, sp) \/ RemovalTx(sp, d)
  BY <1>4 DEF DelegatorRequestTx, DelegateTx, UndelegateTx, RemovalTx, claimsVars
<1>5. QED
  BY <1>1, <1>2, <1>3, <1>4 DEF AccountNext

LEMMA DecisionProposed ==
    ASSUME Inv, GovInv, NEW id \in DOMAIN proposals, NEW outcome, Evaluable(proposals[id]),
           Decide(id, outcome), proposals'[id].outcome = outcome
    PROVE  Proposed
<1>1. CASE UNCHANGED <<vars, configVars>>
  BY <1>1, NothingDone DEF configVars
<1>2. CASE /\ Passed(proposals[id])
           /\ \E call \in ProposalCalls : \E success \in CallOutcomes(call) :
                 /\ call = proposals[id].call
                 /\ ExecuteTransaction(call, success)
                 /\ outcome = IF success THEN "ApprovedExecuted" ELSE "ApprovedExecutionFailed"
  <2>1. \/ UNCHANGED <<vars, configVars>>
        \/ CallEffect(proposals[id].call) /\ outcome = "ApprovedExecuted"
    BY <1>2 DEF ExecuteTransaction
  <2>2. QED
    BY <1>1, <1>2, <2>1, ExecutionProposed
<1>3. QED
  BY <1>1, <1>2 DEF Decide

\* What the guardian does when it only looks after the registry and calls
\* contracts outside the protocol.
GuardianElsewhere ==
    \A call \in GuardianCalls : call.kind \notin {"slash", "fundingAmount"} \cup SettingNames

LEMMA ProposedStep ==
    ASSUME GuardianElsewhere, Inv, Inv', GovInv, [GovernedNext]_allVars
    PROVE  Proposed
<1>1. CASE AccountStep
  <2>1. UNCHANGED <<fundingAmount, settings>>
    BY <1>1, AccountFunding DEF AccountStep, governedVars, configVars
  <2>2. Supply' >= Supply /\ Supply \in Nat /\ Supply' \in Nat
    BY <1>1, AccountSupply, SupplyNat, SupplyNatNext DEF AccountStep
  <2>3. QED
    BY <2>1, <2>2, NothingBurned
<1>2. CASE VotingStep \/ UNCHANGED allVars
  <2>1. VotingStep => UNCHANGED configVars
    <3>1. ASSUME NEW a, NEW call, SubmitProposal(a, call) PROVE UNCHANGED configVars
      BY <3>1 DEF SubmitProposal
    <3>2. ASSUME NEW a, NEW id, NEW vote, SubmitVote(a, id, vote) \/ UpdateVote(a, id, vote)
          PROVE  UNCHANGED configVars
      BY <3>2 DEF SubmitVote, UpdateVote
    <3>3. ASSUME NEW id, VetoProposal(id) PROVE UNCHANGED configVars
      BY <3>3 DEF VetoProposal
    <3>4. ASSUME NEW g, TransferGuardianship(g) \/ DestroyOther PROVE UNCHANGED configVars
      BY <3>4 DEF TransferGuardianship, DestroyOther
    <3>5. QED
      BY <3>1, <3>2, <3>3, <3>4 DEF VotingStep, ProposalVote, Guardianship
  <2>2. UNCHANGED <<vars, settings>>
    BY <1>2, <2>1 DEF VotingStep, ProposalVote, Guardianship, allVars, governedVars, configVars
  <2>3. QED
    BY <2>2, NothingDone
<1>3. CASE GuardianStep
  <2>1. PICK call \in GuardianCalls : CallEffect(call)
    BY <1>3 DEF GuardianStep, GuardianExecuteTransaction
  <2>2. UNCHANGED <<vars, settings>>
    BY <2>1 DEF GuardianElsewhere, CallEffect, FundingByCall, SettingByCall, RegistryByCall, RegistryKinds, SlashByCall, configVars
  <2>3. QED
    BY <2>2, NothingDone
<1>4. CASE EvaluationStep
  <2>1. proposals \in Seq(Proposal)
    BY DEF GovInv, GovernanceTypeOK
  <2>2. ASSUME NEW id \in DOMAIN proposals, EvaluateProposalOutcome(id)
        PROVE  Proposed
    <3>1. PICK outcome \in Outcomes : Decide(id, outcome) /\ Close(id, outcome)
      BY <2>2 DEF EvaluateProposalOutcome
    <3>2. proposals[id] \in Proposal /\ proposals' = [proposals EXCEPT ![id].outcome = outcome]
      BY <2>1, <3>1 DEF Close
    <3>3. proposals'[id] = [proposals[id] EXCEPT !.outcome = outcome]
      BY <3>2
    <3>4. proposals'[id].outcome = outcome
      BY <3>2, <3>3 DEF Proposal
    <3>5. QED
      BY <2>2, <3>1, <3>4, DecisionProposed DEF EvaluateProposalOutcome
  <2>3. ASSUME NEW id \in DOMAIN proposals, NEW q \in DOMAIN proposals, EvaluateNested(id, q)
        PROVE  Proposed
    <3>1. PICK outcome \in Outcomes :
             /\ Decide(q, outcome)
             /\ proposals' = [proposals EXCEPT ![q].outcome = outcome,
                                               ![id].outcome = "ApprovedExecuted"]
      BY <2>3 DEF EvaluateNested
    <3>2. q # id /\ Evaluable(proposals[q])
      BY <2>3 DEF EvaluateNested, Nested
    <3>3. proposals[q] \in Proposal /\ proposals'[q] = [proposals[q] EXCEPT !.outcome = outcome]
      BY <2>1, <3>1, <3>2
    <3>4. proposals'[q].outcome = outcome
      BY <3>3 DEF Proposal
    <3>5. QED
      BY <3>1, <3>2, <3>4, DecisionProposed
  <2>4. QED
    BY <1>4, <2>2, <2>3 DEF EvaluationStep
<1>5. QED
  BY <1>1, <1>2, <1>3, <1>4 DEF GovernedNext

\* When the guardian leaves them alone, stake is burned, the funding and the
\* settings change only by the execution of a proposal for just that, with a
\* majority and after its voting period: also when another proposal executes
\* it, and whatever the accounts do.
THEOREM ChangedByProposal == ASSUME GuardianElsewhere PROVE GovernedSpec => OnlyByProposal
<1>1. GovernedSpec => []Inv
  BY Governed, Invariance, PTL
<1>2. Inv /\ Inv' /\ GovInv /\ [GovernedNext]_allVars => Proposed
  BY ProposedStep
<1>3. GovernedSpec => [][Proposed]_allVars
  BY <1>1, <1>2, GovernedInvariant, PTL DEF GovernedSpec
<1>4. Proposed <=> (/\ Supply' < Supply => ExecutedNow("slash", Supply - Supply')
                    /\ fundingAmount' # fundingAmount => ExecutedNow("fundingAmount", fundingAmount')
                    /\ \A name \in SettingNames :
                          settings'[name] # settings[name] => ExecutedNow(name, settings'[name]))
  BY DEF Proposed
<1>5. QED
  BY <1>3, PTL DEF OnlyByProposal, Proposed, ExecutedNow

-----------------------------------------------------------------------------
(* What votes burn.                                                        *)

\* The executed slashes, and what they burn.
Burns(props)  == {id \in DOMAIN props : /\ props[id].call.kind = "slash"
                                        /\ props[id].outcome = "ApprovedExecuted"}
Values(props) == [id \in DOMAIN props |-> props[id].call.value]
Burned(props) == Total(Values(props), Burns(props))

\* What p burns when it ends like this.
Burning(p, outcome) ==
    IF p.call.kind = "slash" /\ outcome = "ApprovedExecuted" THEN p.call.value ELSE 0

LEMMA BurnsOK ==
    ASSUME NEW props \in Seq(Proposal)
    PROVE  /\ IsFiniteSet(Burns(props)) /\ Burned(props) \in Nat
           /\ \A id \in Burns(props) : Values(props)[id] \in Nat
           /\ \A id \in DOMAIN props, outcome \in Outcomes : Burning(props[id], outcome) \in Nat
<1>1. DOMAIN props = 1..Len(props) /\ Len(props) \in Nat /\ Burns(props) \subseteq DOMAIN props
  BY DEF Burns
<1>2. IsFiniteSet(Burns(props))
  <2>1. IsFiniteSet(1..Len(props))
    BY <1>1, FS_Interval
  <2>2. QED
    BY <1>1, <2>1, FS_Subset
<1>3. ASSUME NEW id \in DOMAIN props, props[id].call.kind = "slash"
      PROVE  props[id].call.value \in Nat
  <2>1. props[id] \in Proposal
    OBVIOUS
  <2>2. props[id].call \in Calls
    BY <2>1, GovernanceAssumption DEF Proposal
  <2>3. QED
    BY <1>3, <2>2, CallFields, AmountAssumption
<1>4. \A id \in Burns(props) : Values(props)[id] \in Nat
  BY <1>3 DEF Burns, Values
<1>5. QED
  BY <1>2, <1>3, <1>4, SumIsCount DEF Burned, Burning, Total

LEMMA BurnedSame ==
    ASSUME NEW props \in Seq(Proposal), NEW after, Burns(after) = Burns(props),
           \A id \in Burns(props) : id \in DOMAIN after /\ after[id].call = props[id].call
    PROVE  Burned(after) = Burned(props)
<1>1. \A id \in Burns(props) : Values(after)[id] = Values(props)[id]
  BY DEF Values, Burns
<1>2. IsFiniteSet(Burns(props)) /\ \A id \in Burns(props) : Values(props)[id] \in Nat
  BY BurnsOK
<1>3. \A id \in Burns(props) : Values(props)[id] \in Nat /\ Values(after)[id] = Values(props)[id]
  BY <1>1, <1>2
<1>4. Total(Values(after), Burns(props)) = Total(Values(props), Burns(props))
  BY ONLY <1>2, <1>3, SumSame, Zenon DEF Total
<1>5. QED
  BY <1>4 DEF Burned

\* A proposal ends: its outcome is set once.
LEMMA BurnedAdds ==
    ASSUME NEW props \in Seq(Proposal), NEW id \in DOMAIN props, props[id].outcome = "InProgress",
           NEW outcome \in Outcomes, NEW after, after = [props EXCEPT ![id].outcome = outcome]
    PROVE  Burned(after) = Burned(props) + Burning(props[id], outcome)
<1>1. props[id] \in Proposal /\ DOMAIN after = DOMAIN props /\ id \notin Burns(props)
  BY DEF Burns
<1>2. after[id] = [props[id] EXCEPT !.outcome = outcome]
  OBVIOUS
<1>3. after[id].outcome = outcome /\ after[id].call = props[id].call
  BY <1>1, <1>2 DEF Proposal
<1>4. \A i \in DOMAIN props \ {id} : after[i] = props[i]
  OBVIOUS
<1>5. CASE props[id].call.kind = "slash" /\ outcome = "ApprovedExecuted"
  <2>1. Burns(after) = Burns(props) \cup {id}
    BY <1>1, <1>3, <1>4, <1>5 DEF Burns
  <2>2. /\ \A i \in Burns(props) : Values(after)[i] = Values(props)[i]
        /\ Values(after)[id] = props[id].call.value
    BY <1>1, <1>3, <1>4 DEF Values, Burns
  <2>3. /\ IsFiniteSet(Burns(props)) /\ Burned(props) \in Nat
        /\ \A i \in Burns(props) : Values(props)[i] \in Nat
        /\ props[id].call.value \in Nat
    BY <1>5, BurnsOK DEF Burning
  <2>4. IsFiniteSet(Burns(after)) /\ Burns(after) \ {id} = Burns(props) /\ id \in Burns(after)
    <3>1. IsFiniteSet(Burns(props) \cup {id})
      BY <2>3, FS_AddElement
    <3>2. QED
      BY <1>1, <2>1, <3>1
  <2>5. \A i \in Burns(after) : Values(after)[i] \in Nat
    BY <2>1, <2>2, <2>3
  <2>6. Total(Values(after), Burns(after)) = Values(after)[id] + Total(Values(after), Burns(props))
    <3>1. Total(Values(after), Burns(after))
             = Values(after)[id] + Total(Values(after), Burns(after) \ {id})
      BY ONLY <2>4, <2>5, SumSplit, Zenon DEF Total
    <3>2. QED
      BY <2>4, <3>1
  <2>7. Total(Values(after), Burns(props)) = Total(Values(props), Burns(props))
    BY <2>2, <2>3, SumSame DEF Total
  <2>8. QED
    BY <1>5, <2>2, <2>3, <2>6, <2>7 DEF Burned, Burning
<1>6. CASE ~(props[id].call.kind = "slash" /\ outcome = "ApprovedExecuted")
  <2>1. Burns(after) = Burns(props)
    BY <1>1, <1>3, <1>4, <1>6 DEF Burns
  <2>2. \A i \in Burns(props) : i \in DOMAIN after /\ after[i].call = props[i].call
    BY <1>1, <1>4 DEF Burns
  <2>3. Burned(after) = Burned(props)
    BY <2>1, <2>2, BurnedSame
  <2>4. QED
    BY <1>6, <2>3, BurnsOK DEF Burning
<1>7. QED
  BY <1>5, <1>6

LEMMA DecideBurns ==
    ASSUME Inv, GovInv, NEW id \in DOMAIN proposals, NEW outcome, Decide(id, outcome)
    PROVE  Supply' = Supply - Burning(proposals[id], outcome)
<1>1. proposals[id] \in Proposal /\ Supply \in Nat
  BY SupplyNat DEF GovInv, GovernanceTypeOK
<1>2. proposals[id].call \in Calls
  BY <1>1, GovernanceAssumption DEF Proposal
<1>3. CASE UNCHANGED vars /\ Burning(proposals[id], outcome) = 0
  BY <1>1, <1>3, SupplyKept
<1>4. CASE ~(TargetUnchanged(proposals[id]) /\ Passed(proposals[id]))
           /\ outcome = ClosedAs(proposals[id]) /\ UNCHANGED <<vars, configVars>>
  BY <1>3, <1>4 DEF ClosedAs, Burning
<1>5. CASE \E call \in ProposalCalls : \E success \in CallOutcomes(call) :
              /\ call = proposals[id].call
              /\ ExecuteTransaction(call, success)
              /\ outcome = IF success THEN "ApprovedExecuted" ELSE "ApprovedExecutionFailed"
  <2>1. PICK success : /\ ExecuteTransaction(proposals[id].call, success)
                       /\ outcome = IF success THEN "ApprovedExecuted"
                                               ELSE "ApprovedExecutionFailed"
    BY <1>5
  <2>2. CASE ~success
    BY <1>3, <2>1, <2>2 DEF ExecuteTransaction, Burning
  <2>3. CASE success
    <3>1. CallEffect(proposals[id].call) /\ outcome = "ApprovedExecuted"
      BY <2>1, <2>3 DEF ExecuteTransaction
    <3>2. CASE proposals[id].call.kind = "slash"
      <4>1. /\ Slash(proposals[id].call.sp, proposals[id].call.value)
            /\ proposals[id].call.value \in Nat
        BY <1>2, <3>1, <3>2, CallFields, AmountAssumption DEF CallEffect, FundingByCall, SettingByCall, RegistryByCall, RegistryKinds, SlashByCall, SettingNames
      <4>2. QED
        BY <3>1, <3>2, <4>1, SlashSupply DEF Burning
    <3>3. CASE proposals[id].call.kind # "slash"
      <4>1. UNCHANGED <<wallet, vault>>
        BY <3>1, <3>3 DEF CallEffect, FundingByCall, SettingByCall, RegistryByCall, RegistryKinds, SlashByCall, UpdateFundingAmount, vars, stakingVars
      <4>2. QED
        BY <1>1, <3>3, <4>1 DEF Burning, Supply, Total, Accounts
    <3>4. QED
      BY <3>2, <3>3
  <2>4. QED
    BY <2>2, <2>3
<1>6. QED
  BY <1>4, <1>5 DEF Decide

\* Nothing is missing but what was burned, and nothing is added but rewards.
Balanced ==
    LET before == Supply + Burned(proposals)
        after  == Supply' + Burned(proposals')
    IN  after >= before /\ (UNCHANGED totalClaimedInRound => after = before)

LEMMA EvenlyBurned ==
    ASSUME Inv, GovInv, Supply' = Supply, Burned(proposals') = Burned(proposals)
    PROVE  Balanced
<1>1. Supply \in Nat /\ Burned(proposals) \in Nat
  BY SupplyNat, BurnsOK DEF GovInv, GovernanceTypeOK
<1>2. QED
  BY <1>1 DEF Balanced

LEMMA EvaluationBurns ==
    ASSUME Inv, GovInv, EvaluationStep
    PROVE  Balanced
<1>1. proposals \in Seq(Proposal)
  BY DEF GovInv, GovernanceTypeOK
<1>2. Supply \in Nat /\ Burned(proposals) \in Nat
  BY <1>1, SupplyNat, BurnsOK
<1>3. \A id \in DOMAIN proposals, outcome \in Outcomes : Burning(proposals[id], outcome) \in Nat
  BY <1>1, BurnsOK
<1>4. ASSUME NEW id \in DOMAIN proposals, NEW outcome \in Outcomes,
             Supply' = Supply - Burning(proposals[id], outcome),
             Burned(proposals') = Burned(proposals) + Burning(proposals[id], outcome)
      PROVE  Balanced
  <2>1. Burning(proposals[id], outcome) \in Nat
    BY <1>3
  <2>2. Supply' + Burned(proposals') = Supply + Burned(proposals)
    BY <1>2, <1>4, <2>1
  <2>3. QED
    BY <1>2, <2>2 DEF Balanced
<1>5. ASSUME NEW id \in DOMAIN proposals, EvaluateProposalOutcome(id)
      PROVE  Balanced
  <2>1. PICK outcome \in Outcomes : Decide(id, outcome) /\ Close(id, outcome)
    BY <1>5 DEF EvaluateProposalOutcome
  <2>2. Supply' = Supply - Burning(proposals[id], outcome)
    BY <2>1, DecideBurns
  <2>3. /\ proposals' = [proposals EXCEPT ![id].outcome = outcome]
        /\ proposals[id].outcome = "InProgress"
    BY <1>5, <2>1 DEF Close, EvaluateProposalOutcome, Evaluable
  <2>4. Burned(proposals') = Burned(proposals) + Burning(proposals[id], outcome)
    BY <1>1, <2>3, BurnedAdds
  <2>5. QED
    BY <1>4, <2>2, <2>4
<1>6. ASSUME NEW id \in DOMAIN proposals, NEW q \in DOMAIN proposals, EvaluateNested(id, q)
      PROVE  Balanced
  <2>1. PICK outcome \in Outcomes :
           /\ Decide(q, outcome)
           /\ proposals' = [proposals EXCEPT ![q].outcome = outcome,
                                             ![id].outcome = "ApprovedExecuted"]
    BY <1>6 DEF EvaluateNested
  <2>2. /\ proposals[q].outcome = "InProgress" /\ proposals[id].outcome = "InProgress"
        /\ proposals[id].call.kind = "evaluate" /\ id # q
    BY <1>6 DEF EvaluateNested, Nested, Evaluable
  <2>3. Supply' = Supply - Burning(proposals[q], outcome)
    BY <2>1, DecideBurns
  <2> DEFINE props == [proposals EXCEPT ![q].outcome = outcome]
  <2>4. props \in Seq(Proposal) /\ proposals' = [props EXCEPT ![id].outcome = "ApprovedExecuted"]
    <3>0. proposals[q] \in Proposal
      BY <1>1
    <3>1. [proposals[q] EXCEPT !.outcome = outcome] \in Proposal
      BY <2>1, <3>0 DEF Proposal
    <3>2. props = [proposals EXCEPT ![q] = [proposals[q] EXCEPT !.outcome = outcome]]
      OBVIOUS
    <3>3. props \in Seq(Proposal)
      BY <1>1, <3>1, <3>2
    <3>4. QED
      BY <2>1, <3>3
  <2>5. id \in DOMAIN props /\ props[id] = proposals[id]
    BY <2>2
  <2>6. Burned(props) = Burned(proposals) + Burning(proposals[q], outcome)
    BY <1>1, <2>2, BurnedAdds
  <2> HIDE DEF props
  <2>7. Burned(proposals') = Burned(props) + Burning(props[id], "ApprovedExecuted")
    BY <2>2, <2>4, <2>5, BurnedAdds DEF Outcomes
  <2>8. Burning(props[id], "ApprovedExecuted") = 0
    BY <2>2, <2>5 DEF Burning
  <2>9. Burned(proposals') = Burned(proposals) + Burning(proposals[q], outcome)
    BY <1>2, <1>3, <2>1, <2>6, <2>7, <2>8
  <2>10. QED
    BY <1>4, <2>1, <2>3, <2>9
<1>7. QED
  BY <1>5, <1>6 DEF EvaluationStep

\* Votes and submissions burn nothing.
LEMMA VotingBurns ==
    ASSUME Inv, GovInv, VotingStep
    PROVE  Balanced
<1>1. proposals \in Seq(Proposal) /\ Burned(proposals) \in Nat
  BY BurnsOK DEF GovInv, GovernanceTypeOK
<1>2. Supply' = Supply
  BY SupplyKept DEF VotingStep, ProposalVote, Guardianship
<1>3. CASE \E a \in Accounts \cup Guardians, call \in ProposalCalls : SubmitProposal(a, call)
  <2>1. PICK new \in Proposal :
           proposals' = Append(proposals, new) /\ new.outcome = "InProgress"
    BY <1>3, SubmissionAdds DEF Submitted
  <2>2. /\ DOMAIN proposals' = DOMAIN proposals \cup {Len(proposals) + 1}
        /\ \A i \in DOMAIN proposals : proposals'[i] = proposals[i]
        /\ proposals'[Len(proposals) + 1] = new
    BY <1>1, <2>1
  <2>3. Burns(proposals') = Burns(proposals)
    BY <2>1, <2>2 DEF Burns
  <2>4. \A i \in Burns(proposals) : i \in DOMAIN proposals' /\ proposals'[i].call = proposals[i].call
    BY <2>2 DEF Burns
  <2>5. QED
    BY <1>1, <1>2, <2>3, <2>4, BurnedSame, EvenlyBurned
<1>4. ASSUME NEW id \in DOMAIN proposals, NEW a \in Accounts, NEW vote \in {"No", "Yes"},
             SubmitVote(a, id, vote) \/ UpdateVote(a, id, vote)
      PROVE  Balanced
  <2>1. /\ DOMAIN proposals' = DOMAIN proposals
        /\ \A i \in DOMAIN proposals \ {id} : proposals'[i] = proposals[i]
        /\ proposals'[id].outcome = proposals[id].outcome
        /\ proposals'[id].call = proposals[id].call
    <3>0. proposals[id] \in Proposal
      BY <1>1
    <3>1. CASE SubmitVote(a, id, vote)
      BY <1>1, <3>0, <3>1 DEF SubmitVote, Proposal
    <3>2. CASE UpdateVote(a, id, vote)
      <4>1. /\ DOMAIN proposals' = DOMAIN proposals
            /\ \A i \in DOMAIN proposals \ {id} : proposals'[i] = proposals[i]
            /\ proposals'[id] = WithUpdate(proposals[id], a, vote)
        BY <1>1, <3>2 DEF UpdateVote, MovedMagnitude, WithUpdate
      <4>2. /\ WithUpdate(proposals[id], a, vote).outcome = proposals[id].outcome
            /\ WithUpdate(proposals[id], a, vote).call = proposals[id].call
        BY <3>0 DEF WithUpdate, Proposal
      <4>3. QED
        BY <4>1, <4>2
    <3>3. QED
      BY <1>4, <3>1, <3>2
  <2>2. Burns(proposals') = Burns(proposals)
    BY <2>1 DEF Burns
  <2>3. \A i \in Burns(proposals) : i \in DOMAIN proposals' /\ proposals'[i].call = proposals[i].call
    BY <2>1 DEF Burns
  <2>4. QED
    BY <1>1, <1>2, <2>2, <2>3, BurnedSame, EvenlyBurned
<1>5. CASE \E id \in DOMAIN proposals : VetoProposal(id)
  <2>1. PICK id \in DOMAIN proposals : /\ proposals' = [proposals EXCEPT ![id].outcome = "Vetoed"]
                                       /\ proposals[id].outcome = "InProgress"
    BY <1>5 DEF VetoProposal, Close
  <2>2. Burned(proposals') = Burned(proposals) + Burning(proposals[id], "Vetoed")
    BY <1>1, <2>1, BurnedAdds DEF Outcomes
  <2>3. QED
    BY <1>1, <1>2, <2>2, EvenlyBurned DEF Burning
<1>6. CASE (\E g \in Guardians \cup {NoProvider} : TransferGuardianship(g)) \/ DestroyOther
  BY <1>2, <1>6, EvenlyBurned DEF TransferGuardianship, DestroyOther, votingVars
<1>7. QED
  BY <1>3, <1>4, <1>5, <1>6 DEF VotingStep, ProposalVote, Guardianship

LEMMA BalancedStep ==
    ASSUME GuardianElsewhere, Inv, Inv', GovInv, [GovernedNext]_allVars
    PROVE  Balanced
<1>1. CASE AccountStep
  <2>1. UNCHANGED proposals
    BY <1>1 DEF AccountStep, governedVars, votingVars
  <2>2. /\ Supply \in Nat /\ Supply' \in Nat /\ Supply' >= Supply
        /\ UNCHANGED totalClaimedInRound => Supply' = Supply
    BY <1>1, AccountSupply, SupplyNat, SupplyNatNext DEF AccountStep
  <2>3. Burned(proposals) \in Nat
    BY BurnsOK DEF GovInv, GovernanceTypeOK
  <2>4. QED
    BY <2>1, <2>2, <2>3 DEF Balanced
<1>2. CASE GuardianStep
  <2>1. PICK call \in GuardianCalls : CallEffect(call) /\ UNCHANGED votingVars
    BY <1>2 DEF GuardianStep, GuardianExecuteTransaction
  <2>2. UNCHANGED vars /\ UNCHANGED proposals
    BY <2>1 DEF GuardianElsewhere, CallEffect, FundingByCall, SettingByCall, RegistryByCall, RegistryKinds, SlashByCall, votingVars
  <2>3. QED
    BY <2>2, SupplyKept, EvenlyBurned
<1>3. CASE UNCHANGED allVars
  <2>1. UNCHANGED vars /\ UNCHANGED proposals
    BY <1>3 DEF allVars, governedVars, votingVars
  <2>2. QED
    BY <2>1, SupplyKept, EvenlyBurned
<1>4. QED
  BY <1>1, <1>2, <1>3, VotingBurns, EvaluationBurns DEF GovernedNext

Initially == Total(InitialWallet, Accounts)

LEMMA BurnedInit ==
    ASSUME GovernedInit
    PROVE  Initially \in Nat /\ Supply + Burned(proposals) = Initially
<1>1. wallet = InitialWallet /\ vault = 0 /\ proposals = <<>>
  BY DEF GovernedInit, Init, StakingInit, GovernanceInit
<1>2. Burns(<<>>) = {}
  BY DEF Burns
<1>3. Burned(proposals) = 0
  BY <1>1, <1>2, SumEmpty DEF Burned, Total
<1>4. InitialWallet \in [Accounts -> Nat]
  BY WalletAssumption
<1>5. Initially \in Nat
  BY <1>4, BalancesNat DEF Initially
<1>6. Supply = Initially
  BY <1>1, <1>5 DEF Supply, Initially
<1>7. QED
  BY <1>3, <1>5, <1>6

\* Never are more tokens missing than executed slashes have burned.
NoneLost == Initially \in Nat /\ Supply + Burned(proposals) >= Initially
AllFound == Initially \in Nat /\ Supply + Burned(proposals) = Initially

LEMMA AllFoundStep ==
    ASSUME GuardianElsewhere, Inv, Inv', GovInv, [GovernedNext]_allVars
    PROVE  /\ NoneLost /\ GovInv' => NoneLost'
           /\ AllFound /\ [UNCHANGED totalClaimedInRound]_allVars => AllFound'
<1>1. UNCHANGED Initially
  BY DEF Initially, Total, Accounts
<1>2. /\ Supply + Burned(proposals) \in Nat
      /\ GovInv' => Supply' + Burned(proposals') \in Nat
  <2>1. Supply \in Nat /\ Supply' \in Nat
    BY SupplyNat, SupplyNatNext
  <2>2. GovInv' => proposals' \in Seq(Proposal)
    BY DEF GovInv, GovernanceTypeOK, Proposal, Accounts
  <2>3. Burned(proposals) \in Nat /\ (GovInv' => Burned(proposals') \in Nat)
    BY <2>2, BurnsOK DEF GovInv, GovernanceTypeOK
  <2>4. QED
    BY <2>1, <2>3
<1>3. Balanced
  BY BalancedStep
<1>4. [UNCHANGED totalClaimedInRound]_allVars => UNCHANGED totalClaimedInRound
  BY DEF allVars, vars, claimsVars
<1>5. QED
  BY <1>1, <1>2, <1>3, <1>4 DEF Balanced, NoneLost, AllFound, Burned, Burns, Values, Supply

\* When the guardian leaves the stake alone, no more tokens are ever missing
\* from the supply than the executed slashes have burned.
THEOREM NothingElseBurned ==
    ASSUME GuardianElsewhere
    PROVE  GovernedSpec => [](Supply + Burned(proposals) >= Total(InitialWallet, Accounts))
<1>1. GovernedSpec => []Inv
  BY Governed, Invariance, PTL
<1>2. GovernedInit => NoneLost
  BY BurnedInit DEF NoneLost
<1>3. Inv /\ Inv' /\ GovInv /\ GovInv' /\ NoneLost /\ [GovernedNext]_allVars => NoneLost'
  BY AllFoundStep
<1>4. NoneLost => Supply + Burned(proposals) >= Total(InitialWallet, Accounts)
  BY DEF NoneLost, Initially
<1>5. QED
  BY <1>1, <1>2, <1>3, <1>4, GovernedInvariant, PTL DEF GovernedSpec

\* Without rewards either, they are exactly what executed slashes have burned:
\* each burns its amount once, whichever evaluation executes it.
THEOREM BurnedByVotesOnly ==
    ASSUME GuardianElsewhere
    PROVE  GovernedSpec /\ [][UNCHANGED totalClaimedInRound]_allVars => []BurnedByVote
<1>1. GovernedSpec => []Inv
  BY Governed, Invariance, PTL
<1>2. GovernedInit => AllFound
  BY BurnedInit DEF AllFound
<1>3. Inv /\ Inv' /\ GovInv /\ AllFound /\ [GovernedNext]_allVars
         /\ [UNCHANGED totalClaimedInRound]_allVars => AllFound'
  BY AllFoundStep
<1>4. Inv /\ GovInv /\ AllFound => BurnedByVote
  <2> SUFFICES ASSUME Inv, GovInv, AllFound PROVE BurnedByVote
    OBVIOUS
  <2>1. Supply \in Nat /\ Burned(proposals) \in Nat
    BY SupplyNat, BurnsOK DEF GovInv, GovernanceTypeOK
  <2>2. Total(InitialWallet, Accounts) - Supply = Burned(proposals)
    BY <2>1 DEF AllFound, Initially
  <2>3. QED
    BY <2>2 DEF BurnedByVote, Burned, Burns, Values
<1>5. QED
  BY <1>1, <1>2, <1>3, <1>4, GovernedInvariant, PTL DEF GovernedSpec

-----------------------------------------------------------------------------
(* Votes within the supply.                                                *)

\* All stake that accounts have, each direct stake and each delegation once,
\* is what Staking holds.
LEMMA StakesFillVault ==
    ASSUME BookInv
    PROVE  Total([a \in Accounts |-> WholeStake(a)], Accounts) = vault
<1> DEFINE direct    == [a \in Accounts |-> IF a \in ServiceProviders THEN deployerStake[a] ELSE 0]
           delegated == [a \in Accounts |-> IF a \in Delegators THEN delegatorTotalStake[a] ELSE 0]
           whole     == [a \in Accounts |-> WholeStake(a)]
           staked    == [sp \in ServiceProviders |-> TotalStakedFor(sp)]
<1>1. /\ deployerStake \in [ServiceProviders -> Nat]
      /\ delegatorTotalStake \in [Delegators -> Nat]
      /\ totalDelegatedStake \in [ServiceProviders -> Nat]
      /\ delegateInfo \in [Delegators -> [ServiceProviders -> Nat]]
      /\ StakeSplit /\ DelegationSums /\ StakeSums /\ vault = TotalStaked
  BY DEF BookInv, Inv, SystemOK, TypeOK, ProviderTypeOK, DelegateTypeOK
<1>2. /\ IsFiniteSet(Accounts) /\ IsFiniteSet(ServiceProviders) /\ IsFiniteSet(Delegators)
      /\ ServiceProviders \in SUBSET Accounts /\ Delegators \in SUBSET Accounts
  BY AccountsFinite, DelegateAssumption DEF Accounts
<1>3. Total(whole, Accounts) = Total(direct, Accounts) + Total(delegated, Accounts)
  <2>1. \A a \in Accounts : /\ direct[a] \in Nat /\ delegated[a] \in Nat
                            /\ whole[a] = direct[a] + delegated[a]
    BY <1>1 DEF WholeStake
  <2> HIDE DEF whole, direct, delegated
  <2>2. QED
    BY <1>2, <2>1, SumCombine DEF Total
<1>4. Total(direct, Accounts) = Total(deployerStake, ServiceProviders)
  <2>0. \A a \in Accounts : direct[a] = IF a \in ServiceProviders THEN deployerStake[a] ELSE 0
    OBVIOUS
  <2> HIDE DEF direct
  <2>1. /\ \A a \in Accounts : direct[a] \in Nat
        /\ \A a \in Accounts \ ServiceProviders : direct[a] = 0
        /\ \A sp \in ServiceProviders : deployerStake[sp] \in Nat /\ direct[sp] = deployerStake[sp]
    BY <1>1, <1>2, <2>0
  <2>2. SumFunctionOnSet(direct, ServiceProviders) = SumFunctionOnSet(direct, Accounts)
    BY <1>2, <2>1, SumSupport
  <2>3. SumFunctionOnSet(direct, ServiceProviders)
          = SumFunctionOnSet(deployerStake, ServiceProviders)
    BY <1>2, <2>1, SumSame
  <2>4. QED
    BY <2>2, <2>3 DEF Total
<1>5. Total(delegated, Accounts) = Total(delegatorTotalStake, Delegators)
  <2>1. /\ \A a \in Accounts : delegated[a] \in Nat
        /\ \A a \in Accounts \ Delegators : delegated[a] = 0
        /\ \A d \in Delegators : /\ delegatorTotalStake[d] \in Nat
                                 /\ delegated[d] = delegatorTotalStake[d]
    BY <1>1, <1>2
  <2> HIDE DEF delegated
  <2>2. SumFunctionOnSet(delegated, Delegators) = SumFunctionOnSet(delegated, Accounts)
    BY <1>2, <2>1, SumSupport
  <2>3. SumFunctionOnSet(delegated, Delegators)
          = SumFunctionOnSet(delegatorTotalStake, Delegators)
    BY <1>2, <2>1, SumSame
  <2>4. QED
    BY <2>2, <2>3 DEF Total
<1>6. Total(delegatorTotalStake, Delegators) = Total(totalDelegatedStake, ServiceProviders)
  <2>1. delegatorTotalStake =
           [d \in Delegators |-> SumFunctionOnSet(delegateInfo[d], ServiceProviders)]
    BY <1>1 DEF DelegationSums, Total
  <2>2. totalDelegatedStake =
           [sp \in ServiceProviders |->
               SumFunctionOnSet([d \in Delegators |-> delegateInfo[d][sp]], Delegators)]
    BY <1>1 DEF DelegationSums, Total
  <2>3. \A d \in Delegators, sp \in ServiceProviders : delegateInfo[d][sp] \in Nat
    BY <1>1
  <2>4. SumFunctionOnSet([sp \in ServiceProviders |->
               SumFunctionOnSet([d \in Delegators |-> delegateInfo[d][sp]], Delegators)],
                         ServiceProviders)
          = SumFunctionOnSet(
               [d \in Delegators |-> SumFunctionOnSet(delegateInfo[d], ServiceProviders)],
                             Delegators)
    BY <1>2, <2>3, SumSwap
  <2>5. QED
    BY <2>1, <2>2, <2>4 DEF Total
<1>7. Total(staked, ServiceProviders)
        = Total(deployerStake, ServiceProviders) + Total(totalDelegatedStake, ServiceProviders)
  <2>1. ASSUME NEW sp \in ServiceProviders
        PROVE  /\ deployerStake[sp] \in Nat /\ totalDelegatedStake[sp] \in Nat
               /\ staked[sp] = deployerStake[sp] + totalDelegatedStake[sp]
    BY <1>1 DEF StakeSplit
  <2> HIDE DEF staked
  <2>2. QED
    BY <1>2, <2>1, SumCombine DEF Total
<1>8. vault = Total(staked, ServiceProviders)
  BY <1>1 DEF StakeSums
<1> HIDE DEF whole, direct, delegated, staked
<1>9. Total(whole, Accounts) = vault
  BY <1>3, <1>4, <1>5, <1>6, <1>7, <1>8
<1>10. QED
  BY <1>9 DEF whole

\* When nobody voted with more than the stake it has now, the votes are within
\* the supply.
LEMMA StakedVotesWithin ==
    ASSUME BookInv, NEW p \in Proposal, TallyMatches(p),
           \A a \in Accounts : p.votes[a] # "None" => p.voteMagnitudes[a] <= WholeStake(a)
    PROVE  p.voteMagnitudeYes + p.voteMagnitudeNo <= Supply
<1> DEFINE yes   == Voters(p, "Yes")
           no    == Voters(p, "No")
           cast  == [a \in Accounts |-> IF a \in yes \cup no THEN p.voteMagnitudes[a] ELSE 0]
           y     == [a \in Accounts |-> IF a \in yes THEN p.voteMagnitudes[a] ELSE 0]
           n     == [a \in Accounts |-> IF a \in no THEN p.voteMagnitudes[a] ELSE 0]
           whole == [a \in Accounts |-> WholeStake(a)]
<1>1. /\ p.voteMagnitudes \in [Accounts -> Nat]
      /\ p.votes \in [Accounts -> {"None", "No", "Yes"}]
      /\ yes \in SUBSET Accounts /\ no \in SUBSET Accounts /\ yes \cap no = {}
      /\ \A a \in yes \cup no : p.votes[a] # "None"
  BY DEF Proposal, Voters
<1>2. IsFiniteSet(Accounts)
  BY AccountsFinite
<1>3. \A a \in Accounts : whole[a] \in Nat
  BY DEF WholeStake, BookInv, Inv, SystemOK, TypeOK, ProviderTypeOK, DelegateTypeOK
<1>4. \A a \in Accounts : /\ y[a] \in Nat /\ n[a] \in Nat /\ cast[a] \in Nat
                          /\ cast[a] = y[a] + n[a] /\ cast[a] <= whole[a]
  <2> SUFFICES ASSUME NEW a \in Accounts
               PROVE  /\ y[a] \in Nat /\ n[a] \in Nat /\ cast[a] \in Nat
                      /\ cast[a] = y[a] + n[a] /\ cast[a] <= whole[a]
    OBVIOUS
  <2>1. p.voteMagnitudes[a] \in Nat /\ whole[a] \in Nat
    BY <1>1, <1>3
  <2>2. CASE a \in yes
    BY <1>1, <2>1, <2>2
  <2>3. CASE a \in no
    BY <1>1, <2>1, <2>3
  <2>4. CASE a \notin yes \cup no
    BY <2>1, <2>4
  <2>5. QED
    BY <2>2, <2>3, <2>4
<1>5. Total(y, Accounts) = p.voteMagnitudeYes
  <2>1. \A a \in Accounts \ yes : y[a] = 0
    OBVIOUS
  <2>2. \A a \in yes : p.voteMagnitudes[a] \in Nat /\ y[a] = p.voteMagnitudes[a]
    BY <1>1
  <2> HIDE DEF y, n, cast, whole, yes, no
  <2>3. SumFunctionOnSet(y, yes) = SumFunctionOnSet(y, Accounts)
    BY <1>1, <1>2, <1>4, <2>1, SumSupport
  <2>4. IsFiniteSet(yes)
    BY <1>1, <1>2, FS_Subset
  <2>5. SumFunctionOnSet(y, yes) = SumFunctionOnSet(p.voteMagnitudes, yes)
    BY <2>2, <2>4, SumSame
  <2>6. QED
    BY <2>3, <2>5 DEF Total, TallyMatches, yes
<1>6. Total(n, Accounts) = p.voteMagnitudeNo
  <2>1. \A a \in Accounts \ no : n[a] = 0
    OBVIOUS
  <2>2. \A a \in no : p.voteMagnitudes[a] \in Nat /\ n[a] = p.voteMagnitudes[a]
    BY <1>1
  <2> HIDE DEF y, n, cast, whole, yes, no
  <2>3. SumFunctionOnSet(n, no) = SumFunctionOnSet(n, Accounts)
    BY <1>1, <1>2, <1>4, <2>1, SumSupport
  <2>4. IsFiniteSet(no)
    BY <1>1, <1>2, FS_Subset
  <2>5. SumFunctionOnSet(n, no) = SumFunctionOnSet(p.voteMagnitudes, no)
    BY <2>2, <2>4, SumSame
  <2>6. QED
    BY <2>3, <2>5 DEF Total, TallyMatches, no
<1>7. Total(whole, Accounts) = vault
  BY StakesFillVault
<1> HIDE DEF y, n, cast, whole, yes, no
<1>8. Total(cast, Accounts) = Total(y, Accounts) + Total(n, Accounts)
  BY <1>2, <1>4, SumCombine DEF Total
<1>9. Total(cast, Accounts) <= Total(whole, Accounts)
  BY <1>2, <1>3, <1>4, SumMonotone DEF Total
<1>10. /\ vault \in Nat /\ wallet \in [Accounts -> Nat]
       /\ p.voteMagnitudeYes \in Nat /\ p.voteMagnitudeNo \in Nat
  BY DEF BookInv, Inv, SystemOK, TypeOK, StakingTypeOK, Proposal
<1>11. Total(wallet, Accounts) \in Nat
  BY <1>10, BalancesNat
<1>12. p.voteMagnitudeYes + p.voteMagnitudeNo <= vault
  BY <1>5, <1>6, <1>7, <1>8, <1>9
<1>13. QED
  BY <1>10, <1>11, <1>12 DEF Supply

\* The shorter of the two lockups.
Lockup ==
    IF DecreaseStakeLockup <= UndelegateLockup THEN DecreaseStakeLockup ELSE UndelegateLockup

\* What remains of a stake until a block when what may be withdrawn before it
\* is.
Remaining(stake, request, block) ==
    stake - (IF request.expiry < block THEN request.amount ELSE 0)

RemainingStake(a, block) ==
    (IF a \in ServiceProviders THEN Remaining(deployerStake[a], decreaseRequest[a], block)
                               ELSE 0)
    + (IF a \in Delegators THEN Remaining(delegatorTotalStake[a], undelegateRequest[a], block)
                           ELSE 0)

\* How a stake and the request to withdraw some of it change in a step: the
\* stake may grow, the request may be new or dropped, and one that has expired
\* may be met.
RequestMoves(stake, request, newStake, newRequest) ==
    \/ /\ newStake >= stake
       /\ \/ newRequest = request
          \/ newRequest.amount = 0
          \/ newRequest.expiry >= now + Lockup
    \/ /\ request.expiry <= now
       /\ newStake = stake - request.amount
       /\ newRequest.amount = 0

LEMMA RemainingKept ==
    ASSUME NEW stake \in Nat, NEW newStake \in Nat, NEW request, NEW newRequest,
           request.amount \in Nat, request.expiry \in Nat,
           newRequest.amount \in Nat, newRequest.expiry \in Nat,
           now \in Nat, Lockup \in Nat,
           RequestMoves(stake, request, newStake, newRequest),
           NEW block \in Nat, now < block, block <= now + Lockup
    PROVE  Remaining(newStake, newRequest, block) >= Remaining(stake, request, block)
<1>1. CASE newStake >= stake /\ newRequest = request
  BY <1>1 DEF Remaining
<1>2. CASE newStake >= stake /\ newRequest.amount = 0
  BY <1>2 DEF Remaining
<1>3. CASE newStake >= stake /\ newRequest.expiry >= now + Lockup
  <2>1. ~(newRequest.expiry < block)
    BY <1>3
  <2>2. Remaining(newStake, newRequest, block) = newStake
    BY <2>1 DEF Remaining
  <2>3. Remaining(stake, request, block) <= stake
    BY DEF Remaining
  <2>4. Remaining(stake, request, block) \in Int
    BY DEF Remaining
  <2>5. QED
    BY <1>3, <2>2, <2>3, <2>4
<1>4. CASE /\ request.expiry <= now
           /\ newStake = stake - request.amount
           /\ newRequest.amount = 0
  BY <1>4 DEF Remaining
<1>5. QED
  BY <1>1, <1>2, <1>3, <1>4 DEF RequestMoves

\* Nothing is slashed, by a vote or by the guardian.
NoSlashes == \A call \in ProposalCalls \cup GuardianCalls : call.kind # "slash"

Unslashed == AccountNext \/ (\E amount : UpdateFundingAmount(amount)) \/ UNCHANGED vars

LEMMA UnslashedStep ==
    ASSUME NoSlashes, [GovernedNext]_allVars
    PROVE  Unslashed
<1>1. CASE AccountStep
  BY <1>1 DEF AccountStep, Unslashed
<1>2. CASE VotingStep \/ UNCHANGED allVars
  BY <1>2 DEF VotingStep, ProposalVote, Guardianship, Unslashed, allVars
<1>3. ASSUME NEW call \in ProposalCalls \cup GuardianCalls, CallEffect(call)
      PROVE  Unslashed
  BY <1>3 DEF NoSlashes, CallEffect, FundingByCall, SettingByCall, RegistryByCall, RegistryKinds, SlashByCall, Unslashed
<1>4. ASSUME NEW id, NEW outcome, Decide(id, outcome)
      PROVE  Unslashed
  <2>1. CASE UNCHANGED <<vars, configVars>>
    BY <2>1 DEF Unslashed
  <2>2. CASE \E call \in ProposalCalls : \E success : ExecuteTransaction(call, success)
    <3>1. PICK call \in ProposalCalls : CallEffect(call) \/ UNCHANGED vars
      BY <2>2 DEF ExecuteTransaction
    <3>2. QED
      BY <1>3, <3>1 DEF Unslashed
  <2>3. QED
    BY <1>4, <2>1, <2>2 DEF Decide
<1>5. CASE EvaluationStep
  BY <1>4, <1>5 DEF EvaluationStep, EvaluateProposalOutcome, EvaluateNested
<1>6. CASE GuardianStep
  BY <1>3, <1>6 DEF GuardianStep, GuardianExecuteTransaction
<1>7. QED
  BY <1>1, <1>2, <1>5, <1>6 DEF GovernedNext

LEMMA UnslashedSupply ==
    ASSUME Inv, Inv', Unslashed
    PROVE  Supply' >= Supply
<1>1. Supply \in Nat /\ Supply' \in Nat
  BY SupplyNat, SupplyNatNext
<1>2. CASE AccountNext
  BY <1>2, AccountSupply
<1>3. CASE UNCHANGED <<wallet, vault>>
  <2>1. Supply' = Supply
    BY <1>3 DEF Supply, Total, Accounts
  <2>2. QED
    BY <1>1, <2>1
<1>4. QED
  BY <1>2, <1>3 DEF Unslashed, UpdateFundingAmount, stakingVars, vars

\* What a claim adds to the stakes.
LEMMA ClaimRaises ==
    ASSUME Inv, NEW sp \in ServiceProviders, ClaimRewards(sp)
    PROVE  /\ UNCHANGED <<decreaseRequest, undelegateRequest>>
           /\ \A s \in ServiceProviders : deployerStake'[s] >= deployerStake[s]
           /\ \A d \in Delegators : delegatorTotalStake'[d] >= delegatorTotalStake[d]
<1> DEFINE locked  == LockedStake(sp)
           outside == StakeOutsideStaking(sp)
           reward  == MintedReward(sp, locked, validBounds[sp])
           active  == outside - locked
           gain    == DelegateRewards(sp, active, reward)
<1>1. /\ ContractsOK /\ ClaimsTypeOK /\ StakingTypeOK
      /\ deployerStake \in [ServiceProviders -> Nat]
      /\ delegatorTotalStake \in [Delegators -> Nat]
  BY DEF Inv, SystemOK, TypeOK, ContractsOK, ProviderTypeOK, DelegateTypeOK
<1>2. locked \in Nat /\ outside \in Nat
  BY <1>1 DEF ContractsOK, DelegateTypeOK, ProviderTypeOK, LockedStake, StakeOutsideStaking
<1>3. /\ UNCHANGED <<decreaseRequest, undelegateRequest>>
      /\ IF reward = 0
           THEN UNCHANGED <<deployerStake, delegatorTotalStake>>
           ELSE DistributeRewards(sp, active, reward)
      /\ ProcessClaim(sp, locked, validBounds[sp])
  BY DEF ClaimRewards
<1>4. reward \in Nat
  BY <1>1, <1>2, <1>3, RewardNat DEF ProcessClaim
<1>5. CASE reward = 0
  BY <1>1, <1>3, <1>5
<1>6. CASE reward # 0
  <2>1. DistributeRewards(sp, active, reward) /\ active \in Int
    BY <1>2, <1>3, <1>6
  <2> HIDE DEF locked, outside, reward, active
  <2>2. \A d \in Delegators : gain[d] \in Nat
    BY <1>1, <1>4, <2>1, GainsNat
  <2>3. PICK increase \in 0..reward :
           deployerStake' = [deployerStake EXCEPT ![sp] = deployerStake[sp] + (reward - increase)]
    BY <2>1 DEF DistributeRewards, UpdateServiceProviderStake
  <2>4. delegatorTotalStake' = [d \in Delegators |-> delegatorTotalStake[d] + gain[d]]
    BY <2>1 DEF DistributeRewards
  <2> HIDE DEF gain
  <2>5. \A d \in Delegators : delegatorTotalStake'[d] >= delegatorTotalStake[d]
    BY <1>1, <2>2, <2>4
  <2>6. \A s \in ServiceProviders : deployerStake'[s] >= deployerStake[s]
    BY <1>1, <1>4, <2>3
  <2>7. QED
    BY <1>3, <2>5, <2>6
<1>7. QED
  BY <1>5, <1>6

\* Direct stake is withdrawn on a request that has expired, and a request made
\* now expires when the lockup is over.
LEMMA DirectStakeRemains ==
    ASSUME Inv, Unslashed, NEW sp \in ServiceProviders
    PROVE  RequestMoves(deployerStake[sp], decreaseRequest[sp],
                        deployerStake'[sp], decreaseRequest'[sp])
<1>1. /\ deployerStake \in [ServiceProviders -> Nat]
      /\ decreaseRequest \in [ServiceProviders -> [amount : Nat, expiry : Nat]]
      /\ now \in Nat /\ Lockup \in Nat /\ Lockup <= DecreaseStakeLockup
      /\ DecreaseStakeLockup \in Nat
  BY ProviderAssumption, DelegateAssumption
     DEF Inv, SystemOK, TypeOK, ProviderTypeOK, StakingTypeOK, Lockup
<1>2. CASE UNCHANGED <<deployerStake[sp], decreaseRequest[sp]>>
  BY <1>1, <1>2 DEF RequestMoves
<1>3. CASE \E s \in Service : ServiceTx(s)
  <2>1. PICK s \in Service : ServiceTx(s)
    BY <1>3
  <2>2. CASE s.owner # sp
    BY <1>1, <1>2, <2>1, <2>2
       DEF ServiceTx, Register, DeregisterOne, DeregisterLast
  <2>3. CASE s.owner = sp /\ \E amount \in StakeAmounts \cup {0} : Register(s, amount)
    <3>1. PICK amount \in StakeAmounts \cup {0} : Register(s, amount)
      BY <2>3
    <3>2. amount \in Nat
      BY AmountAssumption
    <3>3. deployerStake'[sp] = deployerStake[sp] + amount /\ UNCHANGED decreaseRequest
      BY <1>1, <2>3, <3>1 DEF Register
    <3>4. QED
      BY <1>1, <3>2, <3>3 DEF RequestMoves
  <2>4. CASE DeregisterOne(s)
    BY <1>2, <2>4 DEF DeregisterOne
  <2>5. CASE s.owner = sp /\ DeregisterLast(s)
    <3>1. /\ UNCHANGED deployerStake
          /\ decreaseRequest'[sp] =
                [amount |-> deployerStake[sp], expiry |-> now + DecreaseStakeLockup]
      BY <1>1, <2>5 DEF DeregisterLast
    <3>2. decreaseRequest'[sp].expiry >= now + Lockup /\ deployerStake'[sp] >= deployerStake[sp]
      BY <1>1, <3>1
    <3>3. QED
      BY <3>2 DEF RequestMoves
  <2>6. QED
    BY <2>1, <2>2, <2>3, <2>4, <2>5 DEF ServiceTx
<1>4. CASE \E p \in ServiceProviders : ProviderStakeTx(p)
  <2>1. PICK p \in ServiceProviders : ProviderStakeTx(p)
    BY <1>4
  <2>2. CASE p # sp
    BY <1>1, <1>2, <2>1, <2>2 DEF ProviderStakeTx, IncreaseStake, DecreaseStake
  <2>3. CASE p = sp /\ \E amount \in StakeAmounts : IncreaseStake(sp, amount)
    <3>1. PICK amount \in StakeAmounts : IncreaseStake(sp, amount)
      BY <2>3
    <3>2. amount \in Nat
      BY AmountAssumption
    <3>3. deployerStake'[sp] = deployerStake[sp] + amount /\ UNCHANGED decreaseRequest
      BY <1>1, <3>1 DEF IncreaseStake
    <3>4. QED
      BY <1>1, <3>2, <3>3 DEF RequestMoves
  <2>4. CASE p = sp /\ DecreaseStake(sp)
    <3>1. /\ decreaseRequest[sp].expiry <= now
          /\ deployerStake'[sp] = deployerStake[sp] - decreaseRequest[sp].amount
          /\ decreaseRequest'[sp] = NoDecrease
      BY <1>1, <2>4 DEF DecreaseStake
    <3>2. QED
      BY <3>1 DEF RequestMoves, NoDecrease
  <2>5. QED
    BY <2>1, <2>2, <2>3, <2>4 DEF ProviderStakeTx
<1>5. CASE \E p \in ServiceProviders : ProviderRequestTx(p)
  <2>1. PICK p \in ServiceProviders : ProviderRequestTx(p)
    BY <1>5
  <2>2. UNCHANGED deployerStake
    BY <2>1 DEF ProviderRequestTx, RequestDecreaseStake, CancelDecreaseStakeRequest,
                RequestUpdateDeployerCut, CancelUpdateDeployerCut, UpdateDeployerCut
  <2>3. \/ decreaseRequest'[sp] = decreaseRequest[sp]
        \/ \E amount : decreaseRequest'[sp] =
              [amount |-> amount, expiry |-> now + DecreaseStakeLockup]
        \/ decreaseRequest'[sp] = NoDecrease
    BY <1>1, <2>1 DEF ProviderRequestTx, RequestDecreaseStake, CancelDecreaseStakeRequest,
                      RequestUpdateDeployerCut, CancelUpdateDeployerCut, UpdateDeployerCut
  <2>4. \/ decreaseRequest'[sp] = decreaseRequest[sp]
        \/ decreaseRequest'[sp].expiry >= now + Lockup
        \/ decreaseRequest'[sp].amount = 0
    <3>1. ASSUME NEW amount, decreaseRequest'[sp] =
                    [amount |-> amount, expiry |-> now + DecreaseStakeLockup]
          PROVE  decreaseRequest'[sp].expiry >= now + Lockup
      BY <1>1, <3>1
    <3>2. decreaseRequest'[sp] = NoDecrease => decreaseRequest'[sp].amount = 0
      BY DEF NoDecrease
    <3>3. QED
      BY <2>3, <3>1, <3>2
  <2>5. QED
    BY <1>1, <2>2, <2>4 DEF RequestMoves
<1>6. CASE \E p \in ServiceProviders : ClaimTx(p)
  BY <1>1, <1>6, ClaimRaises DEF ClaimTx, RequestMoves
<1>7. CASE \E d \in Delegators, p \in ServiceProviders : UndelegateTx(d, p)
  <2>1. PICK d \in Delegators, p \in ServiceProviders : UndelegateStake(d, p)
    BY <1>7 DEF UndelegateTx
  <2>2. deployerStake' = [deployerStake EXCEPT ![p] = deployerStake[p]]
        /\ UNCHANGED decreaseRequest
    BY <2>1 DEF UndelegateStake, UpdateServiceProviderStake
  <2>3. QED
    BY <1>1, <1>2, <2>2
<1>8. CASE UNCHANGED providerVars
  BY <1>2, <1>8 DEF providerVars
<1>9. QED
  BY <1>3, <1>4, <1>5, <1>6, <1>7, <1>8
     DEF Unslashed, AccountNext, NextBlock, InitiateRound, UpdateFundingAmount, TransferTx,
         RemovalRequestTx, DelegatorRequestTx, DelegateTx, DelegateStake, RemovalTx, vars

\* The same for delegations, if no delegator is removed.
LEMMA DelegationsRemain ==
    ASSUME Inv, NoRemovals, Unslashed, NEW d \in Delegators
    PROVE  RequestMoves(delegatorTotalStake[d], undelegateRequest[d],
                        delegatorTotalStake'[d], undelegateRequest'[d])
<1>1. /\ delegatorTotalStake \in [Delegators -> Nat]
      /\ undelegateRequest \in [Delegators ->
             [sp : ServiceProviders \cup {NoProvider}, amount : Nat, expiry : Nat]]
      /\ now \in Nat /\ Lockup \in Nat /\ Lockup <= UndelegateLockup
      /\ UndelegateLockup \in Nat
  BY ProviderAssumption, DelegateAssumption
     DEF Inv, SystemOK, TypeOK, DelegateTypeOK, StakingTypeOK, Lockup
<1>2. CASE UNCHANGED <<delegatorTotalStake[d], undelegateRequest[d]>>
  BY <1>1, <1>2 DEF RequestMoves
<1>3. CASE \E e \in Delegators : DelegatorRequestTx(e)
  <2>1. PICK e \in Delegators : DelegatorRequestTx(e)
    BY <1>3
  <2>2. UNCHANGED delegatorTotalStake
    BY <2>1 DEF DelegatorRequestTx, RequestUndelegateStake, CancelUndelegateStakeRequest
  <2>3. \/ undelegateRequest'[d] = undelegateRequest[d]
        \/ \E sp, amount : undelegateRequest'[d] =
              [sp |-> sp, amount |-> amount, expiry |-> now + UndelegateLockup]
        \/ undelegateRequest'[d] = NoUndelegate
    <3>1. \/ \E sp, amount : undelegateRequest' = [undelegateRequest EXCEPT ![e] =
                [sp |-> sp, amount |-> amount, expiry |-> now + UndelegateLockup]]
          \/ undelegateRequest' = [undelegateRequest EXCEPT ![e] = NoUndelegate]
      BY <2>1 DEF DelegatorRequestTx, RequestUndelegateStake, CancelUndelegateStakeRequest,
                  DropUndelegateRequest
    <3>2. QED
      BY <1>1, <3>1
  <2>4. \/ undelegateRequest'[d] = undelegateRequest[d]
        \/ undelegateRequest'[d].expiry >= now + Lockup
        \/ undelegateRequest'[d].amount = 0
    <3>1. ASSUME NEW sp, NEW amount, undelegateRequest'[d] =
                    [sp |-> sp, amount |-> amount, expiry |-> now + UndelegateLockup]
          PROVE  undelegateRequest'[d].expiry >= now + Lockup
      BY <1>1, <3>1
    <3>2. undelegateRequest'[d] = NoUndelegate => undelegateRequest'[d].amount = 0
      BY DEF NoUndelegate
    <3>3. QED
      BY <2>3, <3>1, <3>2
  <2>5. QED
    BY <1>1, <2>2, <2>4 DEF RequestMoves
<1>4. CASE \E e \in Delegators, sp \in ServiceProviders : DelegateTx(e, sp)
  <2>1. PICK e \in Delegators, sp \in ServiceProviders, amount \in DelegateAmounts :
           DelegateStake(e, sp, amount)
    BY <1>4 DEF DelegateTx
  <2>2. amount \in Nat
    BY AmountAssumption
  <2>3. UNCHANGED undelegateRequest /\ delegatorTotalStake'[d] >= delegatorTotalStake[d]
    BY <1>1, <2>1, <2>2 DEF DelegateStake, AddDelegation
  <2>4. QED
    BY <2>3 DEF RequestMoves
<1>5. CASE \E e \in Delegators, sp \in ServiceProviders : UndelegateTx(e, sp)
  <2>1. PICK e \in Delegators, sp \in ServiceProviders : UndelegateStake(e, sp)
    BY <1>5 DEF UndelegateTx
  <2>2. /\ undelegateRequest[e].expiry <= now
        /\ delegatorTotalStake' =
              [delegatorTotalStake EXCEPT ![e] = @ - undelegateRequest[e].amount]
        /\ undelegateRequest' = [undelegateRequest EXCEPT ![e] = NoUndelegate]
    BY <2>1 DEF UndelegateStake, SubtractDelegation, DropUndelegateRequest
  <2>3. CASE e # d
    BY <1>1, <1>2, <2>2, <2>3
  <2>4. CASE e = d
    <3>1. /\ delegatorTotalStake'[d] = delegatorTotalStake[d] - undelegateRequest[d].amount
          /\ undelegateRequest'[d] = NoUndelegate
      BY <1>1, <2>2, <2>4
    <3>2. QED
      BY <2>2, <2>4, <3>1 DEF RequestMoves, NoUndelegate
  <2>5. QED
    BY <2>3, <2>4
<1>6. CASE \E p \in ServiceProviders : ClaimTx(p)
  BY <1>1, <1>6, ClaimRaises DEF ClaimTx, RequestMoves
<1>7. CASE UNCHANGED <<delegatorTotalStake, undelegateRequest>>
  BY <1>2, <1>7
<1>8. QED
  BY <1>3, <1>4, <1>5, <1>6, <1>7, NothingRemoved
     DEF Unslashed, AccountNext, NextBlock, InitiateRound, UpdateFundingAmount, TransferTx,
         ServiceTx, ProviderStakeTx, ProviderRequestTx, RemovalRequestTx,
         RequestRemoveDelegator, CancelRemoveDelegatorRequest, UpdateSPMinDelegationAmount,
         vars, delegateVars

\* What remains until a block is not lowered before it, if the block is not
\* further than the lockup.
LEMMA StakeRemains ==
    ASSUME Inv, Inv', NoRemovals, Unslashed, NEW a \in Accounts, NEW block \in Nat,
           now < block, block <= now + Lockup
    PROVE  RemainingStake(a, block)' >= RemainingStake(a, block)
<1>1. /\ now \in Nat /\ Lockup \in Nat
      /\ deployerStake \in [ServiceProviders -> Nat]
      /\ deployerStake' \in [ServiceProviders -> Nat]
      /\ decreaseRequest \in [ServiceProviders -> [amount : Nat, expiry : Nat]]
      /\ decreaseRequest' \in [ServiceProviders -> [amount : Nat, expiry : Nat]]
      /\ delegatorTotalStake \in [Delegators -> Nat]
      /\ delegatorTotalStake' \in [Delegators -> Nat]
      /\ undelegateRequest \in [Delegators ->
             [sp : ServiceProviders \cup {NoProvider}, amount : Nat, expiry : Nat]]
      /\ undelegateRequest' \in [Delegators ->
             [sp : ServiceProviders \cup {NoProvider}, amount : Nat, expiry : Nat]]
  BY ProviderAssumption, DelegateAssumption
     DEF Inv, SystemOK, TypeOK, ProviderTypeOK, DelegateTypeOK, StakingTypeOK, Lockup
<1> DEFINE direct       == Remaining(deployerStake[a], decreaseRequest[a], block)
           newDirect    == Remaining(deployerStake'[a], decreaseRequest'[a], block)
           delegated    == Remaining(delegatorTotalStake[a], undelegateRequest[a], block)
           newDelegated == Remaining(delegatorTotalStake'[a], undelegateRequest'[a], block)
<1>2. a \in ServiceProviders => direct \in Int /\ newDirect \in Int /\ newDirect >= direct
  <2> SUFFICES ASSUME a \in ServiceProviders
               PROVE  direct \in Int /\ newDirect \in Int /\ newDirect >= direct
    OBVIOUS
  <2>1. /\ deployerStake[a] \in Nat /\ deployerStake'[a] \in Nat
        /\ decreaseRequest[a].amount \in Nat /\ decreaseRequest[a].expiry \in Nat
        /\ decreaseRequest'[a].amount \in Nat /\ decreaseRequest'[a].expiry \in Nat
    BY <1>1
  <2>2. direct \in Int /\ newDirect \in Int
    BY <2>1 DEF Remaining
  <2>3. RequestMoves(deployerStake[a], decreaseRequest[a], deployerStake'[a], decreaseRequest'[a])
    BY DirectStakeRemains
  <2>4. newDirect >= direct
    BY <1>1, <2>1, <2>3, RemainingKept
  <2>5. QED
    BY <2>2, <2>4
<1>3. a \in Delegators =>
         delegated \in Int /\ newDelegated \in Int /\ newDelegated >= delegated
  <2> SUFFICES ASSUME a \in Delegators
               PROVE  delegated \in Int /\ newDelegated \in Int /\ newDelegated >= delegated
    OBVIOUS
  <2>1. /\ delegatorTotalStake[a] \in Nat /\ delegatorTotalStake'[a] \in Nat
        /\ undelegateRequest[a].amount \in Nat /\ undelegateRequest[a].expiry \in Nat
        /\ undelegateRequest'[a].amount \in Nat /\ undelegateRequest'[a].expiry \in Nat
    BY <1>1
  <2>2. delegated \in Int /\ newDelegated \in Int
    BY <2>1 DEF Remaining
  <2>3. RequestMoves(delegatorTotalStake[a], undelegateRequest[a],
                     delegatorTotalStake'[a], undelegateRequest'[a])
    BY DelegationsRemain
  <2>4. newDelegated >= delegated
    BY <1>1, <2>1, <2>3, RemainingKept
  <2>5. QED
    BY <2>2, <2>4
<1>4. /\ RemainingStake(a, block) = (IF a \in ServiceProviders THEN direct ELSE 0)
                                    + (IF a \in Delegators THEN delegated ELSE 0)
      /\ RemainingStake(a, block)' = (IF a \in ServiceProviders THEN newDirect ELSE 0)
                                     + (IF a \in Delegators THEN newDelegated ELSE 0)
  BY DEF RemainingStake, Remaining
<1> HIDE DEF direct, newDirect, delegated, newDelegated
<1>5. QED
  BY <1>2, <1>3, <1>4

LEMMA BlocksPass == ASSUME Inv, Unslashed PROVE now' >= now
<1>1. now \in Nat
  BY DEF Inv, SystemOK, TypeOK, StakingTypeOK
<1>2. CASE UNCHANGED now
  BY <1>1, <1>2
<1>3. CASE NextBlock
  BY <1>1, <1>3 DEF NextBlock, Tick
<1>4. QED
  BY <1>2, <1>3
     DEF Unslashed, AccountNext, InitiateRound, UpdateFundingAmount, TransferTx, ServiceTx,
         ProviderStakeTx, ProviderRequestTx, RemovalRequestTx, DelegatorRequestTx, DelegateTx,
         UndelegateTx, RemovalTx, ClaimTx, vars, chainVars

\* How the votes on a proposal may change: an account votes with the stake it
\* has, while the proposal is open and stake stays where it is.
PollMoves(p, q) ==
    /\ q.submissionBlockNumber = p.submissionBlockNumber
    /\ \A a \in Accounts : q.votes[a] # "None" =>
          \/ p.votes[a] # "None" /\ q.voteMagnitudes[a] = p.voteMagnitudes[a]
          \/ HasActiveStake(a) /\ q.voteMagnitudes[a] = ActiveStake(a) /\ UNCHANGED vars
    /\ \/ q.voteMagnitudeYes = p.voteMagnitudeYes /\ q.voteMagnitudeNo = p.voteMagnitudeNo
       \/ VotingOpen(p) /\ UNCHANGED vars

PollsMove ==
    /\ DOMAIN proposals \subseteq DOMAIN proposals'
    /\ \A id \in DOMAIN proposals : PollMoves(proposals[id], proposals'[id])
    /\ \A id \in DOMAIN proposals' \ DOMAIN proposals :
          /\ proposals'[id].submissionBlockNumber = now
          /\ \A a \in Accounts : proposals'[id].votes[a] = "None"
          /\ proposals'[id].voteMagnitudeYes = 0 /\ proposals'[id].voteMagnitudeNo = 0

LEMMA SamePollMoves ==
    ASSUME NEW p, NEW q, SameVotes(p, q), q.submissionBlockNumber = p.submissionBlockNumber
    PROVE  PollMoves(p, q)
BY DEF SameVotes, PollMoves

LEMMA VoteMovesPoll ==
    ASSUME GovInv, UNCHANGED vars, NEW id \in DOMAIN proposals, NEW a \in Accounts,
           NEW vote \in {"No", "Yes"}, SubmitVote(a, id, vote) \/ UpdateVote(a, id, vote)
    PROVE  /\ DOMAIN proposals' = DOMAIN proposals
           /\ \A i \in DOMAIN proposals \ {id} : proposals'[i] = proposals[i]
           /\ PollMoves(proposals[id], proposals'[id])
<1> DEFINE p == proposals[id]
           q == proposals'[id]
<1>1. p \in Proposal
  BY DEF GovInv, GovernanceTypeOK
<1>2. /\ p.votes \in [Accounts -> {"None", "No", "Yes"}]
      /\ p.voteMagnitudes \in [Accounts -> Nat]
  BY <1>1 DEF Proposal
<1>3. CASE SubmitVote(a, id, vote)
  <2>1. /\ DOMAIN proposals' = DOMAIN proposals
        /\ \A i \in DOMAIN proposals \ {id} : proposals'[i] = proposals[i]
        /\ q = WithVote(p, a, vote, ActiveStake(a))
        /\ VotingOpen(p) /\ HasActiveStake(a)
    BY <1>3 DEF SubmitVote, WithVote
  <2> HIDE DEF p, q
  <2>2. /\ q.votes = [p.votes EXCEPT ![a] = vote]
        /\ q.voteMagnitudes = [p.voteMagnitudes EXCEPT ![a] = ActiveStake(a)]
        /\ q.submissionBlockNumber = p.submissionBlockNumber
    BY <1>1, <2>1 DEF Proposal, WithVote
  <2>3. ASSUME NEW x \in Accounts, q.votes[x] # "None"
        PROVE  \/ p.votes[x] # "None" /\ q.voteMagnitudes[x] = p.voteMagnitudes[x]
               \/ HasActiveStake(x) /\ q.voteMagnitudes[x] = ActiveStake(x)
    BY <1>2, <2>1, <2>2, <2>3
  <2>4. PollMoves(p, q)
    BY <2>1, <2>2, <2>3 DEF PollMoves
  <2>5. QED
    BY <2>1, <2>4 DEF p, q
<1>4. CASE UpdateVote(a, id, vote)
  <2>1. /\ DOMAIN proposals' = DOMAIN proposals
        /\ \A i \in DOMAIN proposals \ {id} : proposals'[i] = proposals[i]
        /\ q = WithUpdate(p, a, vote)
        /\ VotingOpen(p) /\ p.votes[a] # "None"
    BY <1>4 DEF UpdateVote, MovedMagnitude, WithUpdate
  <2> HIDE DEF p, q
  <2>2. /\ q.votes = [p.votes EXCEPT ![a] = vote]
        /\ q.voteMagnitudes = p.voteMagnitudes
        /\ q.submissionBlockNumber = p.submissionBlockNumber
    BY <1>1, <2>1 DEF Proposal, WithUpdate
  <2>3. ASSUME NEW x \in Accounts, q.votes[x] # "None"
        PROVE  p.votes[x] # "None" /\ q.voteMagnitudes[x] = p.voteMagnitudes[x]
    BY <1>2, <2>1, <2>2, <2>3
  <2>4. PollMoves(p, q)
    BY <2>1, <2>2, <2>3 DEF PollMoves
  <2>5. QED
    BY <2>1, <2>4 DEF p, q
<1>5. QED
  BY <1>3, <1>4

LEMMA PollsMoving ==
    ASSUME GovInv, [GovernedNext]_allVars
    PROVE  PollsMove
<1>1. proposals \in Seq(Proposal)
  BY DEF GovInv, GovernanceTypeOK
<1>2. \A p : PollMoves(p, p)
  BY SamePollMoves DEF SameVotes
<1>3. CASE Submitted
  <2>1. PICK new \in Proposal :
           /\ proposals' = Append(proposals, new)
           /\ new.votes = [v \in Accounts |-> "None"]
           /\ new.voteMagnitudeYes = 0 /\ new.voteMagnitudeNo = 0
           /\ new.submissionBlockNumber = now
    BY <1>3 DEF Submitted
  <2>2. /\ DOMAIN proposals' = DOMAIN proposals \cup {Len(proposals) + 1}
        /\ \A i \in DOMAIN proposals : proposals'[i] = proposals[i]
        /\ proposals'[Len(proposals) + 1] = new
    BY <1>1, <2>1
  <2>3. \A a \in Accounts : new.votes[a] = "None"
    BY <2>1
  <2>4. QED
    BY <1>2, <2>1, <2>2, <2>3 DEF PollsMove
<1>4. CASE Voted /\ UNCHANGED vars
  <2>1. PICK id \in DOMAIN proposals, a \in Accounts, vote \in {"No", "Yes"} :
           SubmitVote(a, id, vote) \/ UpdateVote(a, id, vote)
    BY <1>4 DEF Voted
  <2>2. /\ DOMAIN proposals' = DOMAIN proposals
        /\ \A i \in DOMAIN proposals \ {id} : proposals'[i] = proposals[i]
        /\ PollMoves(proposals[id], proposals'[id])
    BY <1>4, <2>1, VoteMovesPoll
  <2>3. \A i \in DOMAIN proposals : PollMoves(proposals[i], proposals'[i])
    BY <1>2, <2>2
  <2>4. QED
    BY <2>2, <2>3 DEF PollsMove
<1>5. CASE Recorded
  <2>1. /\ DOMAIN proposals' = DOMAIN proposals
        /\ \A id \in DOMAIN proposals : PollMoves(proposals[id], proposals'[id])
    BY <1>5, SamePollMoves DEF Recorded, SamePolls
  <2>2. QED
    BY <2>1 DEF PollsMove
<1>6. QED
  BY <1>3, <1>4, <1>5, GovernedMoves

\* A vote is covered by stake that is not withdrawn before the lockup, counted
\* from the submission, is over.
VotesCovered ==
    \A id \in DOMAIN proposals :
        /\ proposals[id].submissionBlockNumber <= now
        /\ \A a \in Accounts, block \in Nat :
              /\ proposals[id].votes[a] # "None"
              /\ block = proposals[id].submissionBlockNumber + Lockup
              /\ now < block
              => proposals[id].voteMagnitudes[a] <= RemainingStake(a, block)

\* Afterwards the votes, which can no longer change, are within the supply.
OldVotesWithin ==
    \A id \in DOMAIN proposals :
        now >= proposals[id].submissionBlockNumber + Lockup =>
            proposals[id].voteMagnitudeYes + proposals[id].voteMagnitudeNo <= Supply

\* The tallies and what covers the votes, while nothing is slashed or removed.
BallotInv == Tallies /\ NoRemovals /\ VotesCovered /\ OldVotesWithin

\* The vote is shorter than the lockups.  Their setters require it, the setter
\* of the voting period does not.
PeriodWithinLockup == settings.votingPeriod < Lockup

LEMMA RemainingBelowWhole ==
    ASSUME Inv, NEW a \in Accounts, NEW block \in Nat
    PROVE  /\ RemainingStake(a, block) \in Int
           /\ RemainingStake(a, block) <= WholeStake(a)
           /\ ActiveStake(a) \in Int
           /\ ActiveStake(a) <= RemainingStake(a, block)
<1>1. a \in ServiceProviders =>
         /\ deployerStake[a] \in Nat
         /\ decreaseRequest[a].amount \in Nat /\ decreaseRequest[a].expiry \in Nat
  BY DEF Inv, SystemOK, TypeOK, ProviderTypeOK
<1>2. a \in Delegators =>
         /\ delegatorTotalStake[a] \in Nat
         /\ undelegateRequest[a].amount \in Nat /\ undelegateRequest[a].expiry \in Nat
  BY DEF Inv, SystemOK, TypeOK, DelegateTypeOK
<1>3. a \in ServiceProviders =>
         /\ Remaining(deployerStake[a], decreaseRequest[a], block) \in Int
         /\ Remaining(deployerStake[a], decreaseRequest[a], block) <= deployerStake[a]
         /\ deployerStake[a] - decreaseRequest[a].amount
              <= Remaining(deployerStake[a], decreaseRequest[a], block)
  BY <1>1 DEF Remaining
<1>4. a \in Delegators =>
         /\ Remaining(delegatorTotalStake[a], undelegateRequest[a], block) \in Int
         /\ Remaining(delegatorTotalStake[a], undelegateRequest[a], block)
              <= delegatorTotalStake[a]
         /\ delegatorTotalStake[a] - undelegateRequest[a].amount
              <= Remaining(delegatorTotalStake[a], undelegateRequest[a], block)
  BY <1>2 DEF Remaining
<1>5. QED
  BY <1>1, <1>2, <1>3, <1>4
     DEF RemainingStake, WholeStake, ActiveStake, ActiveDeployerStake, ActiveDelegatorStake

LEMMA CoveredVotesWithin ==
    ASSUME GovInv, BookInv, BallotInv
    PROVE  VotesWithinSupply
<1> SUFFICES ASSUME NEW id \in DOMAIN proposals
             PROVE  proposals[id].voteMagnitudeYes + proposals[id].voteMagnitudeNo <= Supply
  BY DEF VotesWithinSupply
<1> DEFINE p == proposals[id]
<1>1. /\ Inv /\ p \in Proposal /\ TallyMatches(p) /\ now \in Nat
      /\ Lockup \in Nat
  BY ProviderAssumption, DelegateAssumption
     DEF BookInv, GovInv, GovernanceTypeOK, TypeOK, StakingTypeOK, BallotInv, Tallies, Lockup
<1>2. p.submissionBlockNumber \in Nat /\ p.voteMagnitudes \in [Accounts -> Nat]
  BY <1>1 DEF Proposal
<1>3. CASE now >= p.submissionBlockNumber + Lockup
  BY <1>3 DEF BallotInv, OldVotesWithin
<1>4. CASE now < p.submissionBlockNumber + Lockup
  <2>1. PICK block \in Nat : block = p.submissionBlockNumber + Lockup
    BY <1>1, <1>2
  <2>2. ASSUME NEW a \in Accounts, p.votes[a] # "None"
        PROVE  p.voteMagnitudes[a] <= WholeStake(a)
    <3>1. p.voteMagnitudes[a] <= RemainingStake(a, block)
      BY <1>4, <2>1, <2>2 DEF BallotInv, VotesCovered
    <3>2. RemainingStake(a, block) \in Int /\ RemainingStake(a, block) <= WholeStake(a)
      BY <1>1, RemainingBelowWhole
    <3>3. p.voteMagnitudes[a] \in Nat /\ WholeStake(a) \in Int
      BY <1>1, <1>2 DEF WholeStake, Inv, SystemOK, TypeOK, ProviderTypeOK, DelegateTypeOK
    <3>4. QED
      BY <3>1, <3>2, <3>3
  <2> HIDE DEF p
  <2>3. p.voteMagnitudeYes + p.voteMagnitudeNo <= Supply
    BY <1>1, <2>2, StakedVotesWithin
  <2>4. QED
    BY <2>3 DEF p
<1>5. QED
  BY <1>1, <1>2, <1>3, <1>4

\* Votes are cast with stake that remains, and it does.
LEMMA VotesStayCovered ==
    ASSUME GovInv, Inv, Inv', NoRemovals, Unslashed, PollsMove, VotesCovered
    PROVE  VotesCovered'
<1>1. now \in Nat /\ now' \in Nat /\ now' >= now /\ Lockup \in Nat
  BY BlocksPass, ProviderAssumption, DelegateAssumption
     DEF Inv, SystemOK, TypeOK, StakingTypeOK, Lockup
<1> SUFFICES ASSUME NEW id \in DOMAIN proposals'
             PROVE  /\ proposals'[id].submissionBlockNumber <= now'
                    /\ \A a \in Accounts, block \in Nat :
                          /\ proposals'[id].votes[a] # "None"
                          /\ block = proposals'[id].submissionBlockNumber + Lockup
                          /\ now' < block
                          => proposals'[id].voteMagnitudes[a] <= RemainingStake(a, block)'
  BY DEF VotesCovered, Accounts
<1>2. CASE id \notin DOMAIN proposals
  BY <1>1, <1>2 DEF PollsMove
<1>3. CASE id \in DOMAIN proposals
  <2> DEFINE p == proposals[id]
             q == proposals'[id]
  <2>1. PollMoves(p, q) /\ p.submissionBlockNumber <= now
    BY <1>3 DEF PollsMove, VotesCovered
  <2>2. p \in Proposal /\ p.submissionBlockNumber \in Nat /\ p.voteMagnitudes \in [Accounts -> Nat]
    <3>1. proposals[id] \in Proposal
      BY <1>3 DEF GovInv, GovernanceTypeOK
    <3>2. QED
      BY <3>1 DEF Proposal
  <2>3. ASSUME NEW a \in Accounts, NEW block \in Nat, q.votes[a] # "None",
               block = p.submissionBlockNumber + Lockup, now' < block
        PROVE  q.voteMagnitudes[a] <= RemainingStake(a, block)'
    <3>1. now < block /\ block <= now + Lockup
      BY <1>1, <2>1, <2>2, <2>3
    <3>2. RemainingStake(a, block)' >= RemainingStake(a, block)
      BY <3>1, StakeRemains
    <3>3. /\ RemainingStake(a, block) \in Int
          /\ ActiveStake(a) \in Int /\ ActiveStake(a) <= RemainingStake(a, block)
      BY RemainingBelowWhole
    <3>4. RemainingStake(a, block)' \in Int
      <4>1. a \in ServiceProviders =>
               /\ deployerStake'[a] \in Nat
               /\ decreaseRequest'[a].amount \in Nat /\ decreaseRequest'[a].expiry \in Nat
        BY DEF Inv, SystemOK, TypeOK, ProviderTypeOK
      <4>2. a \in Delegators =>
               /\ delegatorTotalStake'[a] \in Nat
               /\ undelegateRequest'[a].amount \in Nat /\ undelegateRequest'[a].expiry \in Nat
        BY DEF Inv, SystemOK, TypeOK, DelegateTypeOK
      <4>3. QED
        BY <4>1, <4>2 DEF RemainingStake, Remaining
    <3>5. CASE p.votes[a] # "None" /\ q.voteMagnitudes[a] = p.voteMagnitudes[a]
      <4>1. p.voteMagnitudes[a] <= RemainingStake(a, block)
        BY <1>3, <2>3, <3>1, <3>5 DEF VotesCovered
      <4>2. p.voteMagnitudes[a] \in Nat
        BY <2>2
      <4>3. QED
        BY <3>2, <3>3, <3>4, <3>5, <4>1, <4>2
    <3>6. CASE q.voteMagnitudes[a] = ActiveStake(a)
      BY <3>2, <3>3, <3>4, <3>6
    <3>7. QED
      BY <2>1, <2>3, <3>5, <3>6 DEF PollMoves
  <2>4. q.submissionBlockNumber = p.submissionBlockNumber /\ p.submissionBlockNumber <= now'
    BY <1>1, <2>1, <2>2 DEF PollMoves
  <2> HIDE DEF p
  <2>5. QED
    BY <2>3, <2>4
<1>4. QED
  BY <1>2, <1>3

\* The supply does not fall, and when the lockup is over so is the vote.
LEMMA OldVotesStayWithin ==
    ASSUME GovInv, Inv, Inv', Unslashed, PollsMove, VotesWithinSupply, PeriodWithinLockup
    PROVE  OldVotesWithin'
<1>0. Supply \in Nat /\ Supply' \in Nat /\ Supply' >= Supply
  BY UnslashedSupply, SupplyNat, SupplyNatNext
<1>1. /\ now \in Nat /\ Lockup \in Nat /\ settings.votingPeriod \in Nat
      /\ Supply \in Nat /\ Supply' \in Nat /\ Supply' >= Supply
  BY <1>0, ProviderAssumption, DelegateAssumption
     DEF Inv, SystemOK, TypeOK, StakingTypeOK, Lockup, GovInv, GovernanceTypeOK, Settings
<1> SUFFICES ASSUME NEW id \in DOMAIN proposals',
                    now' >= proposals'[id].submissionBlockNumber + Lockup
             PROVE  proposals'[id].voteMagnitudeYes + proposals'[id].voteMagnitudeNo <= Supply'
  BY DEF OldVotesWithin
<1>2. CASE id \notin DOMAIN proposals
  BY <1>1, <1>2 DEF PollsMove
<1>3. CASE id \in DOMAIN proposals
  <2> DEFINE p == proposals[id]
             q == proposals'[id]
  <2>1. PollMoves(p, q) /\ p.voteMagnitudeYes + p.voteMagnitudeNo <= Supply
    BY <1>3 DEF PollsMove, VotesWithinSupply
  <2>2. /\ p.submissionBlockNumber \in Nat
        /\ p.voteMagnitudeYes \in Nat /\ p.voteMagnitudeNo \in Nat
    <3>1. proposals[id] \in Proposal
      BY <1>3 DEF GovInv, GovernanceTypeOK
    <3>2. QED
      BY <3>1 DEF Proposal
  <2>3. CASE VotingOpen(p) /\ UNCHANGED vars
    <3>1. now <= p.submissionBlockNumber + settings.votingPeriod /\ now' = now
      BY <2>3 DEF VotingOpen, VotingEnd, vars, chainVars
    <3>2. q.submissionBlockNumber = p.submissionBlockNumber
      BY <2>1 DEF PollMoves
    <3> HIDE DEF p
    <3>3. FALSE
      BY <1>1, <2>2, <3>1, <3>2 DEF PeriodWithinLockup
    <3>4. QED
      BY <3>3
  <2>4. CASE q.voteMagnitudeYes = p.voteMagnitudeYes /\ q.voteMagnitudeNo = p.voteMagnitudeNo
    BY <1>1, <2>1, <2>2, <2>4
  <2>5. QED
    BY <2>1, <2>3, <2>4 DEF PollMoves
<1>4. QED
  BY <1>2, <1>3

\* No token votes twice on a proposal: without slashes and removals, and when
\* the voting period is always shorter than the lockups (which the setters of
\* the lockups require, that of the voting period does not), the votes on a
\* proposal add up to no more than the tokens there are, however stake is
\* withdrawn, sent on and staked again.
THEOREM VotesWithin ==
    ASSUME NoSlashes, Removable = {}
    PROVE  GovernedSpec /\ []PeriodWithinLockup => []VotesWithinSupply
<1>1. GovernedSpec => []BookInv
  BY Governed, BooksInvariant, PTL
<1>2. GovernedInit => BallotInv
  BY DEF GovernedInit, GovernanceInit, Init, DelegateInit, BallotInv, Tallies, NoRemovals,
         VotesCovered, OldVotesWithin
<1>3. ASSUME BookInv, BookInv', GovInv, BallotInv, PeriodWithinLockup, [GovernedNext]_allVars
      PROVE  BallotInv'
  <2>1. Inv /\ Inv' /\ NoRemovals /\ Tallies /\ VotesCovered
    BY <1>3 DEF BookInv, BallotInv
  <2>2. Unslashed /\ PollsMove /\ [Next]_vars
    BY <1>3, UnslashedStep, PollsMoving, GovernedStep
  <2>3. NoRemovals'
    BY <2>1, <2>2, NoRemovalsKept
  <2>4. Tallies'
    BY <1>3, <2>1, TalliesStep
  <2>5. VotesCovered'
    BY <1>3, <2>1, <2>2, VotesStayCovered
  <2>6. OldVotesWithin'
    BY <1>3, <2>1, <2>2, CoveredVotesWithin, OldVotesStayWithin
  <2>7. QED
    BY <2>3, <2>4, <2>5, <2>6 DEF BallotInv
<1>4. BookInv /\ GovInv /\ BallotInv => VotesWithinSupply
  BY CoveredVotesWithin
<1>5. BookInv /\ BookInv' /\ GovInv /\ BallotInv /\ PeriodWithinLockup /\ [GovernedNext]_allVars
        => BallotInv'
  BY <1>3
<1>6. QED
  BY <1>1, <1>2, <1>4, <1>5, GovernedInvariant, PTL DEF GovernedSpec
=============================================================================
