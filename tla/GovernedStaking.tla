---------------------------- MODULE GovernedStaking ----------------------------
(***************************************************************************)
(* The staking protocol under governance: what only governance may do to   *)
(* the staking contracts happens by a proposal or by the guardian, and     *)
(* stake, which accounts move at the same time, decides the votes.         *)
(***************************************************************************)
EXTENDS Governance

allVars == <<vars, governedVars>>

GovernedInit == Init /\ GovernanceInit

-----------------------------------------------------------------------------
AccountStep ==
    /\ AccountNext
    /\ UNCHANGED governedVars

ProposalVote(id) ==
    \E a \in Accounts, vote \in {"No", "Yes"} : SubmitVote(a, id, vote) \/ UpdateVote(a, id, vote)

Guardianship == \E g \in Guardians \cup {NoProvider} : TransferGuardianship(g)

\* Proposals and votes leave the staking contracts alone.
VotingStep ==
    /\ \/ \E a \in Accounts \cup Guardians, call \in ProposalCalls : SubmitProposal(a, call)
       \/ \E id \in DOMAIN proposals : ProposalVote(id) \/ VetoProposal(id)
       \/ Guardianship \/ DestroyOther
    /\ UNCHANGED vars

EvaluationStep ==
    \E id \in DOMAIN proposals :
        \/ EvaluateProposalOutcome(id)
        \/ \E q \in DOMAIN proposals : EvaluateNested(id, q)

GuardianStep == \E call \in GuardianCalls : GuardianExecuteTransaction(call)

GovernedNext == AccountStep \/ VotingStep \/ EvaluationStep \/ GuardianStep

GovernedSpec == GovernedInit /\ [][GovernedNext]_allVars

-----------------------------------------------------------------------------
(* Safety.                                                                 *)

\* The array of proposals in progress lists exactly the proposals whose
\* outcome is InProgress, each once, also when one evaluation executes
\* another: it is what limits and blocks new submissions.
InProgressListed ==
    /\ \A i, j \in DOMAIN inProgressProposals :
          inProgressProposals[i] = inProgressProposals[j] => i = j
    /\ {inProgressProposals[i] : i \in DOMAIN inProgressProposals}
          = {id \in DOMAIN proposals : proposals[id].outcome = "InProgress"}

\* The magnitudes of a proposal are the sums over its voters of the stake
\* each had when it voted, and the number of votes is the number of voters,
\* however often votes change and whatever happens to the stake.
TalliesMatch ==
    \A id \in DOMAIN proposals :
        LET p         == proposals[id]
            For(vote) == {a \in Accounts : p.votes[a] = vote}
        IN  /\ p.voteMagnitudeYes = Total(p.voteMagnitudes, For("Yes"))
            /\ p.voteMagnitudeNo = Total(p.voteMagnitudes, For("No"))
            /\ p.numVotes = Cardinality(For("Yes") \cup For("No"))

\* While the settings stay as they are, a decision stands: what was executed
\* has a majority and the quorum ever after, what was rejected for a lack of
\* votes has not.
DecisionStands ==
    \A id \in DOMAIN proposals :
        LET p == proposals[id]
        IN  /\ p.outcome \in {"ApprovedExecuted", "ApprovedExecutionFailed"} =>
                  QuorumMet(p) /\ p.voteMagnitudeYes > p.voteMagnitudeNo
            /\ p.outcome = "Rejected" => p.voteMagnitudeYes <= p.voteMagnitudeNo
            /\ p.outcome = "QuorumNotMet" => ~QuorumMet(p)

\* Tokens of all accounts and of the Staking contract.
Supply == Total(wallet, Accounts) + vault

\* Without rewards and without slashes by the guardian, the tokens that are
\* missing from the supply are those that executed proposals have burned: each
\* is executed once, a failed or a vetoed one not at all.
BurnedByVote ==
    Total(InitialWallet, Accounts) - Supply =
        Total([id \in DOMAIN proposals |-> proposals[id].call.value],
              {id \in DOMAIN proposals : /\ proposals[id].call.kind = "slash"
                                         /\ proposals[id].outcome = "ApprovedExecuted"})

\* The votes on a proposal never add up to more than the tokens there are
\* (GovernanceV2, _quorumMet: "can sum to at most the entire token supply"):
\* a token that has voted cannot be withdrawn, moved to another account and
\* vote again within the voting period.
VotesWithinSupply ==
    \A id \in DOMAIN proposals :
        proposals[id].voteMagnitudeYes + proposals[id].voteMagnitudeNo <= Supply

\* Votes are cast on active proposals only (GovernanceV2, submitVote: "Vote on
\* an active Proposal"; Outcome: "InProgress - Proposal is active and can be
\* voted on").
VotesOnlyWhileActive ==
    [][\A id \in DOMAIN proposals :
          proposals[id].outcome # "InProgress" =>
              proposals'[id].numVotes = proposals[id].numVotes]_allVars

\* A proposal has at most one end: once its outcome is not InProgress, it
\* stays what it is, and no later evaluation, veto or nested call changes it.
OutcomesFinal ==
    [][\A id \in DOMAIN proposals :
          proposals[id].outcome # "InProgress" =>
              proposals'[id].outcome = proposals[id].outcome]_allVars

\* Where the guardian does not do it itself, stake is burned, the funding and
\* the settings change only by a proposal for just that, with a majority,
\* that ends in this step and can no longer be voted on.
OnlyByProposal ==
    [][LET Executed(kind, value) ==
               \E id \in DOMAIN proposals :
                   LET p == proposals[id]
                   IN  /\ p.outcome = "InProgress"
                       /\ proposals'[id].outcome = "ApprovedExecuted"
                       /\ p.call.kind = kind /\ p.call.value = value
                       /\ p.voteMagnitudeYes > p.voteMagnitudeNo
                       /\ now > VotingEnd(p)
       IN  /\ Supply' < Supply => Executed("slash", Supply - Supply')
           /\ fundingAmount' # fundingAmount => Executed("fundingAmount", fundingAmount')
           /\ \A name \in SettingNames :
                 settings'[name] # settings[name] => Executed(name, settings'[name])]_allVars
=============================================================================
