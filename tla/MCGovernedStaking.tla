--------------------------- MODULE MCGovernedStaking ---------------------------
(***************************************************************************)
(* Instances of GovernedStaking for TLC.  The bounds, the view and the     *)
(* wallets of MCStakingSystem are used again.                              *)
(***************************************************************************)
EXTENDS GovernedStaking, MCStakingSystem

\* A voting period of one or two blocks and no delay.  The lockups of the
\* configurations are one block longer, the least that the contracts accept.
MCSettings(period) ==
    [votingPeriod |-> period, executionDelay |-> 0,
     votingQuorumPercent |-> 50, maxInProgressProposals |-> 2]
MCSettings1 == MCSettings(1)
MCSettings2 == MCSettings(2)

MCCall(kind, value) == [kind |-> kind, sp |-> NoProvider, value |-> value]
MCFundingCalls == {MCCall("fundingAmount", 5)}
MCSlash == {[kind |-> "slash", sp |-> sp, value |-> 1] : sp \in ServiceProviders}
MCNestedCalls == MCSlash \cup {MCCall("evaluate", 1), MCCall("evaluate", 2)}
MCConfigCalls ==
    MCFundingCalls \cup {MCCall("executionDelay", 1), MCCall("votingQuorumPercent", 0),
                         MCCall("other", NoAddress)}
MCRegistryCalls ==
    {MCCall("addContract", 2), MCCall("upgradeContract", 3), MCCall("removeContract", NoAddress)}

\* Nobody asks to withdraw: what is locked is the subject of MCVotes.
MCNoRequests ==
    /\ \A sp \in ServiceProviders : decreaseRequest[sp].amount = 0
    /\ \A d \in Delegators : undelegateRequest[d].amount = 0

\* And the guardian stays the same: that it changes is the subject of MCVotes.
MCNoRequestsSameGuardian == MCNoRequests /\ guardianAddress = FirstGuardian

\* Stake is brought in the first block only.
MCStakesEarly ==
    now > 1 => /\ \A sp \in ServiceProviders : deployerStake'[sp] <= deployerStake[sp]
               /\ \A d \in Delegators : delegatorTotalStake'[d] <= delegatorTotalStake[d]

\* Of the history of the total stake the values at the funding block and at
\* the submission of proposals are still read.
MCGovernedView ==
    <<MCView, governedVars,
      [id \in DOMAIN proposals |-> totalStakedHistory[proposals[id].submissionBlockNumber]]>>

\* Where the guardian or a proposal has changed the registry or a setting, the
\* withdrawals and the fourth block are left out.
MCConfigured ==
    \/ guardianAddress # FirstGuardian \/ settings # FirstSettings
    \/ otherAddress # NoAddress \/ destroyed # {}
    \/ \E id \in DOMAIN proposals : proposals[id].call \notin MCFundingCalls
MCConfiguredApart == MCConfigured =>
    /\ now <= 4 /\ MCNoRequests
    /\ \A sp \in ServiceProviders : wallet[sp] + deployerStake[sp] = InitialWallet[sp]

MCConfiguredStill == MCConfigured => UNCHANGED wallet

=============================================================================
