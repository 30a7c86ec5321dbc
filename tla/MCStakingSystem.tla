-------------------------- MODULE MCStakingSystem --------------------------
(***************************************************************************)
(* Instances of StakingSystem for TLC: the values of its constants, the    *)
(* bounds of the runs, their symmetry and the view they share.             *)
(***************************************************************************)
EXTENDS StakingSystem, TLC

\* Free tokens at the start: those of every provider and every delegator.
MCWallet(sp, d) == [a \in Accounts |-> IF a \in ServiceProviders THEN sp ELSE d]
MCWallet21 == MCWallet(2, 1)
MCWallet22 == MCWallet(2, 2)
MCWallet32 == MCWallet(3, 2)

\* Stake a service requires and allows; a few rewards exceed the maximum.
MCTypeMin == [t \in ServiceTypes |-> 2]
MCTypeMax == [t \in ServiceTypes |-> 8]

MCSymmetry    == Permutations(Delegators)
MCSymmetryTwo == Permutations(ServiceProviders) \cup Permutations(Endpoints)

-----------------------------------------------------------------------------
(* Bounds.                                                                 *)

\* The claims of a round are followed up to twice its funding.
MCClaimBound == totalClaimedInRound <= 2 * fundingAmount

\* No claim is mined in the block that starts its round; the other case is
\* the subject of MCDuplicateClaim.
MCClaimsLater ==
    now = fundedBlock => UNCHANGED <<lastClaimed, totalClaimedInRound>>

\* Where a cut, a minimum or the funding amount has changed, the fourth block
\* and the requests to remove a delegator are left out.
MCChanged ==
    \/ \E sp \in ServiceProviders :
           deployerCut[sp] # 0 \/ cutRequest[sp] # NoCut \/ spMinDelegationAmount[sp] # 0
    \/ fundingAmount # 5
MCChangeOrRemove ==
    /\ MCClaimBound
    /\ MCChanged => now <= 3 /\ \A sp \in ServiceProviders, d \in Delegators :
                                   removeRequest[sp][d] = 0

-----------------------------------------------------------------------------
(* View: what the guards and the properties can tell apart.  Of a history  *)
(* that is the last value and the value at the funding block (the next     *)
(* funding block is now or later, where the value is the last one); of the *)
(* block of a claim, how it compares to the funding block and to now; of a *)
(* request that has expired, that it has.                                  *)

Last(history) == history[MaxBlock]
Left(expiry)  == IF expiry <= now THEN 0 ELSE expiry - now

MCView ==
    <<now, wallet, vault, claimsVars, deployerStake, validBounds, serviceVars,
      deployerCut, delegateInfo, delegatorTotalStake, totalDelegatedStake,
      totalLockedUpStake, delegators, removeRequest, spMinDelegationAmount,
      Last(totalStakedHistory), totalStakedHistory[fundedBlock],
      [sp \in ServiceProviders |->
          <<Last(stakedHistory[sp]), stakedHistory[sp][fundedBlock],
            lastClaimed[sp] < fundedBlock, lastClaimed[sp] = fundedBlock,
            lastClaimed[sp] = now,
            decreaseRequest[sp].amount, Left(decreaseRequest[sp].expiry),
            cutRequest[sp].cut, cutRequest[sp].expiry = 0,
            Left(cutRequest[sp].expiry)>>],
      [d \in Delegators |->
          <<undelegateRequest[d].sp, undelegateRequest[d].amount,
            Left(undelegateRequest[d].expiry)>>]>>
=============================================================================
