-------------------------- MODULE DelegateManager --------------------------
(***************************************************************************)
(* The DelegateManager contract in its deployed version                    *)
(* (eth-contracts/contracts/DelegateManagerV2.sol): stake that others      *)
(* delegate to a service provider, the requests to withdraw it, and the    *)
(* two operations that change the stake of a provider and of all its       *)
(* delegators at once, claimRewards and slash.                             *)
(*                                                                         *)
(* The list of delegators of a provider is a set: it holds an address at   *)
(* most once, and the effect of the loops over it does not depend on its   *)
(* order.                                                                  *)
(***************************************************************************)
EXTENDS ServiceProviderFactory, FiniteSets, Functions

CONSTANTS
    MaxDelegators,           \* maxDelegators
    MinDelegationAmount,     \* minDelegationAmount
    UndelegateLockup,        \* undelegateLockupDuration
    RemoveDelegatorLockup,   \* removeDelegatorLockupDuration
    RemoveDelegatorEval,     \* removeDelegatorEvalDuration
    NoProvider               \* address(0)

ASSUME DelegateAssumption ==
    /\ IsFiniteSet(ServiceProviders)
    /\ IsFiniteSet(Delegators)
    /\ MaxDelegators \in Nat
    /\ MinDelegationAmount \in Nat
    /\ UndelegateLockup \in Nat \ {0}
    /\ RemoveDelegatorLockup \in Nat \ {0}
    /\ RemoveDelegatorEval \in Nat
    /\ NoProvider \notin Accounts

VARIABLES
    delegateInfo,            \* delegateInfo[d][sp]
    delegatorTotalStake,     \* delegatorTotalStake[d]
    totalDelegatedStake,     \* spDelegateInfo[sp].totalDelegatedStake
    totalLockedUpStake,      \* spDelegateInfo[sp].totalLockedUpStake
    delegators,              \* spDelegateInfo[sp].delegators
    undelegateRequest,       \* undelegateRequests[d]
    removeRequest,           \* removeDelegatorRequests[sp][d], 0 for none
    spMinDelegationAmount    \* spMinDelegationAmounts[sp]

delegateVars == <<delegateInfo, delegatorTotalStake, totalDelegatedStake,
                  totalLockedUpStake, delegators, undelegateRequest,
                  removeRequest, spMinDelegationAmount>>

-----------------------------------------------------------------------------
NoUndelegate == [sp |-> NoProvider, amount |-> 0, expiry |-> 0]

UndelegateIsPending(d) ==
    /\ undelegateRequest[d].expiry # 0
    /\ undelegateRequest[d].amount # 0
    /\ undelegateRequest[d].sp # NoProvider

\* Both minimums: of the contract, and of the provider.
MeetsMinimum(sp, amount) ==
    MinDelegationAmount <= amount /\ spMinDelegationAmount[sp] <= amount

\* _updateDelegatorStake with amount more.
AddDelegation(d, sp, amount) ==
    /\ delegateInfo' = [delegateInfo EXCEPT ![d][sp] = @ + amount]
    /\ delegatorTotalStake' = [delegatorTotalStake EXCEPT ![d] = @ + amount]
    /\ totalDelegatedStake' = [totalDelegatedStake EXCEPT ![sp] = @ + amount]

\* Variant of SubtractDelegation: the total of the delegator is left as it was.
SubtractFromProviderOnly(d, sp, amount) ==
    /\ amount <= delegateInfo[d][sp]
    /\ amount <= totalDelegatedStake[sp]
    /\ delegateInfo' = [delegateInfo EXCEPT ![d][sp] = @ - amount]
    /\ totalDelegatedStake' = [totalDelegatedStake EXCEPT ![sp] = @ - amount]
    /\ UNCHANGED delegatorTotalStake

\* Variant of SubtractDelegation: the total of the provider is left as it was.
SubtractFromDelegatorOnly(d, sp, amount) ==
    /\ amount <= delegateInfo[d][sp]
    /\ amount <= delegatorTotalStake[d]
    /\ delegateInfo' = [delegateInfo EXCEPT ![d][sp] = @ - amount]
    /\ delegatorTotalStake' = [delegatorTotalStake EXCEPT ![d] = @ - amount]
    /\ UNCHANGED totalDelegatedStake

\* _updateDelegatorStake with amount less.
SubtractDelegation(d, sp, amount) ==
    /\ amount <= delegateInfo[d][sp]
    /\ amount <= delegatorTotalStake[d]
    /\ amount <= totalDelegatedStake[sp]
    /\ delegateInfo' = [delegateInfo EXCEPT ![d][sp] = @ - amount]
    /\ delegatorTotalStake' = [delegatorTotalStake EXCEPT ![d] = @ - amount]
    /\ totalDelegatedStake' = [totalDelegatedStake EXCEPT ![sp] = @ - amount]

\* Variant of DropUndelegateRequest: what was locked stays locked.
DropRequestKeepLock(d) ==
    /\ undelegateRequest' = [undelegateRequest EXCEPT ![d] = NoUndelegate]
    /\ UNCHANGED totalLockedUpStake

\* The pending request of d is dropped and its amount no longer locked.
DropUndelegateRequest(d) ==
    LET request == undelegateRequest[d]
    IN  /\ request.amount <= totalLockedUpStake[request.sp]
        /\ totalLockedUpStake' =
               [totalLockedUpStake EXCEPT ![request.sp] = @ - request.amount]
        /\ undelegateRequest' = [undelegateRequest EXCEPT ![d] = NoUndelegate]

-----------------------------------------------------------------------------
(* Delegation.                                                             *)

\* delegateStake.
DelegateStake(d, sp, amount) ==
    /\ ~ClaimPending(sp)
    /\ StakeFor(sp, d, amount)
    /\ delegators' = [delegators EXCEPT ![sp] = @ \cup {d}]
    /\ d \notin delegators[sp] => Cardinality(delegators'[sp]) <= MaxDelegators
    /\ AddDelegation(d, sp, amount)
    /\ UNCHANGED providerVars
    /\ MeetsMinimum(sp, delegateInfo[d][sp] + amount)
    /\ AccountStakeIsValid(sp)'
    /\ UNCHANGED <<totalLockedUpStake, undelegateRequest, removeRequest,
                   spMinDelegationAmount>>

\* requestUndelegateStake: one request per delegator, over all providers.
RequestUndelegateStake(d, sp, amount) ==
    /\ amount > 0
    /\ ~ClaimPending(sp)
    /\ d \in delegators[sp]
    /\ ~UndelegateIsPending(d)
    /\ amount <= delegateInfo[d][sp]
    /\ undelegateRequest' = [undelegateRequest EXCEPT ![d] =
           [sp |-> sp, amount |-> amount, expiry |-> now + UndelegateLockup]]
    /\ totalLockedUpStake' = [totalLockedUpStake EXCEPT ![sp] = @ + amount]
    /\ UNCHANGED <<delegateInfo, delegatorTotalStake, totalDelegatedStake,
                   delegators, removeRequest, spMinDelegationAmount>>

\* cancelUndelegateStakeRequest.
CancelUndelegateStakeRequest(d) ==
    /\ UndelegateIsPending(d)
    /\ DropUndelegateRequest(d)
    /\ UNCHANGED <<delegateInfo, delegatorTotalStake, totalDelegatedStake,
                   delegators, removeRequest, spMinDelegationAmount>>

\* Variant of DelegatorsAfter: whoever withdraws leaves the list.
DelegatorsWithout(d, sp, left) == [delegators EXCEPT ![sp] = @ \ {d}]

\* The lists of delegators after d has withdrawn from sp and has `left` there.
DelegatorsAfter(d, sp, left) ==
    IF left = 0 THEN [delegators EXCEPT ![sp] = @ \ {d}] ELSE delegators

\* undelegateStake, once the lockup has expired; sp is the provider of the
\* pending request.  It refreshes the bounds flag of the provider by writing
\* its direct stake back.
UndelegateStake(d, sp) ==
    LET amount == undelegateRequest[d].amount
        left   == delegateInfo[d][sp] - amount
    IN  /\ UndelegateIsPending(d)
        /\ undelegateRequest[d].sp = sp
        /\ undelegateRequest[d].expiry <= now
        /\ ~ClaimPending(sp)
        /\ UnstakeFor(sp, d, amount)
        /\ SubtractDelegation(d, sp, amount)
        /\ left = 0 \/ MeetsMinimum(sp, left)
        /\ delegators' = DelegatorsAfter(d, sp, left)
        /\ DropUndelegateRequest(d)
        /\ UpdateServiceProviderStake(sp, deployerStake[sp])
        /\ UNCHANGED <<decreaseRequest, removeRequest, spMinDelegationAmount>>

-----------------------------------------------------------------------------
(* Removal of a delegator, by the provider or by governance.               *)

\* requestRemoveDelegator.
RequestRemoveDelegator(sp, d) ==
    /\ removeRequest[sp][d] = 0
    /\ d \in delegators[sp]
    /\ removeRequest' =
           [removeRequest EXCEPT ![sp][d] = now + RemoveDelegatorLockup]
    /\ UNCHANGED <<delegateInfo, delegatorTotalStake, totalDelegatedStake,
                   totalLockedUpStake, delegators, undelegateRequest,
                   spMinDelegationAmount>>

\* cancelRemoveDelegatorRequest.
CancelRemoveDelegatorRequest(sp, d) ==
    /\ removeRequest[sp][d] # 0
    /\ removeRequest' = [removeRequest EXCEPT ![sp][d] = 0]
    /\ UNCHANGED <<delegateInfo, delegatorTotalStake, totalDelegatedStake,
                   totalLockedUpStake, delegators, undelegateRequest,
                   spMinDelegationAmount>>

\* Variant of DropRequestOnRemoval: the request outlives the delegation.
KeepRequestOnRemoval(sp, d) == UNCHANGED <<totalLockedUpStake, undelegateRequest>>

\* A request of d to undelegate from sp ends with the removal.
DropRequestOnRemoval(sp, d) ==
    IF UndelegateIsPending(d) /\ undelegateRequest[d].sp = sp
      THEN DropUndelegateRequest(d)
      ELSE UNCHANGED <<totalLockedUpStake, undelegateRequest>>

\* removeDelegator, within the evaluation window after the lockup: all that
\* d delegated to sp goes back to it.
RemoveDelegator(sp, d) ==
    LET amount == delegateInfo[d][sp]
    IN  /\ removeRequest[sp][d] # 0
        /\ removeRequest[sp][d] <= now
        /\ now < removeRequest[sp][d] + RemoveDelegatorEval
        /\ UnstakeFor(sp, d, amount)
        /\ SubtractDelegation(d, sp, amount)
        /\ DropRequestOnRemoval(sp, d)
        /\ delegators' = [delegators EXCEPT ![sp] = @ \ {d}]
        /\ removeRequest' = [removeRequest EXCEPT ![sp][d] = 0]
        /\ UNCHANGED spMinDelegationAmount

\* updateSPMinDelegationAmount.
UpdateSPMinDelegationAmount(sp, amount) ==
    /\ numberOfEndpoints[sp] > 0
    /\ spMinDelegationAmount' = [spMinDelegationAmount EXCEPT ![sp] = amount]
    /\ UNCHANGED <<delegateInfo, delegatorTotalStake, totalDelegatedStake,
                   totalLockedUpStake, delegators, undelegateRequest,
                   removeRequest>>

-----------------------------------------------------------------------------
(* Claims.                                                                 *)

\* The sum of f over S.
Total(f, S) == SumFunctionOnSet(f, S)

\* What is locked of the stake of sp: by its delegators and by itself.
LockedStake(sp) == totalLockedUpStake[sp] + decreaseRequest[sp].amount

\* What the three contracts together should hold for sp without a reward.
StakeOutsideStaking(sp) == deployerStake[sp] + totalDelegatedStake[sp]

\* What d has locked of its delegation to sp.
LockedDelegation(d, sp) ==
    IF undelegateRequest[d].sp = sp THEN undelegateRequest[d].amount ELSE 0

ActiveDelegation(d, sp) == delegateInfo[d][sp] - LockedDelegation(d, sp)

\* Variant of DelegateReward: the reward is rounded up.
DelegateRewardRoundedUp(d, sp, active, reward) ==
    (ActiveDelegation(d, sp) * reward + active - 1) \div active
    - (ActiveDelegation(d, sp) * reward * deployerCut[sp])
          \div (active * DeployerCutBase)

\* Variant of DelegateReward: the cut is not divided by its base.
DelegateRewardCutUnscaled(d, sp, active, reward) ==
    (ActiveDelegation(d, sp) * reward) \div active
    - (ActiveDelegation(d, sp) * reward * deployerCut[sp]) \div active

\* The part of the reward of sp that its delegator d keeps: the share of its
\* delegation in the active stake, less the deployer cut.  Both divisions
\* round down.
DelegateReward(d, sp, active, reward) ==
    (ActiveDelegation(d, sp) * reward) \div active
    - (ActiveDelegation(d, sp) * reward * deployerCut[sp])
          \div (active * DeployerCutBase)

DelegateRewards(sp, active, reward) ==
    [d \in Delegators |->
        IF d \in delegators[sp] THEN DelegateReward(d, sp, active, reward) ELSE 0]

\* _distributeDelegateRewards, with its subtractions and divisions, and the
\* rest of claimRewards: the provider keeps what is not distributed.
DistributeRewards(sp, active, reward) ==
    LET gain     == DelegateRewards(sp, active, reward)
        increase == Total(gain, delegators[sp])
    IN  /\ \A d \in delegators[sp] :
               /\ active > 0
               /\ LockedDelegation(d, sp) <= delegateInfo[d][sp]
               /\ gain[d] >= 0
        /\ increase \in 0..reward
        /\ delegateInfo' = [d \in Delegators |->
               [delegateInfo[d] EXCEPT ![sp] = @ + gain[d]]]
        /\ delegatorTotalStake' = [d \in Delegators |->
               delegatorTotalStake[d] + gain[d]]
        /\ totalDelegatedStake' = [totalDelegatedStake EXCEPT ![sp] = @ + increase]
        /\ UpdateServiceProviderStake(sp, deployerStake[sp] + (reward - increase))

\* claimRewards, callable by anyone for any service provider.
ClaimRewards(sp) ==
    LET locked  == LockedStake(sp)
        outside == StakeOutsideStaking(sp)
        reward  == MintedReward(sp, locked, validBounds[sp])
    IN  /\ ProcessClaim(sp, locked, validBounds[sp])
        /\ locked <= outside
        /\ TotalStakedFor(sp)' = outside + reward
        /\ IF reward = 0
             THEN /\ UNCHANGED <<delegateInfo, delegatorTotalStake,
                                 totalDelegatedStake>>
                  /\ UNCHANGED <<deployerStake, validBounds, serviceVars, cutVars>>
             ELSE DistributeRewards(sp, outside - locked, reward)
        /\ UNCHANGED <<decreaseRequest, totalLockedUpStake, delegators,
                       undelegateRequest, removeRequest, spMinDelegationAmount>>

-----------------------------------------------------------------------------
(* Slash.                                                                  *)

\* Variant of DelegationLoss: the loss is rounded down.
DelegationLossRoundedDown(delegation, before, after) ==
    ((before - after) * delegation) \div before

\* What a slash that leaves `after` of the stake `before` takes from a
\* delegation: the new delegation is rounded down.
DelegationLoss(delegation, before, after) ==
    delegation - (after * delegation) \div before

DelegationLosses(sp, amount) ==
    [d \in Delegators |->
        IF d \in delegators[sp]
          THEN DelegationLoss(delegateInfo[d][sp], TotalStakedFor(sp),
                              TotalStakedFor(sp) - amount)
          ELSE 0]

\* Variant of DroppedRequests: pending requests survive a slash.
NoDroppedRequests(sp) == {}

\* Delegators of sp whose pending request, to whichever provider it is, is
\* dropped by a slash of sp.
DroppedRequests(sp) == {d \in delegators[sp] : undelegateRequest[d].amount # 0}

\* Variant of ReleasedBySlash: what was locked at other providers stays locked.
ReleasedAtSlashed(sp, s) ==
    IF s = sp
      THEN Total([d \in Delegators |-> undelegateRequest[d].amount],
                 {d \in DroppedRequests(sp) : undelegateRequest[d].sp = s})
      ELSE 0

\* What these requests locked at provider s.
ReleasedBySlash(sp, s) ==
    LET request == [d \in Delegators |-> undelegateRequest[d].amount]
    IN  Total(request, {d \in DroppedRequests(sp) : undelegateRequest[d].sp = s})

\* What slash requires, of the calls it makes and of its subtractions too.
SlashAllowed(sp, amount) ==
    LET loss     == DelegationLosses(sp, amount)
        decrease == Total(loss, delegators[sp])
    IN  /\ deployerStake[sp] > 0
        /\ amount > 0
        /\ amount <= TotalStakedFor(sp)
        /\ amount <= TotalStaked
        /\ amount <= vault
        /\ \A d \in delegators[sp] : loss[d] <= delegatorTotalStake[d]
        /\ \A s \in ServiceProviders :
              ReleasedBySlash(sp, s) \in 0..totalLockedUpStake[s]
        /\ decrease \in 0..totalDelegatedStake[sp]
        /\ decrease <= amount
        /\ amount - decrease <= deployerStake[sp]

\* The loop of slash over the delegators of sp.
SlashDelegations(sp, loss) ==
    /\ delegateInfo' = [d \in Delegators |->
           [delegateInfo[d] EXCEPT ![sp] = @ - loss[d]]]
    /\ delegatorTotalStake' = [d \in Delegators |->
           delegatorTotalStake[d] - loss[d]]
    /\ totalLockedUpStake' = [s \in ServiceProviders |->
           totalLockedUpStake[s] - ReleasedBySlash(sp, s)]
    /\ undelegateRequest' = [d \in Delegators |->
           IF d \in DroppedRequests(sp) THEN NoUndelegate ELSE undelegateRequest[d]]

\* slash, by governance: amount is burned, every delegator of sp loses its
\* proportion rounded up, and the provider the rest.  A pending decrease of
\* the direct stake is cancelled.
Slash(sp, amount) ==
    LET loss     == DelegationLosses(sp, amount)
        decrease == Total(loss, delegators[sp])
    IN  /\ SlashAllowed(sp, amount)
        /\ decreaseRequest' =
               [decreaseRequest EXCEPT ![sp] = IF @.amount > 0 THEN NoDecrease ELSE @]
        /\ BurnFor(sp, amount)
        /\ SlashDelegations(sp, loss)
        /\ totalDelegatedStake' = [totalDelegatedStake EXCEPT ![sp] = @ - decrease]
        /\ UpdateServiceProviderStake(sp, deployerStake[sp] - (amount - decrease))
        /\ UNCHANGED <<delegators, removeRequest, spMinDelegationAmount>>

-----------------------------------------------------------------------------
DelegateInit ==
    /\ delegateInfo = [d \in Delegators |-> [sp \in ServiceProviders |-> 0]]
    /\ delegatorTotalStake = [d \in Delegators |-> 0]
    /\ totalDelegatedStake = [sp \in ServiceProviders |-> 0]
    /\ totalLockedUpStake = [sp \in ServiceProviders |-> 0]
    /\ delegators = [sp \in ServiceProviders |-> {}]
    /\ undelegateRequest = [d \in Delegators |-> NoUndelegate]
    /\ removeRequest = [sp \in ServiceProviders |-> [d \in Delegators |-> 0]]
    /\ spMinDelegationAmount = [sp \in ServiceProviders |-> 0]

DelegateTypeOK ==
    /\ delegateInfo \in [Delegators -> [ServiceProviders -> Nat]]
    /\ delegatorTotalStake \in [Delegators -> Nat]
    /\ totalDelegatedStake \in [ServiceProviders -> Nat]
    /\ totalLockedUpStake \in [ServiceProviders -> Nat]
    /\ delegators \in [ServiceProviders -> SUBSET Delegators]
    /\ undelegateRequest \in [Delegators ->
           [sp : ServiceProviders \cup {NoProvider}, amount : Nat, expiry : Nat]]
    /\ removeRequest \in [ServiceProviders -> [Delegators -> Nat]]
    /\ spMinDelegationAmount \in [ServiceProviders -> Nat]
=============================================================================
