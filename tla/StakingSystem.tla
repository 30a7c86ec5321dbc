--------------------------- MODULE StakingSystem ---------------------------
(***************************************************************************)
(* The staking protocol: the four contracts together, the transactions     *)
(* that accounts, providers and governance may send, and the blocks they   *)
(* are mined in.  A transaction is atomic: it runs all the calls it makes  *)
(* to other contracts or, when one of them reverts, it has no effect, so a *)
(* reverting transaction is no step.  Several transactions may be mined in *)
(* one block, in any order.                                                *)
(***************************************************************************)
EXTENDS DelegateManager

CONSTANTS
    StakeAmounts,     \* amounts providers stake or unstake
    DelegateAmounts,  \* amounts delegators stake or unstake
    SlashAmounts,     \* amounts governance slashes
    TransferAmounts,  \* amounts of free tokens that accounts send each other
    MinimumAmounts,   \* minimums providers set for their delegators
    Removable         \* delegators that providers ask to remove

ASSUME AmountAssumption ==
    /\ StakeAmounts \subseteq Nat
    /\ DelegateAmounts \subseteq Nat
    /\ SlashAmounts \subseteq Nat
    /\ TransferAmounts \subseteq Nat
    /\ MinimumAmounts \subseteq Nat
    /\ Removable \subseteq Delegators

vars == <<chainVars, stakingVars, claimsVars, providerVars, delegateVars>>

Init == StakingInit /\ ClaimsInit /\ ProviderInit /\ DelegateInit

-----------------------------------------------------------------------------
(* Transactions, one disjunct for every entry point, grouped by who sends  *)
(* them and with what they leave alone.                                    *)

NextBlock ==
    /\ Tick
    /\ UNCHANGED <<stakingVars, claimsVars, providerVars, delegateVars>>

\* transfer of the token.
TransferTx(from, to) ==
    /\ from # to
    /\ \E amount \in TransferAmounts :
          /\ amount <= wallet[from]
          /\ wallet' = [wallet EXCEPT ![from] = @ - amount, ![to] = @ + amount]
    /\ UNCHANGED <<chainVars, vault, stakedHistory, totalStakedHistory, lastClaimed>>
    /\ UNCHANGED <<claimsVars, providerVars, delegateVars>>

InitiateRound ==
    /\ StartRound
    /\ UNCHANGED <<chainVars, stakingVars, providerVars, delegateVars>>

UpdateFundingAmount(amount) ==
    /\ SetFundingAmount(amount)
    /\ UNCHANGED <<chainVars, stakingVars, providerVars, delegateVars>>

ServiceTx(s) ==
    /\ \/ \E amount \in StakeAmounts \cup {0} : Register(s, amount)
       \/ DeregisterOne(s)
       \/ DeregisterLast(s)
    /\ UNCHANGED <<chainVars, claimsVars, delegateVars>>

ProviderStakeTx(sp) ==
    /\ \/ \E amount \in StakeAmounts : IncreaseStake(sp, amount)
       \/ DecreaseStake(sp)
    /\ UNCHANGED <<chainVars, claimsVars, delegateVars>>

ProviderRequestTx(sp) ==
    /\ \/ \E amount \in StakeAmounts : RequestDecreaseStake(sp, amount)
       \/ CancelDecreaseStakeRequest(sp)
       \/ \E cut \in Cuts : RequestUpdateDeployerCut(sp, cut)
       \/ CancelUpdateDeployerCut(sp)
       \/ UpdateDeployerCut(sp)
    /\ UNCHANGED <<chainVars, stakingVars, claimsVars, delegateVars>>

DelegateTx(d, sp) ==
    /\ \E amount \in DelegateAmounts : DelegateStake(d, sp, amount)
    /\ UNCHANGED <<chainVars, claimsVars>>

DelegatorRequestTx(d) ==
    /\ \/ \E sp \in ServiceProviders, amount \in DelegateAmounts :
             RequestUndelegateStake(d, sp, amount)
       \/ CancelUndelegateStakeRequest(d)
    /\ UNCHANGED <<chainVars, stakingVars, claimsVars, providerVars>>

UndelegateTx(d, sp) ==
    /\ UndelegateStake(d, sp)
    /\ UNCHANGED <<chainVars, claimsVars>>

RemovalRequestTx(sp) ==
    /\ \/ \E d \in Removable : RequestRemoveDelegator(sp, d)
       \/ \E d \in Delegators : CancelRemoveDelegatorRequest(sp, d)
       \/ \E amount \in MinimumAmounts : UpdateSPMinDelegationAmount(sp, amount)
    /\ UNCHANGED <<chainVars, stakingVars, claimsVars, providerVars>>

RemovalTx(sp, d) ==
    /\ RemoveDelegator(sp, d)
    /\ UNCHANGED <<chainVars, claimsVars, providerVars>>

ClaimTx(sp) ==
    /\ ClaimRewards(sp)
    /\ UNCHANGED chainVars

SlashTx(sp) ==
    /\ \E amount \in SlashAmounts : Slash(sp, amount)
    /\ UNCHANGED <<chainVars, claimsVars>>

\* What accounts do on their own.
AccountNext ==
    \/ NextBlock
    \/ InitiateRound
    \/ \E from, to \in Accounts : TransferTx(from, to)
    \/ \E s \in Service : ServiceTx(s)
    \/ \E sp \in ServiceProviders :
          \/ ProviderStakeTx(sp)
          \/ ProviderRequestTx(sp)
          \/ RemovalRequestTx(sp)
          \/ ClaimTx(sp)
    \/ \E d \in Delegators : DelegatorRequestTx(d)
    \/ \E d \in Delegators, sp \in ServiceProviders :
          DelegateTx(d, sp) \/ UndelegateTx(d, sp) \/ RemovalTx(sp, d)

\* What only governance may do; here at any time, in GovernedStaking when a
\* proposal or the guardian does it.
GovernanceTx ==
    \/ \E amount \in FundingAmounts : UpdateFundingAmount(amount)
    \/ \E sp \in ServiceProviders : SlashTx(sp)

Next == AccountNext \/ GovernanceTx

Spec == Init /\ [][Next]_vars

-----------------------------------------------------------------------------
(* Safety.                                                                 *)

TypeOK == StakingTypeOK /\ ClaimsTypeOK /\ ProviderTypeOK /\ DelegateTypeOK

\* The stake that Staking holds for a provider is what the other two
\* contracts say it is: the direct stake in ServiceProviderFactory and all
\* delegations in DelegateManager.  Every entry point changes two or three
\* of the contracts, claims and slashes with amounts that were rounded.
StakeSplit ==
    \A sp \in ServiceProviders :
        TotalStakedFor(sp) = deployerStake[sp] + totalDelegatedStake[sp]

\* The totals of DelegateManager are the sums of the delegations, by provider
\* and by delegator, also after the loops of claimRewards and slash.
DelegationSums ==
    /\ \A sp \in ServiceProviders :
          totalDelegatedStake[sp] =
              Total([d \in Delegators |-> delegateInfo[d][sp]], Delegators)
    /\ \A d \in Delegators :
          delegatorTotalStake[d] = Total(delegateInfo[d], ServiceProviders)

\* What is locked at a provider, and so earns nothing, is what pending
\* requests will withdraw from it: request, cancellation, evaluation, removal
\* of the delegator and slash (of this provider or of another) keep it so.
LockSums ==
    \A sp \in ServiceProviders :
        totalLockedUpStake[sp] =
            Total([d \in Delegators |-> LockedDelegation(d, sp)], Delegators)

\* The Staking contract holds the tokens it owes: its balance is the total
\* staked and the sum of all stakes.
VaultCovers ==
    /\ vault = TotalStaked
    /\ TotalStaked =
          Total([sp \in ServiceProviders |-> TotalStakedFor(sp)], ServiceProviders)

\* A pending request to undelegate never exceeds the delegation it is for,
\* so that neither undelegateStake nor the next claim fails on it, although
\* slashes and removals lower the delegation in the meantime.
RequestCovered ==
    \A d \in Delegators, sp \in ServiceProviders :
        LockedDelegation(d, sp) <= delegateInfo[d][sp]

\* Who has delegated to a provider is in its list of delegators, the list
\* over which rewards and slashes are spread.
DelegatorsListed ==
    \A d \in Delegators, sp \in ServiceProviders :
        delegateInfo[d][sp] > 0 => d \in delegators[sp]

\* A claim that the locked amounts allow is never reverted by the way the
\* reward is split: the delegators, each rounded down on shares of the stake
\* as it is now, never get more than was minted on the stake at the funding
\* block.  The direct stake a provider asks to withdraw must not exceed what
\* it has, and some stake must be unlocked.
ClaimSettles ==
    \A sp \in ServiceProviders :
        LET locked == LockedStake(sp)
            reward == MintedReward(sp, locked, validBounds[sp])
            active == StakeOutsideStaking(sp) - locked
        IN  /\ ClaimAllowed(sp, locked)
            /\ decreaseRequest[sp].amount <= deployerStake[sp]
            /\ active > 0
            => Total(DelegateRewards(sp, active, reward), delegators[sp]) \in 0..reward

\* What a slash leaves for the provider to bear, after every delegator has
\* lost its proportion, never exceeds the direct stake of the provider.
SlashAbsorbed ==
    \A sp \in ServiceProviders, amount \in SlashAmounts :
        amount <= TotalStakedFor(sp) /\ amount > 0 =>
            amount - Total(DelegationLosses(sp, amount), delegators[sp])
                <= deployerStake[sp]

\* The flag that decides whether a provider earns rewards agrees with its
\* stake and its bounds, for every provider with a registered service.
BoundsFlagCurrent ==
    \A sp \in ServiceProviders :
        numberOfEndpoints[sp] > 0 => (validBounds[sp] <=> TotalWithinBounds(sp))

\* A round mints no more than was funded for it, however the stakes move
\* between its start and the claims.
RoundWithinFunding == totalClaimedInRound <= fundedAmount

-----------------------------------------------------------------------------
(* Refinement.                                                             *)

\* The shares of the ledger: direct stake is in one contract, delegations in
\* another.
Shares ==
    [sp \in ServiceProviders |->
        [o \in Delegators \cup {NoProvider} |->
            IF o = NoProvider THEN deployerStake[sp] ELSE delegateInfo[o][sp]]]

Ledger == INSTANCE StakeLedger WITH
              Providers <- ServiceProviders,
              Members   <- Delegators,
              Direct    <- NoProvider,
              Start     <- InitialWallet,
              free      <- wallet,
              share     <- Shares,
              pool      <- vault

\* Every transaction is one deposit, withdrawal, reward or burn of the ledger,
\* or none: nobody gains or loses by the transaction of another but through a
\* reward or a slash, and the tokens of the Staking contract move with the
\* shares.
ImplementsLedger == Ledger!Spec
=============================================================================
