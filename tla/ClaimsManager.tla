--------------------------- MODULE ClaimsManager ---------------------------
(***************************************************************************)
(* The ClaimsManager contract (eth-contracts/contracts/ClaimsManager.sol): *)
(* the current funding round and the reward that a service provider may    *)
(* claim in it.                                                            *)
(*                                                                         *)
(* The transfer to the community pool in initiateRound is off, as it is    *)
(* after initialize (recurringCommunityFundingAmount = 0).                 *)
(***************************************************************************)
EXTENDS Staking

CONSTANTS
    FundingRoundBlockDiff,  \* fundingRoundBlockDiff
    FundingAmounts          \* values governance may set fundingAmount to

ASSUME RoundAssumption ==
    /\ FundingRoundBlockDiff \in Nat
    /\ FundingAmounts \subseteq Nat
    /\ FundingAmounts # {}

VARIABLES
    fundedBlock,          \* currentRound.fundedBlock
    fundedAmount,         \* currentRound.fundedAmount
    totalClaimedInRound,  \* currentRound.totalClaimedInRound
    fundingAmount         \* fundingAmount

roundVars  == <<fundedBlock, fundedAmount, totalClaimedInRound>>
claimsVars == <<fundedBlock, fundedAmount, totalClaimedInRound, fundingAmount>>

-----------------------------------------------------------------------------
\* claimPending, given the number of endpoints of the service provider.
ClaimPendingFor(sp, endpoints) ==
    /\ lastClaimed[sp] < fundedBlock
    /\ endpoints > 0

\* Variant of RoundReward: the stake of sp as it is now.
RoundRewardNow(sp, locked) ==
    ((TotalStakedFor(sp) - locked) * fundingAmount)
        \div TotalStakedAt(fundedBlock)

\* The reward of processClaim: the share of the round that the stake of sp
\* had in all stake at the funding block, without what is locked now.
RoundReward(sp, locked) ==
    ((TotalStakedForAt(sp, fundedBlock) - locked) * fundingAmount)
        \div TotalStakedAt(fundedBlock)

\* The require() of processClaim, its subtraction and its division.
ClaimAllowed(sp, locked) ==
    /\ lastClaimed[sp] <= fundedBlock
    /\ locked <= TotalStakedForAt(sp, fundedBlock)
    /\ TotalStakedAt(fundedBlock) > 0

\* What processClaim mints: nothing for a service provider out of bounds.
MintedReward(sp, locked, withinBounds) ==
    IF withinBounds THEN RoundReward(sp, locked) ELSE 0

\* processClaim.
ProcessClaim(sp, locked, withinBounds) ==
    LET reward == MintedReward(sp, locked, withinBounds)
    IN  /\ ClaimAllowed(sp, locked)
        /\ IF reward = 0
             THEN /\ UpdateClaimHistory(sp)
                  /\ UNCHANGED totalClaimedInRound
             ELSE /\ StakeRewards(sp, reward)
                  /\ totalClaimedInRound' = totalClaimedInRound + reward
        /\ UNCHANGED <<fundedBlock, fundedAmount, fundingAmount>>

\* initiateRound: callable by anyone once the block difference is met.
StartRound ==
    /\ now - fundedBlock > FundingRoundBlockDiff
    /\ fundedBlock' = now
    /\ fundedAmount' = fundingAmount
    /\ totalClaimedInRound' = 0
    /\ UNCHANGED fundingAmount

\* updateFundingAmount, by governance.
SetFundingAmount(amount) ==
    /\ fundingAmount' = amount
    /\ UNCHANGED roundVars

-----------------------------------------------------------------------------
ClaimsInit ==
    /\ fundedBlock = 0
    /\ fundedAmount = 0
    /\ totalClaimedInRound = 0
    /\ fundingAmount \in FundingAmounts

ClaimsTypeOK ==
    /\ fundedBlock \in Blocks
    /\ fundedAmount \in Nat
    /\ totalClaimedInRound \in Nat
    /\ fundingAmount \in Nat
=============================================================================
