------------------------------ MODULE Staking ------------------------------
(***************************************************************************)
(* The Staking contract (eth-contracts/contracts/Staking.sol): custody of  *)
(* the token, the staked balance of every service provider, and the block  *)
(* of its last claim.  Other contracts change it only through the          *)
(* operators below, each of which is one external call: its conjuncts that *)
(* mention no primed variable are the require()s of the Solidity code, and *)
(* a call whose guard is false reverts the whole transaction.              *)
(*                                                                         *)
(* Checkpointing, the history library of the Aragon dependency, is         *)
(* external: a history is the function from block numbers to the value     *)
(* that a lookup at that block returns, so its last value is the one at    *)
(* the largest block.                                                      *)
(***************************************************************************)
EXTENDS Integers

CONSTANTS
    ServiceProviders,  \* addresses that may register a service
    Delegators,        \* addresses that may delegate stake to one
    MaxBlock,          \* bound on the block number
    InitialWallet      \* tokens every address owns before it stakes any

Accounts == ServiceProviders \cup Delegators
Blocks   == 0..MaxBlock

ASSUME BlockAssumption  == MaxBlock \in Nat \ {0}
ASSUME WalletAssumption == InitialWallet \in [Accounts -> Nat]

VARIABLES
    now,                 \* block.number
    wallet,              \* token balance of every account
    vault,               \* token balance of the Staking contract
    stakedHistory,       \* accounts[sp].stakedHistory
    totalStakedHistory,  \* totalStakedHistory
    lastClaimed          \* accounts[sp].claimHistory.lastUpdated()

chainVars   == <<now>>
stakingVars == <<wallet, vault, stakedHistory, totalStakedHistory, lastClaimed>>

-----------------------------------------------------------------------------
(* Histories.                                                              *)

\* A new value recorded at the current block: later lookups see it, lookups
\* at an earlier block see what they saw before.
Checkpoint(history, value) ==
    [b \in Blocks |-> IF b < now THEN history[b] ELSE value]

TotalStakedForAt(sp, b) == stakedHistory[sp][b]
TotalStakedAt(b)        == totalStakedHistory[b]
TotalStakedFor(sp)      == TotalStakedForAt(sp, MaxBlock)
TotalStaked             == TotalStakedAt(MaxBlock)

-----------------------------------------------------------------------------
(* Calls.                                                                  *)

\* Both histories move to the balance after the call.
RecordStake(sp, stake, total) ==
    /\ stakedHistory' = [stakedHistory EXCEPT ![sp] = Checkpoint(@, stake)]
    /\ totalStakedHistory' = Checkpoint(totalStakedHistory, total)

\* Both histories move up by amount.
IncreaseStakeBalance(sp, amount) ==
    RecordStake(sp, TotalStakedFor(sp) + amount, TotalStaked + amount)

\* Variant of DecreaseStakeBalance: the total is left as it was.
DecreaseAccountOnly(sp, amount) ==
    /\ amount <= TotalStakedFor(sp)
    /\ RecordStake(sp, TotalStakedFor(sp) - amount, TotalStaked)

\* Both histories move down by amount, unless the balance is too small.
DecreaseStakeBalance(sp, amount) ==
    /\ amount <= TotalStakedFor(sp)
    /\ amount <= TotalStaked
    /\ RecordStake(sp, TotalStakedFor(sp) - amount, TotalStaked - amount)

\* stakeFor and delegateStakeFor: tokens of `from` become stake of sp.
StakeFor(sp, from, amount) ==
    /\ amount > 0
    /\ amount <= wallet[from]
    /\ IncreaseStakeBalance(sp, amount)
    /\ wallet' = [wallet EXCEPT ![from] = @ - amount]
    /\ vault' = vault + amount
    /\ UNCHANGED lastClaimed

\* Variant of UnstakeFor: the tokens go to the provider.
UnstakeToProvider(sp, to, amount) ==
    /\ amount > 0
    /\ DecreaseStakeBalance(sp, amount)
    /\ amount <= vault
    /\ wallet' = [wallet EXCEPT ![sp] = @ + amount]
    /\ vault' = vault - amount
    /\ UNCHANGED lastClaimed

\* unstakeFor and undelegateStakeFor: stake of sp becomes tokens of `to`.
UnstakeFor(sp, to, amount) ==
    /\ amount > 0
    /\ DecreaseStakeBalance(sp, amount)
    /\ amount <= vault
    /\ wallet' = [wallet EXCEPT ![to] = @ + amount]
    /\ vault' = vault - amount
    /\ UNCHANGED lastClaimed

\* slash: stake of sp is burned.
BurnFor(sp, amount) ==
    /\ amount > 0
    /\ DecreaseStakeBalance(sp, amount)
    /\ amount <= vault
    /\ vault' = vault - amount
    /\ UNCHANGED <<wallet, lastClaimed>>

\* updateClaimHistory alone: a claim that minted nothing.
UpdateClaimHistory(sp) ==
    /\ lastClaimed' = [lastClaimed EXCEPT ![sp] = now]
    /\ UNCHANGED <<wallet, vault, stakedHistory, totalStakedHistory>>

\* stakeRewards: newly minted tokens become stake of sp and the claim is
\* recorded.  They pass through the ClaimsManager, whose balance is zero
\* before and after the transaction.
StakeRewards(sp, amount) ==
    /\ amount > 0
    /\ IncreaseStakeBalance(sp, amount)
    /\ vault' = vault + amount
    /\ lastClaimed' = [lastClaimed EXCEPT ![sp] = now]
    /\ UNCHANGED wallet

-----------------------------------------------------------------------------
StakingInit ==
    /\ now = 1
    /\ wallet = InitialWallet
    /\ vault = 0
    /\ stakedHistory = [sp \in ServiceProviders |-> [b \in Blocks |-> 0]]
    /\ totalStakedHistory = [b \in Blocks |-> 0]
    /\ lastClaimed = [sp \in ServiceProviders |-> 0]

\* The next block is mined.
Tick ==
    /\ now < MaxBlock
    /\ now' = now + 1

StakingTypeOK ==
    /\ now \in 1..MaxBlock
    /\ wallet \in [Accounts -> Nat]
    /\ vault \in Nat
    /\ stakedHistory \in [ServiceProviders -> [Blocks -> Nat]]
    /\ totalStakedHistory \in [Blocks -> Nat]
    /\ lastClaimed \in [ServiceProviders -> Blocks]
=============================================================================
