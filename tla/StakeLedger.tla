---------------------------- MODULE StakeLedger ----------------------------
(***************************************************************************)
(* What the staking protocol promises to those who put tokens into it: a   *)
(* ledger of shares.  Every provider has one share of its own, Direct, and *)
(* one for every delegator.  Tokens move between free balances and between *)
(* the free balance of an owner and its own share, rewards only add to the *)
(* shares of one provider and slashes only take from them, and the pool    *)
(* holds what the shares amount to.                                        *)
(***************************************************************************)
EXTENDS Integers, Functions

CONSTANTS
    Providers,  \* whose stake is recorded
    Members,    \* who may hold a share at another provider
    Direct,     \* the name of the share a provider has at itself
    Start       \* free balance of every account at the start

Owners      == Members \cup {Direct}
Accounts    == Providers \cup Members
Holder(p, o) == IF o = Direct THEN p ELSE o

VARIABLES
    free,   \* balance of every account outside the ledger
    share,  \* share[p][o]: share of o at provider p
    pool    \* tokens the ledger holds

ledgerVars == <<free, share, pool>>

StakeOf(p) == SumFunction(share[p])

-----------------------------------------------------------------------------
Init ==
    /\ free = Start
    /\ share = [p \in Providers |-> [o \in Owners |-> 0]]
    /\ pool = 0

\* Only provider p is concerned by a step.
OthersKept(p) == \A q \in Providers \ {p} : share'[q] = share[q]

\* o moves its own tokens into its share at p, or back.
Transfer(p, o) ==
    LET amount == share'[p][o] - share[p][o]
        holder == Holder(p, o)
    IN  /\ OthersKept(p)
        /\ \A other \in Owners \ {o} : share'[p][other] = share[p][other]
        /\ amount # 0
        /\ share'[p][o] >= 0
        /\ free' = [free EXCEPT ![holder] = @ - amount]
        /\ free'[holder] >= 0
        /\ pool' = pool + amount

\* Free tokens change hands.
Pay ==
    /\ \E from, to \in Accounts : \E amount \in 0..free[from] :
          free' = [free EXCEPT ![from] = @ - amount, ![to] = @ + amount]
    /\ UNCHANGED <<share, pool>>

\* New tokens: no share of p shrinks.
Reward(p) ==
    /\ OthersKept(p)
    /\ \A o \in Owners : share'[p][o] >= share[p][o]
    /\ pool' > pool
    /\ pool' = pool + StakeOf(p)' - StakeOf(p)
    /\ UNCHANGED free

\* Burned tokens: no share of p grows, and none loses more than its
\* proportion of what is burned, rounded up.
Burn(p) ==
    /\ OthersKept(p)
    /\ \A o \in Owners :
          /\ share'[p][o] \in 0..share[p][o]
          /\ (share'[p][o] + 1) * StakeOf(p) > StakeOf(p)' * share[p][o]
    /\ pool' < pool
    /\ pool' = pool + StakeOf(p)' - StakeOf(p)
    /\ UNCHANGED free

Next ==
    \/ Pay
    \/ \E p \in Providers : (\E o \in Owners : Transfer(p, o)) \/ Reward(p) \/ Burn(p)

Spec == Init /\ [][Next]_ledgerVars
=============================================================================
