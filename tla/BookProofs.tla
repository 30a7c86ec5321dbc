----------------------------- MODULE BookProofs -----------------------------
(***************************************************************************)
(* The sums of the staking protocol, for all finite sets of accounts and   *)
(* all values of its parameters: every total that the contracts keep is    *)
(* the sum of what it counts, also after the loops of claimRewards and     *)
(* slash.  From the sums follows what the two loops require of the amounts *)
(* they round, and that the protocol is the ledger of StakeLedger.         *)
(*                                                                         *)
(* The inductive invariant is BookInv.  The sums are not inductive alone:  *)
(* a reward is spread over the list of delegators while the total is over  *)
(* all of them (DelegatorsListed), and a new request replaces one that is  *)
(* not pending, which must lock nothing (RequestTimed).                    *)
(***************************************************************************)
EXTENDS StakingSystemProofs

\* The total staked is the sum of all stakes.
StakeSums ==
    TotalStaked =
        Total([sp \in ServiceProviders |-> TotalStakedFor(sp)], ServiceProviders)

BookInv == Inv /\ DelegationSums /\ LockSums /\ StakeSums

-----------------------------------------------------------------------------
(* The initial state.                                                      *)

\* All sums are of zeros.
LEMMA InitBooks == Init => BookInv
<1> SUFFICES ASSUME Init PROVE BookInv
  OBVIOUS
<1> USE DelegateAssumption DEF Total
<1>1. DelegationSums
  <2>1. /\ delegateInfo = [d \in Delegators |-> [sp \in ServiceProviders |-> 0]]
        /\ delegatorTotalStake = [d \in Delegators |-> 0]
        /\ totalDelegatedStake = [sp \in ServiceProviders |-> 0]
    BY DEF Init, DelegateInit
  <2>2. ASSUME NEW sp \in ServiceProviders
        PROVE  SumFunctionOnSet([d \in Delegators |-> delegateInfo[d][sp]], Delegators) = 0
    BY <2>1, SumZero
  <2>3. ASSUME NEW d \in Delegators
        PROVE  SumFunctionOnSet(delegateInfo[d], ServiceProviders) = 0
    BY <2>1, SumZero
  <2>4. QED
    BY <2>1, <2>2, <2>3 DEF DelegationSums
<1>2. LockSums
  <2>1. /\ totalLockedUpStake = [sp \in ServiceProviders |-> 0]
        /\ \A d \in Delegators, sp \in ServiceProviders : LockedDelegation(d, sp) = 0
    BY DEF Init, DelegateInit, LockedDelegation, NoUndelegate
  <2>2. ASSUME NEW sp \in ServiceProviders
        PROVE  SumFunctionOnSet([d \in Delegators |-> LockedDelegation(d, sp)], Delegators) = 0
    BY <2>1, SumZero
  <2>3. QED
    BY <2>1, <2>2 DEF LockSums
<1>3. StakeSums
  <2>1. /\ TotalStaked = 0
        /\ \A sp \in ServiceProviders : TotalStakedFor(sp) = 0
    BY BlockAssumption DEF Init, StakingInit, TotalStaked, TotalStakedAt, TotalStakedFor,
                           TotalStakedForAt, Blocks
  <2>2. SumFunctionOnSet([sp \in ServiceProviders |-> TotalStakedFor(sp)],
                         ServiceProviders) = 0
    BY <2>1, SumZero
  <2>3. QED
    BY <2>1, <2>2 DEF StakeSums
<1>4. QED
  BY <1>1, <1>2, <1>3, InitInv DEF BookInv

-----------------------------------------------------------------------------
(* The total staked.                                                       *)

\* Every call moves the total as it moves the stake of one provider.
LEMMA StakeSumsMove ==
    ASSUME StakingTypeOK, StakingTypeOK', StakeSums, NEW sp \in ServiceProviders,
           NEW change \in Int,
           StakeBecomes(sp, TotalStakedFor(sp) + change, TotalStaked + change)
    PROVE  StakeSums'
<1> DEFINE f == [p \in ServiceProviders |-> TotalStakedFor(p)]
           g == [p \in ServiceProviders |-> TotalStakedFor(p)']
<1>1. /\ TotalStaked \in Nat
      /\ \A p \in ServiceProviders : TotalStakedFor(p) \in Nat
  BY StakeNat
<1>2. \A p \in ServiceProviders : TotalStakedFor(p)' \in Nat
  BY BlockAssumption DEF StakingTypeOK, TotalStakedFor, TotalStakedForAt, Blocks
<1>3. /\ TotalStaked' = TotalStaked + change
      /\ \A p \in ServiceProviders :
            TotalStakedFor(p)' =
                IF p = sp THEN TotalStakedFor(sp) + change ELSE TotalStakedFor(p)
  BY DEF StakeBecomes
<1>4. /\ \A p \in ServiceProviders : f[p] \in Nat /\ g[p] \in Nat
      /\ \A p \in ServiceProviders \ {sp} : g[p] = f[p]
      /\ f[sp] = TotalStakedFor(sp)
      /\ g[sp] = TotalStakedFor(sp) + change
  BY <1>1, <1>2, <1>3
<1>5. TotalStaked = SumFunctionOnSet(f, ServiceProviders)
  BY DEF StakeSums, Total
<1> HIDE DEF f, g
<1>6. SumFunctionOnSet(g, ServiceProviders) - g[sp]
         = SumFunctionOnSet(f, ServiceProviders) - f[sp]
  BY <1>4, DelegateAssumption, SumChange
<1>7. /\ SumFunctionOnSet(f, ServiceProviders) \in Nat
      /\ SumFunctionOnSet(g, ServiceProviders) \in Nat
  BY <1>4, DelegateAssumption, SumIsCount
<1>8. TotalStaked' = SumFunctionOnSet(g, ServiceProviders)
  BY <1>1, <1>3, <1>4, <1>5, <1>6, <1>7
<1>9. QED
  BY <1>8 DEF f, g, StakeSums, Total

\* Steps that leave all stakes as they are.
LEMMA StakeSumsKept ==
    ASSUME StakeSums, UNCHANGED <<stakedHistory, totalStakedHistory>>
    PROVE  StakeSums'
BY DEF StakeSums, Total, TotalStaked, TotalStakedAt, TotalStakedFor, TotalStakedForAt

-----------------------------------------------------------------------------
(* Delegations.                                                            *)

\* The delegation of d to sp moves, and with it the totals of both.
DelegationMoves(d, sp, change) ==
    /\ \A e \in Delegators, p \in ServiceProviders :
          delegateInfo'[e][p] =
              IF e = d /\ p = sp THEN delegateInfo[d][sp] + change ELSE delegateInfo[e][p]
    /\ \A e \in Delegators :
          delegatorTotalStake'[e] =
              IF e = d THEN delegatorTotalStake[d] + change ELSE delegatorTotalStake[e]
    /\ \A p \in ServiceProviders :
          totalDelegatedStake'[p] =
              IF p = sp THEN totalDelegatedStake[sp] + change ELSE totalDelegatedStake[p]

\* A move of one delegation keeps the sums.
LEMMA DelegationSumsMove ==
    ASSUME DelegateTypeOK, DelegateTypeOK', DelegationSums, NEW d \in Delegators,
           NEW sp \in ServiceProviders, NEW change \in Int,
           DelegationMoves(d, sp, change)
    PROVE  DelegationSums'
<1> USE DelegateAssumption
<1>1. /\ \A e \in Delegators, p \in ServiceProviders :
            delegateInfo[e][p] \in Nat /\ delegateInfo'[e][p] \in Nat
      /\ \A e \in Delegators : delegatorTotalStake[e] \in Nat
      /\ \A p \in ServiceProviders : totalDelegatedStake[p] \in Nat
  BY DEF DelegateTypeOK
<1>2. ASSUME NEW p \in ServiceProviders
      PROVE  totalDelegatedStake'[p] =
                Total([e \in Delegators |-> delegateInfo'[e][p]], Delegators)
  <2> DEFINE f == [e \in Delegators |-> delegateInfo[e][p]]
             g == [e \in Delegators |-> delegateInfo'[e][p]]
  <2>1. totalDelegatedStake[p] = SumFunctionOnSet(f, Delegators)
    BY DEF DelegationSums, Total
  <2>2. /\ \A e \in Delegators : f[e] \in Nat /\ g[e] \in Nat
        /\ \A e \in Delegators \ {d} : g[e] = f[e]
        /\ g[d] = IF p = sp THEN f[d] + change ELSE f[d]
    BY <1>1 DEF DelegationMoves
  <2> HIDE DEF f, g
  <2>3. SumFunctionOnSet(g, Delegators) - g[d] = SumFunctionOnSet(f, Delegators) - f[d]
    BY <2>2, SumChange
  <2>4. SumFunctionOnSet(g, Delegators) \in Nat
    BY <2>2, SumIsCount
  <2>5. totalDelegatedStake'[p] =
           IF p = sp THEN totalDelegatedStake[p] + change ELSE totalDelegatedStake[p]
    BY DEF DelegationMoves
  <2>6. totalDelegatedStake'[p] = SumFunctionOnSet(g, Delegators)
    BY <1>1, <2>1, <2>2, <2>3, <2>4, <2>5
  <2>7. QED
    BY <2>6 DEF g, Total
<1>3. ASSUME NEW e \in Delegators
      PROVE  delegatorTotalStake'[e] = Total(delegateInfo'[e], ServiceProviders)
  <2> DEFINE f == delegateInfo[e]
             g == delegateInfo'[e]
  <2>1. delegatorTotalStake[e] = SumFunctionOnSet(f, ServiceProviders)
    BY DEF DelegationSums, Total
  <2>2. /\ \A p \in ServiceProviders : f[p] \in Nat /\ g[p] \in Nat
        /\ \A p \in ServiceProviders \ {sp} : g[p] = f[p]
        /\ g[sp] = IF e = d THEN f[sp] + change ELSE f[sp]
    BY <1>1 DEF DelegationMoves
  <2>3. delegatorTotalStake'[e] =
           IF e = d THEN delegatorTotalStake[e] + change ELSE delegatorTotalStake[e]
    BY DEF DelegationMoves
  <2>4. SumFunctionOnSet(g, ServiceProviders) - g[sp]
           = SumFunctionOnSet(f, ServiceProviders) - f[sp]
    <3> HIDE DEF f, g
    <3>1. QED
      BY <2>2, SumChange
  <2>5. SumFunctionOnSet(g, ServiceProviders) \in Nat
    <3> HIDE DEF f, g
    <3>1. QED
      BY <2>2, SumIsCount
  <2> HIDE DEF f, g
  <2>6. delegatorTotalStake'[e] = SumFunctionOnSet(g, ServiceProviders)
    BY <1>1, <2>1, <2>2, <2>3, <2>4, <2>5
  <2>7. QED
    BY <2>6 DEF g, Total
<1>4. QED
  BY <1>2, <1>3 DEF DelegationSums, Total

\* The delegations to sp are `part` of its delegators more or less, and with
\* them the totals: what the loops of claimRewards and slash do.
DelegationsRise(sp, part) ==
    /\ \A e \in Delegators, p \in ServiceProviders :
          delegateInfo'[e][p] =
              IF p = sp THEN delegateInfo[e][p] + part[e] ELSE delegateInfo[e][p]
    /\ \A e \in Delegators : delegatorTotalStake'[e] = delegatorTotalStake[e] + part[e]
    /\ \A p \in ServiceProviders :
          totalDelegatedStake'[p] =
              IF p = sp THEN totalDelegatedStake[p] + Total(part, Delegators)
                        ELSE totalDelegatedStake[p]

DelegationsFall(sp, part) ==
    /\ \A e \in Delegators, p \in ServiceProviders :
          delegateInfo'[e][p] =
              IF p = sp THEN delegateInfo[e][p] - part[e] ELSE delegateInfo[e][p]
    /\ \A e \in Delegators : delegatorTotalStake'[e] = delegatorTotalStake[e] - part[e]
    /\ \A p \in ServiceProviders :
          totalDelegatedStake'[p] =
              IF p = sp THEN totalDelegatedStake[p] - Total(part, Delegators)
                        ELSE totalDelegatedStake[p]

\* Both keep the sums.
LEMMA DelegationSumsSpread ==
    ASSUME DelegateTypeOK, DelegateTypeOK', DelegationSums,
           NEW sp \in ServiceProviders, NEW part, \A e \in Delegators : part[e] \in Nat,
           DelegationsRise(sp, part) \/ DelegationsFall(sp, part)
    PROVE  DelegationSums'
<1> USE DelegateAssumption
<1>1. /\ \A e \in Delegators, p \in ServiceProviders :
            delegateInfo[e][p] \in Nat /\ delegateInfo'[e][p] \in Nat
      /\ \A e \in Delegators : delegatorTotalStake[e] \in Nat
      /\ \A p \in ServiceProviders : totalDelegatedStake[p] \in Nat
  BY DEF DelegateTypeOK
<1>2. SumFunctionOnSet(part, Delegators) \in Nat
  BY SumIsCount
<1>3. ASSUME NEW p \in ServiceProviders
      PROVE  totalDelegatedStake'[p] =
                Total([e \in Delegators |-> delegateInfo'[e][p]], Delegators)
  <2> DEFINE f == [e \in Delegators |-> delegateInfo[e][p]]
             g == [e \in Delegators |-> delegateInfo'[e][p]]
  <2>1. totalDelegatedStake[p] = SumFunctionOnSet(f, Delegators)
    BY DEF DelegationSums, Total
  <2>2. \A e \in Delegators : f[e] \in Nat /\ g[e] \in Nat
    BY <1>1
  <2>3. SumFunctionOnSet(f, Delegators) \in Nat /\ SumFunctionOnSet(g, Delegators) \in Nat
    <3> HIDE DEF f, g
    <3>1. QED
      BY <2>2, SumIsCount
  <2>4. CASE p # sp
    <3>1. \A e \in Delegators : g[e] = f[e]
      BY <2>4 DEF DelegationsRise, DelegationsFall
    <3>2. totalDelegatedStake'[p] = totalDelegatedStake[p]
      BY <2>4 DEF DelegationsRise, DelegationsFall
    <3> HIDE DEF f, g
    <3>3. SumFunctionOnSet(g, Delegators) = SumFunctionOnSet(f, Delegators)
      BY <2>2, <3>1, SumSame
    <3>4. QED
      BY <2>1, <3>2, <3>3 DEF g, Total
  <2>5. CASE p = sp /\ DelegationsRise(sp, part)
    <3>1. \A e \in Delegators : g[e] = f[e] + part[e]
      BY <2>5 DEF DelegationsRise
    <3>2. totalDelegatedStake'[p]
             = totalDelegatedStake[p] + SumFunctionOnSet(part, Delegators)
      BY <2>5 DEF DelegationsRise, Total
    <3> HIDE DEF f, g
    <3>3. SumFunctionOnSet(g, Delegators)
             = SumFunctionOnSet(f, Delegators) + SumFunctionOnSet(part, Delegators)
      BY <2>2, <3>1, SumCombine
    <3>4. QED
      BY <2>1, <3>2, <3>3 DEF g, Total
  <2>6. CASE p = sp /\ DelegationsFall(sp, part)
    <3>1. \A e \in Delegators : g[e] = f[e] - part[e]
      BY <2>6 DEF DelegationsFall
    <3>2. totalDelegatedStake'[p]
             = totalDelegatedStake[p] - SumFunctionOnSet(part, Delegators)
      BY <2>6 DEF DelegationsFall, Total
    <3> HIDE DEF f, g
    <3>3. \A e \in Delegators : f[e] = g[e] + part[e]
      BY <2>2, <3>1
    <3>4. SumFunctionOnSet(f, Delegators)
             = SumFunctionOnSet(g, Delegators) + SumFunctionOnSet(part, Delegators)
      BY <2>2, <3>3, SumCombine
    <3>5. totalDelegatedStake'[p] = SumFunctionOnSet(g, Delegators)
      BY <1>2, <2>1, <2>3, <3>2, <3>4
    <3>6. QED
      BY <3>5 DEF g, Total
  <2>7. QED
    BY <2>4, <2>5, <2>6
<1>4. ASSUME NEW e \in Delegators
      PROVE  delegatorTotalStake'[e] = Total(delegateInfo'[e], ServiceProviders)
  <2> DEFINE f == delegateInfo[e]
             g == delegateInfo'[e]
  <2>1. delegatorTotalStake[e] = SumFunctionOnSet(f, ServiceProviders)
    BY DEF DelegationSums, Total
  <2>2. /\ \A p \in ServiceProviders : f[p] \in Nat /\ g[p] \in Nat
        /\ \A p \in ServiceProviders \ {sp} : g[p] = f[p]
        /\ g[sp] - f[sp] = delegatorTotalStake'[e] - delegatorTotalStake[e]
    BY <1>1 DEF DelegationsRise, DelegationsFall
  <2>3. delegatorTotalStake'[e] \in Nat
    BY DEF DelegateTypeOK
  <2> HIDE DEF f, g
  <2>4. SumFunctionOnSet(g, ServiceProviders) - g[sp]
           = SumFunctionOnSet(f, ServiceProviders) - f[sp]
    BY <2>2, SumChange
  <2>5. SumFunctionOnSet(g, ServiceProviders) \in Nat
    BY <2>2, SumIsCount
  <2>6. delegatorTotalStake'[e] = SumFunctionOnSet(g, ServiceProviders)
    BY <1>1, <2>1, <2>2, <2>3, <2>4, <2>5
  <2>7. QED
    BY <2>6 DEF g, Total
<1>5. QED
  BY <1>3, <1>4 DEF DelegationSums, Total

-----------------------------------------------------------------------------
(* Locks.                                                                  *)

\* What is locked is a natural number.
LEMMA LockedNat ==
    ASSUME DelegateTypeOK
    PROVE  \A d \in Delegators, sp \in ServiceProviders : LockedDelegation(d, sp) \in Nat
BY DEF DelegateTypeOK, LockedDelegation

\* Only the request of d changes, and with it what is locked.
LockMoves(d) ==
    /\ \A e \in Delegators \ {d} : undelegateRequest'[e] = undelegateRequest[e]
    /\ \A p \in ServiceProviders :
          totalLockedUpStake'[p] - totalLockedUpStake[p]
             = LockedDelegation(d, p)' - LockedDelegation(d, p)

\* That keeps the sums.
LEMMA LockSumsMove ==
    ASSUME DelegateTypeOK, DelegateTypeOK', LockSums, NEW d \in Delegators, LockMoves(d)
    PROVE  LockSums'
<1> USE DelegateAssumption
<1>1. \A p \in ServiceProviders :
         totalLockedUpStake[p] \in Nat /\ totalLockedUpStake'[p] \in Nat
  BY DEF DelegateTypeOK
<1>2. \A e \in Delegators, p \in ServiceProviders :
         LockedDelegation(e, p) \in Nat /\ LockedDelegation(e, p)' \in Nat
  BY DEF DelegateTypeOK, LockedDelegation
<1>3. ASSUME NEW p \in ServiceProviders
      PROVE  totalLockedUpStake'[p] =
                Total([e \in Delegators |-> LockedDelegation(e, p)'], Delegators)
  <2> DEFINE f == [e \in Delegators |-> LockedDelegation(e, p)]
             g == [e \in Delegators |-> LockedDelegation(e, p)']
  <2>1. totalLockedUpStake[p] = SumFunctionOnSet(f, Delegators)
    BY DEF LockSums, Total
  <2>2. /\ \A e \in Delegators : f[e] \in Nat /\ g[e] \in Nat
        /\ \A e \in Delegators \ {d} : g[e] = f[e]
        /\ totalLockedUpStake'[p] - totalLockedUpStake[p] = g[d] - f[d]
    BY <1>2 DEF LockMoves, LockedDelegation
  <2> HIDE DEF f, g
  <2>3. SumFunctionOnSet(g, Delegators) - g[d] = SumFunctionOnSet(f, Delegators) - f[d]
    BY <2>2, SumChange
  <2>4. SumFunctionOnSet(g, Delegators) \in Nat
    BY <2>2, SumIsCount
  <2>5. totalLockedUpStake'[p] = SumFunctionOnSet(g, Delegators)
    BY <1>1, <2>1, <2>2, <2>3, <2>4
  <2>6. QED
    BY <2>5 DEF g, Total
<1>4. QED
  BY <1>3 DEF LockSums, Total

\* Steps that change no request.
LEMMA LockSumsKept ==
    ASSUME LockSums, UNCHANGED <<totalLockedUpStake, undelegateRequest>>
    PROVE  LockSums'
BY DEF LockSums, Total, LockedDelegation

\* A request that is not pending locks nothing.
LEMMA NotPendingUnlocked ==
    ASSUME DelegateTypeOK, RequestTimed, NEW d \in Delegators, ~UndelegateIsPending(d)
    PROVE  \A p \in ServiceProviders : LockedDelegation(d, p) = 0
<1>1. \A p \in ServiceProviders : p # NoProvider
  BY DelegateAssumption DEF Accounts
<1>2. QED
  BY <1>1 DEF DelegateTypeOK, RequestTimed, UndelegateIsPending, LockedDelegation

\* A pending request that is dropped releases what it locked.
LEMMA DropMovesLocks ==
    ASSUME DelegateTypeOK, NEW d \in Delegators, UndelegateIsPending(d),
           DropUndelegateRequest(d)
    PROVE  LockMoves(d)
<1> DEFINE s == undelegateRequest[d].sp
           a == undelegateRequest[d].amount
<1>1. s \in ServiceProviders /\ a \in Nat
  BY DEF UndelegateIsPending, DelegateTypeOK
<1>2. /\ totalLockedUpStake' = [totalLockedUpStake EXCEPT ![s] = @ - a]
      /\ undelegateRequest' = [undelegateRequest EXCEPT ![d] = NoUndelegate]
  BY DEF DropUndelegateRequest
<1>3. \A p \in ServiceProviders : LockedDelegation(d, p) = IF p = s THEN a ELSE 0
  BY DEF LockedDelegation
<1> HIDE DEF s, a
<1>4. \A p \in ServiceProviders : LockedDelegation(d, p)' = 0
  BY <1>2 DEF LockedDelegation, NoUndelegate, DelegateTypeOK
<1>5. \A p \in ServiceProviders :
         totalLockedUpStake[p] \in Nat
         /\ totalLockedUpStake'[p] =
               IF p = s THEN totalLockedUpStake[p] - a ELSE totalLockedUpStake[p]
  BY <1>2 DEF DelegateTypeOK
<1>6. QED
  BY <1>1, <1>2, <1>3, <1>4, <1>5 DEF LockMoves, DelegateTypeOK

\* A new request locks its amount where it is to withdraw it.
LEMMA RequestMovesLocks ==
    ASSUME DelegateTypeOK, RequestTimed, NEW d \in Delegators,
           NEW sp \in ServiceProviders, NEW amount \in Nat,
           RequestUndelegateStake(d, sp, amount)
    PROVE  LockMoves(d)
<1>1. \A p \in ServiceProviders : LockedDelegation(d, p) = 0
  BY NotPendingUnlocked DEF RequestUndelegateStake
<1>2. /\ totalLockedUpStake' = [totalLockedUpStake EXCEPT ![sp] = @ + amount]
      /\ undelegateRequest' = [undelegateRequest EXCEPT ![d] =
             [sp |-> sp, amount |-> amount, expiry |-> now + UndelegateLockup]]
  BY DEF RequestUndelegateStake
<1>3. \A p \in ServiceProviders :
         LockedDelegation(d, p)' = IF p = sp THEN amount ELSE 0
  BY <1>2 DEF LockedDelegation, DelegateTypeOK
<1>4. \A p \in ServiceProviders :
         totalLockedUpStake[p] \in Nat
         /\ totalLockedUpStake'[p] =
               IF p = sp THEN totalLockedUpStake[p] + amount ELSE totalLockedUpStake[p]
  BY <1>2 DEF DelegateTypeOK
<1>5. QED
  BY <1>1, <1>2, <1>3, <1>4 DEF LockMoves, DelegateTypeOK

\* A slash of sp drops the requests of its delegators, whichever provider they
\* are for, and releases at each what was locked there.
LEMMA SlashMovesLocks ==
    ASSUME DelegateTypeOK, DelegateTypeOK', LockSums, NEW sp \in ServiceProviders,
           totalLockedUpStake' =
               [s \in ServiceProviders |-> totalLockedUpStake[s] - ReleasedBySlash(sp, s)],
           undelegateRequest' =
               [d \in Delegators |->
                   IF d \in DroppedRequests(sp) THEN NoUndelegate ELSE undelegateRequest[d]]
    PROVE  LockSums'
<1> USE DelegateAssumption
<1>1. \A p \in ServiceProviders :
         totalLockedUpStake[p] \in Nat /\ totalLockedUpStake'[p] \in Nat
  BY DEF DelegateTypeOK
<1>2. \A e \in Delegators, p \in ServiceProviders :
         LockedDelegation(e, p) \in Nat /\ LockedDelegation(e, p)' \in Nat
  BY DEF DelegateTypeOK, LockedDelegation
<1>3. ASSUME NEW p \in ServiceProviders
      PROVE  totalLockedUpStake'[p] =
                Total([e \in Delegators |-> LockedDelegation(e, p)'], Delegators)
  <2> DEFINE f == [e \in Delegators |-> LockedDelegation(e, p)]
             g == [e \in Delegators |-> LockedDelegation(e, p)']
             R == {e \in DroppedRequests(sp) : undelegateRequest[e].sp = p}
             r == [e \in Delegators |-> undelegateRequest[e].amount]
             h == [e \in Delegators |-> IF e \in R THEN r[e] ELSE 0]
  <2>1. totalLockedUpStake[p] = SumFunctionOnSet(f, Delegators)
    BY DEF LockSums, Total
  <2>2. R \in SUBSET Delegators
    BY DEF DroppedRequests, DelegateTypeOK
  <2>3. \A e \in Delegators : r[e] \in Nat
    BY DEF DelegateTypeOK
  <2>4. ReleasedBySlash(sp, p) = SumFunctionOnSet(r, R)
    BY DEF ReleasedBySlash, Total
  <2>5. /\ \A e \in Delegators : f[e] \in Nat /\ g[e] \in Nat /\ h[e] \in Nat
        /\ \A e \in Delegators : h[e] = IF e \in R THEN r[e] ELSE 0
    BY <1>2, <2>3
  <2>6. \A e \in Delegators : f[e] = g[e] + h[e]
    <3>1. ASSUME NEW e \in Delegators
          PROVE  f[e] = g[e] + h[e]
      <4>1. CASE e \in DroppedRequests(sp)
        <5>1. undelegateRequest'[e] = NoUndelegate
          BY <4>1
        <5>2. g[e] = 0
          BY <5>1 DEF LockedDelegation, NoUndelegate
        <5>3. f[e] = h[e]
          BY <4>1 DEF LockedDelegation
        <5>4. QED
          BY <2>5, <5>2, <5>3
      <4>2. CASE e \notin DroppedRequests(sp)
        <5>1. undelegateRequest'[e] = undelegateRequest[e]
          BY <4>2
        <5>2. g[e] = f[e]
          BY <5>1 DEF LockedDelegation
        <5>3. h[e] = 0
          BY <4>2
        <5>4. QED
          BY <2>5, <5>2, <5>3
      <4>3. QED
        BY <4>1, <4>2
    <3>2. QED
      BY <3>1
  <2>7. totalLockedUpStake'[p] = totalLockedUpStake[p] - ReleasedBySlash(sp, p)
    OBVIOUS
  <2> HIDE DEF f, g, h, r, R
  <2>8. SumFunctionOnSet(h, Delegators) = SumFunctionOnSet(r, R)
    <3>1. SumFunctionOnSet(h, R) = SumFunctionOnSet(h, Delegators)
      BY <2>2, <2>5, SumSupport
    <3>2. IsFiniteSet(R)
      BY <2>2, FS_Subset
    <3>3. SumFunctionOnSet(h, R) = SumFunctionOnSet(r, R)
      BY <2>2, <2>3, <2>5, <3>2, SumSame
    <3>4. QED
      BY <3>1, <3>3
  <2>9. SumFunctionOnSet(f, Delegators)
           = SumFunctionOnSet(g, Delegators) + SumFunctionOnSet(h, Delegators)
    BY <2>5, <2>6, SumCombine
  <2>10. SumFunctionOnSet(g, Delegators) \in Nat /\ SumFunctionOnSet(h, Delegators) \in Nat
    BY <2>5, SumIsCount
  <2>11. totalLockedUpStake'[p] = SumFunctionOnSet(g, Delegators)
    BY <2>1, <2>4, <2>7, <2>8, <2>9, <2>10
  <2>12. QED
    BY <2>11 DEF g, Total
<1>4. QED
  BY <1>3 DEF LockSums, Total

-----------------------------------------------------------------------------
(* Steps.                                                                  *)

\* The sums and the types before a step, and the types after it.
BooksReady ==
    /\ DelegationSums /\ LockSums /\ StakeSums
    /\ StakingTypeOK /\ StakingTypeOK'
    /\ DelegateTypeOK /\ DelegateTypeOK'

BooksDone == DelegationSums' /\ LockSums' /\ StakeSums'

\* Operations that know no delegations.
LEMMA DelegationBooksKept ==
    ASSUME DelegationSums, LockSums, UNCHANGED delegateVars
    PROVE  DelegationSums' /\ LockSums'
BY LockSumsKept DEF delegateVars, DelegationSums, Total

\* Stake bought and sold: by providers.
LEMMA ProviderStepBooks ==
    ASSUME BooksReady, ProviderTypeOK, UNCHANGED <<now, delegateVars>>,
           NEW sp \in ServiceProviders,
           \/ \E amount \in Nat : StakeFor(sp, sp, amount)
           \/ \E amount \in Nat : UnstakeFor(sp, sp, amount)
           \/ UNCHANGED stakingVars
    PROVE  BooksDone
<1> USE DEF BooksReady
<1>1. CASE \E amount \in Nat : StakeFor(sp, sp, amount)
  <2>1. PICK amount \in Nat : StakeFor(sp, sp, amount)
    BY <1>1
  <2>2. StakeBecomes(sp, TotalStakedFor(sp) + amount, TotalStaked + amount)
    BY <2>1, StakeForFacts DEF Accounts
  <2>3. StakeSums'
    BY <2>2, StakeSumsMove
  <2>4. QED
    BY <2>3, DelegationBooksKept DEF BooksDone
<1>2. CASE \E amount \in Nat : UnstakeFor(sp, sp, amount)
  <2>1. PICK amount \in Nat : UnstakeFor(sp, sp, amount)
    BY <1>2
  <2>2. StakeBecomes(sp, TotalStakedFor(sp) - amount, TotalStaked - amount)
    BY <2>1, UnstakeForFacts DEF Accounts
  <2>3. /\ TotalStakedFor(sp) - amount = TotalStakedFor(sp) + (-amount)
        /\ TotalStaked - amount = TotalStaked + (-amount)
        /\ -amount \in Int
    BY StakeNat
  <2>4. StakeSums'
    BY <2>2, <2>3, StakeSumsMove
  <2>5. QED
    BY <2>4, DelegationBooksKept DEF BooksDone
<1>3. CASE UNCHANGED stakingVars
  BY <1>3, StakeSumsKept, DelegationBooksKept DEF BooksDone, stakingVars
<1>4. QED
  BY <1>1, <1>2, <1>3

\* delegateStake.
LEMMA DelegateStepBooks ==
    ASSUME BooksReady, UNCHANGED now, NEW d \in Delegators, NEW sp \in ServiceProviders,
           NEW amount \in Nat, DelegateStake(d, sp, amount)
    PROVE  BooksDone
<1> USE DEF BooksReady
<1>1. /\ StakeFor(sp, d, amount)
      /\ AddDelegation(d, sp, amount)
      /\ UNCHANGED <<totalLockedUpStake, undelegateRequest>>
  BY DEF DelegateStake
<1>2. StakeBecomes(sp, TotalStakedFor(sp) + amount, TotalStaked + amount)
  BY <1>1, StakeForFacts DEF Accounts
<1>3. StakeSums'
  BY <1>2, StakeSumsMove
<1>4. DelegationMoves(d, sp, amount)
  BY <1>1 DEF DelegationMoves, AddDelegation, DelegateTypeOK
<1>5. DelegationSums'
  BY <1>4, DelegationSumsMove
<1>6. QED
  BY <1>1, <1>3, <1>5, LockSumsKept DEF BooksDone

\* A withdrawal by a delegator or by removal of it.
LEMMA WithdrawalBooks ==
    ASSUME BooksReady, UNCHANGED now, NEW d \in Delegators, NEW sp \in ServiceProviders,
           NEW amount \in Nat, UnstakeFor(sp, d, amount), SubtractDelegation(d, sp, amount)
    PROVE  StakeSums' /\ DelegationSums'
<1> USE DEF BooksReady
<1>1. StakeBecomes(sp, TotalStakedFor(sp) - amount, TotalStaked - amount)
  BY UnstakeForFacts DEF Accounts
<1>2. /\ TotalStakedFor(sp) - amount = TotalStakedFor(sp) + (-amount)
      /\ TotalStaked - amount = TotalStaked + (-amount)
      /\ -amount \in Int
  BY StakeNat
<1>3. StakeSums'
  BY <1>1, <1>2, StakeSumsMove
<1>4. DelegationMoves(d, sp, -amount)
  BY <1>2 DEF DelegationMoves, SubtractDelegation, DelegateTypeOK
<1>5. DelegationSums'
  BY <1>2, <1>4, DelegationSumsMove
<1>6. QED
  BY <1>3, <1>5

\* undelegateStake.
LEMMA UndelegateStepBooks ==
    ASSUME BooksReady, UNCHANGED now, NEW d \in Delegators, NEW sp \in ServiceProviders,
           UndelegateStake(d, sp)
    PROVE  BooksDone
<1> DEFINE amount == undelegateRequest[d].amount
<1>1. /\ amount \in Nat
      /\ UnstakeFor(sp, d, amount)
      /\ SubtractDelegation(d, sp, amount)
      /\ UndelegateIsPending(d)
      /\ DropUndelegateRequest(d)
  BY DEF UndelegateStake, BooksReady, DelegateTypeOK
<1> HIDE DEF amount
<1>2. StakeSums' /\ DelegationSums'
  BY <1>1, WithdrawalBooks
<1>3. LockMoves(d)
  BY <1>1, DropMovesLocks DEF BooksReady
<1>4. LockSums'
  BY <1>3, LockSumsMove DEF BooksReady
<1>5. QED
  BY <1>2, <1>4 DEF BooksDone

\* removeDelegator.
LEMMA RemovalStepBooks ==
    ASSUME BooksReady, UNCHANGED now, NEW d \in Delegators, NEW sp \in ServiceProviders,
           RemoveDelegator(sp, d)
    PROVE  BooksDone
<1> DEFINE amount == delegateInfo[d][sp]
<1>1. /\ amount \in Nat
      /\ UnstakeFor(sp, d, amount)
      /\ SubtractDelegation(d, sp, amount)
      /\ DropRequestOnRemoval(sp, d)
  BY DEF RemoveDelegator, BooksReady, DelegateTypeOK
<1> HIDE DEF amount
<1>2. StakeSums' /\ DelegationSums'
  BY <1>1, WithdrawalBooks
<1>3. CASE UndelegateIsPending(d) /\ undelegateRequest[d].sp = sp
  <2>1. LockMoves(d)
    BY <1>1, <1>3, DropMovesLocks DEF BooksReady, DropRequestOnRemoval
  <2>2. LockSums'
    BY <2>1, LockSumsMove DEF BooksReady
  <2>3. QED
    BY <1>2, <2>2 DEF BooksDone
<1>4. CASE ~(UndelegateIsPending(d) /\ undelegateRequest[d].sp = sp)
  BY <1>1, <1>2, <1>4, LockSumsKept DEF BooksReady, BooksDone, DropRequestOnRemoval
<1>5. QED
  BY <1>3, <1>4

\* Requests to undelegate, and the requests and settings of a provider.
LEMMA RequestStepBooks ==
    ASSUME BooksReady, RequestTimed, UNCHANGED stakingVars,
           \/ \E d \in Delegators : DelegatorRequestTx(d)
           \/ \E sp \in ServiceProviders : RemovalRequestTx(sp)
    PROVE  BooksDone
<1> USE DEF BooksReady
<1>1. StakeSums'
  BY StakeSumsKept DEF stakingVars
<1>2. CASE \E sp \in ServiceProviders : RemovalRequestTx(sp)
  <2>1. UNCHANGED <<delegateInfo, delegatorTotalStake, totalDelegatedStake,
                    totalLockedUpStake, undelegateRequest>>
    BY <1>2 DEF RemovalRequestTx, RequestRemoveDelegator, CancelRemoveDelegatorRequest,
                UpdateSPMinDelegationAmount
  <2>2. QED
    BY <1>1, <2>1, LockSumsKept DEF BooksDone, DelegationSums, Total
<1>3. CASE \E d \in Delegators : DelegatorRequestTx(d)
  <2>1. PICK d \in Delegators : DelegatorRequestTx(d)
    BY <1>3
  <2>2. UNCHANGED <<delegateInfo, delegatorTotalStake, totalDelegatedStake>>
    BY <2>1 DEF DelegatorRequestTx, RequestUndelegateStake, CancelUndelegateStakeRequest
  <2>3. LockMoves(d)
    BY <2>1, RequestMovesLocks, DropMovesLocks, AmountAssumption
       DEF DelegatorRequestTx, CancelUndelegateStakeRequest
  <2>4. LockSums'
    BY <2>3, LockSumsMove
  <2>5. QED
    BY <1>1, <2>2, <2>4 DEF BooksDone, DelegationSums, Total
<1>4. QED
  BY <1>2, <1>3

\* What a delegator gets from a claim is a natural number.
LEMMA GainsNat ==
    ASSUME ContractsOK, NEW sp \in ServiceProviders, NEW active \in Int,
           NEW reward \in Nat, DistributeRewards(sp, active, reward), NEW d \in Delegators
    PROVE  LET gain == DelegateRewards(sp, active, reward)
           IN  gain[d] \in Nat /\ (d \notin delegators[sp] => gain[d] = 0)
<1> DEFINE gain == DelegateRewards(sp, active, reward)
<1>1. CASE d \in delegators[sp]
  <2>1. active > 0 /\ LockedDelegation(d, sp) <= delegateInfo[d][sp] /\ gain[d] >= 0
    BY <1>1 DEF DistributeRewards
  <2>2. gain[d] = DelegateReward(d, sp, active, reward)
    BY <1>1 DEF DelegateRewards
  <2>3. gain[d] \in Int
    BY <2>1, <2>2, DelegateRewardInt
  <2>4. QED
    BY <1>1, <2>1, <2>3
<1>2. CASE d \notin delegators[sp]
  BY <1>2 DEF DelegateRewards
<1>3. QED
  BY <1>1, <1>2

\* claimRewards.
LEMMA ClaimStepBooks ==
    ASSUME BooksReady, ContractsOK, ClaimsTypeOK, UNCHANGED now,
           NEW sp \in ServiceProviders, ClaimRewards(sp)
    PROVE  BooksDone
<1> USE DEF BooksReady
<1> DEFINE locked  == LockedStake(sp)
           outside == StakeOutsideStaking(sp)
           reward  == MintedReward(sp, locked, validBounds[sp])
           active  == outside - locked
           gain    == DelegateRewards(sp, active, reward)
<1>1. locked \in Nat /\ outside \in Nat
  BY DEF ContractsOK, DelegateTypeOK, ProviderTypeOK, LockedStake, StakeOutsideStaking
<1>2. /\ ProcessClaim(sp, locked, validBounds[sp])
      /\ IF reward = 0
           THEN UNCHANGED <<delegateInfo, delegatorTotalStake, totalDelegatedStake>>
           ELSE DistributeRewards(sp, active, reward)
      /\ UNCHANGED <<delegators, totalLockedUpStake, undelegateRequest>>
  BY DEF ClaimRewards
<1>3. reward \in Nat /\ StakeBecomes(sp, TotalStakedFor(sp) + reward, TotalStaked + reward)
  BY <1>1, <1>2, ProcessClaimFacts
<1> HIDE DEF locked, outside, reward
<1>4. StakeSums'
  BY <1>3, StakeSumsMove
<1>5. LockSums'
  BY <1>2, LockSumsKept
<1>6. CASE reward = 0
  BY <1>2, <1>4, <1>5, <1>6 DEF BooksDone, DelegationSums, Total
<1>7. CASE reward # 0
  <2>1. /\ \A d \in delegators[sp] :
              active > 0 /\ LockedDelegation(d, sp) <= delegateInfo[d][sp] /\ gain[d] >= 0
        /\ delegateInfo' =
              [d \in Delegators |-> [delegateInfo[d] EXCEPT ![sp] = @ + gain[d]]]
        /\ delegatorTotalStake' = [d \in Delegators |-> delegatorTotalStake[d] + gain[d]]
        /\ totalDelegatedStake' =
              [totalDelegatedStake EXCEPT ![sp] = @ + Total(gain, delegators[sp])]
    BY <1>2, <1>7 DEF DistributeRewards
  <2>2. \A d \in Delegators : gain[d] \in Nat /\ (d \notin delegators[sp] => gain[d] = 0)
    <3>1. active \in Int /\ DistributeRewards(sp, active, reward)
      BY <1>1, <1>2, <1>7
    <3> HIDE DEF active
    <3>2. QED
      BY <1>3, <3>1, GainsNat
  <2> HIDE DEF gain
  <2>3. Total(gain, delegators[sp]) = Total(gain, Delegators)
    <3>1. delegators[sp] \in SUBSET Delegators
      BY DEF DelegateTypeOK
    <3>2. QED
      BY <2>2, <3>1, DelegateAssumption, SumSupport DEF Total
  <2>4. DelegationsRise(sp, gain)
    BY <2>1, <2>3 DEF DelegationsRise, DelegateTypeOK
  <2>5. DelegationSums'
    BY <2>2, <2>4, DelegationSumsSpread
  <2>6. QED
    BY <1>4, <1>5, <2>5 DEF BooksDone
<1>8. QED
  BY <1>6, <1>7

\* What a delegator loses in a slash is a natural number, and no more than all.
LEMMA DelegationLossNat ==
    ASSUME ContractsOK, NEW sp \in ServiceProviders, NEW amount \in Nat,
           amount > 0, amount <= TotalStakedFor(sp), NEW d \in Delegators
    PROVE  DelegationLosses(sp, amount)[d] \in 0..delegateInfo[d][sp]
<1> DEFINE before == TotalStakedFor(sp)
           stake  == delegateInfo[d][sp]
           left   == ((before - amount) * stake) \div before
<1>1. before \in Nat \ {0} /\ before - amount \in Nat /\ stake \in Nat
  BY StakeNat DEF ContractsOK, DelegateTypeOK
<1>2. DelegationLosses(sp, amount)[d] = IF d \in delegators[sp] THEN stake - left ELSE 0
  BY DEF DelegationLosses, DelegationLoss
<1> HIDE DEF before, stake
<1>3. (before - amount) * stake \in Nat /\ (before - amount) * stake <= stake * before
  <2>1. \A x, y, z \in Nat : x <= z => x * y \in Nat /\ x * y <= y * z
    OBVIOUS
  <2>2. before - amount <= before
    BY <1>1
  <2>3. QED
    BY <1>1, <2>1, <2>2
<1>4. left \in Nat /\ left * before <= (before - amount) * stake
  BY <1>1, <1>3, QuotientNat, QuotientBelow
<1> HIDE DEF left
<1>5. left * before <= stake * before
  <2>1. left * before \in Nat /\ stake * before \in Nat
    BY <1>1, <1>4, ProductNat
  <2>2. QED
    BY <1>3, <1>4, <2>1
<1>6. left <= stake
  BY <1>1, <1>4, <1>5, FactorCancels
<1>7. QED
  BY <1>1, <1>2, <1>4, <1>6 DEF stake

\* slash.
LEMMA SlashStepBooks ==
    ASSUME BooksReady, ContractsOK, UNCHANGED now, NEW sp \in ServiceProviders,
           NEW amount \in Nat, Slash(sp, amount)
    PROVE  BooksDone
<1> USE DEF BooksReady
<1> DEFINE loss == DelegationLosses(sp, amount)
<1>1. /\ BurnFor(sp, amount)
      /\ amount > 0 /\ amount <= TotalStakedFor(sp)
      /\ SlashDelegations(sp, loss)
      /\ totalDelegatedStake' =
            [totalDelegatedStake EXCEPT ![sp] = @ - Total(loss, delegators[sp])]
  BY DEF Slash, SlashAllowed
<1>2. /\ StakeBecomes(sp, TotalStakedFor(sp) - amount, TotalStaked - amount)
      /\ TotalStakedFor(sp) - amount = TotalStakedFor(sp) + (-amount)
      /\ TotalStaked - amount = TotalStaked + (-amount)
      /\ -amount \in Int
  BY <1>1, BurnForFacts, StakeNat
<1>3. StakeSums'
  BY <1>2, StakeSumsMove
<1>4. /\ delegateInfo' =
            [d \in Delegators |-> [delegateInfo[d] EXCEPT ![sp] = @ - loss[d]]]
      /\ delegatorTotalStake' = [d \in Delegators |-> delegatorTotalStake[d] - loss[d]]
      /\ totalLockedUpStake' =
            [s \in ServiceProviders |-> totalLockedUpStake[s] - ReleasedBySlash(sp, s)]
      /\ undelegateRequest' =
            [d \in Delegators |->
                IF d \in DroppedRequests(sp) THEN NoUndelegate ELSE undelegateRequest[d]]
  BY <1>1 DEF SlashDelegations
<1>5. LockSums'
  BY <1>4, SlashMovesLocks
<1>6. \A d \in Delegators : loss[d] \in 0..delegateInfo[d][sp]
  BY <1>1, DelegationLossNat
<1>7. \A d \in Delegators : loss[d] \in Nat /\ (d \notin delegators[sp] => loss[d] = 0)
  BY <1>6 DEF DelegateTypeOK, DelegationLosses
<1> HIDE DEF loss
<1>8. Total(loss, delegators[sp]) = Total(loss, Delegators)
  <2>1. delegators[sp] \in SUBSET Delegators
    BY DEF DelegateTypeOK
  <2>2. QED
    BY <1>7, <2>1, DelegateAssumption, SumSupport DEF Total
<1>9. DelegationsFall(sp, loss)
  BY <1>1, <1>4, <1>8 DEF DelegationsFall, DelegateTypeOK
<1>10. DelegationSums'
  BY <1>7, <1>9, DelegationSumsSpread
<1>11. QED
  BY <1>3, <1>5, <1>10 DEF BooksDone

\* Every transaction, and a step that changes nothing, keeps the books.
LEMMA StepBooks == BookInv /\ [Next]_vars => BookInv'
<1> SUFFICES ASSUME BookInv, [Next]_vars
             PROVE  BookInv'
  OBVIOUS
<1>1. Inv'
  BY StepInv DEF BookInv
<1>2. BooksReady /\ ContractsOK /\ ClaimsTypeOK /\ RequestTimed
  BY <1>1 DEF BookInv, Inv, SystemOK, TypeOK, BooksReady, ContractsOK
<1> SUFFICES BooksDone
  BY <1>1 DEF BookInv, BooksDone
<1> USE <1>2, AmountAssumption DEF ContractsOK
<1>3. CASE UNCHANGED <<stakingVars, delegateVars>>
  BY <1>3, StakeSumsKept, DelegationBooksKept DEF BooksReady, BooksDone, stakingVars
<1>4. CASE \E from, to \in Accounts : TransferTx(from, to)
  BY <1>4, StakeSumsKept, DelegationBooksKept DEF BooksReady, BooksDone, TransferTx
<1>5. CASE \E s \in Service : ServiceTx(s)
  <2>1. PICK s \in Service : ServiceTx(s)
    BY <1>5
  <2>2. s.owner \in ServiceProviders
    BY DEF Service
  <2>3. \/ \E amount \in Nat : StakeFor(s.owner, s.owner, amount)
        \/ UNCHANGED stakingVars
    BY <2>1 DEF ServiceTx, Register, DeregisterOne, DeregisterLast
  <2>4. QED
    BY <2>1, <2>2, <2>3, ProviderStepBooks DEF ServiceTx, chainVars
<1>6. CASE \E sp \in ServiceProviders : ProviderStakeTx(sp)
  <2>1. PICK sp \in ServiceProviders : ProviderStakeTx(sp)
    BY <1>6
  <2>2. decreaseRequest[sp].amount \in Nat
    BY DEF ProviderTypeOK
  <2>3. \/ \E amount \in Nat : StakeFor(sp, sp, amount)
        \/ \E amount \in Nat : UnstakeFor(sp, sp, amount)
    BY <2>1, <2>2 DEF ProviderStakeTx, IncreaseStake, DecreaseStake
  <2>4. QED
    BY <2>1, <2>3, ProviderStepBooks DEF ProviderStakeTx, chainVars
<1>7. CASE \/ \E d \in Delegators : DelegatorRequestTx(d)
           \/ \E sp \in ServiceProviders : RemovalRequestTx(sp)
  <2>1. UNCHANGED stakingVars
    BY <1>7 DEF DelegatorRequestTx, RemovalRequestTx
  <2>2. QED
    BY <1>7, <2>1, RequestStepBooks
<1>8. CASE \E sp \in ServiceProviders : ClaimTx(sp)
  BY <1>8, ClaimStepBooks DEF ClaimTx, chainVars
<1>9. CASE \E sp \in ServiceProviders : SlashTx(sp)
  BY <1>9, SlashStepBooks DEF SlashTx, chainVars
<1>10. CASE \E d \in Delegators, sp \in ServiceProviders : DelegateTx(d, sp)
  BY <1>10, DelegateStepBooks DEF DelegateTx, chainVars
<1>11. CASE \E d \in Delegators, sp \in ServiceProviders : UndelegateTx(d, sp)
  BY <1>11, UndelegateStepBooks DEF UndelegateTx, chainVars
<1>12. CASE \E d \in Delegators, sp \in ServiceProviders : RemovalTx(sp, d)
  BY <1>12, RemovalStepBooks DEF RemovalTx, chainVars
<1>13. CASE UNCHANGED vars
  BY <1>3, <1>13 DEF vars
<1>14. QED
  BY <1>3, <1>4, <1>5, <1>6, <1>7, <1>8, <1>9, <1>10, <1>11, <1>12, <1>13
     DEF Next, AccountNext, GovernanceTx, NextBlock, InitiateRound, UpdateFundingAmount,
         ProviderRequestTx

-----------------------------------------------------------------------------
(* The loops of claimRewards and slash.                                    *)

\* What is taken from a delegator as deployer cut is part of its share of the
\* reward, and the share is rounded down.
LEMMA RewardShare ==
    ASSUME NEW a \in Nat, NEW reward \in Nat, NEW active \in Nat \ {0},
           NEW base \in Nat \ {0}, NEW cut \in 0..base
    PROVE  LET share == (a * reward) \div active
               taken == (a * reward * cut) \div (active * base)
           IN  /\ share \in Nat
               /\ taken \in 0..share
               /\ active * share <= reward * a
<1> DEFINE x     == a * reward
           share == x \div active
           taken == (x * cut) \div (active * base)
<1>1. /\ x \in Nat /\ reward * a = x
      /\ active * base \in Nat \ {0}
  BY ProductNat, ProductPos
<1> HIDE DEF x
<1>2. x * cut \in Nat
  BY <1>1, ProductNat
<1>3. share \in Nat /\ share * active <= x /\ x < (share + 1) * active
  BY <1>1, QuotientNat, QuotientBelow
<1>4. taken \in Nat /\ taken * (active * base) <= x * cut
  BY <1>1, <1>2, QuotientNat, QuotientBelow
<1> HIDE DEF share, taken
<1>5. x * cut <= x * base
  <2>1. cut * x <= base * x
    BY <1>1, FactorKeeps
  <2>2. cut * x = x * cut /\ base * x = x * base
    BY <1>1
  <2>3. QED
    BY <2>1, <2>2
<1>6. (taken * active) * base <= x * base
  <2>1. /\ taken * active \in Nat
        /\ (taken * active) * base = taken * (active * base)
        /\ (taken * active) * base \in Nat /\ x * base \in Nat
    BY <1>1, <1>4, ProductNat
  <2>2. QED
    BY <1>2, <1>4, <1>5, <2>1
<1>7. taken * active <= x
  <2>1. taken * active \in Nat
    BY <1>4, ProductNat
  <2>2. QED
    BY <1>1, <1>6, <2>1, FactorCancels
<1>8. taken < share + 1
  <2>1. taken * active < (share + 1) * active
    <3>1. taken * active \in Nat /\ (share + 1) * active \in Nat
      BY <1>3, <1>4, ProductNat
    <3>2. QED
      BY <1>1, <1>3, <1>7, <3>1
  <2>2. \A m, n \in Nat : m * active < n * active => m < n
    OBVIOUS
  <2>3. share + 1 \in Nat
    BY <1>3
  <2>4. QED
    BY <1>4, <2>1, <2>2, <2>3
<1>9. active * share = share * active
  BY <1>3
<1>10. QED
  BY <1>1, <1>3, <1>4, <1>8, <1>9 DEF x, share, taken

\* Shares of a reward that are rounded down, of parts of the whole, do not
\* exceed it together.
LEMMA SharesSum ==
    ASSUME NEW S, IsFiniteSet(S), NEW part, NEW share,
           NEW reward \in Nat, NEW whole \in Nat \ {0},
           \A x \in S : /\ part[x] \in Nat /\ share[x] \in Nat
                        /\ whole * share[x] <= reward * part[x],
           SumFunctionOnSet(part, S) <= whole
    PROVE  SumFunctionOnSet(share, S) <= reward
<1> DEFINE f == [x \in S |-> whole * share[x]]
           g == [x \in S |-> reward * part[x]]
<1>1. \A x \in S : /\ f[x] \in Nat /\ g[x] \in Nat /\ f[x] <= g[x]
                   /\ f[x] = whole * share[x] /\ g[x] = reward * part[x]
  BY ProductNat
<1> HIDE DEF f, g
<1>2. SumFunctionOnSet(f, S) = whole * SumFunctionOnSet(share, S)
  BY <1>1, SumScaled
<1>3. SumFunctionOnSet(g, S) = reward * SumFunctionOnSet(part, S)
  BY <1>1, SumScaled
<1>4. SumFunctionOnSet(f, S) <= SumFunctionOnSet(g, S)
  BY <1>1, SumMonotone
<1>5. SumFunctionOnSet(share, S) \in Nat /\ SumFunctionOnSet(part, S) \in Nat
  BY SumIsCount
<1>6. \A p, s \in Nat : p <= whole /\ whole * s <= reward * p => s <= reward
  <2> SUFFICES ASSUME NEW p \in Nat, NEW s \in Nat, p <= whole, whole * s <= reward * p
               PROVE  s <= reward
    OBVIOUS
  <2>1. p * reward <= whole * reward
    BY FactorKeeps
  <2>2. /\ s * whole = whole * s /\ reward * p = p * reward
        /\ whole * reward = reward * whole
    OBVIOUS
  <2>3. /\ s * whole \in Nat /\ p * reward \in Nat /\ reward * whole \in Nat
    BY ProductNat
  <2>4. s * whole <= reward * whole
    BY <2>1, <2>2, <2>3
  <2>5. QED
    BY <2>4, FactorCancels
<1>7. QED
  BY <1>2, <1>3, <1>4, <1>5, <1>6

\* What a claim gives the delegators of sp, whose active stakes are part of the
\* active stake of sp, is part of the reward.
LEMMA RewardsWithin ==
    ASSUME BookInv, NEW sp \in ServiceProviders, NEW reward \in Nat,
           decreaseRequest[sp].amount <= deployerStake[sp],
           StakeOutsideStaking(sp) - LockedStake(sp) > 0
    PROVE  LET gain == DelegateRewards(sp, StakeOutsideStaking(sp) - LockedStake(sp), reward)
           IN  /\ \A d \in Delegators : gain[d] \in Nat
               /\ Total(gain, delegators[sp]) \in 0..reward
<1> USE DelegateAssumption, ProviderAssumption
<1> DEFINE active == StakeOutsideStaking(sp) - LockedStake(sp)
           gain   == DelegateRewards(sp, active, reward)
           part   == [d \in Delegators |-> ActiveDelegation(d, sp)]
           lock   == [d \in Delegators |-> LockedDelegation(d, sp)]
           info   == [d \in Delegators |-> delegateInfo[d][sp]]
           share  == [d \in Delegators |-> (part[d] * reward) \div active]
<1>1. TypeOK
  BY DEF BookInv, Inv, SystemOK
<1>2. /\ deployerStake[sp] \in Nat /\ decreaseRequest[sp].amount \in Nat
      /\ totalDelegatedStake[sp] \in Nat /\ totalLockedUpStake[sp] \in Nat
      /\ deployerCut[sp] \in 0..DeployerCutBase
      /\ delegators[sp] \in SUBSET Delegators
  BY <1>1 DEF TypeOK, ProviderTypeOK, DelegateTypeOK
<1>3. \A d \in Delegators :
         /\ info[d] \in Nat /\ lock[d] \in Nat /\ part[d] \in Nat
         /\ info[d] = part[d] + lock[d]
         /\ part[d] = ActiveDelegation(d, sp)
  <2>1. ASSUME NEW d \in Delegators
        PROVE  /\ delegateInfo[d][sp] \in Nat /\ LockedDelegation(d, sp) \in Nat
               /\ LockedDelegation(d, sp) <= delegateInfo[d][sp]
    BY <1>1, LockedNat DEF TypeOK, DelegateTypeOK, BookInv, Inv, RequestCovered
  <2>2. QED
    BY <2>1 DEF ActiveDelegation
<1>4. /\ totalDelegatedStake[sp] = SumFunctionOnSet(info, Delegators)
      /\ totalLockedUpStake[sp] = SumFunctionOnSet(lock, Delegators)
  BY DEF BookInv, DelegationSums, LockSums, Total
<1>5. active \in Nat \ {0}
      /\ active = deployerStake[sp] + totalDelegatedStake[sp]
                    - (totalLockedUpStake[sp] + decreaseRequest[sp].amount)
  BY <1>2 DEF StakeOutsideStaking, LockedStake
<1>6. ASSUME NEW d \in delegators[sp]
      PROVE  gain[d] = (part[d] * reward) \div active
                         - (part[d] * reward * deployerCut[sp]) \div (active * DeployerCutBase)
  BY <1>2, <1>3 DEF DelegateRewards, DelegateReward
<1>7. ASSUME NEW d \in Delegators, d \notin delegators[sp]
      PROVE  gain[d] = 0
  BY <1>7 DEF DelegateRewards
<1>8. \A d \in Delegators : share[d] = (part[d] * reward) \div active
  OBVIOUS
<1> HIDE DEF active, gain, part, lock, info, share
<1>9. SumFunctionOnSet(part, Delegators) <= active
  <2>1. SumFunctionOnSet(info, Delegators)
           = SumFunctionOnSet(part, Delegators) + SumFunctionOnSet(lock, Delegators)
    BY <1>3, SumCombine
  <2>2. SumFunctionOnSet(part, Delegators) \in Nat
    BY <1>3, SumIsCount
  <2>3. QED
    BY <1>2, <1>4, <1>5, <2>1, <2>2
<1>10. \A d \in Delegators :
          /\ share[d] \in Nat
          /\ gain[d] \in 0..share[d]
          /\ active * share[d] <= reward * part[d]
  <2>1. ASSUME NEW d \in Delegators
        PROVE  /\ share[d] \in Nat
               /\ gain[d] \in 0..share[d]
               /\ active * share[d] <= reward * part[d]
    <3> DEFINE taken == (part[d] * reward * deployerCut[sp]) \div (active * DeployerCutBase)
    <3>1. /\ share[d] \in Nat
          /\ taken \in 0..share[d]
          /\ active * share[d] <= reward * part[d]
      <4>1. /\ part[d] \in Nat /\ active \in Nat \ {0}
            /\ DeployerCutBase \in Nat \ {0} /\ deployerCut[sp] \in 0..DeployerCutBase
        BY <1>2, <1>3, <1>5
      <4>2. /\ (part[d] * reward) \div active \in Nat
            /\ taken \in 0..((part[d] * reward) \div active)
            /\ active * ((part[d] * reward) \div active) <= reward * part[d]
        BY <4>1, RewardShare
      <4>3. QED
        BY <1>8, <4>2
    <3>2. d \in delegators[sp] => gain[d] = share[d] - taken
      BY <1>6, <1>8
    <3> HIDE DEF taken
    <3>3. QED
      BY <1>7, <3>1, <3>2
  <2>2. QED
    BY <2>1
<1>11. SumFunctionOnSet(share, Delegators) <= reward
  BY <1>3, <1>5, <1>9, <1>10, SharesSum
<1>12. SumFunctionOnSet(gain, Delegators) <= SumFunctionOnSet(share, Delegators)
  BY <1>10, SumMonotone
<1>13. /\ SumFunctionOnSet(gain, Delegators) \in Nat
       /\ SumFunctionOnSet(share, Delegators) \in Nat
  BY <1>10, SumIsCount
<1>14. SumFunctionOnSet(gain, delegators[sp]) = SumFunctionOnSet(gain, Delegators)
  BY <1>2, <1>7, <1>10, SumSupport
<1>15. /\ \A d \in Delegators : gain[d] \in Nat
       /\ Total(gain, delegators[sp]) \in 0..reward
  BY <1>10, <1>11, <1>12, <1>13, <1>14 DEF Total
<1>16. QED
  BY <1>15 DEF gain, active

\* A slash takes at least its proportion from every delegator, and so from all
\* of them.
LEMMA LossesCover ==
    ASSUME BookInv, NEW sp \in ServiceProviders, NEW amount \in Nat,
           amount > 0, amount <= TotalStakedFor(sp)
    PROVE  LET loss   == DelegationLosses(sp, amount)
               before == TotalStakedFor(sp)
           IN  /\ \A d \in Delegators :
                     /\ loss[d] \in 0..delegateInfo[d][sp]
                     /\ amount * delegateInfo[d][sp] <= before * loss[d]
                     /\ before * loss[d] < amount * delegateInfo[d][sp] + before
               /\ Total(loss, delegators[sp]) = Total(loss, Delegators)
               /\ Total(loss, delegators[sp]) \in 0..totalDelegatedStake[sp]
               /\ amount * totalDelegatedStake[sp] <= before * Total(loss, delegators[sp])
<1> USE DelegateAssumption
<1> DEFINE loss   == DelegationLosses(sp, amount)
           before == TotalStakedFor(sp)
           info   == [d \in Delegators |-> delegateInfo[d][sp]]
           f      == [d \in Delegators |-> amount * info[d]]
           g      == [d \in Delegators |-> before * loss[d]]
<1>1. ContractsOK
  BY DEF BookInv, Inv, SystemOK, TypeOK, ContractsOK
<1>2. before \in Nat \ {0} /\ delegators[sp] \in SUBSET Delegators
  BY <1>1, StakeNat DEF ContractsOK, DelegateTypeOK
<1>3. \A d \in Delegators : info[d] \in Nat /\ info[d] = delegateInfo[d][sp]
  BY <1>1 DEF ContractsOK, DelegateTypeOK
<1>4. \A d \in Delegators : loss[d] \in 0..info[d]
  BY <1>1, <1>3, DelegationLossNat
<1>5. totalDelegatedStake[sp] = SumFunctionOnSet(info, Delegators)
  BY DEF BookInv, DelegationSums, Total
<1>6. \A d \in Delegators :
         loss[d] = IF d \in delegators[sp]
                     THEN info[d] - ((before - amount) * info[d]) \div before
                     ELSE 0
  BY DEF DelegationLosses, DelegationLoss
<1>7. \A d \in Delegators : d \notin delegators[sp] => info[d] = 0
  BY <1>3 DEF BookInv, Inv, DelegatorsListed
<1>8. \A d \in Delegators : f[d] = amount * info[d] /\ g[d] = before * loss[d]
  OBVIOUS
<1> HIDE DEF loss, before, info, f, g
<1>9. \A d \in Delegators : /\ f[d] \in Nat /\ g[d] \in Nat
                            /\ f[d] <= g[d] /\ g[d] < f[d] + before
  <2>1. ASSUME NEW d \in Delegators
        PROVE  /\ f[d] \in Nat /\ g[d] \in Nat
               /\ f[d] <= g[d] /\ g[d] < f[d] + before
    <3>1. f[d] \in Nat /\ g[d] \in Nat
      BY <1>2, <1>3, <1>4, <1>8, ProductNat
    <3>2. CASE d \notin delegators[sp]
      <4>1. loss[d] = 0 /\ info[d] = 0
        BY <1>6, <1>7, <3>2
      <4>2. f[d] = 0 /\ g[d] = 0
        BY <1>2, <1>8, <4>1
      <4>3. QED
        BY <1>2, <4>2
    <3>3. CASE d \in delegators[sp]
      <4> DEFINE left == ((before - amount) * info[d]) \div before
      <4>1. before - amount \in Nat /\ (before - amount) * info[d] \in Nat
        BY <1>2, <1>3, ProductNat DEF before
      <4>2. /\ left \in Nat
            /\ left * before <= (before - amount) * info[d]
            /\ (before - amount) * info[d] < (left + 1) * before
        BY <1>2, <4>1, QuotientNat, QuotientBelow
      <4>3. loss[d] = info[d] - left
        BY <1>6, <3>3
      <4> HIDE DEF left
      <4>4. /\ before * (info[d] - left) = before * info[d] - left * before
            /\ (before - amount) * info[d] = before * info[d] - amount * info[d]
            /\ (left + 1) * before = left * before + before
        BY <1>2, <1>3, <4>2
      <4>5. before * info[d] \in Nat /\ left * before \in Nat
        BY <1>2, <1>3, <4>2, ProductNat
      <4>6. QED
        BY <1>2, <1>8, <3>1, <4>2, <4>3, <4>4, <4>5
    <3>4. QED
      BY <3>1, <3>2, <3>3
  <2>2. QED
    BY <2>1
<1>10. /\ SumFunctionOnSet(f, Delegators) <= SumFunctionOnSet(g, Delegators)
       /\ SumFunctionOnSet(f, Delegators) = amount * SumFunctionOnSet(info, Delegators)
       /\ SumFunctionOnSet(g, Delegators) = before * SumFunctionOnSet(loss, Delegators)
  <2>1. SumFunctionOnSet(f, Delegators) <= SumFunctionOnSet(g, Delegators)
    BY <1>9, SumMonotone
  <2>2. SumFunctionOnSet(f, Delegators) = amount * SumFunctionOnSet(info, Delegators)
    BY <1>3, <1>8, SumScaled
  <2>3. SumFunctionOnSet(g, Delegators) = before * SumFunctionOnSet(loss, Delegators)
    <3>1. \A d \in Delegators : loss[d] \in Nat
      BY <1>3, <1>4
    <3>2. QED
      BY <1>2, <1>8, <3>1, SumScaled
  <2>4. QED
    BY <2>1, <2>2, <2>3
<1>11. /\ SumFunctionOnSet(loss, Delegators) \in 0..totalDelegatedStake[sp]
       /\ SumFunctionOnSet(loss, delegators[sp]) = SumFunctionOnSet(loss, Delegators)
  <2>1. \A d \in Delegators : loss[d] \in Nat /\ loss[d] <= info[d]
    BY <1>3, <1>4
  <2>2. SumFunctionOnSet(loss, Delegators) <= SumFunctionOnSet(info, Delegators)
    BY <1>3, <2>1, SumMonotone
  <2>3. SumFunctionOnSet(loss, Delegators) \in Nat /\ SumFunctionOnSet(info, Delegators) \in Nat
    BY <1>3, <2>1, SumIsCount
  <2>4. SumFunctionOnSet(loss, delegators[sp]) = SumFunctionOnSet(loss, Delegators)
    BY <1>2, <1>6, <2>1, SumSupport
  <2>5. QED
    BY <1>5, <2>2, <2>3, <2>4
<1>12. /\ \A d \in Delegators :
             /\ loss[d] \in 0..delegateInfo[d][sp]
             /\ amount * delegateInfo[d][sp] <= before * loss[d]
             /\ before * loss[d] < amount * delegateInfo[d][sp] + before
       /\ Total(loss, delegators[sp]) = Total(loss, Delegators)
       /\ Total(loss, delegators[sp]) \in 0..totalDelegatedStake[sp]
       /\ amount * totalDelegatedStake[sp] <= before * Total(loss, delegators[sp])
  BY <1>3, <1>4, <1>5, <1>8, <1>9, <1>10, <1>11 DEF Total
<1>13. QED
  BY <1>12 DEF loss, before

\* When both parts of a stake bear a loss and one of them bears at least its
\* proportion, no more is left for the other part than it is worth.
LEMMA ProportionLeaves ==
    ASSUME NEW amount \in Nat, NEW direct \in Nat, NEW delegated \in Nat, NEW taken \in Nat,
           amount > 0, amount <= direct + delegated,
           amount * delegated <= (direct + delegated) * taken
    PROVE  amount - taken <= direct
<1> SUFFICES ASSUME amount - taken > direct PROVE FALSE
  OBVIOUS
<1> DEFINE before == direct + delegated
           most   == amount - direct - 1
<1>1. /\ before \in Nat /\ most \in Nat /\ before > 0
      /\ taken <= most /\ amount <= before
      /\ delegated = before - direct
  OBVIOUS
<1>2. amount * delegated <= before * taken
  OBVIOUS
<1>3. before * most = before * amount - before * direct - before
  OBVIOUS
<1> HIDE DEF before, most
<1>4. before * taken <= before * most
  BY <1>1, FactorKeeps
<1>5. amount * delegated = before * amount - amount * direct
  BY <1>1
<1>6. amount * direct <= before * direct
  <2>1. direct * amount <= direct * before
    BY <1>1, FactorKeeps
  <2>2. QED
    BY <1>1, <2>1
<1>7. /\ before * amount \in Nat /\ before * direct \in Nat /\ amount * direct \in Nat
      /\ amount * delegated \in Nat /\ before * taken \in Nat /\ before * most \in Nat
  BY <1>1, ProductNat
<1>8. QED
  BY <1>1, <1>2, <1>3, <1>4, <1>5, <1>6, <1>7

-----------------------------------------------------------------------------
(* Theorems.                                                               *)

\* The invariant holds in every reachable state.
THEOREM BooksInvariant == Spec => []BookInv
BY InitBooks, StepBooks, PTL DEF Spec

\* The totals of DelegateManager are the sums of the delegations, by provider
\* and by delegator, for any number of accounts: the loops of claimRewards and
\* slash, which round every share, add up what they write.
THEOREM DelegationsAddUp == Spec => []DelegationSums
<1>1. BookInv => DelegationSums
  BY DEF BookInv
<1>2. QED
  BY <1>1, BooksInvariant, PTL

\* What is locked at a provider is what its pending requests will withdraw,
\* also when a slash drops requests of its delegators for other providers.
THEOREM LocksAddUp == Spec => []LockSums
<1>1. BookInv => LockSums
  BY DEF BookInv
<1>2. QED
  BY <1>1, BooksInvariant, PTL

\* Staking holds the tokens it owes: its balance is the total staked and the
\* sum of all stakes.
THEOREM VaultCoversStakes == Spec => []VaultCovers
<1>1. BookInv => VaultCovers
  BY DEF BookInv, Inv, StakeSums, VaultCovers
<1>2. QED
  BY <1>1, BooksInvariant, PTL

\* No claim that ClaimsManager allows fails in _distributeDelegateRewards:
\* the rounded shares of the delegators never exceed the reward.
THEOREM ClaimsSettle == Spec => []ClaimSettles
<1>1. ASSUME BookInv PROVE ClaimSettles
  <2>1. TypeOK
    BY <1>1 DEF BookInv, Inv, SystemOK
  <2>2. ASSUME NEW sp \in ServiceProviders,
               ClaimAllowed(sp, LockedStake(sp)),
               decreaseRequest[sp].amount <= deployerStake[sp],
               StakeOutsideStaking(sp) - LockedStake(sp) > 0
        PROVE  Total(DelegateRewards(sp, StakeOutsideStaking(sp) - LockedStake(sp),
                         MintedReward(sp, LockedStake(sp), validBounds[sp])),
                     delegators[sp])
                 \in 0..MintedReward(sp, LockedStake(sp), validBounds[sp])
    <3>1. LockedStake(sp) \in Nat
      BY <2>1 DEF TypeOK, ProviderTypeOK, DelegateTypeOK, LockedStake
    <3>2. MintedReward(sp, LockedStake(sp), validBounds[sp]) \in Nat
      BY <2>1, <2>2, <3>1, RewardNat DEF TypeOK
    <3>3. QED
      BY <1>1, <2>2, <3>2, RewardsWithin
  <2>3. QED
    BY <2>2 DEF ClaimSettles
<1>2. QED
  BY <1>1, BooksInvariant, PTL

\* After every delegator has lost its proportion, rounded up, what is left of
\* a slash for the provider never exceeds its direct stake.
THEOREM SlashesAbsorbed == Spec => []SlashAbsorbed
<1>1. ASSUME BookInv PROVE SlashAbsorbed
  <2>1. ASSUME NEW sp \in ServiceProviders, NEW amount \in SlashAmounts,
               amount <= TotalStakedFor(sp), amount > 0
        PROVE  amount - Total(DelegationLosses(sp, amount), delegators[sp])
                  <= deployerStake[sp]
    <3> DEFINE before == TotalStakedFor(sp)
               taken  == Total(DelegationLosses(sp, amount), delegators[sp])
    <3>1. /\ amount \in Nat /\ before \in Nat
          /\ deployerStake[sp] \in Nat /\ totalDelegatedStake[sp] \in Nat
          /\ before = deployerStake[sp] + totalDelegatedStake[sp]
      BY <1>1, AmountAssumption, StakeNat
         DEF BookInv, Inv, SystemOK, TypeOK, ProviderTypeOK, DelegateTypeOK, StakeSplit
    <3>2. /\ taken \in Nat
          /\ amount * totalDelegatedStake[sp] <= before * taken
      BY <1>1, <2>1, <3>1, LossesCover
    <3> HIDE DEF before, taken
    <3>3. amount - taken <= deployerStake[sp]
      BY <2>1, <3>1, <3>2, ProportionLeaves DEF before
    <3>4. QED
      BY <3>3 DEF taken
  <2>2. QED
    BY <2>1 DEF SlashAbsorbed
<1>2. QED
  BY <1>1, BooksInvariant, PTL

-----------------------------------------------------------------------------
(* The protocol is the ledger.                                             *)

Owners == Delegators \cup {NoProvider}

\* The shares that these stakes and delegations amount to.
SharesOf(direct, info) ==
    [sp \in ServiceProviders |->
        [o \in Owners |-> IF o = NoProvider THEN direct[sp] ELSE info[o][sp]]]

\* The shares at a provider add up to its direct stake and its delegations.
LEMMA SharesAddUp ==
    ASSUME NEW direct \in [ServiceProviders -> Nat],
           NEW info \in [Delegators -> [ServiceProviders -> Nat]],
           NEW sp \in ServiceProviders
    PROVE  SumFunctionOnSet(SharesOf(direct, info)[sp], Owners)
             = direct[sp] + SumFunctionOnSet([d \in Delegators |-> info[d][sp]], Delegators)
<1> DEFINE s == SharesOf(direct, info)[sp]
           f == [d \in Delegators |-> info[d][sp]]
<1>1. NoProvider \notin Delegators
  BY DelegateAssumption DEF Accounts
<1>2. /\ \A o \in Owners : s[o] \in Nat
      /\ s[NoProvider] = direct[sp]
      /\ \A d \in Delegators : f[d] \in Nat /\ s[d] = f[d]
      /\ NoProvider \in Owners /\ Owners \ {NoProvider} = Delegators
  BY <1>1 DEF SharesOf, Owners
<1>3. IsFiniteSet(Owners)
  BY DelegateAssumption, FS_AddElement DEF Owners
<1> HIDE DEF s, f
<1>4. SumFunctionOnSet(s, Owners) = direct[sp] + SumFunctionOnSet(s, Delegators)
  BY <1>2, <1>3, SumSplit
<1>5. SumFunctionOnSet(s, Delegators) = SumFunctionOnSet(f, Delegators)
  BY <1>2, DelegateAssumption, SumSame
<1>6. QED
  BY <1>4, <1>5 DEF s, f

\* The ledger sees the stake that Staking records.
LEMMA LedgerStake ==
    ASSUME BookInv, NEW sp \in ServiceProviders
    PROVE  Ledger!StakeOf(sp) = TotalStakedFor(sp)
<1>1. Shares = SharesOf(deployerStake, delegateInfo)
  BY DEF Shares, SharesOf, Owners
<1>2. DOMAIN Shares[sp] = Owners
  BY <1>1 DEF SharesOf
<1>3. Ledger!StakeOf(sp) = SumFunctionOnSet(Shares[sp], Owners)
  BY <1>2 DEF Ledger!StakeOf, Ledger!SumFunction, Ledger!SumFunctionOnSet,
              Ledger!FoldFunctionOnSet, Ledger!MapThenFoldSet, SumFunctionOnSet,
              FoldFunctionOnSet, MapThenFoldSet
<1>4. SumFunctionOnSet(Shares[sp], Owners)
         = deployerStake[sp]
             + SumFunctionOnSet([d \in Delegators |-> delegateInfo[d][sp]], Delegators)
  <2>1. /\ deployerStake \in [ServiceProviders -> Nat]
        /\ delegateInfo \in [Delegators -> [ServiceProviders -> Nat]]
    BY DEF BookInv, Inv, SystemOK, TypeOK, ProviderTypeOK, DelegateTypeOK
  <2>2. SumFunctionOnSet(SharesOf(deployerStake, delegateInfo)[sp], Owners)
           = deployerStake[sp]
               + SumFunctionOnSet([d \in Delegators |-> delegateInfo[d][sp]], Delegators)
    BY <2>1, SharesAddUp
  <2>3. QED
    BY <1>1, <2>2
<1>5. QED
  BY <1>3, <1>4 DEF BookInv, Inv, StakeSplit, DelegationSums, Total

\* The same after a step.
LEMMA LedgerStakeAfter ==
    ASSUME BookInv', NEW sp \in ServiceProviders
    PROVE  Ledger!StakeOf(sp)' = TotalStakedFor(sp)'
<1>1. Shares' = SharesOf(deployerStake', delegateInfo')
  BY DEF Shares, SharesOf, Owners
<1>2. DOMAIN Shares'[sp] = Owners
  BY <1>1 DEF SharesOf
<1>3. Ledger!StakeOf(sp)' = SumFunctionOnSet(Shares'[sp], Owners)
  BY <1>2 DEF Ledger!StakeOf, Ledger!SumFunction, Ledger!SumFunctionOnSet,
              Ledger!FoldFunctionOnSet, Ledger!MapThenFoldSet, SumFunctionOnSet,
              FoldFunctionOnSet, MapThenFoldSet
<1>4. SumFunctionOnSet(Shares'[sp], Owners)
         = deployerStake'[sp]
             + SumFunctionOnSet([d \in Delegators |-> delegateInfo'[d][sp]], Delegators)
  <2>1. /\ deployerStake' \in [ServiceProviders -> Nat]
        /\ delegateInfo' \in [Delegators -> [ServiceProviders -> Nat]]
    BY DEF BookInv, Inv, SystemOK, TypeOK, ProviderTypeOK, DelegateTypeOK
  <2>2. SumFunctionOnSet(SharesOf(deployerStake', delegateInfo')[sp], Owners)
           = deployerStake'[sp]
               + SumFunctionOnSet([d \in Delegators |-> delegateInfo'[d][sp]], Delegators)
    BY <2>1, SharesAddUp
  <2>3. QED
    BY <1>1, <2>2
<1>5. QED
  BY <1>3, <1>4 DEF BookInv, Inv, StakeSplit, DelegationSums, Total

\* What a share is, before and after a step.
LEMMA ShareValues ==
    ASSUME BookInv, BookInv'
    PROVE  /\ \A sp \in ServiceProviders :
                 /\ Shares[sp][NoProvider] = deployerStake[sp]
                 /\ Shares'[sp][NoProvider] = deployerStake'[sp]
                 /\ DOMAIN Shares[sp] = Owners /\ DOMAIN Shares'[sp] = Owners
                 /\ Shares[sp] = [o \in Owners |-> Shares[sp][o]]
                 /\ Shares'[sp] = [o \in Owners |-> Shares'[sp][o]]
           /\ \A sp \in ServiceProviders, d \in Delegators :
                 /\ Shares[sp][d] = delegateInfo[d][sp]
                 /\ Shares'[sp][d] = delegateInfo'[d][sp]
           /\ \A sp \in ServiceProviders, o \in Owners :
                 Shares[sp][o] \in Nat /\ Shares'[sp][o] \in Nat
           /\ NoProvider \notin Delegators
<1>1. NoProvider \notin Delegators
  BY DelegateAssumption DEF Accounts
<1>2. /\ deployerStake \in [ServiceProviders -> Nat]
      /\ deployerStake' \in [ServiceProviders -> Nat]
      /\ delegateInfo \in [Delegators -> [ServiceProviders -> Nat]]
      /\ delegateInfo' \in [Delegators -> [ServiceProviders -> Nat]]
  BY DEF BookInv, Inv, SystemOK, TypeOK, ProviderTypeOK, DelegateTypeOK
<1>3. QED
  BY <1>1, <1>2 DEF Shares, Owners

\* A step that moves one share and the tokens for it is a transfer.
LEMMA MovesShare ==
    ASSUME BookInv, BookInv', NEW sp \in ServiceProviders, NEW o \in Owners,
           NEW change \in Int, change # 0,
           \A p \in ServiceProviders, q \in Owners :
              Shares'[p][q] = IF p = sp /\ q = o THEN Shares[p][q] + change ELSE Shares[p][q],
           \A a \in Accounts :
              wallet'[a] = IF a = Ledger!Holder(sp, o) THEN wallet[a] - change ELSE wallet[a],
           vault' = vault + change
    PROVE  Ledger!Transfer(sp, o)
<1> DEFINE holder == Ledger!Holder(sp, o)
<1>1. holder \in Accounts
  BY DEF Ledger!Holder, Accounts, Owners
<1>2. wallet \in [Accounts -> Nat] /\ wallet' \in [Accounts -> Nat]
  BY DEF BookInv, Inv, SystemOK, TypeOK, StakingTypeOK
<1>3. Shares'[sp][o] - Shares[sp][o] = change
  BY ShareValues
<1>4. Ledger!OthersKept(sp)
  <2>1. ASSUME NEW q \in ServiceProviders \ {sp} PROVE Shares'[q] = Shares[q]
    <3>1. \A r \in Owners : Shares'[q][r] = Shares[q][r]
      OBVIOUS
    <3>2. [r \in Owners |-> Shares'[q][r]] = [r \in Owners |-> Shares[q][r]]
      BY <3>1
    <3>3. /\ Shares[q] = [r \in Owners |-> Shares[q][r]]
          /\ Shares'[q] = [r \in Owners |-> Shares'[q][r]]
      BY ShareValues
    <3>4. QED
      BY <3>2, <3>3
  <2>2. QED
    BY <2>1 DEF Ledger!OthersKept
<1>5. \A other \in Owners \ {o} : Shares'[sp][other] = Shares[sp][other]
  OBVIOUS
<1>6. wallet' = [wallet EXCEPT ![holder] = @ - change]
  BY <1>1, <1>2
<1>7. wallet'[holder] >= 0
  BY <1>1, <1>2
<1>8. Shares'[sp][o] >= 0
  BY ShareValues
<1> HIDE DEF holder
<1>9. QED
  BY <1>3, <1>4, <1>5, <1>6, <1>7, <1>8 DEF Ledger!Transfer, Ledger!Owners, Owners, holder
\* A step of the ledger, or none.
LedgerStep == [Ledger!Next]_<<wallet, Shares, vault>>

\* Steps that leave stakes, delegations and tokens alone.
LEMMA LedgerStutter ==
    ASSUME UNCHANGED <<wallet, vault, deployerStake, delegateInfo>>
    PROVE  LedgerStep
BY DEF LedgerStep, Shares

\* A direct stake moves: register, increaseStake and decreaseStake.
LEMMA DirectTransfer ==
    ASSUME BookInv, BookInv', UNCHANGED delegateInfo, NEW sp \in ServiceProviders,
           NEW change \in Int, change # 0,
           deployerStake' = [deployerStake EXCEPT ![sp] = @ + change],
           wallet' = [wallet EXCEPT ![sp] = @ - change],
           vault' = vault + change
    PROVE  LedgerStep
<1>1. /\ deployerStake \in [ServiceProviders -> Nat]
      /\ wallet \in [Accounts -> Nat] /\ sp \in Accounts
  BY DEF BookInv, Inv, SystemOK, TypeOK, StakingTypeOK, ProviderTypeOK, Accounts
<1>2. NoProvider \in Owners /\ Ledger!Holder(sp, NoProvider) = sp
  BY DEF Owners, Ledger!Holder
<1>3. ASSUME NEW p \in ServiceProviders, NEW q \in Owners
      PROVE  Shares'[p][q] =
                IF p = sp /\ q = NoProvider THEN Shares[p][q] + change ELSE Shares[p][q]
  <2>1. CASE q = NoProvider
    <3>1. /\ Shares[p][q] = deployerStake[p] /\ Shares'[p][q] = deployerStake'[p]
      BY <2>1, ShareValues
    <3>2. deployerStake'[p] = IF p = sp THEN deployerStake[p] + change ELSE deployerStake[p]
      BY <1>1
    <3>3. QED
      BY <2>1, <3>1, <3>2
  <2>2. CASE q \in Delegators
    <3>1. q # NoProvider /\ Shares'[p][q] = Shares[p][q]
      BY <2>2, ShareValues
    <3>2. QED
      BY <3>1
  <2>3. QED
    BY <2>1, <2>2 DEF Owners
<1>4. \A a \in Accounts : wallet'[a] = IF a = sp THEN wallet[a] - change ELSE wallet[a]
  BY <1>1
<1>5. Ledger!Transfer(sp, NoProvider)
  BY <1>2, <1>3, <1>4, MovesShare
<1>6. QED
  BY <1>2, <1>5 DEF LedgerStep, Ledger!Next, Ledger!Owners, Owners

\* A delegation moves: delegateStake, undelegateStake and removeDelegator.
LEMMA DelegatedTransfer ==
    ASSUME BookInv, BookInv', UNCHANGED deployerStake, NEW sp \in ServiceProviders,
           NEW d \in Delegators, NEW change \in Int, change # 0,
           delegateInfo' = [delegateInfo EXCEPT ![d][sp] = @ + change],
           wallet' = [wallet EXCEPT ![d] = @ - change],
           vault' = vault + change
    PROVE  LedgerStep
<1>1. /\ delegateInfo \in [Delegators -> [ServiceProviders -> Nat]]
      /\ wallet \in [Accounts -> Nat] /\ d \in Accounts
  BY DEF BookInv, Inv, SystemOK, TypeOK, StakingTypeOK, DelegateTypeOK, Accounts
<1>2. d \in Owners /\ Ledger!Holder(sp, d) = d
  BY ShareValues DEF Owners, Ledger!Holder
<1>3. ASSUME NEW p \in ServiceProviders, NEW q \in Owners
      PROVE  Shares'[p][q] =
                IF p = sp /\ q = d THEN Shares[p][q] + change ELSE Shares[p][q]
  <2>1. CASE q = NoProvider
    <3>1. q # d /\ Shares'[p][q] = Shares[p][q]
      BY <2>1, ShareValues
    <3>2. QED
      BY <3>1
  <2>2. CASE q \in Delegators
    <3>1. Shares[p][q] = delegateInfo[q][p] /\ Shares'[p][q] = delegateInfo'[q][p]
      BY <2>2, ShareValues
    <3>2. delegateInfo'[q][p] =
             IF p = sp /\ q = d THEN delegateInfo[q][p] + change ELSE delegateInfo[q][p]
      BY <1>1, <2>2
    <3>3. QED
      BY <3>1, <3>2
  <2>3. QED
    BY <2>1, <2>2 DEF Owners
<1>4. \A a \in Accounts : wallet'[a] = IF a = d THEN wallet[a] - change ELSE wallet[a]
  BY <1>1
<1>5. Ledger!Transfer(sp, d)
  BY <1>2, <1>3, <1>4, MovesShare
<1>6. QED
  BY <1>2, <1>5 DEF LedgerStep, Ledger!Next, Ledger!Owners, Owners

\* Only the shares at one provider move.
LEMMA OnlyProvider ==
    ASSUME BookInv, BookInv', NEW sp \in ServiceProviders,
           \A p \in ServiceProviders \ {sp} : deployerStake'[p] = deployerStake[p],
           \A d \in Delegators, p \in ServiceProviders \ {sp} :
              delegateInfo'[d][p] = delegateInfo[d][p]
    PROVE  Ledger!OthersKept(sp)
<1>1. ASSUME NEW q \in ServiceProviders \ {sp} PROVE Shares'[q] = Shares[q]
  <2>1. /\ Shares'[q][NoProvider] = Shares[q][NoProvider]
        /\ \A d \in Delegators : Shares'[q][d] = Shares[q][d]
    <3>1. /\ q \in ServiceProviders
          /\ deployerStake'[q] = deployerStake[q]
          /\ \A d \in Delegators : delegateInfo'[d][q] = delegateInfo[d][q]
      OBVIOUS
    <3>2. /\ Shares[q][NoProvider] = deployerStake[q]
          /\ Shares'[q][NoProvider] = deployerStake'[q]
          /\ \A d \in Delegators : /\ Shares[q][d] = delegateInfo[d][q]
                                  /\ Shares'[q][d] = delegateInfo'[d][q]
      BY <3>1, ShareValues
    <3>3. QED
      BY <3>1, <3>2
  <2>2. [o \in Owners |-> Shares'[q][o]] = [o \in Owners |-> Shares[q][o]]
    BY <2>1 DEF Owners
  <2>3. /\ Shares[q] = [o \in Owners |-> Shares[q][o]]
        /\ Shares'[q] = [o \in Owners |-> Shares'[q][o]]
    BY ShareValues
  <2>4. QED
    BY <2>2, <2>3
<1>2. QED
  BY <1>1 DEF Ledger!OthersKept

\* transfer of the token.
LEMMA PayStep ==
    ASSUME BookInv, NEW from \in Accounts, NEW to \in Accounts, TransferTx(from, to)
    PROVE  LedgerStep
<1>1. PICK amount \in TransferAmounts :
             /\ amount <= wallet[from]
             /\ wallet' = [wallet EXCEPT ![from] = @ - amount, ![to] = @ + amount]
  BY DEF TransferTx
<1>2. UNCHANGED <<vault, deployerStake, delegateInfo>>
  BY DEF TransferTx, providerVars, delegateVars
<1>3. amount \in 0..wallet[from]
  BY <1>1, AmountAssumption DEF BookInv, Inv, SystemOK, TypeOK, StakingTypeOK
<1>4. Ledger!Pay
  BY <1>1, <1>2, <1>3 DEF Ledger!Pay, Shares, Ledger!Accounts, Accounts
<1>5. QED
  BY <1>4 DEF LedgerStep, Ledger!Next

\* claimRewards: a reward, or none.
LEMMA RewardStep ==
    ASSUME BookInv, BookInv', UNCHANGED now, NEW sp \in ServiceProviders, ClaimRewards(sp)
    PROVE  LedgerStep
<1> DEFINE locked  == LockedStake(sp)
           reward  == MintedReward(sp, locked, validBounds[sp])
           active  == StakeOutsideStaking(sp) - locked
           gain    == DelegateRewards(sp, active, reward)
           increase == Total(gain, delegators[sp])
<1>1. ContractsOK /\ ClaimsTypeOK
  BY DEF BookInv, Inv, SystemOK, TypeOK, ContractsOK
<1>2. locked \in Nat /\ active \in Int
  BY <1>1 DEF ContractsOK, DelegateTypeOK, ProviderTypeOK, LockedStake, StakeOutsideStaking
<1>3. /\ ProcessClaim(sp, locked, validBounds[sp])
      /\ reward = 0 => UNCHANGED <<delegateInfo, deployerStake>>
      /\ reward # 0 => DistributeRewards(sp, active, reward)
  BY DEF ClaimRewards
<1>4. /\ reward \in Nat
      /\ StakeBecomes(sp, TotalStakedFor(sp) + reward, TotalStaked + reward)
      /\ vault' = vault + reward
  BY <1>1, <1>2, <1>3, ProcessClaimFacts DEF ContractsOK
<1>5. UNCHANGED wallet
  BY <1>3 DEF ProcessClaim, UpdateClaimHistory, StakeRewards
<1>6. vault \in Nat /\ TotalStakedFor(sp) \in Nat
  BY <1>1, StakeNat DEF ContractsOK, StakingTypeOK
<1> HIDE DEF locked, active, reward
<1>7. CASE reward = 0
  BY <1>3, <1>4, <1>5, <1>6, <1>7, LedgerStutter
<1>8. CASE reward # 0
  <2>1. /\ increase \in 0..reward
        /\ delegateInfo' =
              [d \in Delegators |-> [delegateInfo[d] EXCEPT ![sp] = @ + gain[d]]]
        /\ deployerStake' =
              [deployerStake EXCEPT ![sp] = deployerStake[sp] + (reward - increase)]
    BY <1>3, <1>8 DEF DistributeRewards, UpdateServiceProviderStake
  <2>2. \A d \in Delegators : gain[d] \in Nat
    BY <1>1, <1>2, <1>3, <1>4, <1>8, GainsNat
  <2> HIDE DEF increase, gain
  <2>3. /\ deployerStake \in [ServiceProviders -> Nat]
        /\ delegateInfo \in [Delegators -> [ServiceProviders -> Nat]]
    BY <1>1 DEF ContractsOK, ProviderTypeOK, DelegateTypeOK
  <2>4. /\ \A p \in ServiceProviders \ {sp} : deployerStake'[p] = deployerStake[p]
        /\ \A d \in Delegators, p \in ServiceProviders \ {sp} :
              delegateInfo'[d][p] = delegateInfo[d][p]
        /\ deployerStake'[sp] >= deployerStake[sp]
        /\ \A d \in Delegators : delegateInfo'[d][sp] >= delegateInfo[d][sp]
    BY <1>4, <2>1, <2>2, <2>3
  <2>5. Ledger!OthersKept(sp)
    BY <2>4, OnlyProvider
  <2>6. ASSUME NEW o \in Owners PROVE Shares'[sp][o] >= Shares[sp][o]
    <3>1. CASE o = NoProvider
      BY <2>4, <3>1, ShareValues
    <3>2. CASE o \in Delegators
      BY <2>4, <3>2, ShareValues
    <3>3. QED
      BY <3>1, <3>2 DEF Owners
  <2>7. /\ Ledger!StakeOf(sp) = TotalStakedFor(sp)
        /\ Ledger!StakeOf(sp)' = TotalStakedFor(sp) + reward
    BY <1>4, LedgerStake, LedgerStakeAfter DEF StakeBecomes
  <2>8. /\ vault' > vault
        /\ vault' = vault + Ledger!StakeOf(sp)' - Ledger!StakeOf(sp)
    BY <1>4, <1>6, <1>8, <2>7
  <2>9. Ledger!Reward(sp)
    BY <1>5, <2>5, <2>6, <2>8 DEF Ledger!Reward, Ledger!Owners, Owners
  <2>10. QED
    BY <2>9 DEF LedgerStep, Ledger!Next
<1>9. QED
  BY <1>7, <1>8

\* What a proportional loss, rounded up, leaves is the proportion that is left,
\* rounded down.
LEMMA LossKeepsProportion ==
    ASSUME NEW before \in Nat, NEW amount \in Nat, NEW stake \in Nat, NEW loss \in Nat,
           amount <= before, before > 0,
           before * loss < amount * stake + before
    PROVE  (stake - loss + 1) * before > (before - amount) * stake
<1>1. /\ (stake - loss + 1) * before = before * stake - before * loss + before
      /\ (before - amount) * stake = before * stake - amount * stake
  OBVIOUS
<1>2. before * stake \in Nat /\ before * loss \in Nat /\ amount * stake \in Nat
  BY ProductNat
<1>3. QED
  BY <1>1, <1>2

\* The same for the part that bears what the delegators did not.
LEMMA RestKeepsProportion ==
    ASSUME NEW direct \in Nat, NEW delegated \in Nat, NEW amount \in Nat, NEW taken \in Nat,
           amount <= direct + delegated, direct + delegated > 0,
           amount * delegated <= (direct + delegated) * taken
    PROVE  (direct - (amount - taken) + 1) * (direct + delegated)
              > (direct + delegated - amount) * direct
<1> DEFINE before == direct + delegated
<1>1. before \in Nat /\ before > 0 /\ delegated = before - direct
      /\ amount * delegated <= before * taken
  OBVIOUS
<1> HIDE DEF before
<1>2. /\ (direct - (amount - taken) + 1) * before
            = before * direct - before * amount + before * taken + before
      /\ (before - amount) * direct = before * direct - amount * direct
      /\ amount * delegated = before * amount - amount * direct
  BY <1>1
<1>3. /\ before * direct \in Nat /\ before * amount \in Nat /\ before * taken \in Nat
      /\ amount * direct \in Nat /\ amount * delegated \in Nat
  BY <1>1, ProductNat
<1>4. (direct - (amount - taken) + 1) * before > (before - amount) * direct
  BY <1>1, <1>2, <1>3
<1>5. QED
  BY <1>4 DEF before
\* undelegateStake and removeDelegator: a delegator gets its tokens back.
LEMMA WithdrawalStep ==
    ASSUME BookInv, BookInv', UNCHANGED deployerStake, NEW sp \in ServiceProviders,
           NEW d \in Delegators, NEW amount \in Nat,
           UnstakeFor(sp, d, amount), SubtractDelegation(d, sp, amount)
    PROVE  LedgerStep
<1>1. /\ delegateInfo' = [delegateInfo EXCEPT ![d][sp] = @ - amount]
      /\ wallet' = [wallet EXCEPT ![d] = @ + amount]
      /\ vault' = vault - amount
      /\ amount > 0
  BY DEF UnstakeFor, SubtractDelegation
<1>2. /\ wallet[d] \in Nat /\ vault \in Nat
      /\ delegateInfo \in [Delegators -> [ServiceProviders -> Nat]]
      /\ delegateInfo[d][sp] \in Nat
  BY DEF BookInv, Inv, SystemOK, TypeOK, StakingTypeOK, DelegateTypeOK, Accounts
<1>3. /\ -amount \in Int /\ -amount # 0
      /\ delegateInfo[d][sp] - amount = delegateInfo[d][sp] + (-amount)
      /\ wallet[d] + amount = wallet[d] - (-amount)
      /\ vault - amount = vault + (-amount)
  <2>1. amount > 0
    BY <1>1
  <2>2. wallet[d] \in Nat /\ vault \in Nat /\ delegateInfo[d][sp] \in Nat
    BY <1>2
  <2>3. QED
    BY <2>1, <2>2
<1>4. /\ delegateInfo' = [delegateInfo EXCEPT ![d][sp] = @ + (-amount)]
      /\ wallet' = [wallet EXCEPT ![d] = @ - (-amount)]
      /\ vault' = vault + (-amount)
  BY <1>1, <1>3
<1>5. QED
  BY <1>3, <1>4, DelegatedTransfer
\* slash.
LEMMA BurnStep ==
    ASSUME BookInv, BookInv', UNCHANGED now, NEW sp \in ServiceProviders,
           NEW amount \in Nat, Slash(sp, amount)
    PROVE  LedgerStep
<1> DEFINE loss   == DelegationLosses(sp, amount)
           taken  == Total(loss, delegators[sp])
           before == TotalStakedFor(sp)
<1>1. ContractsOK
  BY DEF BookInv, Inv, SystemOK, TypeOK, ContractsOK
<1>2. /\ BurnFor(sp, amount)
      /\ amount > 0 /\ amount <= before /\ taken <= amount
      /\ delegateInfo' =
            [d \in Delegators |-> [delegateInfo[d] EXCEPT ![sp] = @ - loss[d]]]
      /\ deployerStake' =
            [deployerStake EXCEPT ![sp] = deployerStake[sp] - (amount - taken)]
  BY DEF Slash, SlashAllowed, SlashDelegations, UpdateServiceProviderStake
<1>3. /\ StakeBecomes(sp, before - amount, TotalStaked - amount)
      /\ vault' = vault - amount
      /\ UNCHANGED wallet
  BY <1>1, <1>2, BurnForFacts DEF ContractsOK, BurnFor
<1>4. /\ \A d \in Delegators :
            /\ loss[d] \in 0..delegateInfo[d][sp]
            /\ before * loss[d] < amount * delegateInfo[d][sp] + before
      /\ taken \in Nat
      /\ amount * totalDelegatedStake[sp] <= before * taken
  BY <1>2, LossesCover
<1>5. /\ before \in Nat /\ vault \in Nat
      /\ deployerStake \in [ServiceProviders -> Nat]
      /\ deployerStake' \in [ServiceProviders -> Nat]
      /\ delegateInfo \in [Delegators -> [ServiceProviders -> Nat]]
      /\ totalDelegatedStake[sp] \in Nat
      /\ before = deployerStake[sp] + totalDelegatedStake[sp]
  BY <1>1, StakeNat
     DEF BookInv, Inv, SystemOK, TypeOK, StakeSplit, ContractsOK, StakingTypeOK,
         ProviderTypeOK, DelegateTypeOK
<1> HIDE DEF loss, taken, before
<1>6. /\ \A p \in ServiceProviders \ {sp} : deployerStake'[p] = deployerStake[p]
      /\ \A d \in Delegators, p \in ServiceProviders \ {sp} :
            delegateInfo'[d][p] = delegateInfo[d][p]
      /\ deployerStake'[sp] = deployerStake[sp] - (amount - taken)
      /\ \A d \in Delegators : delegateInfo'[d][sp] = delegateInfo[d][sp] - loss[d]
  BY <1>2, <1>5
<1>7. Ledger!OthersKept(sp)
  BY <1>6, OnlyProvider
<1>8. /\ Ledger!StakeOf(sp) = before
      /\ Ledger!StakeOf(sp)' = before - amount
  BY <1>3, LedgerStake, LedgerStakeAfter DEF StakeBecomes, before
<1>9. ASSUME NEW o \in Owners
      PROVE  /\ Shares'[sp][o] \in 0..Shares[sp][o]
             /\ (Shares'[sp][o] + 1) * before > (before - amount) * Shares[sp][o]
  <2>1. CASE o = NoProvider
    <3>1. deployerStake'[sp] \in 0..deployerStake[sp]
      BY <1>2, <1>4, <1>5, <1>6
    <3>2. (deployerStake'[sp] + 1) * before > (before - amount) * deployerStake[sp]
      <4>1. (deployerStake[sp] - (amount - taken) + 1)
               * (deployerStake[sp] + totalDelegatedStake[sp])
              > (deployerStake[sp] + totalDelegatedStake[sp] - amount) * deployerStake[sp]
        <5>1. /\ deployerStake[sp] \in Nat /\ totalDelegatedStake[sp] \in Nat /\ taken \in Nat
              /\ amount <= deployerStake[sp] + totalDelegatedStake[sp]
              /\ deployerStake[sp] + totalDelegatedStake[sp] > 0
              /\ amount * totalDelegatedStake[sp]
                    <= (deployerStake[sp] + totalDelegatedStake[sp]) * taken
          BY <1>2, <1>4, <1>5
        <5>2. QED
          BY <5>1, RestKeepsProportion, Zenon
      <4>2. QED
        BY <1>5, <1>6, <4>1
    <3>3. Shares[sp][o] = deployerStake[sp] /\ Shares'[sp][o] = deployerStake'[sp]
      BY <2>1, ShareValues
    <3>4. QED
      BY <3>1, <3>2, <3>3
  <2>2. CASE o \in Delegators
    <3>1. /\ delegateInfo[o][sp] \in Nat /\ loss[o] \in Nat
          /\ loss[o] <= delegateInfo[o][sp]
          /\ delegateInfo'[o][sp] = delegateInfo[o][sp] - loss[o]
          /\ before * loss[o] < amount * delegateInfo[o][sp] + before
      BY <1>4, <1>5, <1>6, <2>2
    <3>2. (delegateInfo[o][sp] - loss[o] + 1) * before > (before - amount) * delegateInfo[o][sp]
      <4>1. before \in Nat /\ before > 0 /\ amount <= before
        BY <1>2, <1>5
      <4>2. QED
        BY <3>1, <4>1, LossKeepsProportion, Zenon
    <3>3. Shares[sp][o] = delegateInfo[o][sp] /\ Shares'[sp][o] = delegateInfo'[o][sp]
      BY <2>2, ShareValues
    <3>4. QED
      BY <3>1, <3>2, <3>3
  <2>3. QED
    BY <2>1, <2>2 DEF Owners
<1>10. /\ vault' < vault
       /\ vault' = vault + Ledger!StakeOf(sp)' - Ledger!StakeOf(sp)
  BY <1>2, <1>3, <1>5, <1>8
<1>11. Ledger!Burn(sp)
  BY <1>3, <1>7, <1>8, <1>9, <1>10 DEF Ledger!Burn, Ledger!Owners, Owners
<1>12. QED
  BY <1>11 DEF LedgerStep, Ledger!Next

\* Every transaction is a step of the ledger or none.
LEMMA StepLedger == BookInv /\ [Next]_vars => LedgerStep
<1> SUFFICES ASSUME BookInv, [Next]_vars
             PROVE  LedgerStep
  OBVIOUS
<1>1. BookInv'
  BY StepBooks
<1>2. ContractsOK
  BY DEF BookInv, Inv, SystemOK, TypeOK, ContractsOK
<1> USE AmountAssumption
<1>3. CASE UNCHANGED <<wallet, vault, deployerStake, delegateInfo>>
  BY <1>3, LedgerStutter
<1>4. CASE \E from, to \in Accounts : TransferTx(from, to)
  BY <1>4, PayStep
<1>5. CASE \E s \in Service : ServiceTx(s)
  <2>1. PICK s \in Service : ServiceTx(s)
    BY <1>5
  <2>2. CASE \E amount \in StakeAmounts \cup {0} : Register(s, amount)
    <3>1. PICK amount \in StakeAmounts \cup {0} : Register(s, amount)
      BY <2>2
    <3>2. s.owner \in ServiceProviders /\ amount \in Nat
      BY DEF Service
    <3>3. UNCHANGED delegateInfo
      BY <2>1 DEF ServiceTx, delegateVars
    <3>4. CASE amount = 0
      <4>1. UNCHANGED <<wallet, vault>>
        BY <3>1, <3>4 DEF Register, StakeFor, stakingVars
      <4>2. UNCHANGED deployerStake
        BY <1>2, <3>1, <3>2, <3>4 DEF Register, ContractsOK, ProviderTypeOK
      <4>3. QED
        BY <3>3, <4>1, <4>2, LedgerStutter
    <3>5. CASE amount # 0
      <4> DEFINE sp == s.owner
      <4>1. /\ deployerStake' = [deployerStake EXCEPT ![sp] = @ + amount]
            /\ wallet' = [wallet EXCEPT ![sp] = @ - amount]
            /\ vault' = vault + amount
        BY <3>1, <3>5 DEF Register, StakeFor
      <4>2. sp \in ServiceProviders /\ amount \in Int
        BY <3>2
      <4> HIDE DEF sp
      <4>3. QED
        BY <1>1, <3>3, <3>5, <4>1, <4>2, DirectTransfer
    <3>6. QED
      BY <3>4, <3>5
  <2>3. CASE DeregisterOne(s) \/ DeregisterLast(s)
    BY <1>3, <2>1, <2>3 DEF ServiceTx, DeregisterOne, DeregisterLast, stakingVars, delegateVars
  <2>4. QED
    BY <2>1, <2>2, <2>3 DEF ServiceTx
<1>6. CASE \E sp \in ServiceProviders : ProviderStakeTx(sp)
  <2>1. PICK sp \in ServiceProviders : ProviderStakeTx(sp)
    BY <1>6
  <2>2. UNCHANGED delegateInfo
    BY <2>1 DEF ProviderStakeTx, delegateVars
  <2>3. CASE \E amount \in StakeAmounts : IncreaseStake(sp, amount)
    <3>1. PICK amount \in StakeAmounts : IncreaseStake(sp, amount)
      BY <2>3
    <3>2. /\ deployerStake' = [deployerStake EXCEPT ![sp] = @ + amount]
          /\ wallet' = [wallet EXCEPT ![sp] = @ - amount]
          /\ vault' = vault + amount
          /\ amount > 0
      BY <3>1 DEF IncreaseStake, StakeFor
    <3>3. amount \in Int /\ amount # 0
      BY <3>2
    <3>4. QED
      BY <1>1, <2>2, <3>2, <3>3, DirectTransfer
  <2>4. CASE DecreaseStake(sp)
    <3> DEFINE amount == decreaseRequest[sp].amount
    <3>1. /\ deployerStake' = [deployerStake EXCEPT ![sp] = @ - amount]
          /\ wallet' = [wallet EXCEPT ![sp] = @ + amount]
          /\ vault' = vault - amount
          /\ amount > 0
      BY <2>4 DEF DecreaseStake, UnstakeFor
    <3>2. /\ amount \in Nat /\ deployerStake[sp] \in Nat /\ wallet[sp] \in Nat /\ vault \in Nat
      BY <1>2 DEF ContractsOK, StakingTypeOK, ProviderTypeOK, Accounts
    <3> HIDE DEF amount
    <3>3. /\ -amount \in Int /\ -amount # 0
          /\ deployerStake[sp] - amount = deployerStake[sp] + (-amount)
          /\ wallet[sp] + amount = wallet[sp] - (-amount)
          /\ vault - amount = vault + (-amount)
      BY <3>1, <3>2
    <3>4. /\ deployerStake' = [deployerStake EXCEPT ![sp] = @ + (-amount)]
          /\ wallet' = [wallet EXCEPT ![sp] = @ - (-amount)]
          /\ vault' = vault + (-amount)
      BY <3>1, <3>3
    <3>5. QED
      BY <1>1, <2>2, <3>3, <3>4, DirectTransfer
  <2>5. QED
    BY <2>1, <2>3, <2>4 DEF ProviderStakeTx
<1>7. CASE \/ \E d \in Delegators : DelegatorRequestTx(d)
           \/ \E sp \in ServiceProviders : RemovalRequestTx(sp)
           \/ \E sp \in ServiceProviders : ProviderRequestTx(sp)
  <2>1. UNCHANGED <<wallet, vault>>
    BY <1>7 DEF DelegatorRequestTx, RemovalRequestTx, ProviderRequestTx, stakingVars
  <2>2. UNCHANGED deployerStake
    BY <1>7 DEF DelegatorRequestTx, RemovalRequestTx, ProviderRequestTx, providerVars,
                RequestDecreaseStake, CancelDecreaseStakeRequest, RequestUpdateDeployerCut,
                CancelUpdateDeployerCut, UpdateDeployerCut
  <2>3. UNCHANGED delegateInfo
    BY <1>7 DEF DelegatorRequestTx, RemovalRequestTx, ProviderRequestTx, delegateVars,
                RequestUndelegateStake, CancelUndelegateStakeRequest, RequestRemoveDelegator,
                CancelRemoveDelegatorRequest, UpdateSPMinDelegationAmount
  <2>4. QED
    BY <2>1, <2>2, <2>3, LedgerStutter
<1>8. CASE \E sp \in ServiceProviders : ClaimTx(sp)
  BY <1>1, <1>8, RewardStep DEF ClaimTx, chainVars
<1>9. CASE \E sp \in ServiceProviders : SlashTx(sp)
  BY <1>1, <1>9, BurnStep DEF SlashTx, chainVars
<1>10. CASE \E d \in Delegators, sp \in ServiceProviders : DelegateTx(d, sp)
  <2>1. PICK d \in Delegators, sp \in ServiceProviders : DelegateTx(d, sp)
    BY <1>10
  <2>2. PICK amount \in DelegateAmounts : DelegateStake(d, sp, amount)
    BY <2>1 DEF DelegateTx
  <2>3. /\ UNCHANGED deployerStake
        /\ delegateInfo' = [delegateInfo EXCEPT ![d][sp] = @ + amount]
        /\ wallet' = [wallet EXCEPT ![d] = @ - amount]
        /\ vault' = vault + amount
        /\ amount > 0
    BY <2>2 DEF DelegateStake, AddDelegation, StakeFor, providerVars
  <2>4. amount \in Int /\ amount # 0
    BY <2>3
  <2>5. QED
    BY <1>1, <2>3, <2>4, DelegatedTransfer
<1>11. CASE \E d \in Delegators, sp \in ServiceProviders : UndelegateTx(d, sp)
  <2>1. PICK d \in Delegators, sp \in ServiceProviders : UndelegateTx(d, sp)
    BY <1>11
  <2> DEFINE amount == undelegateRequest[d].amount
  <2>2. amount \in Nat /\ deployerStake \in [ServiceProviders -> Nat]
    BY <1>2 DEF ContractsOK, ProviderTypeOK, DelegateTypeOK
  <2>3. /\ UnstakeFor(sp, d, amount) /\ SubtractDelegation(d, sp, amount)
        /\ UNCHANGED deployerStake
    BY <2>1, <2>2 DEF UndelegateTx, UndelegateStake, UpdateServiceProviderStake
  <2> HIDE DEF amount
  <2>4. QED
    BY <1>1, <2>2, <2>3, WithdrawalStep
<1>12. CASE \E d \in Delegators, sp \in ServiceProviders : RemovalTx(sp, d)
  <2>1. PICK d \in Delegators, sp \in ServiceProviders : RemovalTx(sp, d)
    BY <1>12
  <2> DEFINE amount == delegateInfo[d][sp]
  <2>2. amount \in Nat
    BY <1>2 DEF ContractsOK, DelegateTypeOK
  <2>3. /\ UnstakeFor(sp, d, amount) /\ SubtractDelegation(d, sp, amount)
        /\ UNCHANGED deployerStake
    BY <2>1 DEF RemovalTx, RemoveDelegator, providerVars
  <2> HIDE DEF amount
  <2>4. QED
    BY <1>1, <2>2, <2>3, WithdrawalStep
<1>13. CASE UNCHANGED vars
  BY <1>3, <1>13 DEF vars, stakingVars, providerVars, delegateVars
<1>14. CASE \/ NextBlock \/ InitiateRound
            \/ \E amount \in FundingAmounts : UpdateFundingAmount(amount)
  BY <1>3, <1>14 DEF NextBlock, InitiateRound, UpdateFundingAmount, stakingVars,
                     providerVars, delegateVars
<1>15. QED
  BY <1>4, <1>5, <1>6, <1>7, <1>8, <1>9, <1>10, <1>11, <1>12, <1>13, <1>14
     DEF Next, AccountNext, GovernanceTx

\* Whatever the accounts, the governance and the blocks do, the four contracts
\* implement the ledger: a provider or a delegator gains or loses by the
\* transaction of another only through a reward or a slash, a slash takes no
\* more than the proportion rounded up, and the tokens in custody move as the
\* shares do.
THEOREM StakingImplementsLedger == Spec => ImplementsLedger
<1>1. Init => Ledger!Init
  <2> SUFFICES ASSUME Init PROVE Ledger!Init
    OBVIOUS
  <2>2. wallet = InitialWallet /\ vault = 0
    BY DEF Init, StakingInit
  <2>3. Shares = [p \in ServiceProviders |-> [o \in Owners |-> 0]]
    <3>1. \A p \in ServiceProviders : deployerStake[p] = 0
      BY DEF Init, ProviderInit
    <3>2. \A p \in ServiceProviders, d \in Delegators : delegateInfo[d][p] = 0
      BY DEF Init, DelegateInit
    <3>3. QED
      BY <3>1, <3>2 DEF Shares, Owners
  <2>4. QED
    BY <2>2, <2>3 DEF Ledger!Init, Ledger!Owners, Owners
<1>2. BookInv /\ [Next]_vars => [Ledger!Next]_(Ledger!ledgerVars)
  BY StepLedger DEF LedgerStep, Ledger!ledgerVars
<1>3. QED
  BY <1>1, <1>2, BooksInvariant, PTL DEF Spec, ImplementsLedger, Ledger!Spec

-----------------------------------------------------------------------------
(* Rounds.                                                                 *)

\* A lookup at the current block or later returns the last value, the stakes
\* at a block add up to the total at that block, and there are none at block 0.
HistoriesAgree ==
    /\ \A b \in Blocks : b >= now =>
          /\ TotalStakedAt(b) = TotalStaked
          /\ \A sp \in ServiceProviders : TotalStakedForAt(sp, b) = TotalStakedFor(sp)
    /\ \A b \in Blocks :
          TotalStakedAt(b) =
              Total([sp \in ServiceProviders |-> TotalStakedForAt(sp, b)], ServiceProviders)
    /\ TotalStakedAt(0) = 0

\* The stake at the funding block of those who have claimed since.
PaidStake ==
    [sp \in ServiceProviders |->
        IF lastClaimed[sp] > fundedBlock THEN TotalStakedForAt(sp, fundedBlock) ELSE 0]

\* What was claimed in the round is at most the part of its funding that the
\* stake of those who claimed had in all stake.
RoundPaid ==
    /\ totalClaimedInRound * TotalStakedAt(fundedBlock)
          <= fundedAmount * Total(PaidStake, ServiceProviders)
    /\ TotalStakedAt(fundedBlock) = 0 => totalClaimedInRound = 0
    /\ fundedBlock = now => totalClaimedInRound = 0

RoundInv ==
    /\ HistoriesAgree
    /\ RoundPaid
    /\ fundedBlock <= now

\* Governance has not raised the funding amount above that of the round that
\* runs: claims are paid out of the one, the round was funded with the other.
FundingNotRaised == fundedBlock # 0 => fundingAmount <= fundedAmount

\* Nothing is minted in the block the round starts in.
NoEarlyClaim == fundedBlock = now => UNCHANGED totalClaimedInRound

\* Nothing is rewritten in the past, whatever a transaction records.
PastKept ==
    \A b \in Blocks : b < now =>
        /\ TotalStakedAt(b)' = TotalStakedAt(b)
        /\ \A sp \in ServiceProviders : TotalStakedForAt(sp, b)' = TotalStakedForAt(sp, b)

\* How a step may touch the histories.
HistoryMoves ==
    \/ UNCHANGED <<stakedHistory, totalStakedHistory>> /\ now' >= now
    \/ UNCHANGED now /\ \E sp \in ServiceProviders, stake, total \in Nat : RecordStake(sp, stake, total)

LEMMA StepHistories == ASSUME Inv, [Next]_vars PROVE HistoryMoves
<1>1. StakingTypeOK /\ ContractsOK
  BY DEF Inv, SystemOK, TypeOK, ContractsOK
<1>2. /\ now \in Nat /\ TotalStaked \in Nat
      /\ \A sp \in ServiceProviders :
            /\ TotalStakedFor(sp) \in Nat
            /\ decreaseRequest[sp].amount \in Nat
            /\ LockedStake(sp) \in Nat
      /\ \A d \in Delegators :
            /\ undelegateRequest[d].amount \in Nat
            /\ \A sp \in ServiceProviders : delegateInfo[d][sp] \in Nat
  BY <1>1, StakeNat, BlockAssumption
     DEF ContractsOK, StakingTypeOK, DelegateTypeOK, ProviderTypeOK, LockedStake
<1>3. ASSUME NEW sp \in ServiceProviders, NEW amount \in Nat, UNCHANGED now,
             IncreaseStakeBalance(sp, amount) \/ DecreaseStakeBalance(sp, amount)
      PROVE  HistoryMoves
  <2>1. CASE IncreaseStakeBalance(sp, amount)
    <3>1. TotalStakedFor(sp) + amount \in Nat /\ TotalStaked + amount \in Nat
      BY <1>2
    <3>2. QED
      BY <1>3, <2>1, <3>1 DEF IncreaseStakeBalance, HistoryMoves
  <2>2. CASE DecreaseStakeBalance(sp, amount)
    <3>1. TotalStakedFor(sp) - amount \in Nat /\ TotalStaked - amount \in Nat
      BY <1>2, <2>2 DEF DecreaseStakeBalance
    <3>2. QED
      BY <1>3, <2>2, <3>1 DEF DecreaseStakeBalance, HistoryMoves
  <2>3. QED
    BY <1>3, <2>1, <2>2
<1>4. CASE UNCHANGED <<now, stakedHistory, totalStakedHistory>>
  BY <1>2, <1>4 DEF HistoryMoves
<1>5. CASE NextBlock
  BY <1>2, <1>5 DEF NextBlock, Tick, HistoryMoves, stakingVars
<1>6. CASE \E s \in Service : ServiceTx(s)
  <2>1. PICK s \in Service : ServiceTx(s)
    BY <1>6
  <2>2. \/ UNCHANGED <<stakedHistory, totalStakedHistory>>
        \/ \E amount \in Nat : IncreaseStakeBalance(s.owner, amount)
    BY <2>1, AmountAssumption
       DEF ServiceTx, Register, DeregisterOne, DeregisterLast, StakeFor, stakingVars
  <2>3. s.owner \in ServiceProviders /\ UNCHANGED now
    BY <2>1 DEF Service, ServiceTx, chainVars
  <2>4. QED
    BY <1>3, <1>4, <2>2, <2>3
<1>7. CASE \E sp \in ServiceProviders : ProviderStakeTx(sp)
  BY <1>2, <1>3, <1>7, AmountAssumption
     DEF ProviderStakeTx, IncreaseStake, DecreaseStake, StakeFor, UnstakeFor, chainVars
<1>8. CASE \E d \in Delegators, sp \in ServiceProviders : DelegateTx(d, sp)
  BY <1>3, <1>8, AmountAssumption DEF DelegateTx, DelegateStake, StakeFor, chainVars
<1>9. CASE \E d \in Delegators, sp \in ServiceProviders : UndelegateTx(d, sp)
  BY <1>2, <1>3, <1>9 DEF UndelegateTx, UndelegateStake, UnstakeFor, chainVars
<1>10. CASE \E d \in Delegators, sp \in ServiceProviders : RemovalTx(sp, d)
  BY <1>2, <1>3, <1>10 DEF RemovalTx, RemoveDelegator, UnstakeFor, chainVars
<1>11. CASE \E sp \in ServiceProviders : SlashTx(sp)
  BY <1>3, <1>11, AmountAssumption DEF SlashTx, Slash, BurnFor, chainVars
<1>12. CASE \E sp \in ServiceProviders : ClaimTx(sp)
  <2>1. PICK sp \in ServiceProviders : ClaimTx(sp)
    BY <1>12
  <2> DEFINE reward == MintedReward(sp, LockedStake(sp), validBounds[sp])
  <2>2. ProcessClaim(sp, LockedStake(sp), validBounds[sp]) /\ UNCHANGED now
    BY <2>1 DEF ClaimTx, ClaimRewards, chainVars
  <2>3. reward \in Nat
    BY <1>1, <1>2, <2>2, RewardNat DEF ProcessClaim, Inv, SystemOK, TypeOK
  <2>4. \/ UNCHANGED <<stakedHistory, totalStakedHistory>>
        \/ IncreaseStakeBalance(sp, reward)
    BY <2>2 DEF ProcessClaim, UpdateClaimHistory, StakeRewards
  <2> HIDE DEF reward
  <2>5. QED
    BY <1>3, <1>4, <2>2, <2>3, <2>4
<1>13. CASE UNCHANGED vars
  BY <1>4, <1>13 DEF vars, chainVars, stakingVars
<1>14. QED
  BY <1>4, <1>5, <1>6, <1>7, <1>8, <1>9, <1>10, <1>11, <1>12, <1>13
     DEF Next, AccountNext, GovernanceTx, InitiateRound, UpdateFundingAmount, TransferTx,
         ProviderRequestTx, RemovalRequestTx, DelegatorRequestTx, chainVars, stakingVars

\* The past is as it was, whatever a step records.
LEMMA PastStays == ASSUME Inv, [Next]_vars PROVE PastKept
<1>1. StakingTypeOK /\ HistoryMoves
  BY StepHistories DEF Inv, SystemOK, TypeOK
<1>2. CASE UNCHANGED <<stakedHistory, totalStakedHistory>>
  BY <1>2 DEF PastKept, TotalStakedAt, TotalStakedForAt
<1>3. CASE \E sp \in ServiceProviders, stake, total \in Nat : RecordStake(sp, stake, total)
  BY <1>1, <1>3
     DEF RecordStake, Checkpoint, TotalStakedAt, TotalStakedForAt, StakingTypeOK, PastKept
<1>4. QED
  BY <1>1, <1>2, <1>3 DEF HistoryMoves

\* The histories agree after every step, and the past is as it was.
LEMMA HistoriesStep ==
    ASSUME BookInv, BookInv', HistoriesAgree, HistoryMoves
    PROVE  HistoriesAgree' /\ PastKept
<1>1. StakingTypeOK /\ StakingTypeOK'
  BY DEF BookInv, Inv, SystemOK, TypeOK
<1>2. now \in 1..MaxBlock /\ now' \in 1..MaxBlock /\ MaxBlock \in Nat
  BY <1>1, BlockAssumption DEF StakingTypeOK
<1>3. CASE UNCHANGED <<stakedHistory, totalStakedHistory>> /\ now' >= now
  <2>1. /\ UNCHANGED <<TotalStaked>>
        /\ \A b \in Blocks : TotalStakedAt(b)' = TotalStakedAt(b)
        /\ \A b \in Blocks, sp \in ServiceProviders :
              TotalStakedForAt(sp, b)' = TotalStakedForAt(sp, b)
        /\ \A sp \in ServiceProviders : TotalStakedFor(sp)' = TotalStakedFor(sp)
    BY <1>3 DEF TotalStaked, TotalStakedAt, TotalStakedFor, TotalStakedForAt
  <2>2. \A b \in Blocks : b >= now' => b >= now
    BY <1>2, <1>3 DEF Blocks
  <2>3. TotalStakedAt(0)' = 0
    BY <1>3 DEF HistoriesAgree, TotalStakedAt
  <2>4. \A b \in Blocks :
           TotalStakedAt(b)' =
              Total([sp \in ServiceProviders |-> TotalStakedForAt(sp, b)'], ServiceProviders)
    BY <1>3 DEF HistoriesAgree, Total, TotalStakedAt, TotalStakedForAt
  <2>5. HistoriesAgree'
    BY <2>1, <2>2, <2>3, <2>4 DEF HistoriesAgree, Total
  <2>6. PastKept
    BY <2>1 DEF PastKept
  <2>7. QED
    BY <2>5, <2>6
<1>4. CASE UNCHANGED now /\ \E sp \in ServiceProviders, stake, total \in Nat : RecordStake(sp, stake, total)
  <2>1. PICK sp \in ServiceProviders, stake \in Nat, total \in Nat : RecordStake(sp, stake, total)
    BY <1>4
  <2>2. /\ \A b \in Blocks : TotalStakedAt(b)' = IF b < now THEN TotalStakedAt(b) ELSE total
        /\ \A b \in Blocks, p \in ServiceProviders :
              TotalStakedForAt(p, b)' =
                  IF p = sp /\ ~(b < now) THEN stake ELSE TotalStakedForAt(p, b)
    BY <1>1, <2>1 DEF RecordStake, Checkpoint, TotalStakedAt, TotalStakedForAt, StakingTypeOK
  <2>3. MaxBlock \in Blocks /\ ~(MaxBlock < now) /\ 0 \in Blocks /\ 0 < now
    BY <1>2 DEF Blocks
  <2>4. /\ TotalStaked' = total
        /\ \A p \in ServiceProviders :
              TotalStakedFor(p)' = IF p = sp THEN stake ELSE TotalStakedFor(p)
    BY <2>2, <2>3 DEF TotalStaked, TotalStakedFor
  <2>5. PastKept
    BY <2>2 DEF PastKept
  <2>6. ASSUME NEW b \in Blocks, b >= now
        PROVE  /\ TotalStakedAt(b)' = TotalStaked'
               /\ \A p \in ServiceProviders : TotalStakedForAt(p, b)' = TotalStakedFor(p)'
    <3>1. ~(b < now)
      BY <1>2, <2>6 DEF Blocks
    <3>2. \A p \in ServiceProviders : TotalStakedForAt(p, b) = TotalStakedFor(p)
      BY <2>6 DEF HistoriesAgree
    <3>3. QED
      BY <2>2, <2>4, <3>1, <3>2
  <2>7. ASSUME NEW b \in Blocks
        PROVE  TotalStakedAt(b)' =
                  Total([p \in ServiceProviders |-> TotalStakedForAt(p, b)'], ServiceProviders)
    <3>1. CASE b < now
      <4>1. TotalStakedAt(b) =
               Total([p \in ServiceProviders |-> TotalStakedForAt(p, b)], ServiceProviders)
        BY DEF HistoriesAgree
      <4>2. [p \in ServiceProviders |-> TotalStakedForAt(p, b)']
               = [p \in ServiceProviders |-> TotalStakedForAt(p, b)]
        BY <2>2, <3>1
      <4>3. QED
        BY <2>2, <3>1, <4>1, <4>2 DEF Total
    <3>2. CASE ~(b < now)
      <4>1. b >= now
        BY <1>2, <3>2 DEF Blocks
      <4>2. [p \in ServiceProviders |-> TotalStakedForAt(p, b)']
               = [p \in ServiceProviders |-> TotalStakedFor(p)']
        BY <2>6, <4>1
      <4>3. TotalStaked' =
               Total([p \in ServiceProviders |-> TotalStakedFor(p)'], ServiceProviders)
        BY DEF BookInv, StakeSums, Total
      <4>4. QED
        BY <2>6, <4>1, <4>2, <4>3
    <3>3. QED
      BY <3>1, <3>2
  <2>8. TotalStakedAt(0)' = 0
    BY <2>2, <2>3 DEF HistoriesAgree
  <2>9. HistoriesAgree'
    BY <1>4, <2>6, <2>7, <2>8 DEF HistoriesAgree, Total
  <2>10. QED
    BY <2>5, <2>9
<1>5. QED
  BY <1>3, <1>4 DEF HistoryMoves

\* A round that nothing was claimed in.
LEMMA RoundUnclaimed ==
    ASSUME StakingTypeOK', ClaimsTypeOK', totalClaimedInRound' = 0
    PROVE  RoundPaid'
<1> DEFINE paid == [sp \in ServiceProviders |->
                       IF lastClaimed'[sp] > fundedBlock' THEN TotalStakedForAt(sp, fundedBlock)'
                                                          ELSE 0]
<1>1. /\ TotalStakedAt(fundedBlock)' \in Nat /\ fundedAmount' \in Nat
      /\ \A sp \in ServiceProviders : paid[sp] \in Nat
  BY DEF StakingTypeOK, ClaimsTypeOK, TotalStakedAt, TotalStakedForAt
<1>2. PaidStake' = paid
  BY DEF PaidStake
<1> HIDE DEF paid
<1>3. SumFunctionOnSet(paid, ServiceProviders) \in Nat
  BY <1>1, DelegateAssumption, SumIsCount
<1>4. fundedAmount' * SumFunctionOnSet(paid, ServiceProviders) \in Nat
  BY <1>1, <1>3, ProductNat
<1>5. 0 * TotalStakedAt(fundedBlock)' = 0
  BY <1>1
<1>6. QED
  BY <1>2, <1>4, <1>5 DEF RoundPaid, Total

\* What is paid, as numbers.
LEMMA PaidNat ==
    ASSUME StakingTypeOK, ClaimsTypeOK, HistoriesAgree
    PROVE  /\ \A sp \in ServiceProviders :
                 /\ PaidStake[sp] \in Nat
                 /\ PaidStake[sp] <= TotalStakedForAt(sp, fundedBlock)
                 /\ TotalStakedForAt(sp, fundedBlock) \in Nat
           /\ Total(PaidStake, ServiceProviders) \in Nat
           /\ TotalStakedAt(fundedBlock) \in Nat
           /\ Total(PaidStake, ServiceProviders) <= TotalStakedAt(fundedBlock)
<1> DEFINE stake == [sp \in ServiceProviders |-> TotalStakedForAt(sp, fundedBlock)]
<1>1. /\ fundedBlock \in Blocks
      /\ TotalStakedAt(fundedBlock) \in Nat
      /\ \A sp \in ServiceProviders :
            /\ PaidStake[sp] \in Nat /\ stake[sp] \in Nat
            /\ PaidStake[sp] <= stake[sp]
            /\ stake[sp] = TotalStakedForAt(sp, fundedBlock)
  BY DEF StakingTypeOK, ClaimsTypeOK, TotalStakedAt, TotalStakedForAt, PaidStake
<1>2. TotalStakedAt(fundedBlock) = Total(stake, ServiceProviders)
  <2>1. ASSUME NEW b \in Blocks
        PROVE  TotalStakedAt(b) =
                  Total([sp \in ServiceProviders |-> TotalStakedForAt(sp, b)], ServiceProviders)
    BY ONLY HistoriesAgree, b \in Blocks, Zenon DEF HistoriesAgree
  <2>2. fundedBlock \in Blocks
    BY <1>1
  <2>3. QED
    BY ONLY <2>1, <2>2, Zenon
<1> HIDE DEF stake
<1>3. SumFunctionOnSet(PaidStake, ServiceProviders) \in Nat
  BY <1>1, DelegateAssumption, SumIsCount
<1>4. SumFunctionOnSet(PaidStake, ServiceProviders) <= SumFunctionOnSet(stake, ServiceProviders)
  BY <1>1, DelegateAssumption, SumMonotone
<1>5. QED
  BY <1>1, <1>2, <1>3, <1>4 DEF Total

\* Steps that leave the round and the claims alone.
LEMMA RoundKept ==
    ASSUME StakingTypeOK, ClaimsTypeOK, RoundPaid, PastKept, fundedBlock < now, now' >= now,
           StakingTypeOK', UNCHANGED <<fundedBlock, fundedAmount, totalClaimedInRound, lastClaimed>>
    PROVE  RoundPaid'
<1>1. /\ fundedBlock \in Blocks /\ now \in Nat /\ now' \in Nat /\ fundedBlock \in Nat
  BY BlockAssumption DEF StakingTypeOK, ClaimsTypeOK, Blocks
<1>2. /\ TotalStakedAt(fundedBlock)' = TotalStakedAt(fundedBlock)
      /\ \A sp \in ServiceProviders :
            TotalStakedForAt(sp, fundedBlock)' = TotalStakedForAt(sp, fundedBlock)
  BY <1>1 DEF PastKept, TotalStakedAt, TotalStakedForAt
<1>3. PaidStake' = PaidStake
  BY <1>2 DEF PaidStake
<1>4. fundedBlock' # now'
  BY <1>1
<1>5. QED
  BY <1>2, <1>3, <1>4 DEF RoundPaid, Total

\* What processClaim mints is at most the proportion of the stake in the round.
LEMMA RewardProportional ==
    ASSUME StakingTypeOK, ClaimsTypeOK, NEW sp \in ServiceProviders, NEW locked \in Nat,
           NEW within, ClaimAllowed(sp, locked)
    PROVE  MintedReward(sp, locked, within) * TotalStakedAt(fundedBlock)
              <= fundingAmount * TotalStakedForAt(sp, fundedBlock)
<1> DEFINE stake == TotalStakedForAt(sp, fundedBlock)
           all   == TotalStakedAt(fundedBlock)
           part  == stake - locked
           share == (part * fundingAmount) \div all
<1>1. /\ stake \in Nat /\ part \in Nat /\ part <= stake
      /\ all \in Nat \ {0} /\ fundingAmount \in Nat
  BY StakeNat DEF ClaimsTypeOK, ClaimAllowed
<1>2. MintedReward(sp, locked, within) \in {0, share}
  BY DEF MintedReward, RoundReward
<1> HIDE DEF stake, all, part
<1>3. part * fundingAmount \in Nat /\ fundingAmount * stake \in Nat
  BY <1>1, ProductNat
<1>4. share \in Nat /\ share * all <= part * fundingAmount
  BY <1>1, <1>3, QuotientNat, QuotientBelow
<1>5. part * fundingAmount <= fundingAmount * stake
  <2>1. part * fundingAmount <= stake * fundingAmount
    BY <1>1, FactorKeeps
  <2>2. QED
    BY <1>1, <2>1
<1> HIDE DEF share
<1>6. share * all <= fundingAmount * stake
  <2>1. share * all \in Nat
    BY <1>1, <1>4, ProductNat
  <2>2. QED
    BY <1>3, <1>4, <1>5, <2>1
<1>7. 0 * all <= fundingAmount * stake
  BY <1>1, <1>3
<1>8. QED
  BY <1>2, <1>6, <1>7 DEF stake, all

\* claimRewards after the funding block.
LEMMA RoundClaimed ==
    ASSUME BookInv, BookInv', RoundInv, FundingNotRaised, PastKept, UNCHANGED now,
           fundedBlock < now, NEW sp \in ServiceProviders, ClaimRewards(sp)
    PROVE  RoundPaid'
<1> DEFINE locked == LockedStake(sp)
           reward == MintedReward(sp, locked, validBounds[sp])
           stake  == TotalStakedForAt(sp, fundedBlock)
           all    == TotalStakedAt(fundedBlock)
           before == Total(PaidStake, ServiceProviders)
           after  == Total(PaidStake', ServiceProviders)
<1>1. StakingTypeOK /\ StakingTypeOK' /\ ClaimsTypeOK /\ ContractsOK
  BY DEF BookInv, Inv, SystemOK, TypeOK, ContractsOK
<1>2. locked \in Nat
  BY <1>1 DEF ContractsOK, DelegateTypeOK, ProviderTypeOK, LockedStake
<1>3. /\ fundedBlock \in Blocks /\ fundedBlock \in Nat /\ now \in Nat /\ now \in Blocks
      /\ fundedAmount \in Nat /\ totalClaimedInRound \in Nat /\ fundingAmount \in Nat
      /\ lastClaimed \in [ServiceProviders -> Blocks]
      /\ \A p \in ServiceProviders : lastClaimed[p] \in Nat
  <2>1. Blocks \subseteq Nat
    BY BlockAssumption DEF Blocks
  <2>2. /\ fundedBlock \in Blocks /\ fundedAmount \in Nat
        /\ totalClaimedInRound \in Nat /\ fundingAmount \in Nat
    BY <1>1 DEF ClaimsTypeOK
  <2>3. lastClaimed \in [ServiceProviders -> Blocks]
    BY <1>1 DEF StakingTypeOK
  <2>4. now \in 1..MaxBlock
    BY <1>1 DEF StakingTypeOK
  <2>5. now \in Blocks
    BY <2>4, BlockAssumption DEF Blocks
  <2>6. QED
    BY <2>1, <2>2, <2>3, <2>5
<1>4. /\ ProcessClaim(sp, locked, validBounds[sp])
      /\ ClaimAllowed(sp, locked)
  BY DEF ClaimRewards, ProcessClaim
<1>5. reward \in Nat
  BY <1>1, <1>2, <1>4, RewardNat
<1>6. reward * all <= fundingAmount * stake
  BY <1>1, <1>2, <1>4, RewardProportional
<1>7. /\ lastClaimed' = [lastClaimed EXCEPT ![sp] = now]
      /\ totalClaimedInRound' = totalClaimedInRound + reward
      /\ UNCHANGED <<fundedBlock, fundedAmount, fundingAmount>>
  <2>1. /\ UNCHANGED <<fundedBlock, fundedAmount, fundingAmount>>
        /\ lastClaimed' = [lastClaimed EXCEPT ![sp] = now]
    BY <1>4 DEF ProcessClaim, UpdateClaimHistory, StakeRewards
  <2>2. CASE reward = 0
    BY <1>3, <1>4, <2>1, <2>2 DEF ProcessClaim
  <2>3. CASE reward # 0
    BY <1>4, <2>1, <2>3 DEF ProcessClaim
  <2>4. QED
    BY <2>2, <2>3
<1>8. /\ all > 0 /\ lastClaimed[sp] <= fundedBlock
  BY <1>4 DEF ClaimAllowed
<1> HIDE DEF reward, locked
<1>9. /\ TotalStakedAt(fundedBlock)' = all
      /\ \A p \in ServiceProviders :
            TotalStakedForAt(p, fundedBlock)' = TotalStakedForAt(p, fundedBlock)
  BY <1>3, <1>7 DEF PastKept, TotalStakedAt, TotalStakedForAt
<1>10. /\ \A p \in ServiceProviders : PaidStake[p] \in Nat
       /\ stake \in Nat /\ all \in Nat /\ before \in Nat
  BY <1>1, PaidNat DEF RoundInv
<1>11. /\ PaidStake[sp] = 0 /\ PaidStake'[sp] = stake
       /\ \A p \in ServiceProviders \ {sp} : PaidStake'[p] = PaidStake[p]
  <2>1. \A p \in ServiceProviders :
           PaidStake'[p] = IF lastClaimed'[p] > fundedBlock
                             THEN TotalStakedForAt(p, fundedBlock) ELSE 0
    BY <1>7, <1>9 DEF PaidStake
  <2>2. ~(lastClaimed[sp] > fundedBlock) /\ lastClaimed'[sp] > fundedBlock
    BY <1>3, <1>7, <1>8
  <2>3. \A p \in ServiceProviders \ {sp} : lastClaimed'[p] = lastClaimed[p]
    BY <1>3, <1>7
  <2>4. QED
    BY <2>1, <2>2, <2>3 DEF PaidStake
<1>12. after = before + stake
  <2> DEFINE f == PaidStake
             g == PaidStake'
  <2>1. /\ \A p \in ServiceProviders : f[p] \in Nat /\ g[p] \in Nat
        /\ \A p \in ServiceProviders \ {sp} : g[p] = f[p]
        /\ f[sp] = 0 /\ g[sp] = stake
    BY <1>10, <1>11
  <2>2. before = SumFunctionOnSet(f, ServiceProviders) /\ after = SumFunctionOnSet(g, ServiceProviders)
    BY DEF Total
  <2> HIDE DEF f, g, before, after, stake
  <2>3. SumFunctionOnSet(g, ServiceProviders) - g[sp]
           = SumFunctionOnSet(f, ServiceProviders) - f[sp]
    BY <2>1, DelegateAssumption, SumChange
  <2>4. SumFunctionOnSet(g, ServiceProviders) \in Nat
    BY <2>1, DelegateAssumption, SumIsCount
  <2>5. QED
    BY <1>10, <2>1, <2>2, <2>3, <2>4
<1> HIDE DEF stake, all, before, after
<1>13. totalClaimedInRound * all <= fundedAmount * before
  BY DEF RoundInv, RoundPaid, all, before
<1>14. fundingAmount <= fundedAmount
  BY <1>8 DEF FundingNotRaised, RoundInv, HistoriesAgree, all
<1>15. (totalClaimedInRound + reward) * all <= fundedAmount * (before + stake)
  <2>1. fundingAmount * stake <= fundedAmount * stake
    BY <1>3, <1>10, <1>14, FactorKeeps
  <2>2. /\ (totalClaimedInRound + reward) * all = totalClaimedInRound * all + reward * all
        /\ fundedAmount * (before + stake) = fundedAmount * before + fundedAmount * stake
    BY <1>3, <1>5, <1>10
  <2>3. /\ totalClaimedInRound * all \in Nat /\ reward * all \in Nat
        /\ fundedAmount * before \in Nat /\ fundedAmount * stake \in Nat
        /\ fundingAmount * stake \in Nat
    BY <1>3, <1>5, <1>10, ProductNat
  <2>4. QED
    BY <1>6, <1>13, <2>1, <2>2, <2>3
<1>16. fundedBlock' # now' /\ TotalStakedAt(fundedBlock)' # 0
  BY <1>3, <1>7, <1>8, <1>9, <1>10
<1>17. QED
  BY <1>7, <1>9, <1>12, <1>15, <1>16 DEF RoundPaid, after

\* How a step may touch the round and the claims.
LEMMA RoundMoves ==
    ASSUME Inv, [Next]_vars
    PROVE  /\ now' >= now
           /\ \/ UNCHANGED <<fundedBlock, fundedAmount, totalClaimedInRound, lastClaimed>>
              \/ InitiateRound
              \/ UNCHANGED now /\ \E sp \in ServiceProviders : ClaimRewards(sp)
<1>1. now \in Nat
  BY BlockAssumption DEF Inv, SystemOK, TypeOK, StakingTypeOK
<1>2. CASE NextBlock
  BY <1>1, <1>2 DEF NextBlock, Tick, claimsVars, stakingVars
<1>3. CASE InitiateRound
  BY <1>1, <1>3 DEF InitiateRound, chainVars
<1>4. CASE \E amount \in FundingAmounts : UpdateFundingAmount(amount)
  BY <1>1, <1>4 DEF UpdateFundingAmount, SetFundingAmount, roundVars, chainVars, stakingVars
<1>5. CASE \E from, to \in Accounts : TransferTx(from, to)
  BY <1>1, <1>5 DEF TransferTx, chainVars, claimsVars
<1>6. CASE \E s \in Service : ServiceTx(s)
  BY <1>1, <1>6
     DEF ServiceTx, Register, DeregisterOne, DeregisterLast, StakeFor, chainVars, claimsVars,
         stakingVars
<1>7. CASE \E sp \in ServiceProviders : ProviderStakeTx(sp)
  BY <1>1, <1>7
     DEF ProviderStakeTx, IncreaseStake, DecreaseStake, StakeFor, UnstakeFor, chainVars, claimsVars
<1>8. CASE \E sp \in ServiceProviders : ProviderRequestTx(sp)
  BY <1>1, <1>8 DEF ProviderRequestTx, chainVars, claimsVars, stakingVars
<1>9. CASE \/ \E sp \in ServiceProviders : RemovalRequestTx(sp)
           \/ \E d \in Delegators : DelegatorRequestTx(d)
  BY <1>1, <1>9 DEF RemovalRequestTx, DelegatorRequestTx, chainVars, claimsVars, stakingVars
<1>10. CASE \E d \in Delegators, sp \in ServiceProviders : DelegateTx(d, sp)
  BY <1>1, <1>10 DEF DelegateTx, DelegateStake, StakeFor, chainVars, claimsVars
<1>11. CASE \E d \in Delegators, sp \in ServiceProviders : UndelegateTx(d, sp)
  BY <1>1, <1>11 DEF UndelegateTx, UndelegateStake, UnstakeFor, chainVars, claimsVars
<1>12. CASE \E d \in Delegators, sp \in ServiceProviders : RemovalTx(sp, d)
  BY <1>1, <1>12 DEF RemovalTx, RemoveDelegator, UnstakeFor, chainVars, claimsVars
<1>13. CASE \E sp \in ServiceProviders : SlashTx(sp)
  BY <1>1, <1>13 DEF SlashTx, Slash, BurnFor, chainVars, claimsVars
<1>14. CASE \E sp \in ServiceProviders : ClaimTx(sp)
  BY <1>1, <1>14 DEF ClaimTx, chainVars
<1>15. CASE UNCHANGED vars
  BY <1>1, <1>15 DEF vars, chainVars, claimsVars, stakingVars
<1>16. QED
  BY <1>2, <1>3, <1>4, <1>5, <1>6, <1>7, <1>8, <1>9, <1>10, <1>11, <1>12, <1>13, <1>14, <1>15
     DEF Next, AccountNext, GovernanceTx

LEMMA RoundStep ==
    ASSUME BookInv, BookInv', RoundInv, FundingNotRaised, [Next]_vars, [NoEarlyClaim]_vars
    PROVE  RoundInv'
<1>1. /\ Inv /\ StakingTypeOK /\ StakingTypeOK' /\ ClaimsTypeOK /\ ClaimsTypeOK'
  BY DEF BookInv, Inv, SystemOK, TypeOK
<1>2. HistoriesAgree' /\ PastKept
  BY <1>1, StepHistories, HistoriesStep DEF RoundInv
<1>3. /\ now \in Nat /\ now' \in Nat /\ fundedBlock \in Nat /\ fundedBlock <= now
  BY <1>1, BlockAssumption DEF StakingTypeOK, ClaimsTypeOK, Blocks, RoundInv
<1>4. now' >= now
  BY <1>1, RoundMoves
<1>5. fundedBlock = now => UNCHANGED totalClaimedInRound
  BY DEF NoEarlyClaim, vars, claimsVars
<1>6. fundedBlock = now => totalClaimedInRound = 0
  BY DEF RoundInv, RoundPaid
<1>7. CASE fundedBlock = now
  <2>1. CASE InitiateRound
    <3>1. totalClaimedInRound' = 0 /\ fundedBlock' <= now'
      BY <1>3, <2>1 DEF InitiateRound, StartRound, chainVars
    <3>2. QED
      BY <1>1, <1>2, <3>1, RoundUnclaimed DEF RoundInv
  <2>2. CASE ~InitiateRound
    <3>1. UNCHANGED fundedBlock
      BY <1>1, <2>2, RoundMoves DEF ClaimRewards, ProcessClaim
    <3>2. totalClaimedInRound' = 0 /\ fundedBlock' <= now'
      BY <1>3, <1>4, <1>5, <1>6, <1>7, <3>1
    <3>3. QED
      BY <1>1, <1>2, <3>2, RoundUnclaimed DEF RoundInv
  <2>3. QED
    BY <2>1, <2>2
<1>8. CASE fundedBlock < now
  <2>1. CASE InitiateRound
    <3>1. totalClaimedInRound' = 0 /\ fundedBlock' <= now'
      BY <1>3, <2>1 DEF InitiateRound, StartRound, chainVars
    <3>2. QED
      BY <1>1, <1>2, <3>1, RoundUnclaimed DEF RoundInv
  <2>2. CASE UNCHANGED <<fundedBlock, fundedAmount, totalClaimedInRound, lastClaimed>>
    <3>1. RoundPaid'
      BY <1>1, <1>2, <1>4, <1>8, <2>2, RoundKept DEF RoundInv
    <3>2. fundedBlock' <= now'
      BY <1>3, <1>4, <2>2
    <3>3. QED
      BY <1>2, <3>1, <3>2 DEF RoundInv
  <2>3. CASE UNCHANGED now /\ \E sp \in ServiceProviders : ClaimRewards(sp)
    <3>1. PICK sp \in ServiceProviders : ClaimRewards(sp)
      BY <2>3
    <3>2. RoundPaid'
      BY <1>2, <1>8, <2>3, <3>1, RoundClaimed
    <3>3. UNCHANGED fundedBlock
      BY <3>1 DEF ClaimRewards, ProcessClaim
    <3>4. fundedBlock' <= now'
      BY <1>3, <1>4, <3>3
    <3>5. QED
      BY <1>2, <3>2, <3>4 DEF RoundInv
  <2>4. QED
    BY <1>1, <2>1, <2>2, <2>3, RoundMoves
<1>9. QED
  BY <1>3, <1>7, <1>8

LEMMA RoundInitially == ASSUME Init, BookInv PROVE RoundInv
<1>1. /\ now = 1 /\ fundedBlock = 0 /\ fundedAmount = 0 /\ totalClaimedInRound = 0
      /\ stakedHistory = [sp \in ServiceProviders |-> [b \in Blocks |-> 0]]
      /\ totalStakedHistory = [b \in Blocks |-> 0]
  BY DEF Init, StakingInit, ClaimsInit
<1>2. StakingTypeOK /\ ClaimsTypeOK
  BY DEF BookInv, Inv, SystemOK, TypeOK
<1>3. 0 \in Blocks /\ MaxBlock \in Blocks
  BY BlockAssumption DEF Blocks
<1>4. /\ \A b \in Blocks : TotalStakedAt(b) = 0
      /\ \A b \in Blocks, sp \in ServiceProviders : TotalStakedForAt(sp, b) = 0
      /\ TotalStaked = 0 /\ \A sp \in ServiceProviders : TotalStakedFor(sp) = 0
  BY <1>1, <1>3 DEF TotalStakedAt, TotalStakedForAt, TotalStaked, TotalStakedFor
<1>5. ASSUME NEW b \in Blocks
      PROVE  TotalStakedAt(b) =
                Total([sp \in ServiceProviders |-> TotalStakedForAt(sp, b)], ServiceProviders)
  <2>1. [sp \in ServiceProviders |-> TotalStakedForAt(sp, b)]
           = [sp \in ServiceProviders |-> TotalStakedFor(sp)]
    BY <1>4
  <2>2. TotalStaked = Total([sp \in ServiceProviders |-> TotalStakedFor(sp)], ServiceProviders)
    BY DEF BookInv, StakeSums, Total
  <2>3. QED
    BY <1>4, <2>1, <2>2
<1>6. HistoriesAgree
  <2>1. \A b \in Blocks : b >= now =>
           /\ TotalStakedAt(b) = TotalStaked
           /\ \A sp \in ServiceProviders : TotalStakedForAt(sp, b) = TotalStakedFor(sp)
    BY <1>4
  <2>2. TotalStakedAt(0) = 0
    BY <1>3, <1>4
  <2>3. QED
    BY ONLY <1>5, <2>1, <2>2, Zenon DEF HistoriesAgree
<1>7. Total(PaidStake, ServiceProviders) \in Nat /\ TotalStakedAt(fundedBlock) \in Nat
  BY <1>2, <1>6, PaidNat
<1>8. RoundPaid
  BY <1>1, <1>7 DEF RoundPaid
<1>9. QED
  BY <1>1, <1>6, <1>8 DEF RoundInv

LEMMA RoundWithin == ASSUME BookInv, RoundInv PROVE RoundWithinFunding
<1> DEFINE all  == TotalStakedAt(fundedBlock)
           paid == Total(PaidStake, ServiceProviders)
<1>1. StakingTypeOK /\ ClaimsTypeOK
  BY DEF BookInv, Inv, SystemOK, TypeOK
<1>2. /\ all \in Nat /\ paid \in Nat /\ paid <= all
  BY <1>1, PaidNat DEF RoundInv
<1>3. totalClaimedInRound \in Nat /\ fundedAmount \in Nat
  BY <1>1 DEF ClaimsTypeOK
<1>4. totalClaimedInRound * all <= fundedAmount * paid /\ (all = 0 => totalClaimedInRound = 0)
  BY DEF RoundInv, RoundPaid
<1> HIDE DEF all, paid
<1>5. fundedAmount * paid <= fundedAmount * all
  <2>1. paid * fundedAmount <= all * fundedAmount
    BY <1>2, <1>3, FactorKeeps
  <2>2. QED
    BY <1>2, <1>3, <2>1
<1>6. totalClaimedInRound * all <= fundedAmount * all
  <2>1. /\ totalClaimedInRound * all \in Nat /\ fundedAmount * paid \in Nat
        /\ fundedAmount * all \in Nat
    BY <1>2, <1>3, ProductNat
  <2>2. QED
    BY <1>4, <1>5, <2>1
<1>7. CASE all = 0
  BY <1>3, <1>4, <1>7 DEF RoundWithinFunding
<1>8. CASE all # 0
  BY <1>2, <1>3, <1>6, <1>8, FactorCancels DEF RoundWithinFunding
<1>9. QED
  BY <1>7, <1>8

\* A round mints no more than was funded for it, however the stakes move
\* between its start and the claims, as long as governance does not raise the
\* funding amount during a round and no claim is made in the block the round
\* started in: such a claim does not count as one of the round, and the
\* provider may claim again.
THEOREM RoundsWithinFunding ==
    Spec /\ []FundingNotRaised /\ [][NoEarlyClaim]_vars => []RoundWithinFunding
<1>1. Spec => []BookInv
  BY BooksInvariant
<1>2. Init /\ BookInv => RoundInv
  BY RoundInitially
<1>3. BookInv /\ BookInv' /\ RoundInv /\ FundingNotRaised /\ [Next]_vars /\ [NoEarlyClaim]_vars
         => RoundInv'
  BY RoundStep
<1>4. BookInv /\ RoundInv => RoundWithinFunding
  BY RoundWithin
<1>5. QED
  BY <1>1, <1>2, <1>3, <1>4, PTL DEF Spec
=============================================================================
