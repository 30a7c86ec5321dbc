----------------------- MODULE ServiceProviderFactory -----------------------
(***************************************************************************)
(* The ServiceProviderFactory contract                                     *)
(* (eth-contracts/contracts/ServiceProviderFactory.sol): the direct stake  *)
(* of every service provider, the bounds its services set on its stake,    *)
(* and the two operations that wait for a lockup (decrease of the stake,   *)
(* change of the deployer cut).                                            *)
(*                                                                         *)
(* The maps between endpoints, ids and owners are abstracted to the set of *)
(* registered services, and an endpoint keeps the name it is registered    *)
(* with.  The service types and their bounds are those of the              *)
(* ServiceTypeManager, which never changes the bounds of a type once it is *)
(* added.                                                                  *)
(***************************************************************************)
EXTENDS ClaimsManager

CONSTANTS
    ServiceTypes,         \* the valid service types
    TypeMin, TypeMax,     \* minStake and maxStake of every type
    Endpoints,            \* names an endpoint may have
    DeployerCutBase,      \* DEPLOYER_CUT_BASE
    Cuts,                 \* deployer cuts a provider asks for
    DecreaseStakeLockup,  \* decreaseStakeLockupDuration
    DeployerCutLockup     \* deployerCutLockupDuration

ASSUME ProviderAssumption ==
    /\ TypeMin \in [ServiceTypes -> Nat]
    /\ TypeMax \in [ServiceTypes -> Nat]
    /\ \A t \in ServiceTypes : TypeMin[t] < TypeMax[t]
    /\ DeployerCutBase \in Nat \ {0}
    /\ Cuts \subseteq Nat
    /\ DecreaseStakeLockup \in Nat \ {0}
    /\ DeployerCutLockup \in Nat \ {0}

VARIABLES
    deployerStake,      \* spDetails[sp].deployerStake
    validBounds,        \* spDetails[sp].validBounds
    services,           \* serviceProviderInfo: the registered services
    numberOfEndpoints,  \* spDetails[sp].numberOfEndpoints
    minAccountStake,    \* spDetails[sp].minAccountStake
    maxAccountStake,    \* spDetails[sp].maxAccountStake
    decreaseRequest,    \* decreaseStakeRequests[sp]
    deployerCut,        \* spDetails[sp].deployerCut
    cutRequest          \* updateDeployerCutRequests[sp]

serviceVars  == <<services, numberOfEndpoints, minAccountStake, maxAccountStake>>
cutVars      == <<deployerCut, cutRequest>>
providerVars == <<deployerStake, validBounds, services, numberOfEndpoints,
                  minAccountStake, maxAccountStake, decreaseRequest,
                  deployerCut, cutRequest>>

-----------------------------------------------------------------------------
NoDecrease == [amount |-> 0, expiry |-> 0]
NoCut      == [cut |-> 0, expiry |-> 0]

ClaimPending(sp) == ClaimPendingFor(sp, numberOfEndpoints[sp])

DecreaseIsPending(sp) ==
    decreaseRequest[sp].expiry > 0 /\ decreaseRequest[sp].amount > 0

\* _validateBalanceInternal: the maximum bounds all stake of the provider,
\* the minimum its direct stake.
BalanceIsValid(sp, amount) ==
    /\ amount <= maxAccountStake[sp]
    /\ deployerStake[sp] >= minAccountStake[sp]

\* validateAccountStakeBalance.
AccountStakeIsValid(sp) == BalanceIsValid(sp, TotalStakedFor(sp))

\* What _updateServiceProviderBoundStatus computes.
TotalWithinBounds(sp) ==
    /\ minAccountStake[sp] <= TotalStakedFor(sp)
    /\ TotalStakedFor(sp) <= maxAccountStake[sp]

\* Variant of ConfirmBounds: the flag is left as it was.
KeepBoundsFlag(sp) == UNCHANGED validBounds

\* The calls after which the provider is known to be within bounds.
ConfirmBounds(sp) == validBounds' = [validBounds EXCEPT ![sp] = TRUE]

-----------------------------------------------------------------------------
(* Services.                                                               *)

Service == [owner : ServiceProviders, type : ServiceTypes, endpoint : Endpoints]

ServicesOf(sp) == {s \in services : s.owner = sp}

AddService(s) ==
    /\ \A other \in services : other.endpoint # s.endpoint
    /\ services' = services \cup {s}
    /\ numberOfEndpoints' = [numberOfEndpoints EXCEPT ![s.owner] = @ + 1]
    /\ minAccountStake' = [minAccountStake EXCEPT ![s.owner] = @ + TypeMin[s.type]]
    /\ maxAccountStake' = [maxAccountStake EXCEPT ![s.owner] = @ + TypeMax[s.type]]

RemoveService(s) ==
    /\ s \in services
    /\ TypeMin[s.type] <= minAccountStake[s.owner]
    /\ TypeMax[s.type] <= maxAccountStake[s.owner]
    /\ services' = services \ {s}
    /\ numberOfEndpoints' = [numberOfEndpoints EXCEPT ![s.owner] = @ - 1]
    /\ minAccountStake' = [minAccountStake EXCEPT ![s.owner] = @ - TypeMin[s.type]]
    /\ maxAccountStake' = [maxAccountStake EXCEPT ![s.owner] = @ - TypeMax[s.type]]

\* register: a new service of its owner, with amount more direct stake.  The
\* claim is checked before the service counts, and only if there is stake.
Register(s, amount) ==
    LET sp == s.owner
    IN  /\ AddService(s)
        /\ \/ /\ amount = 0
              /\ UNCHANGED stakingVars
           \/ /\ ~ClaimPending(sp)
              /\ StakeFor(sp, sp, amount)
        /\ deployerStake' = [deployerStake EXCEPT ![sp] = @ + amount]
        /\ AccountStakeIsValid(sp)'
        /\ ConfirmBounds(sp)
        /\ UNCHANGED <<decreaseRequest, cutVars>>

\* deregister of one of several services.
DeregisterOne(s) ==
    /\ numberOfEndpoints[s.owner] # 1
    /\ RemoveService(s)
    /\ UNCHANGED <<deployerStake, stakingVars>>
    /\ AccountStakeIsValid(s.owner)'
    /\ ConfirmBounds(s.owner)
    /\ UNCHANGED <<decreaseRequest, cutVars>>

\* deregister of the last service: the whole direct stake is to be
\* withdrawn, whatever was requested before.
DeregisterLast(s) ==
    /\ numberOfEndpoints[s.owner] = 1
    /\ RemoveService(s)
    /\ decreaseRequest' = [decreaseRequest EXCEPT ![s.owner] =
                              [amount |-> deployerStake[s.owner],
                               expiry |-> now + DecreaseStakeLockup]]
    /\ UNCHANGED <<deployerStake, validBounds, cutVars, stakingVars>>

-----------------------------------------------------------------------------
(* Direct stake.                                                           *)

\* increaseStake.
IncreaseStake(sp, amount) ==
    /\ numberOfEndpoints[sp] > 0
    /\ ~ClaimPending(sp)
    /\ StakeFor(sp, sp, amount)
    /\ deployerStake' = [deployerStake EXCEPT ![sp] = @ + amount]
    /\ UNCHANGED serviceVars
    /\ AccountStakeIsValid(sp)'
    /\ ConfirmBounds(sp)
    /\ UNCHANGED <<decreaseRequest, cutVars>>

\* requestDecreaseStake: replaces a pending request.
RequestDecreaseStake(sp, amount) ==
    /\ amount > 0
    /\ ~ClaimPending(sp)
    /\ amount <= TotalStakedFor(sp)
    /\ BalanceIsValid(sp, TotalStakedFor(sp) - amount)
    /\ decreaseRequest' = [decreaseRequest EXCEPT ![sp] =
                              [amount |-> amount,
                               expiry |-> now + DecreaseStakeLockup]]
    /\ UNCHANGED <<deployerStake, validBounds, serviceVars, cutVars>>

\* cancelDecreaseStakeRequest, called by the provider.
CancelDecreaseStakeRequest(sp) ==
    /\ DecreaseIsPending(sp)
    /\ decreaseRequest' = [decreaseRequest EXCEPT ![sp] = NoDecrease]
    /\ UNCHANGED <<deployerStake, validBounds, serviceVars, cutVars>>

\* decreaseStake: once the lockup has expired, whether or not a claim is
\* pending.  A provider without endpoints has no bounds to meet.
DecreaseStake(sp) ==
    LET amount == decreaseRequest[sp].amount
    IN  /\ DecreaseIsPending(sp)
        /\ decreaseRequest[sp].expiry <= now
        /\ UnstakeFor(sp, sp, amount)
        /\ amount <= deployerStake[sp]
        /\ deployerStake' = [deployerStake EXCEPT ![sp] = @ - amount]
        /\ UNCHANGED serviceVars
        /\ numberOfEndpoints[sp] > 0 => AccountStakeIsValid(sp)'
        /\ ConfirmBounds(sp)
        /\ decreaseRequest' = [decreaseRequest EXCEPT ![sp] = NoDecrease]
        /\ UNCHANGED cutVars

\* Variant of UpdateServiceProviderStake: the direct stake is not written.
RefreshBoundsOnly(sp, stake) ==
    /\ UNCHANGED <<deployerStake, serviceVars, cutVars>>
    /\ validBounds' = [validBounds EXCEPT ![sp] = TotalWithinBounds(sp)']

\* Variant of UpdateServiceProviderStake: the bounds are not checked again.
UpdateStakeOnly(sp, stake) ==
    /\ deployerStake' = [deployerStake EXCEPT ![sp] = stake]
    /\ UNCHANGED <<validBounds, serviceVars, cutVars>>

\* updateServiceProviderStake, called by the DelegateManager with the new
\* direct stake after the Staking contract has changed.
UpdateServiceProviderStake(sp, stake) ==
    /\ deployerStake' = [deployerStake EXCEPT ![sp] = stake]
    /\ UNCHANGED <<serviceVars, cutVars>>
    /\ validBounds' = [validBounds EXCEPT ![sp] = TotalWithinBounds(sp)']

-----------------------------------------------------------------------------
(* Deployer cut.                                                           *)

\* Variant of RequestUpdateDeployerCut: any cut is accepted.
RequestAnyDeployerCut(sp, cut) ==
    /\ cutRequest[sp] = NoCut
    /\ cutRequest' = [cutRequest EXCEPT ![sp] =
                         [cut |-> cut, expiry |-> now + DeployerCutLockup]]
    /\ UNCHANGED <<deployerStake, validBounds, serviceVars, decreaseRequest,
                   deployerCut>>

\* requestUpdateDeployerCut.
RequestUpdateDeployerCut(sp, cut) ==
    /\ cutRequest[sp] = NoCut
    /\ cut <= DeployerCutBase
    /\ cutRequest' = [cutRequest EXCEPT ![sp] =
                         [cut |-> cut, expiry |-> now + DeployerCutLockup]]
    /\ UNCHANGED <<deployerStake, validBounds, serviceVars, decreaseRequest,
                   deployerCut>>

\* cancelUpdateDeployerCut.
CancelUpdateDeployerCut(sp) ==
    /\ cutRequest[sp].expiry # 0
    /\ cutRequest' = [cutRequest EXCEPT ![sp] = NoCut]
    /\ UNCHANGED <<deployerStake, validBounds, serviceVars, decreaseRequest,
                   deployerCut>>

\* updateDeployerCut.
UpdateDeployerCut(sp) ==
    /\ cutRequest[sp].expiry # 0
    /\ cutRequest[sp].expiry <= now
    /\ deployerCut' = [deployerCut EXCEPT ![sp] = cutRequest[sp].cut]
    /\ cutRequest' = [cutRequest EXCEPT ![sp] = NoCut]
    /\ UNCHANGED <<deployerStake, validBounds, serviceVars, decreaseRequest>>

-----------------------------------------------------------------------------
ProviderInit ==
    /\ deployerStake = [sp \in ServiceProviders |-> 0]
    /\ validBounds = [sp \in ServiceProviders |-> FALSE]
    /\ services = {}
    /\ numberOfEndpoints = [sp \in ServiceProviders |-> 0]
    /\ minAccountStake = [sp \in ServiceProviders |-> 0]
    /\ maxAccountStake = [sp \in ServiceProviders |-> 0]
    /\ decreaseRequest = [sp \in ServiceProviders |-> NoDecrease]
    /\ deployerCut = [sp \in ServiceProviders |-> 0]
    /\ cutRequest = [sp \in ServiceProviders |-> NoCut]

ProviderTypeOK ==
    /\ deployerStake \in [ServiceProviders -> Nat]
    /\ validBounds \in [ServiceProviders -> BOOLEAN]
    /\ services \subseteq Service
    /\ numberOfEndpoints \in [ServiceProviders -> Nat]
    /\ minAccountStake \in [ServiceProviders -> Nat]
    /\ maxAccountStake \in [ServiceProviders -> Nat]
    /\ decreaseRequest \in [ServiceProviders -> [amount : Nat, expiry : Nat]]
    /\ deployerCut \in [ServiceProviders -> 0..DeployerCutBase]
    /\ cutRequest \in [ServiceProviders -> [cut : 0..DeployerCutBase, expiry : Nat]]
=============================================================================
