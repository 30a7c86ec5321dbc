--------------------------- MODULE RewardsAttester ---------------------------
(***************************************************************************)
(* The loop that attests completed rewards (libs rewardsAttester.ts).  It  *)
(* fetches a page of the undisbursed rewards that a discovery node lists   *)
(* after startingBlock, works through the page in batches, and moves its   *)
(* position (startingBlock and offset, saved by a callback) past rewards   *)
(* that stay in the list for ever.  The list is in the order of the block  *)
(* (for Solana challenges the slot) of completion, the user and the        *)
(* challenge, in which rewards may tie.                                    *)
(***************************************************************************)
EXTENDS Integers, Sequences, FiniteSets

CONSTANTS Rewards,
          Block,         \* completed_blocknumber
          Place,         \* place by block, user and challenge; ties are in any order
          Solana,        \* rewards of Solana challenges, whose slots are higher than blocks
          Denied,        \* rewards that challengeIdsDenyList refuses
          Claimable,     \* rewards that others may get disbursed too
          Hideable,      \* rewards whose user or challenge may be deactivated
          Overrides,     \* blocks that the starting block may be set to by hand
          BatchSize,     \* parallelization
          MaxRetries,
          PageLimit,     \* DEFAULT_LIMIT of the discovery node
          CacheSize,     \* MAX_DISBURSED_CACHE_SIZE
          MaxFaults      \* bound: throws, failing saves, restarts, overrides, late or hidden rewards

ASSUME AttesterAssumption ==
    /\ IsFiniteSet(Rewards)
    /\ Block \in [Rewards -> Nat \ {0}] /\ Place \in [Rewards -> Nat]
    /\ \A q, r \in Rewards : Block[q] < Block[r] => Place[q] < Place[r]
    /\ Solana \subseteq Rewards
    /\ \A q \in Rewards \ Solana, r \in Solana : Block[q] < Block[r]
    /\ Denied \subseteq Rewards /\ Claimable \subseteq Rewards /\ Hideable \subseteq Rewards
    /\ Overrides \subseteq Nat
    /\ {BatchSize, MaxRetries, PageLimit} \subseteq Nat \ {0}
    /\ {CacheSize, MaxFaults} \subseteq Nat

VARIABLES
    known,      \* rewards that are completed at the discovery node
    hidden,     \* those that are not listed, as their user or challenge is not active
    disbursed,  \* rewards disbursed on Solana
    flushed,    \* those that the discovery node has indexed
    threshold,  \* [poa, solana]: what was completed later is not yet attested
    position,   \* [start, offset]: startingBlock and offset
    saved,      \* the position last saved by updateValues
    queue,      \* undisbursedQueue
    recent,     \* recentlyDisbursedQueue
    pc,         \* where the loop is
    batch,      \* toAttest
    needs,      \* needsAttestation
    failed,     \* the noRetry of all attempts
    retryCount,
    faults,
    settled,    \* history: rewards that have succeeded or failed attestation
    basis,      \* history of the position: [counted, excused, marred]
    savedBasis  \* that of the saved one

position0 == [start |-> 0, offset |-> 0]

(* What a position rests on: the failures that its offset counts, the rewards it may *)
(* have passed for reasons outside of the loop, and what has gone wrong on its way.   *)
basis0 == [counted |-> {}, excused |-> {}, marred |-> {}]

node == <<known, hidden, disbursed, flushed>>
local == <<queue, recent, batch, needs, failed, retryCount>>
bases == <<basis, savedBasis>>
vars == <<node, threshold, position, saved, local, pc, faults, settled, bases>>

AttesterInit ==
    /\ known = {} /\ hidden = {} /\ disbursed = {} /\ flushed = {}
    /\ threshold = [poa |-> 0, solana |-> 0]
    /\ position = position0 /\ saved = position0
    /\ queue = {} /\ recent = <<>> /\ pc = "loop"
    /\ batch = {} /\ needs = {} /\ failed = {} /\ retryCount = 0
    /\ faults = 0 /\ settled = {}
    /\ basis = basis0 /\ savedBasis = basis0

Fault == faults < MaxFaults /\ faults' = faults + 1
Excuse(r) == /\ basis' = [basis EXCEPT !.excused = @ \cup {r}]
             /\ savedBasis' = [savedBasis EXCEPT !.excused = @ \cup {r}]
Mar(b, marks) == [b EXCEPT !.marred = @ \cup marks]
Gone(r, b) == IF r \in b.counted THEN Mar(b, {"gone"}) ELSE b
Leaves(r) == basis' = Gone(r, basis) /\ savedBasis' = Gone(r, savedBasis)

-----------------------------------------------------------------------------
(* The discovery node and the chains.                                      *)

(* _filterRecentlyCompleted: what is runBehindSec old. *)
Ripe(r) == Block[r] <= (IF r \in Solana THEN threshold.solana ELSE threshold.poa)

Ripen ==
    /\ \E r \in Rewards : /\ ~Ripe(r)
                         /\ threshold' = IF r \in Solana THEN [threshold EXCEPT !.solana = Block[r]]
                                         ELSE [threshold EXCEPT !.poa = Block[r]]
    /\ UNCHANGED <<node, position, saved, local, pc, faults, settled, bases>>

(* The event of a challenge is processed, as a rule before it is runBehindSec old. *)
Complete(r) ==
    /\ r \notin known
    /\ known' = known \cup {r}
    /\ IF Ripe(r) THEN Fault /\ Excuse(r) ELSE UNCHANGED <<faults, bases>>
    /\ UNCHANGED <<hidden, disbursed, flushed, threshold, position, saved, local, pc, settled>>

(* The user claims it, or an attempt that was reported as failed lands. *)
DisburseElsewhere(r) ==
    /\ r \in (known \cap Claimable) \ disbursed
    /\ disbursed' = disbursed \cup {r}
    /\ UNCHANGED <<known, hidden, flushed, threshold, position, saved, local, pc, faults, settled, bases>>

(* The disbursement is indexed. *)
Flush(r) ==
    /\ r \in disbursed \ flushed
    /\ flushed' = flushed \cup {r}
    /\ Leaves(r)
    /\ UNCHANGED <<known, hidden, disbursed, threshold, position, saved, local, pc, faults, settled>>

(* The filters on active challenges and on deactivated users. *)
Listed == known \ (flushed \cup hidden)

Hide(r) ==
    /\ r \in Hideable \cap Listed /\ Fault
    /\ hidden' = hidden \cup {r}
    /\ basis' = [Gone(r, basis) EXCEPT !.excused = @ \cup {r}]
    /\ savedBasis' = [Gone(r, savedBasis) EXCEPT !.excused = @ \cup {r}]
    /\ UNCHANGED <<known, disbursed, flushed, threshold, position, saved, local, pc, settled>>

Show(r) ==
    /\ r \in hidden
    /\ hidden' = hidden \ {r}
    /\ UNCHANGED <<known, disbursed, flushed, threshold, position, saved, local, pc, faults, settled, bases>>

(* The first n of a set in the order of the list, whichever of those that tie. *)
Firsts(n, S) ==
    {T \in SUBSET S : /\ Cardinality(T) = IF n < Cardinality(S) THEN n ELSE Cardinality(S)
                      /\ \A t \in T, s \in S \ T : Place[t] <= Place[s]}

(* get_undisbursed_challenges, with its offset and limit. *)
After(start) == {r \in Listed : Block[r] > start}
Pages(p) ==
    UNION {Firsts(PageLimit, After(p.start) \ skipped) : skipped \in Firsts(p.offset, After(p.start))}

-----------------------------------------------------------------------------
(* The loop.                                                               *)

Elements(s) == {s[i] : i \in DOMAIN s}

(* _checkForStartingBlockOverride. *)
Override(block) ==
    /\ pc = "loop" /\ Fault
    /\ position' = [start |-> block, offset |-> 0]
    /\ queue' = {} /\ recent' = <<>>
    /\ basis' = [basis0 EXCEPT !.excused = hidden \cup {r \in Rewards : Block[r] <= block}]
    /\ UNCHANGED <<node, threshold, saved, pc, batch, needs, failed, retryCount, settled, savedBasis>>

Allowed(page) == page \ (Denied \cup Elements(recent))

(* _refillQueueIfNecessary. *)
Refill ==
    /\ pc = "loop" /\ queue = {}
    /\ \E page \in Pages(position) : queue' = {r \in Allowed(page) : Ripe(r)}
    /\ queue' # {}
    /\ pc' = "filled"
    /\ UNCHANGED <<node, threshold, position, saved, recent, batch, needs, failed, retryCount,
                   faults, settled, bases>>

(* The thresholds cannot be had, when the queue has been set already. *)
RefillThrows ==
    /\ pc = "loop" /\ queue = {} /\ Fault
    /\ \E page \in Pages(position) : queue' = Allowed(page)
    /\ queue' # {}
    /\ basis' = IF \A r \in queue' : Ripe(r) THEN basis ELSE Mar(basis, {"early"})
    /\ UNCHANGED <<node, threshold, position, saved, recent, pc, batch, needs, failed, retryCount,
                   settled, savedBasis>>

(* The next rewards of the queue are spliced off and attested. *)
Take ==
    /\ pc \in {"loop", "filled"} /\ queue # {}
    /\ batch' \in Firsts(BatchSize, queue)
    /\ queue' = queue \ batch'
    /\ needs' = batch' /\ failed' = {} /\ retryCount' = 0
    /\ pc' = "attesting"
    /\ UNCHANGED <<node, threshold, position, saved, recent, faults, settled, bases>>

Results(r) == {"rejected", "error"} \cup (IF r \in disbursed THEN {"already"} ELSE {"success"})

(* _processResponses: rejections, and on the final attempt all other errors. *)
NoRetry(result) ==
    {r \in needs : \/ result[r] = "rejected"
                   \/ result[r] = "error" /\ retryCount = MaxRetries - 1}
NeedsRetry(result) == {r \in needs : result[r] = "error" /\ retryCount # MaxRetries - 1}

(* One attempt for all of the batch that need it. *)
Attest ==
    /\ pc = "attesting" /\ needs # {}
    /\ \E result \in [needs -> {"success", "already", "rejected", "error"}] :
        /\ \A r \in needs : result[r] \in Results(r)
        /\ disbursed' = disbursed \cup {r \in needs : result[r] = "success"}
        /\ failed' = failed \cup NoRetry(result)
        /\ needs' = NeedsRetry(result)
    /\ settled' = settled \cup (needs \ needs')
    /\ retryCount' = retryCount + 1
    /\ UNCHANGED <<known, hidden, flushed, threshold, position, saved, queue, recent, batch, pc,
                   faults, bases>>

(* The rewards of a set in the order of the list. *)
Orders(S) ==
    {s \in [1..Cardinality(S) -> S] :
        \A i, j \in DOMAIN s : i < j => s[i] # s[j] /\ Place[s[i]] <= Place[s[j]]}

(* The queue of recent rewards keeps the last CacheSize. *)
Trim(s) == IF Len(s) <= CacheSize THEN s ELSE SubSeq(s, Len(s) - CacheSize + 1, Len(s))

(* The highest block of the batch, Solana challenges aside, or 0. *)
HighestBlock ==
    LET blocks == {Block[r] : r \in batch \ Solana}
    IN IF blocks = {} THEN 0 ELSE CHOOSE b \in blocks : \A c \in blocks : c <= b

(* Variant of Counted: failures are not counted. *)
NothingCounted == {}

Counted == {r \in failed : Block[r] = HighestBlock}

(* Variant of NewPosition: the offset is always added to. *)
AddedPosition ==
    [start |-> IF HighestBlock # 0 THEN HighestBlock - 1 ELSE position.start,
     offset |-> position.offset + Cardinality(Counted)]

SameStart == HighestBlock # 0 /\ position.start = HighestBlock - 1
NewPosition ==
    [start |-> IF HighestBlock # 0 THEN HighestBlock - 1 ELSE position.start,
     offset |-> IF SameStart THEN position.offset + Cardinality(Counted) ELSE Cardinality(Counted)]

(* The failures that are counted, the rewards that tie with one of them, and whether *)
(* one was counted before or is no longer in the list.                                *)
NewBasis ==
    [counted |-> IF SameStart THEN basis.counted \cup Counted ELSE Counted,
     excused |-> basis.excused \cup {r \in Rewards : \E f \in Counted : Place[r] = Place[f]},
     marred |-> basis.marred
                \cup {m \in {"recounted"} : SameStart /\ Counted \cap basis.counted # {}}
                \cup {m \in {"gone"} : ~(Counted \subseteq Listed)}]

Finish ==
    /\ pc = "attesting" /\ needs = {}
    /\ position' = NewPosition /\ basis' = NewBasis
    /\ \E order \in Orders(batch) : recent' = Trim(recent \o order)
    /\ batch' = {} /\ failed' = {} /\ retryCount' = 0
    /\ pc' = "saving"
    /\ UNCHANGED <<node, threshold, saved, queue, needs, faults, settled, savedBasis>>

Save ==
    /\ pc = "saving"
    /\ saved' = position /\ savedBasis' = basis
    /\ pc' = "loop"
    /\ UNCHANGED <<node, threshold, position, local, faults, settled, basis>>

SaveFails ==
    /\ pc = "saving" /\ Fault
    /\ pc' = "loop"
    /\ UNCHANGED <<node, threshold, position, saved, local, settled, bases>>

Idle == batch' = {} /\ needs' = {} /\ failed' = {} /\ retryCount' = 0 /\ pc' = "loop"

(* A call of an attempt throws (the user bank cannot be looked up, nodes cannot be *)
(* selected): the loop sleeps and goes on, without the batch.                       *)
Throw ==
    /\ pc = "attesting" /\ needs # {} /\ Fault
    /\ Idle
    /\ basis' = Mar(basis, {"dropped"})
    /\ UNCHANGED <<node, threshold, position, saved, queue, recent, settled, savedBasis>>

(* The process ends, and starts again from what was saved. *)
Restart ==
    /\ Fault
    /\ position' = saved /\ basis' = savedBasis
    /\ queue' = {} /\ recent' = <<>> /\ Idle
    /\ UNCHANGED <<node, threshold, saved, settled, savedBasis>>

LoopStep == Refill \/ Take \/ Attest \/ Finish \/ Save

NodeStep(r) == Complete(r) \/ DisburseElsewhere(r) \/ Flush(r) \/ Hide(r) \/ Show(r)

AttesterNext ==
    \/ Ripen \/ \E r \in Rewards : NodeStep(r)
    \/ LoopStep \/ RefillThrows \/ SaveFails \/ Throw \/ Restart
    \/ \E block \in Overrides : Override(block)

(* The loop runs, time passes, and disbursements are indexed. *)
AttesterFairness ==
    /\ WF_vars(LoopStep) /\ WF_vars(Ripen)
    /\ \A r \in Rewards : WF_vars(Flush(r))

AttesterSpec == AttesterInit /\ [][AttesterNext]_vars /\ AttesterFairness
-----------------------------------------------------------------------------
(* Properties *)

(* What is listed, was not attested yet, and is to be. *)
Open(b) == Listed \ (settled \cup Denied \cup b.excused)

(* What the loop will be given, whichever way ties are ordered: at least as many as *)
(* the offset come before it.                                                        *)
Beyond(p) ==
    {r \in After(p.start) : Cardinality({q \in After(p.start) : Place[q] < Place[r]}) >= p.offset}

(* "Ignored rewards will stay stuck in that list, so we have to move past them": and *)
(* past nothing else.  Wherever the loop is, and from wherever it would start again,  *)
(* each reward that was not attested yet, if it is not denied, is still ahead, as     *)
(* long as on the way to that position no batch was dropped, nothing was attested     *)
(* early, no failure was counted twice and none left the list.  Excused are those     *)
(* that an override passed, that were listed late or hidden for a time, or that tie   *)
(* with a failure.                                                                    *)
NothingPassedOver ==
    /\ basis.marred = {} => Open(basis) \subseteq Beyond(position)
    /\ savedBasis.marred = {} => Open(savedBasis) \subseteq Beyond(saved)

(* "It won't move onto the next batch of rewards until every reward in that batch   *)
(* has either succeeded or failed attestation."                                      *)
BatchesSettled == basis.marred \subseteq {"dropped"} => Open(basis) \subseteq Beyond(position)

(* The same of failures that are counted: also where one is counted a second time. *)
OnlyFailuresPassed == basis.marred \subseteq {"recounted"} => Open(basis) \subseteq Beyond(position)

(* Every reward that is completed and not denied is attested in the end, or found   *)
(* disbursed: again and again there is none left.                                    *)
AllAttested == []<>(Open(basis) = {} \/ basis.marred # {})
=============================================================================
