# Verification of the Audius protocol

Audius is a music service whose nodes are run by independent providers. Its
protocol core is the Ethereum contracts under `src/eth-contracts/contracts`:
providers stake tokens and register services, others delegate stake to them,
rewards are minted in rounds and governance may slash. Around it are services
and clients, most of which is requests, tables and rendering; a few of them have
control logic of their own, with processes that interleave, fail and retry. This
directory models that core and five such parts in TLA+, checks them with TLC and
proves their main invariants with TLAPS. All paths below are relative to `src/`.

## 1. Inventory

### Staking and rewards (`eth-contracts/contracts`)

| Component | State | Operations | Must hold |
|---|---|---|---|
| `Staking.sol` | history of the stake of every provider, history of the total, block of the last claim, the tokens themselves | `stakeFor`, `unstakeFor`, `delegateStakeFor`, `undelegateStakeFor`, `slash`, `stakeRewards`, `updateClaimHistory`; lookups at a block | it holds the tokens it owes; the total is the sum of the stakes, now and at every past block |
| `ClaimsManager.sol` | the current round (funding block, funding, claimed so far), the funding amount, the round length | `initiateRound` (anyone), `processClaim` (from DelegateManager), updates by governance | one claim per provider and round, no more minted than funded |
| `ServiceProviderFactory.sol` | registered services and the id maps; per provider direct stake, bounds, `validBounds`, number of endpoints, deployer cut; pending decrease and pending cut | `register`, `deregister`, `increaseStake`, request / cancel / evaluate a decrease and a cut, `updateServiceProviderStake` (from DelegateManager), `updateEndpoint`, `updateDelegateOwnerWallet` | the bounds are those of the registered services, `validBounds` agrees with them, direct stake stays within them |
| `DelegateManagerV2.sol` | every delegation, totals by provider and by delegator, lists of delegators, locked stake, pending requests to undelegate and to remove | `delegateStake`, request / cancel / evaluate undelegation and removal, `claimRewards` (anyone), `slash` (governance), minimum delegations | the totals are sums of the delegations; locks are what pending requests will take; claims and slashes always settle |
| `ServiceTypeManager.sol` | types, their bounds and versions | add, remove, new version | bounds of a type never change |
| `GovernanceV2.sol` | proposals, votes, list of proposals in progress | submit, vote, update vote, evaluate, veto, guardian | one vote per stake, a proposal is executed at most once and only as voted |
| `EthRewardsManager*.sol`, `WormholeClient.sol` | recipient, token and bridge addresses | transfer of reward tokens over the bridge | a transfer is relayed once |
| `registry/Registry.sol`, `erc20/AudiusToken.sol`, `TrustedNotifierManager.sol`, proxies | addresses, balances, notifiers | set once, transfer, mint | - |

How they interact: `ServiceProviderFactory` and `DelegateManager` call `Staking`
to move tokens, ask `ClaimsManager.claimPending` before most of them, and
`DelegateManager` writes the direct stake in `ServiceProviderFactory` after a
claim, a slash and an undelegation. `claimRewards` calls `processClaim`, which
mints and calls `Staking.stakeRewards`, and then compares the books of the three
contracts. The books are redundant: the stake of a provider is in `Staking`, its
split into direct stake and delegations in the two others, and every entry point
has to keep them in step.

What is hard about them: a transaction is atomic, but transactions of many
accounts interleave in any order and many fit into one block; four operations
wait for a lockup and are validated when requested, evaluated much later;
rewards use the stake at the funding block in one factor and the stake and the
locks of now in others; every division rounds; a slash cancels requests that
concern other providers; one flag (`validBounds`) is cached and refreshed by
some operations only. `GovernanceV2` reads stake from the two contracts when an
account votes and from `Staking` when a proposal is evaluated, and the accounts
move that stake, and the free tokens, while they vote; the call of a proposal may
slash the voters, change the rules of the votes that are running, or evaluate
another proposal from within the evaluation. `PROJECT.json` lists these at their lines under
`hazards`.

### Services and clients (`packages`)

| Component | State | Operations | Must hold |
|---|---|---|---|
| transaction relay (`identity-service/src/relay/txRelay.js`, `app.js`) | wallet locks in redis, rows of the `Transaction` table, a count of reconfigurations in each worker process | look up an earlier receipt, take a wallet, read its nonce, sign and send, release the wallet, record the receipt; one retry with another provider; fork workers, clear locks at start | one transaction at a time per wallet; a payload has one receipt; a request ends |
| confirmer (`common/src/store/confirmer`) | per uid a list of calls with an index, a list of completions, the last success call of each operation | join a group, wait for the turn, squash, call or time out, file the completion, run the completions, clear the group | calls see the results before them; each completion runs once; nothing open is cleared |
| playlist edits (`web/src/common/store/cache/collections`) | the cached playlist, the confirm group of the playlist | add or remove a track: take the cached playlist or fetch it again, await tracks and artwork, write the cache, ask the confirmer; give up, or fail with the whole watcher | no edit undoes another; the cache ends up as what the backend has |
| playback (`common/src/store/playback/slice.ts`, `web/src/common/store/playback/sagas.ts`) | queue and position; while shuffling the original queue and the permutation; sagas that load, skip and extend; the audio element | play a list, play, pause, next, previous, repeat, shuffle, add, play next, remove, reorder, clear, autoplay, errors | both orders hold the same tracks; edits leave the listener at its entry |
| rewards attester (`libs/src/services/solana/rewardsAttester.ts`) and the list it reads (`discovery-provider/src/queries/get_undisbursed_challenges.py`) | position (`startingBlock`, `offset`), queue, recently disbursed rewards; the list of completed and undisbursed challenges | fetch a page, attest a batch with retries, move the position, save it, restart, override | no reward is passed over; every reward is attested in the end |

They meet in few places: playlist edits use the confirmer, and what the relay
sends and the attester attests are transactions whose chains are the environment
of these models. What is hard about them: handlers of several processes share
redis and a table but not their memory; sagas are tasks that interleave at every
`yield` that waits, and keep what they read before it; lists are changed in place
while others iterate over them; a process may stop between the effect and the
record of it.

### The rest of the repository

| Component | What it is | Hard behaviour |
|---|---|---|
| `solana-programs/reward-manager`, `claimable-tokens` | programs that check attestations of several senders and pay a reward once; user banks with nonces | replay, partial attestations, deletion of senders |
| other `solana-programs` | registry of signers, payment router, staking bridge, listen counts | account validation in single instructions |
| `packages/discovery-provider/src/tasks` | indexers of both chains, entity manager | reverts of blocks, checkpoints, retries |
| `packages/discovery-provider/src/challenges` | event bus and challenge managers | events out of order or twice, completion counted once |
| other parts of `packages/discovery-provider` | queries, table models, trending formulas, plugins | the database |
| the rest of `packages/common`, `packages/sdk`, `packages/libs` | data models, queries, API client, transaction builders | caches that are invalidated by hand |
| the rest of `packages/web`, `protocol-dashboard`, `identity-service`, tools | user interfaces, HTTP services, build tooling | - |

## 2. Modules

| Module | Models |
|---|---|
| `Staking` | `Staking.sol`, the block number and the token balances |
| `ClaimsManager` | `ClaimsManager.sol`, extends `Staking` |
| `ServiceProviderFactory` | `ServiceProviderFactory.sol`, extends `ClaimsManager` |
| `DelegateManager` | `DelegateManagerV2.sol`, extends `ServiceProviderFactory` |
| `StakingSystem` | the transactions, `Next`, the properties, the refinement |
| `Governance` | `GovernanceV2.sol` and what it sees of `Registry.sol`, extends `StakingSystem` |
| `GovernedStaking` | the staking protocol under governance, its properties |
| `StakeLedger` | what the protocol promises to a token holder (abstract) |
| `TxRelay` | the transaction relay with its workers, its locks and the chain |
| `Confirmer` | one confirm group |
| `PlaylistEdits` | edits of one playlist with its cache and the backend's answers, extends `Confirmer` |
| `PlayOrder` | what the queue promises to the listener (abstract) |
| `Playback` | the playback slice, its sagas and the audio element |
| `RewardsAttester` | the attester's loop, and the list of undisbursed challenges that the discovery node serves |
| `MC...` | instances, bounds, symmetry and views for TLC |
| `StakingSystemProofs` | lemmas on finite sets and sums (induction over a set, a sum when one term or all of them change, rounded shares) and on what each call and each entry point of the contracts does to the balances and the types; the inductive invariant of the staking contracts, the flags of the bounds |
| `BookProofs` | the books as sums, claims and slashes, the refinement of `StakeLedger`, the rounds |
| `GovernedProofs` | the theorems of governance and of both together: tallies, decisions, the supply, no token voting twice |
| `ConfirmerProofs` | the invariants and theorems of a confirm group |
| `EditsProofs` | the invariants and theorems of playlist edits, extends `ConfirmerProofs` |
| `RelayProofs` | the inductive invariant and the theorems of the relay |
| `PlaybackProofs` | the permutation behind shuffle, and that `Playback` implements `PlayOrder` |
| `AttesterProofs` | first rewards and highest blocks of a batch, the inductive invariant and the theorem of the attester |

Each contract is a module whose variables have the names of the contract's
storage and whose operators are its functions. A function that other contracts
call (`StakeFor`, `ProcessClaim`, `UpdateServiceProviderStake`) is an operator
on primed variables; an entry point (`Register`, `ClaimRewards`) uses those
operators for the calls it makes, as the code does. The conjuncts without primes
are the `require`s, the subtractions of `SafeMath` that could revert and the
divisions by what could be zero. A transaction that reverts is no step.
`StakingSystem` groups the entry points by sender and says what each group
leaves alone. In it slashes and changes of the funding amount may come at any
time (`GovernanceTx`); in `GovernedStaking` they come only from a proposal or
from the guardian, with the same operators. So the steps of `GovernedSpec` are
steps of `Spec` by construction, which a lemma of the proofs uses (`Governed`).

Points where the translation is not literal:

- A checkpointed history is a function from block numbers to values; writing at
  block b changes the values from b on. The library itself (`Checkpointing` of
  the Aragon dependency) is external.
- A check that the code makes after a call, such as `validateAccountStakeBalance`
  after `stakeFor`, is written on the primed state.
- The endpoint and id maps are the set of registered services.
- `claimHistory` is the block of the last claim, which is all that is read.
- The list of delegators is a set: the order and the swap of the removal only
  matter for the order of a loop whose iterations are independent.
- The transfer to the community pool is off, as after `initialize`; lockup
  durations and the delegation limits are constants; they can change only by
  governance.
- Accounts send each other free tokens (`TransferTx`), which is how tokens could
  vote twice.
- The call of a proposal is a record with the kind of call and its argument. A
  call that reverts undoes itself only, so it is a step: `CallOutcomes` says
  whether a call succeeds, `CallEffect` what it does. The registry entry of one
  further contract is modelled, of which only its success and its code are seen;
  it may succeed or fail, move, disappear, come back, or destroy itself. The
  protocol's own contracts keep their addresses (they are upgraded behind their
  proxies).
- A proposal that evaluates another one is `EvaluateNested`: the outcome
  Evaluating is only visible inside the transaction, where it makes an
  evaluation of the same proposal fail. Evaluations nested three deep are
  excluded by `GovernanceAssumption` (at most two proposals where a call
  evaluates).
- Proposers are not recorded, nor names and descriptions; the registry key of a
  proposal follows from the kind of its call.
- Tokens that a claim mints pass through `ClaimsManager`, which holds none
  before or after.

The modules of services and clients have an action for each stretch of a handler
or a saga between two places where it waits; what such a stretch writes, it
writes in one action. The points where they are not literal:

- `TxRelay`: a request is a handler in the worker that serves it. Polling for a
  wallet is an action that is not enabled. The chain mines the next nonce of a
  wallet and drops what else has this nonce; a node refuses a nonce that is
  already mined. `SendFails` covers errors and timeouts, after which the
  transaction may still be mined. Redis itself does not fail.
- `Confirmer`: one uid. The calls are model values with a set of outcomes: a
  result, an error (also the timeout), nothing, or `null`. The completions either
  all await something or none does (`slow`), chosen at the start. Arrays that are
  changed in place are numbered in a heap, as a task keeps its reference.
- `PlaylistEdits`: contents are sets, so each track is in the playlist once. Cached
  playlists are numbered in a heap too: a task that got one from the cache changes
  the object that others hold. A fetch answers with anything the backend ever had
  (`written`), as the comments of the code say that it may not have propagated an
  update; an answer equal to the cached object leaves that object in place. A
  removal fetches twice, for the playlist and for its list of tracks
  (`queryCollectionTracks`), and goes on with the first object. An addition returns
  early when the playlist or the track is missing. A fetch, a query of tracks or the
  artwork may throw (`Fail`): then the watcher ends with all edits it has forked
  and is started again (`sagaWithErrorHandler`), and what an addition has changed in
  place stays. A request that arrives between the end of a watcher and its new
  start is lost in the code and not modelled, nor are the sagas that react to a
  failed confirmation, which only report it. When the query library replaces a
  cached object by one that differs in part, it may keep parts of the old one; here
  the contents of two objects are always apart.
- `Playback`: positions count from 1. The counter of plays is kept modulo 2. The
  queries of track and user are one wait; recommendations come one at a time or
  not at all. `overshot` and `undershot` are folded into the action that sets
  them, as nothing runs between the reducer and the first step of the saga.
  Reordering takes the indices of the queue that is shown. The second look at the
  access to the track, right before it is played (`sagas.ts:311`), finds what the
  first found, as access does not change in the model. `handleAudioErrors` waits
  for the track of what is playing, which is cached, and is one action.
- `RewardsAttester`: the attempts of a batch end together, as `Promise.all` waits
  for all of them; node selection is within `Attest`. The list is that of the query:
  what is completed and not disbursed, of active challenges and users (`Listed`,
  `Hide`), ordered by block, user and challenge. `Place` is the place in this order;
  rewards of one user and one challenge tie, and the database may order them anew at
  each query, so a page is any choice of what comes first (`Firsts`, `Pages`), and a batch
  any choice of what comes first in the queue. An override sets any
  block (`Overrides`). When the thresholds cannot be had, the queue stays as the page
  filled it (`RefillThrows`). That what is indexed for a challenge is there before it
  is old enough to be attested (`runBehindSec`) is the rule, and a fault otherwise.
  `Denied` is what the deny list refuses; the constructor spreads the configured
  list into the arguments of `Set` (`rewardsAttester.ts:355`), so what is refused
  may not be what was configured, which the model does not depend on.

Operators commented "Variant of X" are not used by the model: each is X with one
plausible mistake, and the project records under `mutants` that a run notices it.

## 3. What is checked

TLC explores every interleaving within the bounds of a run.

| Run | Instance | Properties |
|---|---|---|
| `one_provider` | 1 provider, 2 delegators, 3 blocks; stake 3, delegations of 2, slashes of 2, funding 4 | `StakeSplit`, `DelegationSums`, `VaultCovers`, `DelegatorsListed`, `ClaimSettles`, `SlashAbsorbed`, `BoundsFlagCurrent` |
| `two_providers` | 2 providers that share two endpoint names, 1 delegator that may delegate to both, 3 blocks; stakes of 2, delegations of 1, slashes of 2, funding 5 | `LockSums`, `RoundWithinFunding`, `ImplementsLedger` |
| `removal` | 1 provider that removes a delegator, 4 blocks; in other behaviours deployer cuts of 50% and 150%, funding 2 or 5 changed at any time and a delegator minimum; transfers of 1 | `TypeOK`, `LockSums`, `RequestCovered` |
| `votes` | 1 provider and 1 delegator that also vote, wallets of 2 and 1, transfers of 1, 1 proposal, voting period of 2 blocks, lockups of 3, 5 blocks; the proposal changes the funding or a setting (one of them to a value not allowed) or calls another contract, which may be at two addresses | `GovernanceTypeOK`, `VotesWithinSupply`, `TalliesMatch`, `DecisionStands`, `OnlyByProposal` |
| `proposals` | the same accounts, 2 proposals that slash or evaluate each other, voting period of 1, the delegator is the guardian, 4 blocks | `InProgressListed`, `BurnedByVote`, `OutcomesFinal` |
| `tx_relay` | 3 requests in 2 workers, 2 of them with the same payload, 1 that changes a replica set; 1 wallet; one fault, crash or restart | `WalletExclusive`, `NoDisplacement`, `AnswerRecorded`, `RequestEnds` |
| `confirmer` | 2 squashable requests of one operation, 2 parallelizable ones of another with `useOnlyLastSuccessCall` that may fail | `OpenKept`, `FiredInOrder`, `SquashedCovered`, `AnsweredOnce`, `GroupCleared` |
| `playlist_edits` | 2 edits that add a track each, of which one may be refused by the backend, 1 that removes its track again; fetches answered with any former contents, failing, or returning early at any wait | `CacheAgrees`, `OptimisticKept`, `SequentialKept`, `EditEnds` |
| `attester` | 4 rewards: 2 that tie in one block, one of which may be hidden and one claimed by its user, 1 of the next block, 1 of Solana; batches and pages of 2, 2 attempts, overrides to 0 and 1, 1 fault | `NothingPassedOver`, `AllAttested` |
| `playback` | a page of 3 tracks, one deleted and one locked, one to add or recommend; 4 commands, or 2 and a fault | `Mirrored`, `InQueue`, `KeepsOrder` |

What the properties say, in short (each has a full comment in its module):

- `StakeSplit`: `Staking` records for a provider what the two other contracts
  record. If it ever broke, `claimRewards` would revert for ever.
- `DelegationSums`, `LockSums`: the totals are the sums of their parts, also
  after the loops of a claim and a slash.
- `VaultCovers`: the tokens held are the total staked and the sum of the stakes.
- `RequestCovered`, `DelegatorsListed`: a pending request can be served; nobody
  with a delegation is left out of rewards and slashes.
- `ClaimSettles`: the rounded rewards of the delegators never exceed what was
  minted, although they are computed from the stake at different blocks.
- `SlashAbsorbed`: what the delegators' rounded losses leave to the provider is
  at most its direct stake.
- `BoundsFlagCurrent`: the cached flag agrees with the bounds.
- `RoundWithinFunding`: stake moved between the start of a round and the claims
  cannot make the round mint more than was funded.
- `ImplementsLedger`: with `Shares` as refinement mapping every transaction is a
  deposit or a withdrawal by the owner of a share, a reward that lowers no share,
  a burn that takes from each at most its proportion (rounded up), or nothing.
- `VotesWithinSupply`: no token votes twice on a proposal, however it moves in
  the voting period; this is what the lockups are for.
- `TalliesMatch`: the magnitudes are sums over the voters of the stake each had
  when it voted first.
- `DecisionStands`: the votes at the end of a behaviour still justify what was
  decided, that is, nothing votes on after the decision.
- `InProgressListed`: the array that limits and blocks submissions lists the
  proposals in progress and no others, through swap-removal and nesting.
- `OutcomesFinal`, `BurnedByVote`: each proposal ends once; the tokens missing
  from the supply are those that executed slashes burned, each once.
- `OnlyByProposal`: burning, funding and settings change only by a proposal for
  just that, with a majority, whose voting is over.
- `WalletExclusive`, `NoDisplacement`: the lock in redis keeps a wallet to one
  request over all workers, retries, crashes and restarts; and so, as long as
  each send is awaited to its end, no transaction takes the nonce of another.
- `AnswerRecorded`: all requests for a payload get the same receipt, of a
  transaction of this payload that was mined.
- `RequestEnds` (liveness): a request ends, unless dead workers hold all wallets.
- `OpenKept`, `FiredInOrder`, `SquashedCovered`: a group is not cleared under an
  open call; a call starts when what it requires has settled, with the result of
  the last call before it; what was squashed is done by a later call.
- `AnsweredOnce`, `GroupCleared` (liveness): where completions do not wait, each
  runs once or is replaced by a later one, and the group is cleared in the end.
- `CacheAgrees`, `OptimisticKept`: the user sees the last edit while it is
  pending, and what the backend has when all is confirmed, unless an answer that was
  behind was written to the cache last. Left out is what follows an addition that
  failed after its change in place.
- `SequentialKept`: edits that do not overlap and were made on answers that were not
  behind are all kept, though the calls before the last are squashed and edits
  among them are dropped or fail.
- `EditEnds` (liveness): every edit is dropped, fails, or is squashed or answered.
- `Mirrored`, `InQueue`: the shuffled queue is the original one along the
  permutation, and the position is in it, after all edits.
- `KeepsOrder`: with the original order as refinement mapping, playback
  implements `PlayOrder`: the list changes only as the listener asked, and the
  listener stays at its entry unless a new play is counted, whether the queue is
  shuffled or not, and whatever sagas do in between.
- `NothingPassedOver`: every listed reward that was neither attested nor rejected
  and is not denied is ahead of the position, of the one in memory and of the one
  saved, however ties are ordered. `basis` records on what a position rests, and the
  property leaves out a position on whose way a batch was dropped, rewards were
  attested early, a failure was counted twice or one left the list; and rewards that
  an override passed, that were listed late or hidden, or that tie with a failure.
- `AllAttested` (liveness): again and again no reward is left to attest.

### Bounds

- `MaxBlock` (3 to 5) bounds the number of blocks, not the number of
  transactions in them. With lockups of one block and rounds that may start two
  blocks after the last, three blocks hold: stake, start of a round, claim in a
  later block, request and evaluation, and the start of a second round. A fourth
  is used where a removal has to expire (evaluation window of 2) and where
  proposals are submitted at different times; a
  fifth where votes, a lockup and a withdrawal follow each other.
- Wallets start with one to four tokens. That is enough to reach every guard on
  balances, including uneven divisions (in `one_provider` a funding of 4 over
  stakes of 3, 5 and 7, in `two_providers` 5 over stakes of 1 to 7). Rewards make stakes
  larger than the wallets, up to and above the maximum of a type (8), so that
  bounds are left from both sides.
- `MCClaimBound` stops exploring behind states in which a round has minted more
  than twice its funding. `MCClaimsLater` leaves out claims in the very block
  that started the round; `MCDuplicateClaim` is about those. The runs
  `two_providers` and `removal` use it, as every further claim in that block mints
  again and multiplies the amounts;
  `one_provider` does not, so its books are checked through double claims too.
- In the runs of governance, wallets of 2 and 1 and a quorum of 50% give votes
  that pass, fail, tie (1 against 1) and miss the quorum. Lockups are one block
  longer than voting period and delay, the least that the contracts accept
  (`votes` uses the same distance with a period of 2, so that stake can move, be
  requested and change sides within the period and be withdrawn right after it).
  One proposal is enough where the subject is its votes; two are needed for the
  list and for nesting. No round starts in these runs (`FundingRoundBlockDiff`
  is beyond the last block), as rewards are the subject of the others.
- `MCChangeOrRemove` keeps apart, in `removal`, behaviours with a removal and
  those where a cut, the minimum or the funding has changed: the removal reads
  none of these.
- `MCConfiguredApart` and `MCConfiguredStill` leave out, in `votes`, withdrawals,
  the fifth block and changes of wallets once the guardian or a proposal has
  changed a setting or the registry: what moves stake is checked where the rules
  stay, what changes the rules where the stake stays.
- `MCNoRequestsSameGuardian` leaves out requests to withdraw and changes of the
  guardian in `proposals`: they are in `votes` and in the runs above.
  `MCStakesEarly` has stake enter in the first block of `proposals` only, where two
  proposals are submitted in later blocks too; stake that enters between
  submission and vote is in `votes`.
- `MCGovernedView` adds to `MCView` the stake at the blocks of submission.
- `MCView` identifies states that no guard and no property can tell apart: of a
  history only the last value and the value at the funding block can still be
  read (the next funding block is the present or a later one), of a claim block
  only how it compares with the funding block and with the present, of an expiry
  only how many blocks are left.
- `MCSymmetry` permutes delegators, `MCSymmetryTwo` providers and endpoints; no
  property names one of them and no run that uses symmetry has a liveness
  property.
- `tx_relay` has one wallet, so that every pair of requests competes for it, in
  one worker and in two, for one payload and for two. Two requests of one payload
  are what the table is for; one reconfiguration per worker reaches its limit with
  the retry. `MaxTrouble` is one: a failed send, a crash or a restart, at any step.
- In `confirmer` two calls of each kind are the least that squash, run in
  parallel, replace a success call, and stand before and behind one of the other
  operation; either of two completions may come late.
- `playlist_edits` has the pairs of addition and addition, addition and removal,
  and removal of what was added, each before, within and after the other. Three
  edits make up to five contents of the backend, of which a fetch may have any.
  That a call is refused is enough in one of them, as the properties but
  `OptimisticKept` speak of behaviours without.
- In `attester` two rewards of the first block fill a page and a batch, alone or
  with the reward of the next block, so that a failure counts within the block of the
  position or is left behind; the tie makes the offset skip either of the two; the
  Solana reward leaves the position where it is. `MaxFaults` is one. Two
  configurations beside it have other lists: `MCAttesterEnds` has three rewards of
  one block, one of them denied, and room for it in the page, and passes; the
  others are among the disagreements below.
- In `playback` three tracks with a deleted and a locked one give every way to
  skip, and four commands shuffle, edit, skip and unshuffle. A fault takes the
  place of two commands (`MCBudget`). `MCPlaybackView` drops the position that is
  shown, which is never read, and the parity of the plays.
- `CHECK_DEADLOCK FALSE` is set because the bounds end every behaviour: after the
  last block no transaction may be left, and when all requests, commands or edits
  are done nothing more happens. Where liveness is checked it says what must have
  been reached by then.
- Integers are unbounded in the model. The contracts use `SafeMath` on 256 bits
  and the whole supply of the token is far below; subtractions below zero are
  guards.

### Fairness

The contracts have none: nothing obliges anyone to send a transaction, and all
their properties are safety. For services and clients weak fairness is assumed
where the event loop or a timer gives it, and nowhere else:

- `RelayFairness`: a handler that has begun goes on, as promises are resolved;
  the chain mines what it can; a transaction that was displaced is reported as
  failed, as the wait for a receipt times out. That requests arrive, sends fail
  or processes die is never required, and a new request is not either.
- `ConfirmerFairness`, `EditsFairness`: a saga runs when what it waits for is
  there, each call ends, by the race with its timeout, and each fetch is answered or
  fails.
- `AttesterFairness`: the loop goes on, time passes and disbursements are indexed.
  That rewards are completed, hidden or claimed is not required.
- `PlaybackSpec`: queries are answered and effects of sagas are run; that the
  listener or the audio element does anything is not assumed.

### Disagreements found

Some statements that the repository makes of the program are not kept by the
code. Each configuration below stops at a short behaviour that shows it. Two are
runs of the project (`findings`), the others are further configurations that end in
a violation, kept beside them.

| Configuration | Property | What happens |
|---|---|---|
| `MCDroppedBatch` (run `dropped_batch`) | `BatchesSettled` | The attester splices a batch off its queue before the await. If a call throws, the loop sleeps and takes the next batch. In the trace the dropped reward is of block 1 and the next batch of block 2 moves `startingBlock` from 0 to 1, past it. The class comment says that it does not move on until every reward has succeeded or failed. |
| `MCDoubleVotes` (run `double_votes`) | `VotesWithinSupply` | A removal requested before the proposal is evaluated within its voting period: the removed delegator has voted, gets its tokens at once, sends them on, and they are staked and vote again. The comment on `_quorumMet` says that the votes sum to at most the supply. |
| `MCRecountedFailure` (`MCRewardsAttester`) | `OnlyFailuresPassed` | After a restart the list of recent rewards is empty: a failure that the saved offset counts is on the page again, fails and is counted again. When a disbursed reward before it leaves the list, the offset passes a reward that was never attested. The comment at line 678 speaks of moving past ignored rewards. |
| `MCFullPage` (`MCRewardsAttester`) | `AllAttested` | Failures of Solana rewards are not counted, so two of them fill a page of two, and the reward behind them is never fetched. |
| `MCDuplicateClaim` | `RoundWithinFunding` | A claim in the block of `initiateRound` records that block, and `processClaim` accepts `lastClaimed <= fundedBlock`: a second claim mints again and the round exceeds its funding. The comment says "Prevent duplicate claim" and `claimPending` uses `<`. |
| `MCStaleBounds` | `BoundsFlagCurrent` | `removeDelegator` lowers the stake without refreshing `validBounds`, as `undelegateStake` does: a provider back within its bounds keeps earning nothing. |
| `MCVetoedVotes` | `VotesOnlyWhileActive` | `submitVote` looks at blocks only: a vetoed proposal still takes votes until its period ends, while its comment speaks of an active proposal. The repository's test vetoes after the period has ended and so never meets this. |
| `MCOrphanedWallet` (`MCTxRelay`) | `WalletFreed` | A worker dies with a lock, which only a start of the master clears: "keep iterating until a wallet is freed up" goes on for ever. |
| `MCCompletions` (`MCConfirmer`) | `AnsweredAtMostOnce` | A completion awaits, a second call settles meanwhile, and its task runs the whole list again: a completion runs twice. |
| `MCLostEdit` (`MCPlaylistEdits`) | `NothingLost` | Two additions that both read the playlist before either is handed to the confirmer: the second sends a playlist without the first. `hasPendingPlaylistUpdates` looks at the confirmer only. |
| `MCStaleFetch` (`MCPlaylistEdits`) | `RefetchKeeps` | With no updates pending an addition fetches the playlist again, from a node that has not indexed the addition confirmed before: it sends the playlist without it. The comment of `hasPendingPlaylistUpdates` says to refetch "to get latest", the completion does not refetch as "the backend may not have propagated yet". |
| `MCRepeatOne` (`MCPlayback`) | `SkippingEnds` | With repeat of a single track, `next` on a locked track stays at it and dispatches `next` again, without end. |

Four further oddities of the code are in the model as they are in the code, with
a note under `hazards`: `requestDecreaseStake` compares the minimum with the
direct stake before the decrease; `decreaseStake` does not ask for a pending
claim; `claimRewards` pays a provider without endpoints if its flag is still
set; a proposal submitted by the guardian while nothing was staked cannot be
evaluated.

Oddities of services and clients that are in the models, or beyond them:

- Relay: the limit on reconfigurations is counted again on the retry. An error of
  redis right after `selectWallet` leaves the wallet locked, as the `try` begins
  later (not modelled; a worker that dies has the same effect). The branch of
  `routes/relay.js` for a wrong nonce is never reached, since `allSettled` keeps
  the reason. The comment in `app.js` that there cannot be more than one worker
  for locks in memory is older than the locks in redis.
- Confirmer: a call that returns `null`, as those of `confirmEditPlaylist` do,
  keeps its group open for ever, and one that returns nothing blocks the next call
  that is not parallelizable. An error in a reducer restarts the watcher without
  its tasks (`Throw`). `GroupCleared` is about calls that return something.
- Attester: a failure counted a second time after a restart, or one that leaves
  the list, makes the offset too large (`basis` marks both, and the properties
  leave them out); failures of Solana rewards are not counted and stay in the
  page; denied rewards stay in it too. A batch of Solana rewards alone sets the
  offset to 0, so that the next page starts at the first reward after
  `startingBlock` again. When such rewards fill a page nothing moves on
  (`MCFullPage`); the pages of the discovery node are long. When the thresholds
  cannot be had, the next turn of the loop attests a page that was not filtered by
  them.
- Playlist edits: an addition that fails at its artwork leaves its track in the
  cached playlist, and a later edit with updates pending sends it. An error in one
  edit ends all edits of its watcher, silently but for a message. The second fetch
  of a removal may replace the cached playlist while the first is edited.
- Playback: a play without a track, `reset` and an audio error cancel a load that
  is under way; next decides by a track it read before it waits; pages that show
  another list than the queue reorder with indices of that list; `clearQueue` and
  `appendPage` are never dispatched. `PlayOrder` allows these.

`VotesWithinSupply` holds in `votes`, where providers do not remove delegators.
`BoundsFlagCurrent` holds in `one_provider`, without removals;
`RoundWithinFunding` holds in `two_providers`, where claims are in later blocks
and the funding amount is fixed.

## 4. What is proved

The theorems are in `StakingSystemProofs`, `BookProofs`, `GovernedProofs`,
`ConfirmerProofs`, `EditsProofs`, `RelayProofs`, `PlaybackProofs` and
`AttesterProofs`. Those of the contracts are for all sets of accounts,
amounts, service types, lockups, cuts and limits that satisfy the named
assumptions of the modules (`BlockAssumption`, `WalletAssumption`,
`RoundAssumption`, `ProviderAssumption`, `DelegateAssumption`,
`AmountAssumption`: parameters are natural numbers, types have a minimum below
their maximum, sets of providers, delegators and services are finite,
`NoProvider` is no provider) and, for governance, `GovernanceAssumption` (calls
are well formed, the first settings are allowed, at most two proposals if some
call evaluates another). Those of the confirmer are for all requests and options,
under `ConfirmerAssumption`; those of playlist edits for all edits, tracks and
contents, under `EditsAssumption` too (the calls of the edits throw or return
something, the id of the playlist); those of the relay for all sets of requests,
workers, wallets and payloads and all bounds on faults, under `RelayAssumption`
(each request has a payload and a worker, `NoWallet` and `NoReceipt` are none);
those of playback for all tracks, lists and bounds, under `PlaybackAssumption`
(lists are sequences of tracks and not empty); those of the attester for all
rewards, deny lists, sizes of batches, pages and caches and bounds on attempts and
faults, under `AttesterAssumption` (rewards are finitely many, their places in the
list follow their blocks, those of Solana have higher slots than any block, sizes
are positive).

| Theorem | Property |
|---|---|
| `Invariance` | `Inv`, below |
| `TypeCorrect` | `TypeOK` |
| `StakesAgree` | `StakeSplit` |
| `VaultBacked` | `vault = TotalStaked` |
| `ListsComplete` | `DelegatorsListed` |
| `RequestsCovered` | `RequestCovered` |
| `OnlyRemovalsStaleFlags` | every step but a removal keeps `BoundsFlagCurrent` |
| `FlagsCurrent` | `BoundsFlagCurrent`, where nobody is removable |
| `BooksInvariant` | `BookInv`, below |
| `DelegationsAddUp`, `LocksAddUp`, `VaultCoversStakes` | `DelegationSums`, `LockSums`, `VaultCovers` |
| `ClaimsSettle`, `SlashesAbsorbed` | `ClaimSettles`, `SlashAbsorbed` |
| `StakingImplementsLedger` | `ImplementsLedger`, that is `Spec => Ledger!Spec` |
| `RoundsWithinFunding` | `RoundWithinFunding`, under two conditions below |
| `GovernedStakesAgree` | `StakeSplit`, under governance |
| `GovernanceTypeCorrect` | `GovernanceTypeOK` |
| `ListExact` | `InProgressListed` |
| `OutcomesNeverChange` | `OutcomesFinal` |
| `TalliesAreSums` | `TalliesMatch` |
| `DecisionsStand` | `DecisionStands`, while the settings stay |
| `ChangedByProposal` | `OnlyByProposal`, if the guardian makes no such call |
| `NothingElseBurned` | the supply and what executed slashes burned are at least the initial supply |
| `BurnedByVotesOnly` | `BurnedByVote`, while no rewards are minted |
| `VotesWithin` | `VotesWithinSupply`, without slashes and removals, while the voting period is below the lockups |
| `RequestsKept` | `OpenKept` |
| `CallsFiredInOrder`, `SquashedAreCovered` | `FiredInOrder`, `SquashedCovered` |
| `EveryCallAnswered` | `AnsweredOnce` |
| `UserSeesBackend`, `UserSeesLastEdit` | `CacheAgrees`, `OptimisticKept` |
| `NoEditLost` | `SequentialKept`, where no track is added twice |
| `RelayInductive` | `RelayInv` and `OnTheWay`, below |
| `RelayTypeCorrect` | `RelayTypeOK` |
| `WalletsExclusive` | `WalletExclusive` |
| `AnswersRecorded` | `AnswerRecorded` |
| `NothingDisplaced` | `NoDisplacement` |
| `PlaybackInvariant` | `QueueInv`, below |
| `ShuffleMirrors` | `Mirrored` |
| `PositionInQueue` | `InQueue` |
| `PlaybackKeepsOrder` | `KeepsOrder`, that is `PlaybackSpec => Order!OrderSpec` |
| `NothingSkipped` | `NothingPassedOver` |

### Conditions of theorems

Some properties are false in general (see the disagreements). Their theorems say
under which condition on the behaviour they hold, and the conditions are those of
the runs that check them:

- `FlagsCurrent`: no delegator is removable. `OnlyRemovalsStaleFlags` needs no
  condition and says that the removal is the only step at fault.
- `RoundsWithinFunding`: `FundingNotRaised`, the funding amount that claims use is
  not above that of the running round, and `NoEarlyClaim`, nobody claims in the
  block the round starts in. Stakes may move in any way.
- `DecisionsStand`: no step changes the settings; a longer voting period would
  reopen the vote.
- `ChangedByProposal`, `NothingElseBurned`, `BurnedByVotesOnly`:
  `GuardianElsewhere`, the calls the guardian makes itself are neither slashes nor
  changes of funding or settings (the contract lets it make any call).
- `BurnedByVotesOnly`: nothing is minted. `NothingElseBurned` has rewards.
- `VotesWithin`: `PeriodWithinLockup`, the voting period is always below both
  lockups, the one for direct stake and the one for delegations. The setters of the
  lockups require that (`ServiceProviderFactory.sol:1087`,
  `DelegateManagerV2.sol:1322`), but `setVotingPeriod` (`GovernanceV2.sol:641`) does
  not, so it is a condition on the behaviour. No delegator is removable: a removal
  pays out at once what has voted (run `double_votes`). `NoSlashes`, no call is a
  slash: a slash burns tokens that have voted, so the votes may exceed what is left.
- `UserSeesBackend`, `UserSeesLastEdit`, `NoEditLost`: what follows an addition that
  failed after its change in place is left out, and with it what follows an answer
  that was behind: for the first as long as that answer is what the cache has, for the
  last for good.
- `NoEditLost`: `OneAdditionEach`, a track is added by one edit at most and is not
  in the playlist before. Contents are sets in the model and `LastOfTrack` takes a
  removal for later than any addition of its track, which two additions could
  refute. The other two theorems of the edits need no such condition.
- The attester's counting is right only while what was counted stays in the list
  and is counted once. `NothingPassedOver` says so itself, by `basis`.
- `SlashesAbsorbed` says that what the delegators' rounded losses leave of a slash
  is within the direct stake. That there is something left, so that line 617 does not
  revert, is a guard of the model and not proved: many small delegations refute it.

### The staking contracts

`Inv` is `TypeOK`, `ServicesCounted`, `StakeSplit`, `vault = TotalStaked`,
`DelegatorsListed`, `RequestTimed` and `RequestCovered`. `TypeOK` alone is not
inductive: a deregistration could take the number of endpoints below zero unless
that number counts the registered services (`ServicesCounted`), which needs
facts on cardinalities. `RequestCovered` needs `RequestTimed`: a removal drops a
request only if it is pending, which in the code means that it has an expiry, so
a request for an amount must have one.

The argument goes contract by contract. Lemmas say what each call does
to the stake and the tokens, and of each entry point that it keeps the types and
that the direct stake, the delegations and `Staking` move together
(`DirectStakeMoves`, `StakeMoves`, `CustodyMoves`); `StepFacts` puts them
together by the disjuncts of `Next`, and `StepInv` concludes. For `StakeSplit`
alone the claim and the slash need no fact about the rounding: the same sum over
the delegators is added to the delegations and subtracted from what the provider
keeps.

`BookInv` adds the sums: `DelegationSums`, `LockSums` and that the total staked is
the sum of the stakes (`StakeSums`). None of these follows from `Inv`, and
`ClaimSettles` and `SlashAbsorbed`, though they speak of one state, hold only
where the totals are the sums. That a sum changes by what one term changes is an
induction over a finite set. The library's induction theorems take an operator as
a parameter and cannot be used, but that strict inclusion is well founded on the
subsets of a finite set is a first-order fact, from which `SetInduction` follows
for a property given as a set. With it `SumIsCount` shows that a sum of natural
numbers is the number of its units, after which changes, bounds,
combinations and scalings of sums are facts about cardinalities. Each entry point
then has a lemma on its books (`ClaimStepBooks`, `SlashStepBooks`, ...).

Rounding matters twice. `RewardsWithin`: the shares of a reward, each rounded
down before the deployer's cut is taken from it, sum to at most the reward, as the
delegations less their locks sum to at most the active stake.
`LossesCover`: what remains of a slash after the delegators' rounded losses is at
most the direct stake. It is true because the code computes each new delegation
from the stake that is left and rounds that down, so a delegator loses its exact
proportion or more.

`StakingImplementsLedger` maps the direct stake and the delegations to the shares
of `StakeLedger` (`Shares`). Each transaction is one of its steps or a stutter:
`DirectTransfer` and `DelegatedTransfer` for stake that comes and goes,
`RewardStep` for a claim, `BurnStep` for a slash, where the ledger allows no share
to lose more than its proportion, rounded up: the new delegation is computed
rounding down, and the direct stake bears what the delegators did not.

A round (`RoundInv`) needs the past: the total recorded at a block is the sum of
the stakes recorded at it (`HistoriesAgree`), and what was claimed, times that
total, is at most the funding times the stake at the funding block of those who
have claimed since (`RoundPaid`). A claim adds its provider to these, as the
provider has not claimed since the funding block; the others' part of the sum
stays, as the past is not rewritten (`PastStays`).

### Governance

Each call is a `GovernanceTx` or leaves the staking contracts alone, as it is
written with their operators (`CallStep`, `DecideStep`; `Governed`), so everything
proved of `Spec` is inherited. The invariant of governance is `GovInv`: `TypeOK`
(the stake behind a vote is a number), `GovernanceTypeOK` and `InProgressListed`.
The list is needed for more than itself: removing an id that is not listed would
drop another one, so every removal must know that the id is there and there
once. `RemoveListed` shows that swap-and-pop removes just that id;
`CloseListed` lifts it to proposals with their list, and is applied twice for a
nested evaluation. The same step lemma (`GovernedInvStep`) gives that what has
ended keeps its outcome.

`TalliesAreSums` uses the sums again: a first vote adds a term, a change of vote
moves one between the two sides. A decision stands because it is made when the
voting is over (`DecisionOK`): nobody can vote then, and the total stake at the
block of submission, by which the quorum is judged, is past. The supply is
followed through every transaction: stake that moves leaves it as it is, a claim
raises it, a slash lowers it by its amount, and a slash is made only in the step
that turns its proposal into an executed one (`ExecutionProposed`,
`DecisionProposed`), which by `OutcomesFinal` happens once.

That no token votes twice (`VotesWithin`) needs to be known of the stake behind a
vote: how much of it could leave before the vote ends. `Remaining` is the stake of
an account less what it may withdraw before the proposal's submission plus the
shorter lockup. Within that time a request is either there with an expiry that
counts, or made later and expires too late, so no step lowers what remains, and a
vote, whose weight leaves out what is being withdrawn, is at most that
(`VotesCovered`). The remaining stakes of all accounts are parts of the stakes
that add up to the vault: a sum by providers of sums by delegators is exchanged
for one by accounts (`SumSwap`, `StakesFillVault`). After that time nobody can
vote, as the voting period is shorter, and the supply does not fall, so the votes
stay within it (`OldVotesWithin`).

### The confirmer

`Placed` is the types and `OpenKept`: a request that is open has its call where it
says. The group is cleared only when all calls have ended, so it holds none that
is open. `Turns` adds to it who is before whom: a call has its turn when all
before it are over or parallel calls of its operation (`Fired`), and only calls
whose turn has passed are squashed, each with one of its operation behind it that
is not (`Covered`). When the call that covers others is squashed in its turn, there
is a later one of its operation, and that one covers them too.

`EveryCallAnswered` is about completions that await nothing (`slow` is false). Its
invariant `Answers` says that one task at most runs completions, and it is within
the current list (`LoopOK`); that the list names calls that have ended, each once
(`FiledOnce`), and the index of the last success of an operation points to one
(`LatestOK`); and that a completion was run as often as the loop has passed it
(`RunOK`), or else was replaced in the list by a later one of its operation, which
will be or has been run. With completions that await, two tasks run the same list
(`AnsweredAtMostOnce` in the disagreements), and `Answers` asks for nothing.

### Playlist edits

A step of the edits is a step of the confirmer (`EditsConfirm`), so its invariants
hold here (`Base`) and say which call has its turn and which completion is run.
They know nothing of contents. `Agreement` follows the contents of the last edit
on their way: they are in its object, which nobody else changes in place (`Apart`);
the call sends what the object holds when it is made, and the backend has that
when it has ended (`Delivered`); the completion that is run last is that of the
last edit, and it writes the cache as no update is pending then (`Written`). The
calls have their turns one after the other because an edit is not parallelizable
(`InTurn`). None of the parts is inductive alone: that the completion is the last
rests on the order of the calls, the contents on who holds an object, and the
object on whether edits overlap.

What may go wrong is written into the parts. An error, or an edit that adds its
track in place to an object that an earlier one still holds, disturbs the contents
(`Undisturbed`), until the cache is written once more. `CacheAgrees` is true after
such an overlap all the same, since the step that ends it publishes and sends
again. An addition that fails after its change disturbs for good (`abandoned`). A
fetch writes the cache only where nothing is pending, and with what the backend has
unless it is marked (`outdated`).

`NoEditLost` adds what the contents are. `Removals`: every track in any object, in
what was sent or at the backend was there at first or added by an edit that was
begun, and a removal finds an addition that was asked for; this is true of former
contents too, as `written` has no others (`Sources`). `AllKept`: the contents
of the last edit, and those that the next one has read, have every track as the
edits that decide on it left it (`KeptIn`); an answer that is not behind is the last
contents, since nothing is pending (`LastIsServer`). An edit that ends early holds no
contents that count (`LeaveKept`). Squashing needs no argument of its own: what is
sent are whole contents, so the last call carries those before it.

### The relay

The relay's invariant `RelayInv` is its type, `WalletExclusive`, and three
strengthenings. `WalletsLocked`: whoever signs or sends has its wallet's lock set;
this makes exclusion inductive, as a lock is set only where there is none and
cleared only by its holder, or for all when no request runs. `AttemptsInOrder`:
a transaction names an attempt that its request has made, and the current one
only once it is sent. `ReceiptsBacked`: a receipt that is to be recorded is that
of a mined transaction of the payload; with the primary key of the table it gives
`AnswerRecorded`. `NoDisplacement` needs what is on the way (`OnTheWay`): while
nothing has failed, the pool holds only transactions of awaited sends, whose
nonces are the counts of their wallets, so nothing that is mined drops another.

### Playback

Playback's invariant `QueueInv` joins `Mirrored`, said entry by entry, `InQueue`
and that the entries are tracks; neither of the two is inductive alone, as turning
shuffle off takes the position out of the permutation. The work is in the lemmas
on sequences: an insertion of new indices anywhere, a removal that renumbers what
lies behind it, and a move keep a permutation (`PermutationInserted`,
`PermutationDropped`, `PermutationMoved`), and the queue stays the original one
along it (`MirrorInserted`, `MirrorDropped`, `MirrorFollowed`). Each operation has
one lemma that says both that the invariant is kept and which step of `PlayOrder`
it is, so `PlaybackKeepsOrder`, the refinement, holds for queues of any length
and any interleaving of the sagas. The position while shuffling is an entry of the
permutation, so a reorder of the shuffled queue is a stutter of `PlayOrder`.

### The attester

The offset of a position counts failures, but the discovery node uses it to skip
rewards, whichever they are. That it skips none that is open needs to be known of
more than the position: also of rewards that are not listed yet, as they will be
before they are old enough (`Due`). `Progress` says that what was worked through is
settled (`WorkedThrough`); that the failures that were counted are listed after the
start of their position and before all that is due, and the offset is at most their
number (`Ahead`, of both positions in `Ways`); and that what is due is in work or not
before what is in work (`InWork`). An open reward then has at least as many listed
ones before it as the offset skips (`AheadIsBeyond`), however ties are ordered.

A page that is not full holds everything due behind the offset, and one that is full
ends with a reward before what is cut off (`PageIsFirst`, `NotSkipped`), so the queue
keeps `InWork` when it is filled. A batch is the first of the queue, so whatever is
due is not before its highest block (`BatchBeforeDue`), and only that block's failures
are counted (`FinishAhead`); those that tie with a failure are excused. That a batch
has a reward of a highest block is well-foundedness of strict inclusion again
(`Last`). The discovery node can only take rewards away or bring in what was due
already (`Shrinks`, `ShrinkingKeeps`), and everything else is marked in the history.
`Open` leaves out denied rewards: a position may well move past one of them.
### Only model-checked

- The liveness properties (`RequestEnds`, `GroupCleared`, `EditEnds`, `AllAttested`):
  neither fairness nor `ENABLED` is in the prover's reach.
- What a recursive operator computes for every input, where the recursion is over
  data: the induction theorems of the library take an operator as a parameter.
  Sums over finite sets are the exception explained above.

## 5. Not modelled, and what could come next

Done: the four staking contracts, governance over them, the ledger; the relay,
the confirmer with playlist edits, playback and its abstract order, the attester.

In the modelled components: `updateEndpoint` and `updateDelegateOwnerWallet` with
the id maps; the setters of lockups and limits, so that the voting period could be
set against the lockups in every order; `ServiceTypeManager` with types removed
while registered; the transfer to the community pool; node selection and the block
list of the attester; the other edits of a playlist; the Solana relay.

Components left out, each of which could be a module of its own:

- `EthRewardsManager` and the bridge; the Solana reward manager (attestations
  counted once per sender and operator) and claimable tokens (nonces) with lost,
  repeated and reordered transactions.
- Discovery challenges (events applied once whatever their order) and the
  indexers' checkpoints over a chain that reorganizes.

Out of reach of a state machine of this size: user interfaces, generated clients,
SQL queries and formatting, whose correctness is about rendering or about a
database; and most of the repository's lines are these. Libraries that build
transactions and the tooling have no state to speak of.
