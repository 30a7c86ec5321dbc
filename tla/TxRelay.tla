------------------------------- MODULE TxRelay -------------------------------
(***************************************************************************)
(* The transaction relay of the identity service (relay/txRelay.js): HTTP  *)
(* requests in several worker processes that sign users' transactions with *)
(* a pool of relayer wallets.  A wallet is taken by a lock in redis, which *)
(* outlives the process that set it; the nonce of a wallet is read from    *)
(* the chain; a row of the Transaction table answers a repeated request.   *)
(* The chain, its two providers and the network are the environment.       *)
(***************************************************************************)
EXTENDS Integers, FiniteSets

CONSTANTS Requests, Workers, Wallets, Payloads,
          Payload,         \* what each request asks to relay
          Serving,         \* the worker process that serves each request
          Reconfigurations,\* the payloads that change a replica set
          ReconfigurationLimit,
          NoWallet, NoReceipt,
          MaxFaults,       \* failed sends and timeouts
          MaxCrashes,      \* worker processes that die
          MaxRestarts,     \* restarts of the whole service
          MaxTrouble       \* all of these together

ASSUME RelayAssumption ==
    /\ Payload \in [Requests -> Payloads]
    /\ Serving \in [Requests -> Workers]
    /\ NoWallet \notin Wallets
    /\ \A r \in Requests, n \in 1..2 : NoReceipt # <<r, n>>

VARIABLES
    pc,         \* how far the handler of each request is
    try,        \* 1 with the primary, 2 with the secondary provider
    target,     \* the chain chosen for the request
    wallet,     \* the wallet it has locked
    nonce,      \* the nonce it has read
    answer,     \* the receipt the request got
    locks,      \* the wallet locks in redis
    db,         \* the Transaction table
    limiter,    \* reconfigurations counted in each worker
    chain,      \* external: [pool, mined, count, final]
    budget      \* faults, crashes and restarts so far

vars == <<pc, try, target, wallet, nonce, answer, locks, db, limiter, chain, budget>>

Ended == {"done", "failed", "lost"}
Running(r) == pc[r] \notin Ended \cup {"idle"}
Holding == {"locked", "signed", "sending"}
Transaction(r) == [by |-> r, try |-> try[r], nonce |-> nonce[r],
                   wallet |-> IF target[r] = "poa" THEN wallet[r] ELSE NoWallet]
Receipt(r) == <<r, try[r]>>

RelayInit ==
    /\ pc = [r \in Requests |-> "idle"]
    /\ try = [r \in Requests |-> 1]
    /\ target = [r \in Requests |-> "poa"]
    /\ wallet = [r \in Requests |-> NoWallet]
    /\ nonce = [r \in Requests |-> 0]
    /\ answer = [r \in Requests |-> NoReceipt]
    /\ locks = {}
    /\ db = [p \in Payloads |-> NoReceipt]
    /\ limiter = [k \in Workers |-> 0]
    /\ chain = [pool |-> {}, mined |-> {}, count |-> [w \in Wallets |-> 0], final |-> FALSE]
    /\ budget = [faults |-> 0, crashes |-> 0, restarts |-> 0]

(* Bounds what goes wrong in a behaviour. *)
CanHave(kind, max) ==
    /\ budget[kind] < max
    /\ budget.faults + budget.crashes + budget.restarts < MaxTrouble
    /\ budget' = [budget EXCEPT ![kind] = @ + 1]

(* Variant of RetryOrFail: the secondary provider is tried again and again. *)
RetryAlways(r) ==
    /\ try' = [try EXCEPT ![r] = @ + 1]
    /\ pc' = [pc EXCEPT ![r] = "retry"]

(* An error is thrown to sendTransaction, which tries the secondary provider once. *)
RetryOrFail(r) ==
    IF try[r] = 1
    THEN try' = [try EXCEPT ![r] = 2] /\ pc' = [pc EXCEPT ![r] = "retry"]
    ELSE try' = try /\ pc' = [pc EXCEPT ![r] = "failed"]

(* The locals of a handler that has left the block that uses them. *)
Forget(rs) ==
    /\ wallet' = [r \in Requests |-> IF r \in rs THEN NoWallet ELSE wallet[r]]
    /\ nonce' = [r \in Requests |-> IF r \in rs THEN 0 ELSE nonce[r]]
    /\ target' = [r \in Requests |-> IF r \in rs THEN "poa" ELSE target[r]]

(* Variant of Unlock: the lock of a failed or finished send is kept. *)
KeepLock(r) == locks' = locks /\ Forget({r})

(* clearLock in the finally block. *)
Unlock(r) == locks' = locks \ {wallet[r]} /\ Forget({r})

Starting(r) == pc[r] \in {"idle", "retry"}
Recorded(r) == db[Payload[r]] # NoReceipt

(* A payload that was relayed before is answered with its receipt. *)
AnswerExisting(r) ==
    /\ Starting(r) /\ Recorded(r)
    /\ answer' = [answer EXCEPT ![r] = db[Payload[r]]]
    /\ pc' = [pc EXCEPT ![r] = "done"]
    /\ UNCHANGED <<try, target, wallet, nonce, locks, db, limiter, chain, budget>>

(* filterReplicaSetUpdates counts first and then refuses. *)
Counted(r) == IF Payload[r] \in Reconfigurations
              THEN [limiter EXCEPT ![Serving[r]] = @ + 1] ELSE limiter
Refused(r) == Payload[r] \in Reconfigurations
              /\ limiter[Serving[r]] >= ReconfigurationLimit

RefuseReconfiguration(r) ==
    /\ Starting(r) /\ ~Recorded(r) /\ Refused(r)
    /\ limiter' = Counted(r)
    /\ RetryOrFail(r)
    /\ UNCHANGED <<target, wallet, nonce, answer, locks, db, chain, budget>>

Admit(r) ==
    /\ Starting(r) /\ ~Recorded(r) /\ ~Refused(r)
    /\ limiter' = Counted(r)
    /\ target' = [target EXCEPT ![r] = IF chain.final THEN "nethermind" ELSE "poa"]
    /\ pc' = [pc EXCEPT ![r] = "selecting"]
    /\ UNCHANGED <<try, wallet, nonce, answer, locks, db, chain, budget>>

(* setInterval clears the count of a worker. *)
ResetLimiter(k) ==
    /\ limiter[k] > 0
    /\ limiter' = [limiter EXCEPT ![k] = 0]
    /\ UNCHANGED <<pc, try, target, wallet, nonce, answer, locks, db, chain, budget>>

(* Variant of SelectWallet: getLock followed by setLock, whose answer is ignored. *)
SelectAnyWallet(r, w) ==
    /\ pc[r] = "selecting"
    /\ locks' = locks \cup {w}
    /\ wallet' = [wallet EXCEPT ![r] = w]
    /\ pc' = [pc EXCEPT ![r] = "locked"]
    /\ UNCHANGED <<try, target, nonce, answer, db, limiter, chain, budget>>

(* selectWallet takes the first wallet from a random offset whose key it can set; *)
(* while there is none the request polls.                                         *)
SelectWallet(r, w) ==
    /\ pc[r] = "selecting"
    /\ w \notin locks
    /\ locks' = locks \cup {w}
    /\ wallet' = [wallet EXCEPT ![r] = w]
    /\ pc' = [pc EXCEPT ![r] = "locked"]
    /\ UNCHANGED <<try, target, nonce, answer, db, limiter, chain, budget>>

(* createAndSendTransaction: getTransactionCount counts what was mined. *)
ReadNonce(r) ==
    /\ pc[r] = "locked" /\ target[r] = "poa"
    /\ nonce' = [nonce EXCEPT ![r] = chain.count[wallet[r]]]
    /\ pc' = [pc EXCEPT ![r] = "signed"]
    /\ UNCHANGED <<try, target, wallet, answer, locks, db, limiter, chain, budget>>

(* sendSignedTransaction; relayToNethermind signs with a fresh account instead. *)
(* The node refuses a nonce that was mined since it was read.                   *)
Submit(r) ==
    /\ pc[r] = IF target[r] = "poa" THEN "signed" ELSE "locked"
    /\ IF target[r] = "poa" /\ nonce[r] # chain.count[wallet[r]]
       THEN chain' = chain
       ELSE chain' = [chain EXCEPT !.pool = @ \cup {Transaction(r)}]
    /\ pc' = [pc EXCEPT ![r] = "sending"]
    /\ UNCHANGED <<try, target, wallet, nonce, answer, locks, db, limiter, budget>>

Receive(r) ==
    /\ pc[r] = "sending" /\ Transaction(r) \in chain.mined
    /\ answer' = [answer EXCEPT ![r] = Receipt(r)]
    /\ Unlock(r)
    /\ pc' = [pc EXCEPT ![r] = "recording"]
    /\ UNCHANGED <<try, db, limiter, chain, budget>>

Displaced(r) == pc[r] = "sending" /\ Transaction(r) \notin chain.pool \cup chain.mined

(* The send is given up: an error or a timeout, after which the transaction may *)
(* still be mined, or a transaction that another one of its nonce displaced.    *)
SendFails(r) ==
    /\ pc[r] \in Holding
    /\ \/ Displaced(r) /\ budget' = budget
       \/ CanHave("faults", MaxFaults)
    /\ Unlock(r)
    /\ RetryOrFail(r)
    /\ UNCHANGED <<answer, db, limiter, chain>>

(* Variant of Record: the hash is no primary key. *)
RecordAlways(r) ==
    /\ pc[r] = "recording"
    /\ db' = [db EXCEPT ![Payload[r]] = answer[r]]
    /\ pc' = [pc EXCEPT ![r] = "done"]
    /\ UNCHANGED <<try, target, wallet, nonce, answer, locks, limiter, chain, budget>>

(* Transaction.create, after the lock is released: the hash is the primary key. *)
Record(r) ==
    /\ pc[r] = "recording" /\ ~Recorded(r)
    /\ db' = [db EXCEPT ![Payload[r]] = answer[r]]
    /\ pc' = [pc EXCEPT ![r] = "done"]
    /\ UNCHANGED <<try, target, wallet, nonce, answer, locks, limiter, chain, budget>>

RecordRefused(r) ==
    /\ pc[r] = "recording" /\ Recorded(r)
    /\ RetryOrFail(r)
    /\ UNCHANGED <<target, wallet, nonce, answer, locks, db, limiter, chain, budget>>

(* External: the chain mines the next nonce of a wallet. *)
Mine(t) ==
    /\ t \in chain.pool
    /\ IF t.wallet = NoWallet
       THEN chain' = [chain EXCEPT !.pool = @ \ {t}, !.mined = @ \cup {t}]
       ELSE chain' = [chain EXCEPT !.count[t.wallet] = @ + 1, !.mined = @ \cup {t},
                 !.pool = {u \in @ : u.wallet # t.wallet \/ u.nonce # t.nonce}]
    /\ UNCHANGED <<pc, try, target, wallet, nonce, answer, locks, db, limiter, budget>>

(* External: the chain passes finalPOABlock, after which nethermind is used. *)
PassFinalBlock ==
    /\ ~chain.final
    /\ chain' = [chain EXCEPT !.final = TRUE]
    /\ UNCHANGED <<pc, try, target, wallet, nonce, answer, locks, db, limiter, budget>>

Lose(rs) ==
    /\ pc' = [r \in Requests |-> IF r \in rs /\ Running(r) THEN "lost" ELSE pc[r]]
    /\ Forget(rs)

(* A worker dies and another one is forked: its locks stay in redis. *)
WorkerCrash(k) ==
    /\ CanHave("crashes", MaxCrashes)
    /\ Lose({r \in Requests : Serving[r] = k})
    /\ limiter' = [limiter EXCEPT ![k] = 0]
    /\ UNCHANGED <<try, answer, locks, db, chain>>

(* The master starts: it clears the locks before it forks the workers. *)
Restart ==
    /\ CanHave("restarts", MaxRestarts)
    /\ Lose(Requests)
    /\ locks' = {}
    /\ limiter' = [k \in Workers |-> 0]
    /\ UNCHANGED <<try, answer, db, chain>>

Handle(r) ==
    \/ AnswerExisting(r) \/ RefuseReconfiguration(r) \/ Admit(r)
    \/ \E w \in Wallets : SelectWallet(r, w)
    \/ ReadNonce(r) \/ Submit(r) \/ Receive(r)
    \/ Record(r) \/ RecordRefused(r)

RelayNext ==
    \/ \E r \in Requests : Handle(r) \/ SendFails(r)
    \/ \E t \in chain.pool : Mine(t)
    \/ PassFinalBlock \/ Restart
    \/ \E k \in Workers : ResetLimiter(k) \/ WorkerCrash(k)

(* The event loop runs every handler it has begun, the chain mines what it can, *)
(* and a displaced transaction is reported by its provider in the end.  Nothing  *)
(* says that requests arrive, that sends fail or that processes die.             *)
RelayFairness ==
    /\ \A r \in Requests : WF_vars(pc[r] # "idle" /\ Handle(r))
    /\ \A r \in Requests : WF_vars(Displaced(r) /\ SendFails(r))
    /\ WF_vars(\E t \in chain.pool : Mine(t))

RelaySpec == RelayInit /\ [][RelayNext]_vars
FairRelaySpec == RelaySpec /\ RelayFairness
-----------------------------------------------------------------------------
(* Properties *)

Receipts == Requests \X (1..2)
Transactions == [by : Requests, try : 1..2, nonce : Nat, wallet : Wallets \cup {NoWallet}]

RelayTypeOK ==
    /\ pc \in [Requests -> {"idle", "retry", "selecting", "recording"} \cup Holding \cup Ended]
    /\ try \in [Requests -> 1..2]
    /\ target \in [Requests -> {"poa", "nethermind"}]
    /\ wallet \in [Requests -> Wallets \cup {NoWallet}]
    /\ nonce \in [Requests -> Nat]
    /\ answer \in [Requests -> Receipts \cup {NoReceipt}]
    /\ locks \subseteq Wallets
    /\ db \in [Payloads -> Receipts \cup {NoReceipt}]
    /\ limiter \in [Workers -> Nat]
    /\ chain \in [pool : SUBSET Transactions, mined : SUBSET Transactions,
                  count : [Wallets -> Nat], final : BOOLEAN]
    /\ budget \in [faults : Nat, crashes : Nat, restarts : Nat]

(* Lock.setLock "lock[s] relay wallets during a transaction": no two requests,  *)
(* in whatever workers, sign with the same wallet at a time, through retries,    *)
(* deaths of workers and restarts.                                               *)
WalletExclusive ==
    \A r, s \in Requests :
        pc[r] \in Holding /\ pc[s] \in Holding /\ wallet[r] = wallet[s] => r = s

(* What the lock is for: as long as every send is awaited to its end, the nonce *)
(* read under the lock is still free when the transaction arrives, so that no    *)
(* transaction displaces another one.                                            *)
NoDisplacement ==
    budget = [faults |-> 0, crashes |-> 0, restarts |-> 0]
        => \A r \in Requests : ~Displaced(r)

(* Repeated and concurrent requests for one payload get the same receipt, that  *)
(* of a mined transaction of this payload, although the row is looked up before  *)
(* the lock is taken and written after it is released.                           *)
AnswerRecorded ==
    /\ \A r \in Requests : pc[r] = "done" => Recorded(r) /\ answer[r] = db[Payload[r]]
    /\ \A p \in Payloads : db[p] # NoReceipt =>
          \E t \in chain.mined : db[p] = <<t.by, t.try>> /\ Payload[t.by] = p

(* Locks that no running request holds: a worker died with them. *)
Orphaned == locks \ {wallet[r] : r \in {q \in Requests : pc[q] \in Holding}}

(* Every request comes to an end, unless dead workers have kept every wallet:   *)
(* "keep iterating until a wallet is freed up" (txRelay.js).                     *)
RequestEnds ==
    \A r \in Requests : Running(r) ~> (pc[r] \in Ended \/ (budget.crashes > 0 /\ Orphaned = Wallets))

(* A wallet that is in use is freed up in the end. *)
WalletFreed == \A w \in Wallets : w \in locks ~> w \notin locks
=============================================================================
