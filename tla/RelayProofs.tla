----------------------------- MODULE RelayProofs -----------------------------
(***************************************************************************)
(* For any number of requests, workers, wallets and payloads, and with any *)
(* bounds on faults: no wallet is used by two requests at a time, answers  *)
(* are those of the table, and without faults no transaction displaces     *)
(* another one.                                                            *)
(***************************************************************************)
EXTENDS TxRelay, TLAPS

USE RelayAssumption

\* A request signs with a wallet whose lock is set, and which nobody else holds.
WalletsLocked ==
    \A r \in Requests : pc[r] \in Holding => wallet[r] \in locks

\* What a request has sent carries its current attempt only once it is sending.
AttemptsInOrder ==
    \A t \in chain.pool \cup chain.mined :
        /\ t.try <= try[t.by]
        /\ t.try = try[t.by] => pc[t.by] \in {"sending", "recording"} \cup Ended

\* A receipt is that of a mined transaction of the payload.
Backed(receipt, p) == \E t \in chain.mined : receipt = <<t.by, t.try>> /\ Payload[t.by] = p

ReceiptsBacked ==
    /\ \A r \in Requests : pc[r] = "recording" => Backed(answer[r], Payload[r])
    /\ \A p \in Payloads : db[p] # NoReceipt => Backed(db[p], p)
    /\ \A r \in Requests : pc[r] = "done" => Recorded(r) /\ answer[r] = db[Payload[r]]

RelayInv == RelayTypeOK /\ WalletsLocked /\ WalletExclusive /\ AttemptsInOrder /\ ReceiptsBacked

\* Nothing has gone wrong so far.
Quiet == budget = [faults |-> 0, crashes |-> 0, restarts |-> 0]

\* Then all transactions on the way are those of sends that are awaited, with
\* nonces that are the next ones of their wallets.
OnTheWay ==
    Quiet => /\ \A t \in chain.pool : pc[t.by] = "sending" /\ t = Transaction(t.by)
             /\ chain.pool \cap chain.mined = {}
             /\ \A r \in Requests :
                   /\ pc[r] = "signed" => target[r] = "poa" /\ nonce[r] = chain.count[wallet[r]]
                   /\ pc[r] = "sending" => Transaction(r) \in chain.pool \cup chain.mined

-----------------------------------------------------------------------------
\* No request holds anything at first, and nothing is recorded.
LEMMA RelayInit1 == RelayInit => RelayInv
  BY DEF RelayInit, RelayInv, RelayTypeOK, WalletsLocked, WalletExclusive, AttemptsInOrder,
         ReceiptsBacked, Holding, Ended, Recorded, Receipts, Transactions, Backed

\* Mining moves one transaction, and drops others of its nonce.
LEMMA MineEffect ==
    ASSUME RelayTypeOK, NEW t \in chain.pool, Mine(t)
    PROVE  /\ RelayTypeOK'
           /\ chain'.pool \subseteq chain.pool \ {t}
           /\ chain'.mined = chain.mined \cup {t}
           /\ UNCHANGED <<pc, try, target, wallet, nonce, answer, locks, db, limiter, budget>>
<1> USE DEF RelayTypeOK
<1>1. t \in Transactions OBVIOUS
<1>2. CASE t.wallet = NoWallet
  <2>1. chain' = [chain EXCEPT !.pool = @ \ {t}, !.mined = @ \cup {t}] BY <1>2 DEF Mine
  <2>2. chain' \in [pool : SUBSET Transactions, mined : SUBSET Transactions,
                   count : [Wallets -> Nat], final : BOOLEAN]
    BY <1>1, <2>1
  <2>3. QED BY <2>1, <2>2 DEF Mine
<1>3. CASE t.wallet # NoWallet
  <2>1. t.wallet \in Wallets BY <1>1, <1>3 DEF Transactions
  <2>2. chain' = [chain EXCEPT !.count = [chain.count EXCEPT ![t.wallet] = @ + 1],
                    !.mined = @ \cup {t},
                    !.pool = {u \in @ : u.wallet # t.wallet \/ u.nonce # t.nonce}]
    BY <1>3 DEF Mine
  <2>3. [chain.count EXCEPT ![t.wallet] = @ + 1] \in [Wallets -> Nat] BY <2>1
  <2>4. QED BY <1>1, <2>2, <2>3 DEF Mine
<1>4. QED BY <1>2, <1>3

\* Nonces are read with a wallet in hand.
LEMMA TypeStep ==
    ASSUME RelayTypeOK, WalletsLocked, [RelayNext]_vars PROVE RelayTypeOK'
<1> USE DEF RelayTypeOK, Holding, Ended
<1>1. ASSUME NEW r \in Requests, AnswerExisting(r) PROVE RelayTypeOK'
  BY <1>1 DEF AnswerExisting, Starting, Recorded
<1>2. ASSUME NEW r \in Requests, RefuseReconfiguration(r) PROVE RelayTypeOK'
  BY <1>2 DEF RefuseReconfiguration, RetryOrFail, Counted, Starting
<1>3. ASSUME NEW r \in Requests, Admit(r) PROVE RelayTypeOK'
  BY <1>3 DEF Admit, Counted, Starting
<1>4. ASSUME NEW r \in Requests, NEW w \in Wallets, SelectWallet(r, w) PROVE RelayTypeOK'
  BY <1>4 DEF SelectWallet
<1>5. ASSUME NEW r \in Requests, ReadNonce(r) PROVE RelayTypeOK'
  BY <1>5 DEF ReadNonce, WalletsLocked
<1>6. ASSUME NEW r \in Requests, Submit(r) PROVE RelayTypeOK'
  BY <1>6 DEF Submit, Transaction, Transactions
<1>7. ASSUME NEW r \in Requests, Receive(r) PROVE RelayTypeOK'
  BY <1>7 DEF Receive, Unlock, Forget, Receipt, Receipts
<1>8. ASSUME NEW r \in Requests, Record(r) PROVE RelayTypeOK'
  BY <1>8 DEF Record, Recorded
<1>9. ASSUME NEW r \in Requests, RecordRefused(r) PROVE RelayTypeOK'
  BY <1>9 DEF RecordRefused, RetryOrFail
<1>10. ASSUME NEW r \in Requests, SendFails(r) PROVE RelayTypeOK'
  BY <1>10 DEF SendFails, Unlock, Forget, RetryOrFail, CanHave
<1>11. ASSUME NEW t \in chain.pool, Mine(t) PROVE RelayTypeOK'
  BY <1>11, MineEffect
<1>12. CASE PassFinalBlock
  BY <1>12 DEF PassFinalBlock
<1>13. CASE Restart
  BY <1>13 DEF Restart, CanHave, Lose, Forget, Running
<1>14. ASSUME NEW k \in Workers, ResetLimiter(k) PROVE RelayTypeOK'
  BY <1>14 DEF ResetLimiter
<1>15. ASSUME NEW k \in Workers, WorkerCrash(k) PROVE RelayTypeOK'
  BY <1>15 DEF WorkerCrash, CanHave, Lose, Forget, Running
<1>16. CASE UNCHANGED vars
  BY <1>16 DEF vars
<1> QED
  BY <1>1, <1>2, <1>3, <1>4, <1>5, <1>6, <1>7, <1>8, <1>9, <1>10, <1>11, <1>12, <1>13, <1>14, <1>15, <1>16 DEF RelayNext, Handle

\* A lock is cleared by the request that holds it, or with all requests gone.
LEMMA LockStep ==
    ASSUME RelayTypeOK, WalletsLocked, WalletExclusive, [RelayNext]_vars
    PROVE  WalletsLocked' /\ WalletExclusive'
<1> USE DEF RelayTypeOK, WalletsLocked, WalletExclusive, Holding, Ended
<1>1. ASSUME NEW r \in Requests, AnswerExisting(r) PROVE WalletsLocked' /\ WalletExclusive'
  BY <1>1 DEF AnswerExisting, Starting, Recorded
<1>2. ASSUME NEW r \in Requests, RefuseReconfiguration(r) PROVE WalletsLocked' /\ WalletExclusive'
  BY <1>2 DEF RefuseReconfiguration, RetryOrFail, Counted, Starting
<1>3. ASSUME NEW r \in Requests, Admit(r) PROVE WalletsLocked' /\ WalletExclusive'
  BY <1>3 DEF Admit, Counted, Starting
<1>4. ASSUME NEW r \in Requests, NEW w \in Wallets, SelectWallet(r, w) PROVE WalletsLocked' /\ WalletExclusive'
  BY <1>4 DEF SelectWallet
<1>5. ASSUME NEW r \in Requests, ReadNonce(r) PROVE WalletsLocked' /\ WalletExclusive'
  BY <1>5 DEF ReadNonce
<1>6. ASSUME NEW r \in Requests, Submit(r) PROVE WalletsLocked' /\ WalletExclusive'
  BY <1>6 DEF Submit, Transaction
<1>7. ASSUME NEW r \in Requests, Receive(r) PROVE WalletsLocked' /\ WalletExclusive'
  BY <1>7 DEF Receive, Unlock, Forget, Receipt
<1>8. ASSUME NEW r \in Requests, Record(r) PROVE WalletsLocked' /\ WalletExclusive'
  BY <1>8 DEF Record, Recorded
<1>9. ASSUME NEW r \in Requests, RecordRefused(r) PROVE WalletsLocked' /\ WalletExclusive'
  BY <1>9 DEF RecordRefused, RetryOrFail
<1>10. ASSUME NEW r \in Requests, SendFails(r) PROVE WalletsLocked' /\ WalletExclusive'
  BY <1>10 DEF SendFails, Unlock, Forget, RetryOrFail, CanHave
<1>11. ASSUME NEW t \in chain.pool, Mine(t) PROVE WalletsLocked' /\ WalletExclusive'
  BY <1>11 DEF Mine
<1>12. CASE PassFinalBlock
  BY <1>12 DEF PassFinalBlock
<1>13. CASE Restart
  BY <1>13 DEF Restart, CanHave, Lose, Forget, Running
<1>14. ASSUME NEW k \in Workers, ResetLimiter(k) PROVE WalletsLocked' /\ WalletExclusive'
  BY <1>14 DEF ResetLimiter
<1>15. ASSUME NEW k \in Workers, WorkerCrash(k) PROVE WalletsLocked' /\ WalletExclusive'
  BY <1>15 DEF WorkerCrash, CanHave, Lose, Forget, Running
<1>16. CASE UNCHANGED vars
  BY <1>16 DEF vars
<1> QED
  BY <1>1, <1>2, <1>3, <1>4, <1>5, <1>6, <1>7, <1>8, <1>9, <1>10, <1>11, <1>12, <1>13, <1>14, <1>15, <1>16 DEF RelayNext, Handle

\* What is sent names the attempt that its request is at.
LEMMA AttemptStep ==
    ASSUME RelayTypeOK, AttemptsInOrder, [RelayNext]_vars PROVE AttemptsInOrder'
<1> USE DEF RelayTypeOK, AttemptsInOrder, Holding, Ended
<1>1. ASSUME NEW r \in Requests, AnswerExisting(r) PROVE AttemptsInOrder'
  BY <1>1 DEF AnswerExisting, Starting, Recorded
<1>2. ASSUME NEW r \in Requests, RefuseReconfiguration(r) PROVE AttemptsInOrder'
  <2> TAKE u \in (chain.pool \cup chain.mined)'
  <2>1. /\ u \in chain.pool \cup chain.mined
        /\ u.by \in Requests /\ u.try \in 1..2
    BY <1>2 DEF RefuseReconfiguration, Transactions
  <2>2. CASE u.by = r BY <1>2, <2>1, <2>2 DEF RefuseReconfiguration, RetryOrFail, Starting
  <2>3. CASE u.by # r BY <1>2, <2>1, <2>3 DEF RefuseReconfiguration, RetryOrFail
  <2>4. QED BY <2>2, <2>3
<1>3. ASSUME NEW r \in Requests, Admit(r) PROVE AttemptsInOrder'
  BY <1>3 DEF Admit, Counted, Starting
<1>4. ASSUME NEW r \in Requests, NEW w \in Wallets, SelectWallet(r, w) PROVE AttemptsInOrder'
  BY <1>4 DEF SelectWallet
<1>5. ASSUME NEW r \in Requests, ReadNonce(r) PROVE AttemptsInOrder'
  BY <1>5 DEF ReadNonce
<1>6. ASSUME NEW r \in Requests, Submit(r) PROVE AttemptsInOrder'
  BY <1>6 DEF Submit, Transaction
<1>7. ASSUME NEW r \in Requests, Receive(r) PROVE AttemptsInOrder'
  BY <1>7 DEF Receive, Unlock, Forget, Receipt
<1>8. ASSUME NEW r \in Requests, Record(r) PROVE AttemptsInOrder'
  BY <1>8 DEF Record, Recorded
<1>9. ASSUME NEW r \in Requests, RecordRefused(r) PROVE AttemptsInOrder'
  <2> TAKE u \in (chain.pool \cup chain.mined)'
  <2>1. /\ u \in chain.pool \cup chain.mined
        /\ u.by \in Requests /\ u.try \in 1..2
    BY <1>9 DEF RecordRefused, Transactions
  <2>2. CASE u.by = r BY <1>9, <2>1, <2>2 DEF RecordRefused, RetryOrFail, Starting
  <2>3. CASE u.by # r BY <1>9, <2>1, <2>3 DEF RecordRefused, RetryOrFail
  <2>4. QED BY <2>2, <2>3
<1>10. ASSUME NEW r \in Requests, SendFails(r) PROVE AttemptsInOrder'
  <2> TAKE u \in (chain.pool \cup chain.mined)'
  <2>1. /\ u \in chain.pool \cup chain.mined
        /\ u.by \in Requests /\ u.try \in 1..2
    BY <1>10 DEF SendFails, Transactions
  <2>2. CASE u.by = r BY <1>10, <2>1, <2>2 DEF SendFails, RetryOrFail, Starting
  <2>3. CASE u.by # r BY <1>10, <2>1, <2>3 DEF SendFails, RetryOrFail
  <2>4. QED BY <2>2, <2>3
<1>11. ASSUME NEW t \in chain.pool, Mine(t) PROVE AttemptsInOrder'
  BY <1>11, MineEffect
<1>12. CASE PassFinalBlock
  BY <1>12 DEF PassFinalBlock
<1>13. CASE Restart
  <2> TAKE u \in (chain.pool \cup chain.mined)'
  <2>1. u \in chain.pool \cup chain.mined /\ u.by \in Requests
    BY <1>13 DEF Restart, Transactions
  <2>2. try' = try /\ pc'[u.by] \in {pc[u.by], "lost"} BY <1>13, <2>1 DEF Restart, Lose
  <2>3. QED BY <2>1, <2>2
<1>14. ASSUME NEW k \in Workers, ResetLimiter(k) PROVE AttemptsInOrder'
  BY <1>14 DEF ResetLimiter
<1>15. ASSUME NEW k \in Workers, WorkerCrash(k) PROVE AttemptsInOrder'
  <2> TAKE u \in (chain.pool \cup chain.mined)'
  <2>1. u \in chain.pool \cup chain.mined /\ u.by \in Requests
    BY <1>15 DEF WorkerCrash, Transactions
  <2>2. try' = try /\ pc'[u.by] \in {pc[u.by], "lost"} BY <1>15, <2>1 DEF WorkerCrash, Lose
  <2>3. QED BY <2>1, <2>2
<1>16. CASE UNCHANGED vars
  BY <1>16 DEF vars
<1> QED
  BY <1>1, <1>2, <1>3, <1>4, <1>5, <1>6, <1>7, <1>8, <1>9, <1>10, <1>11, <1>12, <1>13, <1>14, <1>15, <1>16 DEF RelayNext, Handle

\* A receipt is taken from a mined transaction and recorded where there is none.
LEMMA ReceiptStep ==
    ASSUME RelayTypeOK, ReceiptsBacked, [RelayNext]_vars PROVE ReceiptsBacked'
<1> USE DEF RelayTypeOK, ReceiptsBacked, Holding, Ended, Recorded, Backed
<1>1. ASSUME NEW r \in Requests, AnswerExisting(r) PROVE ReceiptsBacked'
  BY <1>1 DEF AnswerExisting, Starting, Recorded
<1>2. ASSUME NEW r \in Requests, RefuseReconfiguration(r) PROVE ReceiptsBacked'
  BY <1>2 DEF RefuseReconfiguration, RetryOrFail, Counted, Starting
<1>3. ASSUME NEW r \in Requests, Admit(r) PROVE ReceiptsBacked'
  BY <1>3 DEF Admit, Counted, Starting
<1>4. ASSUME NEW r \in Requests, NEW w \in Wallets, SelectWallet(r, w) PROVE ReceiptsBacked'
  BY <1>4 DEF SelectWallet
<1>5. ASSUME NEW r \in Requests, ReadNonce(r) PROVE ReceiptsBacked'
  BY <1>5 DEF ReadNonce
<1>6. ASSUME NEW r \in Requests, Submit(r) PROVE ReceiptsBacked'
  BY <1>6 DEF Submit, Transaction
<1>7. ASSUME NEW r \in Requests, Receive(r) PROVE ReceiptsBacked'
  <2>1. /\ chain' = chain /\ db' = db /\ answer' = [answer EXCEPT ![r] = <<r, try[r]>>]
        /\ \A q \in Requests : pc'[q] = IF q = r THEN "recording" ELSE pc[q]
    BY <1>7 DEF Receive, Receipt
  <2>2. Transaction(r) \in chain.mined BY <1>7 DEF Receive
  <2>3. Backed(<<r, try[r]>>, Payload[r]) BY <2>2 DEF Transaction
  <2>4. QED BY <2>1, <2>3
<1>8. ASSUME NEW r \in Requests, Record(r) PROVE ReceiptsBacked'
  <2>1. /\ chain' = chain /\ answer' = answer /\ pc[r] = "recording" /\ db[Payload[r]] = NoReceipt
        /\ \A p \in Payloads : db'[p] = IF p = Payload[r] THEN answer[r] ELSE db[p]
        /\ \A q \in Requests : pc'[q] = IF q = r THEN "done" ELSE pc[q]
    BY <1>8 DEF Record
  <2>2. Payload \in [Requests -> Payloads] OBVIOUS
  <2>3. answer[r] # NoReceipt
    <3>1. PICK t \in chain.mined : answer[r] = <<t.by, t.try>> BY <2>1
    <3>2. t.by \in Requests /\ t.try \in 1..2 BY <3>1 DEF Transactions
    <3>3. QED BY <3>1, <3>2
  <2>4. QED BY <2>1, <2>2, <2>3
<1>9. ASSUME NEW r \in Requests, RecordRefused(r) PROVE ReceiptsBacked'
  BY <1>9 DEF RecordRefused, RetryOrFail
<1>10. ASSUME NEW r \in Requests, SendFails(r) PROVE ReceiptsBacked'
  BY <1>10 DEF SendFails, Unlock, Forget, RetryOrFail, CanHave
<1>11. ASSUME NEW t \in chain.pool, Mine(t) PROVE ReceiptsBacked'
  BY <1>11, MineEffect
<1>12. CASE PassFinalBlock
  BY <1>12 DEF PassFinalBlock
<1>13. CASE Restart
  BY <1>13 DEF Restart, CanHave, Lose, Forget, Running
<1>14. ASSUME NEW k \in Workers, ResetLimiter(k) PROVE ReceiptsBacked'
  BY <1>14 DEF ResetLimiter
<1>15. ASSUME NEW k \in Workers, WorkerCrash(k) PROVE ReceiptsBacked'
  BY <1>15 DEF WorkerCrash, CanHave, Lose, Forget, Running
<1>16. CASE UNCHANGED vars
  BY <1>16 DEF vars
<1> QED
  BY <1>1, <1>2, <1>3, <1>4, <1>5, <1>6, <1>7, <1>8, <1>9, <1>10, <1>11, <1>12, <1>13, <1>14, <1>15, <1>16 DEF RelayNext, Handle

\* Whoever is not sending may go on without a transaction.
LEMMA QuietFrame ==
    ASSUME RelayTypeOK, OnTheWay, NEW r \in Requests, UNCHANGED <<chain, budget>>,
           pc[r] # "sending", pc'[r] \notin {"sending", "signed"},
           \A q \in Requests \ {r} :
               /\ pc'[q] = pc[q] /\ try'[q] = try[q] /\ target'[q] = target[q]
               /\ nonce'[q] = nonce[q] /\ wallet'[q] = wallet[q]
    PROVE  OnTheWay'
<1> SUFFICES ASSUME Quiet' PROVE OnTheWay' BY DEF OnTheWay
<1>1. Quiet BY DEF Quiet
<1>2. \A q \in Requests \ {r} : Transaction(q)' = Transaction(q) BY DEF Transaction
<1>3. \A t \in chain.pool : t.by \in Requests \ {r} BY <1>1 DEF OnTheWay, RelayTypeOK, Transactions
<1>4. \A t \in chain'.pool : pc'[t.by] = "sending" /\ t = Transaction(t.by)'
  BY <1>1, <1>2, <1>3 DEF OnTheWay
<1>5. \A q \in Requests : pc'[q] = "sending" => Transaction(q)' \in chain'.pool \cup chain'.mined
  BY <1>1, <1>2 DEF OnTheWay
<1>6. QED BY <1>1, <1>4, <1>5 DEF OnTheWay

\* Steps that leave the chain, the nonces and the phases alone.
LEMMA QuietSame ==
    ASSUME OnTheWay, UNCHANGED <<pc, try, target, wallet, nonce, budget>>,
           chain'.pool = chain.pool, chain'.mined = chain.mined, chain'.count = chain.count
    PROVE  OnTheWay'
<1>1. \A q \in Requests : Transaction(q)' = Transaction(q) BY DEF Transaction
<1>2. \A t \in chain.pool : Transaction(t.by)' = Transaction(t.by) BY DEF Transaction
<1>3. QED BY <1>1, <1>2 DEF OnTheWay, Quiet

\* What goes wrong is counted.
LEMMA Counts ==
    ASSUME RelayTypeOK, NEW kind \in {"faults", "crashes", "restarts"}, NEW max, CanHave(kind, max)
    PROVE  ~Quiet'
<1>1. budget'[kind] = budget[kind] + 1 BY DEF CanHave, RelayTypeOK
<1>2. budget[kind] \in Nat BY DEF RelayTypeOK
<1>3. QED BY <1>1, <1>2 DEF Quiet

\* Without faults a transaction leaves the pool only to be mined, and its nonce is
\* the next one of a wallet that its request still holds.
LEMMA OnTheWayStep ==
    ASSUME RelayInv, OnTheWay, [RelayNext]_vars PROVE OnTheWay'
<1> USE DEF RelayInv
<1>1. ASSUME NEW r \in Requests, AnswerExisting(r) PROVE OnTheWay'
  BY <1>1, QuietFrame DEF AnswerExisting, RelayTypeOK, Starting, Recorded
<1>2. ASSUME NEW r \in Requests, RefuseReconfiguration(r) PROVE OnTheWay'
  BY <1>2, QuietFrame DEF RefuseReconfiguration, RelayTypeOK, RetryOrFail, Counted, Starting
<1>3. ASSUME NEW r \in Requests, Admit(r) PROVE OnTheWay'
  BY <1>3, QuietFrame DEF Admit, RelayTypeOK, Counted, Starting
<1>4. ASSUME NEW r \in Requests, NEW w \in Wallets, SelectWallet(r, w) PROVE OnTheWay'
  BY <1>4, QuietFrame DEF SelectWallet, RelayTypeOK
<1>5. ASSUME NEW r \in Requests, ReadNonce(r) PROVE OnTheWay'
  <2> SUFFICES ASSUME Quiet' PROVE OnTheWay' BY DEF OnTheWay
  <2>1. Quiet BY <1>5 DEF Quiet, ReadNonce
  <2>2. /\ UNCHANGED <<try, target, wallet, chain>> /\ pc[r] = "locked" /\ target[r] = "poa"
        /\ \A q \in Requests : pc'[q] = IF q = r THEN "signed" ELSE pc[q]
        /\ \A q \in Requests : nonce'[q] = IF q = r THEN chain.count[wallet[r]] ELSE nonce[q]
    BY <1>5 DEF ReadNonce, RelayTypeOK
  <2>3. \A t \in chain.pool : t.by \in Requests \ {r}
    BY <2>1, <2>2 DEF OnTheWay, RelayTypeOK, Transactions
  <2>4. \A q \in Requests \ {r} : Transaction(q)' = Transaction(q) BY <2>2 DEF Transaction
  <2>5. \A t \in chain'.pool : pc'[t.by] = "sending" /\ t = Transaction(t.by)'
    BY <2>1, <2>2, <2>3, <2>4 DEF OnTheWay
  <2>6. \A q \in Requests :
           /\ pc'[q] = "signed" => target'[q] = "poa" /\ nonce'[q] = chain'.count[wallet'[q]]
           /\ pc'[q] = "sending" => Transaction(q)' \in chain'.pool \cup chain'.mined
    BY <2>1, <2>2, <2>4 DEF OnTheWay
  <2>7. QED BY <2>1, <2>2, <2>5, <2>6 DEF OnTheWay
<1>6. ASSUME NEW r \in Requests, Submit(r) PROVE OnTheWay'
  <2> SUFFICES ASSUME Quiet' PROVE OnTheWay' BY DEF OnTheWay
  <2>1. Quiet BY <1>6 DEF Quiet, Submit
  <2>2. /\ UNCHANGED <<try, target, wallet, nonce>> /\ pc[r] \in {"signed", "locked"}
        /\ \A q \in Requests : pc'[q] = IF q = r THEN "sending" ELSE pc[q]
    BY <1>6 DEF Submit, RelayTypeOK
  <2>3. /\ chain'.pool = chain.pool \cup {Transaction(r)}
        /\ chain'.mined = chain.mined /\ chain'.count = chain.count
    BY <1>6, <2>1, <2>2 DEF Submit, OnTheWay, RelayTypeOK
  <2>4. \A q : Transaction(q)' = Transaction(q) BY <2>2 DEF Transaction
  <2>5. Transaction(r) \notin chain.mined
    BY <2>2 DEF AttemptsInOrder, Transaction, Ended
  <2>6. \A t \in chain'.pool : pc'[t.by] = "sending" /\ t = Transaction(t.by)'
    <3> TAKE t \in chain'.pool
    <3>1. CASE t = Transaction(r) BY <2>2, <2>4, <3>1 DEF Transaction
    <3>2. CASE t # Transaction(r)
      <4>1. t \in chain.pool BY <2>3, <3>2
      <4>2. QED BY <2>1, <2>2, <2>4, <4>1 DEF OnTheWay, RelayTypeOK, Transactions
    <3>3. QED BY <3>1, <3>2
  <2>7. \A q \in Requests :
           /\ pc'[q] = "signed" => target'[q] = "poa" /\ nonce'[q] = chain'.count[wallet'[q]]
           /\ pc'[q] = "sending" => Transaction(q)' \in chain'.pool \cup chain'.mined
    BY <2>1, <2>2, <2>3, <2>4 DEF OnTheWay
  <2>8. QED BY <2>1, <2>3, <2>5, <2>6, <2>7 DEF OnTheWay
<1>7. ASSUME NEW r \in Requests, Receive(r) PROVE OnTheWay'
  <2> SUFFICES ASSUME Quiet' PROVE OnTheWay' BY DEF OnTheWay
  <2>1. Quiet BY <1>7 DEF Quiet, Receive
  <2>2. /\ UNCHANGED <<try, chain>> /\ Transaction(r) \in chain.mined
        /\ \A q \in Requests \ {r} :
              /\ pc'[q] = pc[q] /\ wallet'[q] = wallet[q]
              /\ nonce'[q] = nonce[q] /\ target'[q] = target[q]
        /\ pc'[r] = "recording"
    BY <1>7 DEF Receive, Unlock, Forget, RelayTypeOK
  <2>3. \A t \in chain.pool : t.by \in Requests \ {r}
    BY <2>1, <2>2 DEF OnTheWay, RelayTypeOK, Transactions
  <2>4. \A q \in Requests \ {r} : Transaction(q)' = Transaction(q) BY <2>2 DEF Transaction
  <2>5. \A t \in chain'.pool : pc'[t.by] = "sending" /\ t = Transaction(t.by)'
    BY <2>1, <2>2, <2>3, <2>4 DEF OnTheWay
  <2>6. \A q \in Requests :
           /\ pc'[q] = "signed" => target'[q] = "poa" /\ nonce'[q] = chain'.count[wallet'[q]]
           /\ pc'[q] = "sending" => Transaction(q)' \in chain'.pool \cup chain'.mined
    BY <2>1, <2>2, <2>4 DEF OnTheWay
  <2>7. QED BY <2>1, <2>2, <2>5, <2>6 DEF OnTheWay
<1>8. ASSUME NEW r \in Requests, Record(r) PROVE OnTheWay'
  BY <1>8, QuietFrame DEF Record, RelayTypeOK, Recorded
<1>9. ASSUME NEW r \in Requests, RecordRefused(r) PROVE OnTheWay'
  BY <1>9, QuietFrame DEF RecordRefused, RelayTypeOK, RetryOrFail
<1>10. ASSUME NEW r \in Requests, SendFails(r) PROVE OnTheWay'
  <2> SUFFICES ASSUME Quiet' PROVE OnTheWay' BY DEF OnTheWay
  <2>1. ~CanHave("faults", MaxFaults) BY Counts
  <2>2. Displaced(r) /\ Quiet BY <1>10, <2>1 DEF SendFails, Quiet
  <2>3. QED BY <2>2 DEF OnTheWay, Displaced
<1>11. ASSUME NEW t \in chain.pool, Mine(t) PROVE OnTheWay'
  <2> SUFFICES ASSUME Quiet' PROVE OnTheWay' BY DEF OnTheWay
  <2>1. Quiet BY <1>11, MineEffect DEF Quiet
  <2>2. UNCHANGED <<pc, try, target, wallet, nonce>> BY <1>11 DEF Mine
  <2>3. \A q : Transaction(q)' = Transaction(q) BY <2>2 DEF Transaction
  <2>4. t \in Transactions /\ t = Transaction(t.by) /\ pc[t.by] = "sending"
    BY <2>1 DEF OnTheWay, RelayTypeOK
  <2>5. chain'.pool \subseteq chain.pool \ {t} /\ chain'.mined = chain.mined \cup {t}
    BY <1>11, MineEffect
  <2>6. chain'.pool = chain.pool \ {t}
    <3>0. CASE t.wallet = NoWallet BY <1>11, <3>0 DEF Mine, RelayTypeOK
    <3> SUFFICES ASSUME t.wallet # NoWallet, NEW u \in chain.pool, u # t, u \notin chain'.pool
                 PROVE  FALSE
      BY <2>5, <3>0
    <3>1. u.wallet = t.wallet
      <4>1. chain' = [chain EXCEPT !.count[t.wallet] = @ + 1, !.mined = @ \cup {t},
                        !.pool = {v \in @ : v.wallet # t.wallet \/ v.nonce # t.nonce}]
        BY <1>11 DEF Mine
      <4>2. chain'.pool = {v \in chain.pool : v.wallet # t.wallet \/ v.nonce # t.nonce}
        BY <4>1 DEF RelayTypeOK
      <4>3. QED BY <4>2
    <3>2. u.by \in Requests /\ u = Transaction(u.by) /\ pc[u.by] = "sending"
      BY <2>1 DEF OnTheWay, RelayTypeOK, Transactions
    <3>3. wallet[u.by] = wallet[t.by] BY <2>4, <3>1, <3>2 DEF Transaction
    <3>4. u.by = t.by BY <2>4, <3>2, <3>3 DEF WalletExclusive, Holding, Transactions
    <3>5. QED BY <2>4, <3>1, <3>2, <3>4
  <2>7. ASSUME NEW q \in Requests, pc[q] = "signed"
        PROVE  chain'.count[wallet[q]] = chain.count[wallet[q]]
    <3>1. CASE t.wallet = NoWallet BY <1>11, <3>1 DEF Mine, RelayTypeOK
    <3>2. CASE t.wallet # NoWallet
      <4>1. wallet[t.by] = t.wallet BY <2>4, <3>2 DEF Transaction
      <4>2. wallet[q] # t.wallet
        BY <2>4, <2>7, <4>1 DEF WalletExclusive, Holding, Transactions
      <4>3. chain'.count = [chain.count EXCEPT ![t.wallet] = @ + 1]
        BY <1>11, <3>2 DEF Mine, RelayTypeOK
      <4>4. t.wallet \in Wallets /\ wallet[q] \in Wallets \cup {NoWallet}
        BY <2>4, <3>2 DEF Transactions, RelayTypeOK
      <4>5. wallet[q] \in Wallets BY <2>7, <4>4 DEF WalletsLocked, Holding, RelayTypeOK
      <4>6. QED BY <4>2, <4>3, <4>4, <4>5 DEF RelayTypeOK
    <3>3. QED BY <3>1, <3>2
  <2>8. QED BY <2>1, <2>2, <2>3, <2>5, <2>6, <2>7 DEF OnTheWay
<1>12. CASE PassFinalBlock
  BY <1>12, QuietSame DEF PassFinalBlock, RelayTypeOK
<1>13. CASE Restart
  BY <1>13, Counts DEF Restart, OnTheWay
<1>14. ASSUME NEW k \in Workers, ResetLimiter(k) PROVE OnTheWay'
  BY <1>14, QuietSame DEF ResetLimiter
<1>15. ASSUME NEW k \in Workers, WorkerCrash(k) PROVE OnTheWay'
  BY <1>15, Counts DEF WorkerCrash, OnTheWay
<1>16. CASE UNCHANGED vars
  BY <1>16, QuietSame DEF vars
<1> QED
  BY <1>1, <1>2, <1>3, <1>4, <1>5, <1>6, <1>7, <1>8, <1>9, <1>10, <1>11, <1>12, <1>13, <1>14, <1>15, <1>16 DEF RelayNext, Handle

-----------------------------------------------------------------------------
\* What holds of locks, attempts and receipts in every reachable state of txRelay.js,
\* and of the transactions on the way as long as nothing fails.
THEOREM RelayInductive == RelaySpec => [](RelayInv /\ OnTheWay)
<1>1. RelayInit => RelayInv /\ OnTheWay
  BY RelayInit1 DEF RelayInit, OnTheWay
<1>2. RelayInv /\ OnTheWay /\ [RelayNext]_vars => (RelayInv /\ OnTheWay)'
  BY TypeStep, LockStep, AttemptStep, ReceiptStep, OnTheWayStep DEF RelayInv
<1>3. QED BY <1>1, <1>2, PTL DEF RelaySpec

\* The state of the relay is of its type.
THEOREM RelayTypeCorrect == RelaySpec => []RelayTypeOK
  BY RelayInductive, PTL DEF RelayInv

\* No two requests, in whatever workers, sign with the same wallet at a time.
THEOREM WalletsExclusive == RelaySpec => []WalletExclusive
  BY RelayInductive, PTL DEF RelayInv

\* Requests for one payload get the same receipt, that of a mined transaction.
THEOREM AnswersRecorded == RelaySpec => []AnswerRecorded
<1>1. RelayInv => AnswerRecorded
  BY DEF RelayInv, ReceiptsBacked, AnswerRecorded, Backed
<1>2. QED BY RelayInductive, <1>1, PTL

\* Unless a send is given up or a process dies, no transaction displaces another.
THEOREM NothingDisplaced == RelaySpec => []NoDisplacement
<1>1. OnTheWay => NoDisplacement
  BY DEF OnTheWay, Quiet, NoDisplacement, Displaced
<1>2. QED BY RelayInductive, <1>1, PTL

=============================================================================
