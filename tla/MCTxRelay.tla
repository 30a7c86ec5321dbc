------------------------------ MODULE MCTxRelay ------------------------------
(* Small instances of the transaction relay. *)
EXTENDS TxRelay, TLC

CONSTANTS r1, r2, r3, k1, k2, p1, p2, w1, w2

\* Two requests repeat a payload, in two workers; the third one changes a replica set.
MCPayload == r1 :> p1 @@ r2 :> p1 @@ r3 :> p2
MCServing == r1 :> k1 @@ r2 :> k2 @@ r3 :> k1

=============================================================================
