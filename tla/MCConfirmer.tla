----------------------------- MODULE MCConfirmer -----------------------------
(* Two squashable requests of one operation and two parallelizable ones of      *)
(* another, of which only the last success counts; and plain requests.          *)
EXTENDS Confirmer, TLC

CONSTANTS s1, s2, l1, l2, order, add

MCOperation == s1 :> order @@ s2 :> order @@ l1 :> add @@ l2 :> add
MCOutcomes == s1 :> {"ok"} @@ s2 :> {"ok"} @@ l1 :> {"ok", "error"} @@ l2 :> {"ok", "error"}
MCPlain == s1 :> order @@ s2 :> add
MCPlainOutcomes == s1 :> {"ok"} @@ s2 :> {"ok"}
=============================================================================
