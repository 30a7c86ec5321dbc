--------------------------- MODULE MCPlaylistEdits ---------------------------
(* Two edits that add a track each, of which one may fail, and one that removes *)
(* its track again; and the two that add alone.                                *)
EXTENDS PlaylistEdits, TLC

CONSTANTS a1, a2, d1, t1, t2, t3, add, remove

MCOperation == a1 :> add @@ a2 :> add @@ d1 :> remove
MCTrack == a1 :> t1 @@ a2 :> t2 @@ d1 :> t1
MCOutcomes == a1 :> {"ok", "error"} @@ a2 :> {"ok"} @@ d1 :> {"ok"}
MCTwoOperation == a1 :> add @@ a2 :> add
MCTwoTrack == a1 :> t1 @@ a2 :> t2
MCTwoOutcomes == a1 :> {"ok"} @@ a2 :> {"ok"}
=============================================================================
