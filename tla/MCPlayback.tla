------------------------------ MODULE MCPlayback ------------------------------
(* A small instance of playback: a page of three tracks, one to add, one to recommend. *)
EXTENDS Playback, TLC

CONSTANTS t1, t2, t3, t4

MCLists == {<<t1, t2, t3>>}
\* The shortest list with a track that cannot be played.
MCShortList == {<<t1, t3>>}
MCAdditions == {<<t4>>}

\* A fault takes the place of two commands.
MCBudget == budget.commands + 2 * budget.faults <= MaxCommands

\* The position that is shown is never read, and steps do not depend on the count.
MCPlaybackView == <<queueVars, repeat, retries, playing, playingTrackId, load.track,
                    load.phase, checks, extending, audio, budget>>

=============================================================================
