---------------------------- MODULE PlaylistEdits ----------------------------
(***************************************************************************)
(* Edits of one playlist in the web client (store/cache/collections): each *)
(* edit is a task that reads the playlist, awaits its tracks and artwork,  *)
(* writes the query cache optimistically and asks the confirmer to send    *)
(* the whole playlist.  Cached playlists are objects that tasks hold       *)
(* references to and change in place: a heap of copies, named by number.   *)
(***************************************************************************)
EXTENDS Confirmer

CONSTANTS Tracks, Track,   \* the track that each edit adds or removes
          Adds,            \* the edits that add; the others remove
          FirstContents

ASSUME EditsAssumption ==
    /\ Track \in [Requests -> Tracks]
    /\ Adds \subseteq Requests
    /\ FirstContents \subseteq Tracks
    /\ Outcomes \in [Requests -> SUBSET {"ok", "error"}]   \* the calls return or throw

VARIABLES
    copies,   \* playlist_contents of every playlist object
    cache,    \* the object in the query cache
    server,   \* external: playlist_contents as it was written last
    written,  \* external: all contents it ever had; a node may be behind
    edit,     \* of each edit: [stage, held, sent]
    history   \* what has happened: edits that overlapped, calls that failed,
              \* additions abandoned after their change in place, an edit of
              \* stale contents; and whether the cache is an outdated answer

editVars == <<copies, cache, server, written, edit, history>>
allVars == <<vars, editVars>>

EditsInit ==
    /\ ConfirmerInit /\ slow = FALSE   \* the completions here await nothing
    /\ copies = <<FirstContents>> /\ cache = 1
    /\ server = FirstContents /\ written = {FirstContents}
    /\ edit = [r \in Requests |-> [stage |-> "idle", held |-> 1, sent |-> {}]]
    /\ history = [overlap |-> FALSE, errors |-> FALSE, abandoned |-> FALSE,
                  stale |-> FALSE, outdated |-> FALSE]

Stage(r) == edit[r].stage
InProgress(r) == Stage(r) \in {"fetching", "refetching", "reading", "artwork"}
Held(r) == copies[edit[r].held]
Changed(r, contents) == IF r \in Adds THEN contents \cup {Track[r]} ELSE contents \ {Track[r]}

(* Variant of PendingUpdates: the playlist is always fetched again. *)
NeverPending == FALSE

(* hasPendingPlaylistUpdates. *)
PendingUpdates == ~IsDone(calls)

(* addTrackToPlaylistAsync and removeTrackFromPlaylistAsync: with updates pending *)
(* the cached playlist is taken as it is, otherwise it is fetched again.  A track *)
(* is removed where the user sees it.                                             *)
BeginEdit(r) ==
    /\ Stage(r) = "idle"
    /\ r \in Adds \/ Track[r] \in copies[cache]
    /\ edit' = [edit EXCEPT ![r].stage = IF PendingUpdates THEN "reading" ELSE "fetching",
                            ![r].held = cache]
    /\ history' = [history EXCEPT !.overlap = @ \/ \E q \in Requests : InProgress(q)]
    /\ UNCHANGED <<vars, copies, cache, server, written>>

(* The answer of a fetch replaces the cached object unless it is equal to it. *)
Refresh(answer) ==
    IF answer = copies[cache]
    THEN UNCHANGED <<copies, cache>>
    ELSE copies' = Append(copies, answer) /\ cache' = Len(copies) + 1

(* The edit holds what the cache holds then.  A removal fetches once more, for its *)
(* list of tracks.                                                                 *)
Fetched(r, answer) ==
    /\ Stage(r) = "fetching"
    /\ Refresh(answer)
    /\ edit' = [edit EXCEPT ![r].stage = IF r \in Adds THEN "reading" ELSE "refetching",
                            ![r].held = cache']
    /\ history' = [history EXCEPT !.outdated = answer # server,
                                  !.stale = @ \/ answer # server]
    /\ UNCHANGED <<vars, server, written>>

Refetched(r, answer) ==
    /\ Stage(r) = "refetching"
    /\ Refresh(answer)
    /\ edit' = [edit EXCEPT ![r].stage = "reading"]
    /\ history' = [history EXCEPT !.outdated = answer # server]
    /\ UNCHANGED <<vars, server, written>>

(* The tracks are there; an added track is put into the object that is held. *)
ReadTracks(r) ==
    /\ Stage(r) = "reading"
    /\ copies' = IF r \in Adds THEN [copies EXCEPT ![edit[r].held] = Changed(r, @)] ELSE copies
    /\ edit' = [edit EXCEPT ![r].stage = "artwork"]
    /\ UNCHANGED <<vars, cache, server, written, history>>

(* The playlist or the track to be added is missing. *)
ReturnEarly(r) ==
    /\ Stage(r) = "reading" /\ r \in Adds
    /\ edit' = [edit EXCEPT ![r].stage = "dropped"]
    /\ UNCHANGED <<vars, copies, cache, server, written, history>>

(* The edits that one watcher has forked. *)
Siblings(r) == IF r \in Adds THEN Adds ELSE Requests \ Adds

(* A fetch, the tracks or the artwork throw: the watcher ends with all the edits *)
(* that it forked and is restarted, and what they changed in place stays.        *)
Fail(r) ==
    LET aborted == {q \in Siblings(r) : InProgress(q)}
    IN  /\ InProgress(r)
        /\ edit' = [q \in Requests |->
               IF q \in aborted THEN [edit[q] EXCEPT !.stage = "failed"] ELSE edit[q]]
        /\ history' = [history EXCEPT
               !.abandoned = @ \/ \E q \in aborted \cap Adds : Stage(q) = "artwork"]
        /\ UNCHANGED <<vars, copies, cache, server, written>>

(* Variant of Publish: an edit that is already asked for is not asked again. *)
PublishOnly(r) ==
    /\ Stage(r) = "artwork"
    /\ copies' = Append(copies, Changed(r, Held(r))) /\ cache' = Len(copies) + 1
    /\ edit' = [edit EXCEPT ![r].stage = "requested"]
    /\ IF PendingUpdates THEN UNCHANGED vars ELSE Request(r)
    /\ history' = [history EXCEPT !.outdated = FALSE]
    /\ UNCHANGED <<server, written>>

(* The artwork is there: a removed track is taken out in place, the cache gets a *)
(* new object with the contents, and the confirmer is asked.                     *)
Publish(r) ==
    /\ Stage(r) = "artwork"
    /\ r \in Adds \/ Track[r] \in Held(r)
    /\ LET contents == Changed(r, Held(r))
       IN copies' = Append([copies EXCEPT ![edit[r].held] = contents], contents)
    /\ cache' = Len(copies) + 1
    /\ edit' = [edit EXCEPT ![r].stage = "requested"]
    /\ Request(r)
    /\ history' = [history EXCEPT !.outdated = FALSE]
    /\ UNCHANGED <<server, written>>

(* "Could not find the index of to-be-deleted track". *)
GiveUp(r) ==
    /\ Stage(r) = "artwork"
    /\ r \notin Adds /\ Track[r] \notin Held(r)
    /\ edit' = [edit EXCEPT ![r].stage = "dropped"]
    /\ UNCHANGED <<vars, copies, cache, server, written, history>>

(* The confirmation call sends what the object holds when the call is made. *)
Send(r) ==
    /\ Start(r)
    /\ edit' = [edit EXCEPT ![r].sent = Held(r)]
    /\ UNCHANGED <<copies, cache, server, written, history>>

(* External: the update is made, or the call fails, which it may do after that. *)
Answer(r, result) ==
    /\ Settle(r, result)
    /\ server' \in IF result = "ok" THEN {edit[r].sent} ELSE {server, edit[r].sent}
    /\ written' = written \cup {server'}
    /\ history' = [history EXCEPT !.errors = @ \/ result = "error"]
    /\ UNCHANGED <<copies, cache, edit>>

Succeeded(q) == \E i \in DOMAIN calls : calls[i].req = q /\ calls[i].result = "ok"

WriteCache(contents) ==
    /\ copies' = Append(copies, contents) /\ cache' = Len(copies) + 1
    /\ history' = [history EXCEPT !.outdated = FALSE]

(* Variant of RunEditCompletion: the cache is written while updates are pending. *)
RunAnyCompletion(r) ==
    /\ RunCompletion(r)
    /\ LET q == Chain(r)[task[r].pos]
       IN IF Succeeded(q) THEN WriteCache(Held(q)) ELSE UNCHANGED <<copies, cache, history>>
    /\ UNCHANGED <<server, written, edit>>

(* The success call writes the playlist to the cache if nothing is pending. *)
RunEditCompletion(r) ==
    /\ RunCompletion(r)
    /\ LET q == Chain(r)[task[r].pos]
       IN IF Succeeded(q) /\ ~PendingUpdates
          THEN WriteCache(Held(q)) ELSE UNCHANGED <<copies, cache, history>>
    /\ UNCHANGED <<server, written, edit>>

ConfirmerOnly(r) ==
    /\ Squash(r) \/ AwaitPrevious(r) \/ FinishCompletions(r)
    /\ UNCHANGED editVars

(* A fetch may be answered by a node that has not indexed the last writes. *)
AnyFetch(r) == \E answer \in written : Fetched(r, answer) \/ Refetched(r, answer)

EditStep(r) ==
    AnyFetch(r) \/ ReadTracks(r) \/ ReturnEarly(r) \/ Publish(r) \/ GiveUp(r) \/ Fail(r)
TaskStep(r) == Send(r) \/ ConfirmerOnly(r) \/ RunEditCompletion(r)
AnyAnswer(r) == \E result \in Outcomes[r] : Answer(r, result)

EditsNext == \E r \in Requests : BeginEdit(r) \/ EditStep(r) \/ TaskStep(r) \/ AnyAnswer(r)

(* Tasks run, fetches are answered or fail, and calls end by the confirmer's timeout. *)
EditsFairness ==
    \A r \in Requests : /\ WF_allVars(EditStep(r)) /\ WF_allVars(TaskStep(r))
                        /\ WF_allVars(AnyAnswer(r))

EditsSpec == EditsInit /\ [][EditsNext]_allVars /\ EditsFairness
-----------------------------------------------------------------------------
(* Properties *)

Quiet == calls = <<>> /\ \A r \in Requests : ~InProgress(r) /\ Phase(r) # "completing"

(* When everything is confirmed and nothing has failed, the user sees what the   *)
(* backend has, whichever edits were squashed, were dropped or failed before they *)
(* changed anything, and whichever completions wrote the cache; unless the last   *)
(* that was written to the cache is an answer of a node that was behind.          *)
CacheAgrees ==
    Quiet /\ ~history.errors /\ ~history.abandoned /\ ~history.outdated =>
        copies[cache] = server

(* "So we don't overwrite another operation's optimistic state": as long as edits *)
(* are pending and none is being prepared, the user sees the last one.            *)
OptimisticKept ==
    /\ PendingUpdates /\ ~history.overlap /\ ~history.abandoned
    /\ \A r \in Requests : ~InProgress(r)
    => copies[cache] = Held(calls[Len(calls)].req)

(* The last edit of a track that was asked for decides whether the playlist has   *)
(* it: no later edit undoes an earlier one of another track.  A removal is later  *)
(* than the addition.                                                             *)
Kept(r) == (Track[r] \in server) = (r \in Adds)
LastOfTrack(r) == \A q \in Requests \ {r} :
    Track[q] = Track[r] => Stage(q) # "requested" \/ (q \in Adds /\ r \notin Adds)

NothingLost ==
    Quiet /\ ~history.errors /\ ~history.abandoned =>
        \A r \in Requests : Stage(r) = "requested" /\ LastOfTrack(r) => Kept(r)

(* An edit that begins when the one before has been handed to the confirmer sees *)
(* it, pending or not, so that squashing the earlier call loses nothing; as long  *)
(* as no edit was made on what a node that was behind has answered.               *)
SequentialKept == ~history.overlap /\ ~history.stale => NothingLost

(* With no updates pending "we should refetch to get latest": edits that are made *)
(* one after the other, the one before pending or confirmed, are all kept.        *)
RefetchKeeps == ~history.overlap => NothingLost

(* Every edit that is begun is dropped, fails, or is answered by the confirmer.   *)
EditEnds ==
    \A r \in Requests :
        InProgress(r) ~> (Stage(r) \in {"dropped", "failed"} \/ Phase(r) \in {"finished", "squashed"})
=============================================================================
