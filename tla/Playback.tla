------------------------------- MODULE Playback -------------------------------
(***************************************************************************)
(* Playback in the web client: the playback slice (common/src/store/       *)
(* playback/slice.ts), which keeps the queue in the order it plays and,    *)
(* with shuffle, the order it was queued in; the sagas that load, skip and *)
(* extend it (web/src/common/store/playback/sagas.ts); and the audio       *)
(* element.  Positions count from 1, and 0 stands for the code's -1.       *)
(***************************************************************************)
EXTENDS Integers, Sequences, FiniteSets

CONSTANTS Tracks, NoTrack,
          Deleted,      \* tracks that are deleted or whose owner is deactivated
          Locked,       \* gated tracks the listener has no access to
          Lists,        \* the lists of tracks a page plays
          Additions,    \* the lists that are added to the queue
          Suggested,    \* tracks the service recommends
          MaxRetries,   \* numUrls * 3 of handleAudioErrors
          MaxExtending, \* bound on the autoplay sagas that run
          MaxQueue,     \* bound on the length of the queue
          MaxCommands,  \* bound on what the listener does
          MaxFaults     \* bound on audio errors and failed queries

ASSUME PlaybackAssumption ==
    /\ Lists \cup Additions \subseteq Seq(Tracks) \ {<< >>}
    /\ Suggested \subseteq Tracks /\ NoTrack \notin Tracks
    /\ MaxExtending \in Nat

VARIABLES
    queue, index,          \* the queue as it plays, the current position
    shuffle, repeat,
    shuffleOriginalQueue,  \* the queue before shuffling
    shuffleOriginalIndices,\* the position of queue[i] in it
    counter,               \* new plays, modulo 2
    retries,
    playing, playingIndex, playingTrackId, \* what the interface shows as playing
    load,       \* the play saga that runs: [track, at, phase]
    checks,     \* next and previous sagas that await their track
    extending,  \* autoplay sagas that await recommendations
    audio,      \* external: [track, on] of the audio element
    budget      \* [commands, faults] so far

queueVars == <<queue, index, shuffle, shuffleOriginalQueue, shuffleOriginalIndices>>
shownVars == <<playing, playingIndex, playingTrackId>>
vars == <<queueVars, repeat, counter, retries, shownVars, load, checks, extending, audio, budget>>

Order == INSTANCE PlayOrder WITH
             Pages  <- Lists,
             Blocks <- Additions \cup {<<t>> : t \in Suggested},
             order  <- IF shuffle THEN shuffleOriginalQueue ELSE queue,
             place  <- IF shuffle /\ index \in DOMAIN shuffleOriginalIndices
                       THEN shuffleOriginalIndices[index] ELSE index,
             plays  <- counter

NoLoad == [track |-> NoTrack, at |-> 0, phase |-> "none"]
Unplayable == Deleted \cup Locked

PlaybackInit ==
    /\ queue = << >> /\ index = 0
    /\ shuffle = FALSE /\ repeat = "OFF"
    /\ shuffleOriginalQueue = << >> /\ shuffleOriginalIndices = << >>
    /\ counter = 0 /\ retries = 0
    /\ playing = FALSE /\ playingIndex = 0 /\ playingTrackId = NoTrack
    /\ load = NoLoad /\ checks = << >> /\ extending = 0
    /\ audio = [track |-> NoTrack, on |-> FALSE]
    /\ budget = [commands |-> 0, faults |-> 0]

Command == budget.commands < MaxCommands
           /\ budget' = [budget EXCEPT !.commands = @ + 1]
Fault == budget.faults < MaxFaults
         /\ budget' = [budget EXCEPT !.faults = @ + 1]

NewPlay == counter' = 1 - counter /\ retries' = 0

-----------------------------------------------------------------------------
(* The slice: the queue.                                                   *)

\* The orders in which n entries may be shuffled, the current one first.
Shuffles(n, current) ==
    {p \in Order!Permutations(n) : current \in 1..n => p[1] = current}

(* playFrom: a page plays its list. *)
PlayList(list, start) ==
    IF shuffle
    THEN \E p \in Shuffles(Len(list), start) :
            /\ queue' = Order!Along(list, p) /\ index' = 1
            /\ shuffleOriginalQueue' = list /\ shuffleOriginalIndices' = p
    ELSE /\ queue' = list /\ index' = start
         /\ shuffleOriginalQueue' = << >> /\ shuffleOriginalIndices' = << >>

(* Variant of Splice: what is added while shuffling gets the next indices in place. *)
SpliceInPlace(tracks, at) ==
    /\ queue' = Order!InsertAt(queue, at, tracks)
    /\ IF shuffle
       THEN /\ shuffleOriginalQueue' =
                  Order!InsertAt(shuffleOriginalQueue, Len(shuffleOriginalQueue) + 1, tracks)
            /\ shuffleOriginalIndices' = shuffleOriginalIndices
                   \o [i \in DOMAIN tracks |-> Len(shuffleOriginalQueue) + i]
       ELSE UNCHANGED <<shuffleOriginalQueue, shuffleOriginalIndices>>

(* The common part of addToQueue and playNext. *)
Splice(tracks, at) ==
    /\ queue' = Order!InsertAt(queue, at, tracks)
    /\ IF shuffle
       THEN /\ shuffleOriginalQueue' =
                  Order!InsertAt(shuffleOriginalQueue, Len(shuffleOriginalQueue) + 1, tracks)
            /\ shuffleOriginalIndices' = Order!InsertAt(shuffleOriginalIndices, at,
                   [i \in DOMAIN tracks |-> Len(shuffleOriginalQueue) + i])
       ELSE UNCHANGED <<shuffleOriginalQueue, shuffleOriginalIndices>>

(* Variant of Added: the current position does not follow its entry. *)
AddedBehind(tracks, at) ==
    Splice(tracks, at) /\ UNCHANGED <<index, shuffle>>

(* addToQueue. *)
Added(tracks, at) ==
    /\ Splice(tracks, at)
    /\ index' = IF at <= index THEN index + Len(tracks) ELSE index
    /\ UNCHANGED shuffle

(* Variant of PlaceAfter: the last position is not left when its entry goes. *)
PlaceKept(i) == IF i < index THEN index - 1 ELSE index

(* Where the listener is once entry i has gone. *)
PlaceAfter(i) == IF i < index THEN index - 1
                 ELSE IF i = index THEN Order!Minimum(index, Len(queue) - 1) ELSE index

(* removeFromQueue: positions past the removed one move up in both lists. *)
Removed(i) ==
    /\ queue' = Order!DropAt(queue, i)
    /\ index' = PlaceAfter(i)
    /\ IF shuffle /\ shuffleOriginalIndices # << >>
       THEN LET gone == shuffleOriginalIndices[i]
                rest == Order!DropAt(shuffleOriginalIndices, i)
            IN  /\ shuffleOriginalQueue' = Order!DropAt(shuffleOriginalQueue, gone)
                /\ shuffleOriginalIndices' =
                      [k \in DOMAIN rest |-> IF rest[k] > gone THEN rest[k] - 1 ELSE rest[k]]
       ELSE UNCHANGED <<shuffleOriginalQueue, shuffleOriginalIndices>>
    /\ UNCHANGED shuffle

(* reorder, by a page that shows this queue. *)
Reordered(p) ==
    /\ queue' = Order!Along(queue, p)
    /\ index' = IF index = 0 THEN 0 ELSE CHOOSE i \in DOMAIN p : p[i] = index
    /\ shuffleOriginalIndices' = IF shuffle THEN Order!Along(shuffleOriginalIndices, p)
                                 ELSE shuffleOriginalIndices
    /\ UNCHANGED <<shuffle, shuffleOriginalQueue>>

(* clearUpcoming. *)
OnlyCurrent ==
    /\ queue' = IF index = 0 THEN << >> ELSE <<queue[index]>>
    /\ index' = Order!Minimum(index, 1)
    /\ shuffleOriginalQueue' = IF shuffle THEN queue' ELSE << >>
    /\ shuffleOriginalIndices' = IF shuffle /\ index # 0 THEN <<1>> ELSE << >>
    /\ UNCHANGED shuffle

(* setShuffle. *)
ShuffleOn ==
    /\ ~shuffle /\ shuffle' = TRUE
    /\ \E p \in Shuffles(Len(queue), index) :
          /\ queue' = Order!Along(queue, p)
          /\ shuffleOriginalQueue' = queue /\ shuffleOriginalIndices' = p
    /\ index' = Order!Minimum(index, 1)

ShuffleOff ==
    /\ shuffle /\ shuffle' = FALSE
    /\ IF shuffleOriginalQueue = << >> THEN UNCHANGED <<queue, index>>
       ELSE /\ queue' = shuffleOriginalQueue
            /\ index' = IF index = 0 THEN 0 ELSE shuffleOriginalIndices[index]
    /\ shuffleOriginalQueue' = << >> /\ shuffleOriginalIndices' = << >>

-----------------------------------------------------------------------------
(* The slice and the sagas: what plays.                                    *)

(* A play action: takeLatest drops the saga that was loading.  It selects the
   position when it starts. *)
Play(t) ==
    /\ load' = [track |-> t, at |-> index', phase |-> IF t = NoTrack THEN "start" ELSE "fetch"]
    /\ retries' = 0

(* playCurrent. *)
PlayCurrent == IF index' \in DOMAIN queue' THEN Play(queue'[index'])
               ELSE UNCHANGED <<load, retries>>

Silent == audio' = [audio EXCEPT !.on = FALSE]

(* stop: the saga that loads goes on. *)
Stopped ==
    /\ playing' = FALSE /\ playingIndex' = 0 /\ playingTrackId' = NoTrack /\ Silent
    /\ counter' = 1 - counter /\ UNCHANGED <<queueVars, retries>>

(* reset without autoplay, after a next or previous that found no entry. *)
Rewound ==
    /\ playing' = FALSE /\ Silent
    /\ counter' = 1 - counter
    /\ UNCHANGED <<queueVars, retries, playingIndex, playingTrackId>>

(* next or previous has moved to position i: its saga queries the track there. *)
MovedTo(i, pending, way, skip, sounds) ==
    /\ index' = i /\ NewPlay /\ audio' = [audio EXCEPT !.on = sounds]
    /\ checks' = Append(pending, [track |-> queue[i], way |-> way, skip |-> skip])
    /\ UNCHANGED <<queue, shuffle, shuffleOriginalQueue, shuffleOriginalIndices, shownVars>>

(* next, its reducer and its saga up to the query; pending are the other sagas.
   skip is set by the next button, not at the end of a track; sounds tells
   whether the audio element goes on playing. *)
Next(skip, pending, sounds) ==
    LET same == repeat = "SINGLE" /\ ~skip
        last == index >= Len(queue)
    IN  \/ queue = << >> /\ Stopped /\ checks' = pending
        \/ /\ queue # << >> /\ same /\ index = 0     \* next and stop both count
           /\ playing' = FALSE /\ playingIndex' = 0 /\ playingTrackId' = NoTrack /\ Silent
           /\ retries' = 0 /\ checks' = pending /\ UNCHANGED <<queueVars, counter>>
        \/ queue # << >> /\ same /\ index # 0 /\ MovedTo(index, pending, "next", skip, sounds)
        \/ queue # << >> /\ ~same /\ ~last /\ MovedTo(index + 1, pending, "next", skip, sounds)
        \/ queue # << >> /\ ~same /\ last /\ repeat = "ALL" /\ MovedTo(1, pending, "next", skip, sounds)
        \/ queue # << >> /\ ~same /\ last /\ repeat # "ALL" /\ Rewound /\ checks' = pending

Previous(pending, sounds) ==
    \/ queue = << >> /\ Stopped /\ checks' = pending
    \/ queue # << >> /\ index <= 1 /\ Rewound /\ checks' = pending
    \/ queue # << >> /\ index > 1 /\ MovedTo(index - 1, pending, "previous", TRUE, sounds)

-----------------------------------------------------------------------------
(* What the listener does.                                                 *)

PlayFrom(list, start) ==
    /\ Command /\ PlayList(list, start) /\ NewPlay /\ PlayCurrent
    /\ UNCHANGED <<shuffle, repeat, shownVars, checks, extending, audio>>

PlayTrackAt(i) ==
    /\ Command /\ index' = i /\ NewPlay
    /\ UNCHANGED <<queue, shuffle, shuffleOriginalQueue, shuffleOriginalIndices>>
    /\ PlayCurrent
    /\ UNCHANGED <<repeat, shownVars, checks, extending, audio>>

\* The buttons next, and previous at the start of a track.
Skip == Command /\ Next(TRUE, checks, audio.on) /\ UNCHANGED <<repeat, load, extending>>
SkipBack == Command /\ Previous(checks, audio.on) /\ UNCHANGED <<repeat, load, extending>>

\* The button previous later in a track: reset with autoplay.
Restart ==
    /\ Command /\ playing' = TRUE /\ counter' = 1 - counter
    /\ UNCHANGED queueVars
    /\ IF playingTrackId # NoTrack THEN Play(playingTrackId) ELSE UNCHANGED <<load, retries>>
    /\ UNCHANGED <<repeat, playingIndex, playingTrackId, checks, extending, audio>>

\* togglePlay, and the pause and play buttons: play has no track then.
TogglePlay ==
    /\ Command /\ UNCHANGED queueVars
    /\ playing' = ~playing
    /\ IF playing THEN Silent /\ UNCHANGED <<load, retries>>
                  ELSE Play(NoTrack) /\ UNCHANGED audio
    /\ UNCHANGED <<repeat, counter, playingIndex, playingTrackId, checks, extending>>

Stop == Command /\ Stopped /\ UNCHANGED <<repeat, load, checks, extending>>

SetRepeat(mode) ==
    /\ Command /\ repeat' = mode
    /\ UNCHANGED <<queueVars, counter, retries, shownVars, load, checks, extending, audio>>

\* Edits leave what plays alone.
Edit(edit) ==
    /\ Command /\ edit
    /\ UNCHANGED <<repeat, counter, retries, shownVars, load, checks, extending, audio>>

AddToQueue(tracks, at) == Len(queue) + Len(tracks) <= MaxQueue /\ Edit(Added(tracks, at))
PlayNext(tracks) ==
    /\ Len(queue) < MaxQueue /\ Len(tracks) = 1
    /\ Edit(Splice(tracks, Order!Minimum(index, Len(queue)) + 1) /\ UNCHANGED <<index, shuffle>>)
RemoveFromQueue(i) == Edit(Removed(i))
\* The entry at i is dragged to j.
Reorder(i, j) ==
    LET places == [k \in DOMAIN queue |-> k]
    IN  Edit(Reordered(Order!InsertAt(Order!DropAt(places, i), j, <<i>>)))
ClearUpcoming == Edit(OnlyCurrent)
SetShuffle == Edit(ShuffleOn \/ ShuffleOff)

-----------------------------------------------------------------------------
(* The sagas and the audio element go on.                                  *)

\* handleQueueAutoplay asks for recommendations near the end of the queue.  Where
\* it does not (the queue of a track page, no network), they never come.
NearEnd(skip) ==
    /\ index # 0 /\ ~shuffle /\ index + 1 >= Len(queue)
    /\ repeat = "OFF" \/ (repeat = "SINGLE" /\ skip)

\* The track of a next or previous has come: it is skipped or what is current plays.
CheckDone(i) ==
    LET c == checks[i]
        pending == Order!DropAt(checks, i)
    IN  /\ \/ /\ c.track \in Unplayable
              /\ IF c.way = "next" THEN Next(c.skip, pending, audio.on)
                 ELSE Previous(pending, audio.on)
              /\ UNCHANGED <<load, extending>>
           \/ /\ c.track \notin Unplayable
              /\ checks' = pending
              /\ extending' = IF c.way = "next" /\ NearEnd(c.skip)
                             THEN Order!Minimum(extending + 1, MaxExtending) ELSE extending
              /\ UNCHANGED queueVars /\ PlayCurrent
              /\ UNCHANGED <<counter, shownVars, audio>>
        /\ UNCHANGED <<repeat, budget>>

\* The track of a next or previous cannot be queried: stop.
CheckFails(i) ==
    /\ Fault /\ Stopped /\ checks' = Order!DropAt(checks, i)
    /\ UNCHANGED <<repeat, load, extending>>

\* watchPlay has its track: a locked one is skipped, another one is loaded.
Fetched ==
    /\ load.phase = "fetch"
    /\ \/ load.track \in Locked /\ load' = NoLoad /\ Next(FALSE, checks, audio.on)
       \/ /\ load.track \notin Locked
          /\ load' = [load EXCEPT !.phase = "start"]
          /\ audio' = [track |-> load.track, on |-> FALSE]
          /\ UNCHANGED <<queueVars, counter, retries, shownVars, checks>>
    /\ UNCHANGED <<repeat, extending, budget>>

\* The track cannot be queried.
FetchFails ==
    /\ load.phase = "fetch" /\ Fault /\ load' = NoLoad
    /\ UNCHANGED <<queueVars, repeat, counter, retries, shownVars, checks, extending, audio>>

\* audioPlayer.play and playSucceeded.  The access to the track, which the saga
\* checks once more, is what it was when the track was fetched.
Started ==
    /\ load.phase = "start" /\ load' = NoLoad
    /\ audio' = [audio EXCEPT !.on = audio.track # NoTrack]
    /\ playing' = TRUE /\ playingIndex' = load.at
    /\ playingTrackId' = IF load.track # NoTrack THEN load.track ELSE playingTrackId
    /\ UNCHANGED <<queueVars, repeat, counter, retries, checks, extending, budget>>

\* The element has played its track: onEnd dispatches next.
Ended ==
    /\ audio.on /\ Next(FALSE, checks, FALSE)
    /\ UNCHANGED <<repeat, load, extending, budget>>

\* handleAudioErrors: what is shown as playing is loaded again, from another url.
\* Its track is cached, and nothing happens while it is queried.
AudioFails ==
    /\ audio.track # NoTrack /\ Fault /\ Silent
    /\ UNCHANGED queueVars
    /\ IF playingTrackId # NoTrack /\ retries < MaxRetries
       THEN /\ load' = [track |-> playingTrackId, at |-> index, phase |-> "fetch"]
            /\ retries' = retries + 1
       ELSE UNCHANGED <<load, retries>>
    /\ UNCHANGED <<repeat, counter, shownVars, checks, extending>>

\* Recommendations come, of which t is one that the queue has not: in the code
\* all such tracks are added at once.  There may be none.
Extend(t) ==
    /\ extending > 0 /\ extending' = extending - 1
    /\ IF Len(queue) < MaxQueue /\ \A i \in DOMAIN queue : queue[i] # t
       THEN Added(<<t>>, Len(queue) + 1) ELSE UNCHANGED queueVars
    /\ UNCHANGED <<repeat, counter, retries, shownVars, load, checks, audio, budget>>

-----------------------------------------------------------------------------
ListenerPlays ==
    \/ \E list \in Lists : \E start \in DOMAIN list : PlayFrom(list, start)
    \/ \E i \in DOMAIN queue : PlayTrackAt(i)
    \/ Skip \/ SkipBack \/ Restart \/ TogglePlay \/ Stop
    \/ \E mode \in {"OFF", "ALL", "SINGLE"} \ {repeat} : SetRepeat(mode)

ListenerEdits ==
    \/ \E tracks \in Additions :
          \/ \E at \in 1..(Len(queue) + 1) : AddToQueue(tracks, at)
          \/ PlayNext(tracks)
    \/ \E i \in DOMAIN queue : RemoveFromQueue(i)
    \/ \E i \in DOMAIN queue : \E j \in DOMAIN queue \ {i} : Reorder(i, j)
    \/ ClearUpcoming \/ SetShuffle

QueryDone == \E i \in DOMAIN checks : CheckDone(i)
Recommend == \E t \in Suggested : Extend(t)
SagasGoOn == QueryDone \/ Fetched \/ Started \/ Recommend

PlaybackFails == FetchFails \/ AudioFails \/ \E i \in DOMAIN checks : CheckFails(i)

PlaybackNext == ListenerPlays \/ ListenerEdits \/ SagasGoOn \/ PlaybackFails \/ Ended

\* Queries are answered, and the effects of a saga are run.
PlaybackSpec ==
    /\ PlaybackInit /\ [][PlaybackNext]_vars
    /\ WF_vars(QueryDone) /\ WF_vars(Fetched) /\ WF_vars(Started)

-----------------------------------------------------------------------------
\* While shuffling, every entry of the queue is one of the original queue, in a
\* one-to-one way that removals and insertions on both sides have kept; without
\* shuffle there is no copy.  Turning shuffle off gives back what is there.
Mirrored ==
    IF shuffle
    THEN /\ shuffleOriginalIndices \in Order!Permutations(Len(queue))
         /\ Len(shuffleOriginalQueue) = Len(queue)
         /\ queue = Order!Along(shuffleOriginalQueue, shuffleOriginalIndices)
    ELSE shuffleOriginalQueue = << >> /\ shuffleOriginalIndices = << >>

\* The current position is in the queue, whatever was removed from it.
InQueue == index \in DOMAIN queue \cup {0}

\* In the order the tracks were queued, the list is only edited as asked and the
\* listener stays at its entry: nothing moves it but a new play.
KeepsOrder == Order!OrderSpec

\* What the saga of next says of itself: tracks that cannot be played are
\* skipped and then the current one plays; so skipping ends as long as the queue
\* has a track that can be played.
SkippingEnds ==
    []<>(checks = << >>) \/ <>[](\A i \in DOMAIN queue : queue[i] \in Unplayable)

=============================================================================
