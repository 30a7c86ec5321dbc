----------------------------- MODULE EditsProofs -----------------------------
(***************************************************************************)
(* Theorems of the edits of a playlist, for any edits, tracks and options  *)
(* of the confirmer: what the user sees is what was edited last, and what  *)
(* the backend has in the end.  A fetch may be answered with anything the  *)
(* backend ever had, so what is said of the cache and of the backend says  *)
(* when such an answer was written last, or was edited.                    *)
(*                                                                         *)
(* A step of the edits is one of the confirmer, so that what is proved of  *)
(* it holds (Base).  The inductive invariant is Agreement: it says where   *)
(* the contents of the last edit are on their way from its task to the     *)
(* backend and back into the cache, and who may change them in place.      *)
(***************************************************************************)
EXTENDS PlaylistEdits, ConfirmerProofs

-----------------------------------------------------------------------------
(* The invariants.                                                         *)

Stages == {"idle", "fetching", "refetching", "reading", "artwork", "requested", "dropped", "failed"}
History == [overlap : BOOLEAN, errors : BOOLEAN, abandoned : BOOLEAN, stale : BOOLEAN,
            outdated : BOOLEAN]
EditState == [stage : Stages, held : Nat, sent : SUBSET Tracks]

EditsOK ==
    /\ copies \in Seq(SUBSET Tracks) /\ cache \in DOMAIN copies
    /\ written \subseteq SUBSET Tracks /\ server \in written
    /\ edit \in [Requests -> EditState]
    /\ \A r \in Requests : edit[r].held \in DOMAIN copies
    /\ history \in History
    /\ \A r \in Requests : Stage(r) = "requested" <=> Phase(r) # "idle"

\* The calls of the edits have their turns one after the other: what is not
\* before the next one has not ended.
InTurn ==
    /\ \A i \in DOMAIN calls : Stage(calls[i].req) = "requested"
    /\ \A i \in DOMAIN calls : i >= next => ~Settled(calls[i])
    /\ \A r \in Requests : Phase(r) \in {"ready", "calling"} =>
          r \notin Parallelizable /\ At(r) = next
    /\ ~history.errors => \A i \in DOMAIN calls : calls[i].result \in {"null", "ok"}

LastReq == calls[Len(calls)].req

\* An object that is held, or was, has an added track in it that is not asked for.
Adding == history.abandoned \/ \E q \in Adds : Stage(q) = "artwork"

\* Edits one after the other do not share an object, and those that begin
\* while updates are pending find the contents of the last of them.
Apart ==
    ~history.overlap =>
        /\ \A q, r \in Requests : InProgress(q) /\ InProgress(r) => q = r
        /\ \A r \in Requests : Stage(r) = "requested" =>
              /\ edit[r].held # cache
              /\ \A q \in Requests : InProgress(q) => edit[q].held # edit[r].held
        /\ \A q \in Requests : Stage(q) \in {"fetching", "refetching"} => ~PendingUpdates
        /\ PendingUpdates /\ ~Adding => copies[cache] = Held(LastReq)

\* Nothing has failed, and no object of an edit that was asked for has been
\* changed since.
Undisturbed == ~history.errors /\ (~history.overlap \/ ~Adding)

\* What was sent last is what the last edit holds, and then what the backend has.
Delivered ==
    /\ \A r \in Requests :
          Undisturbed /\ Phase(r) = "calling" /\ At(r) = Len(calls) => edit[r].sent = Held(r)
    /\ Undisturbed /\ calls # <<>> /\ ~PendingUpdates => Held(LastReq) = server

\* The completion of the last edit is the last one, and writes the cache, which
\* then is the answer of a fetch at most.
Written ==
    /\ \A c \in Requests : Phase(c) = "completing" /\ ~PendingUpdates =>
          /\ Len(Chain(c)) > 0 /\ Chain(c)[Len(Chain(c))] = LastReq
          /\ ~history.errors /\ ~Adding /\ ~history.outdated /\ task[c].pos > Len(Chain(c)) =>
                copies[cache] = server
    /\ calls = <<>> /\ ~history.errors /\ ~Adding /\ ~history.outdated =>
          copies[cache] = server

Agreement == EditsOK /\ InTurn /\ Apart /\ Delivered /\ Written

-----------------------------------------------------------------------------

\* A track is added by one edit at most, and is not there before.
OneAdditionEach ==
    /\ \A r \in Requests : Track[r] \notin FirstContents
    /\ \A q, r \in Adds : Track[q] = Track[r] => q = r

\* The tracks that were there, or are in an addition that was begun.
Begun == {t \in Tracks : t \in FirstContents \/ \E q \in Adds : Track[q] = t /\ Stage(q) # "idle"}

\* A track is removed after it was added.
Removals ==
    /\ \A i \in DOMAIN copies : copies[i] \subseteq Begun
    /\ \A contents \in written : contents \subseteq Begun
    /\ \A r \in Requests : edit[r].sent \subseteq Begun
    /\ ~history.overlap => \A r \in Requests \ Adds : Stage(r) # "idle" =>
          \E q \in Adds : Track[q] = Track[r] /\ Stage(q) # "idle" /\ ~InProgress(q)

\* The edits that were asked for and decide whether the playlist has a track.
Deciding == {r \in Requests : Stage(r) = "requested" /\ LastOfTrack(r)}
KeptIn(contents) == \A r \in Deciding : Track[r] \in contents <=> r \in Adds

\* What the playlist is when everything that was asked for is done.
LastContents == IF calls = <<>> THEN server ELSE Held(LastReq)

\* Nothing has gone wrong, and no edit was made on stale contents.
Orderly == ~history.overlap /\ ~history.errors /\ ~history.abandoned /\ ~history.stale

\* An edit has the contents that it changes.
Holding(q) == Stage(q) \in {"refetching", "reading", "artwork"}

\* Every edit is in the last contents, and in those that the next one begins with.
AllKept ==
    Orderly =>
        /\ KeptIn(LastContents)
        /\ \A q \in Requests : Holding(q) => KeptIn(Held(q))

-----------------------------------------------------------------------------
(* The confirmer under the edits.                                          *)

Base == Placed /\ Turns /\ Answers /\ ~slow

LEMMA EditsConfirm == ASSUME [EditsNext]_allVars PROVE [ConfirmerNext]_vars
<1>1. CASE UNCHANGED allVars
  BY <1>1 DEF allVars
<1>2. ASSUME NEW r \in Requests,
             BeginEdit(r) \/ EditStep(r) \/ TaskStep(r) \/ AnyAnswer(r)
      PROVE  [ConfirmerNext]_vars
  <2>1. UNCHANGED vars \/ Request(r) \/ Turn(r) \/ Complete(r)
           \/ \E result \in Outcomes[r] : Settle(r, result)
    <3>1. CASE EditStep(r)
      <4>1. AnyFetch(r) \/ Fail(r) => UNCHANGED vars
        <5>1. \A answer : Fetched(r, answer) \/ Refetched(r, answer) => UNCHANGED vars
          BY DEF Fetched, Refetched
        <5>2. Fail(r) => UNCHANGED vars
          BY DEF Fail
        <5>3. QED
          BY <5>1, <5>2 DEF AnyFetch
      <4>2. QED
        BY <3>1, <4>1 DEF EditStep, ReadTracks, ReturnEarly, Publish, GiveUp
    <3>2. QED
      BY <1>2, <3>1 DEF BeginEdit, TaskStep, Send, ConfirmerOnly, RunEditCompletion, AnyAnswer,
                        Answer, Turn, Complete
  <2>2. QED
    BY <2>1 DEF ConfirmerNext
<1>3. QED
  BY <1>1, <1>2 DEF EditsNext

LEMMA EditsBase == EditsSpec => []Base
<1>1. EditsInit => Base
  <2> SUFFICES ASSUME EditsInit PROVE Base
    OBVIOUS
  <2>1. ConfirmerInit /\ slow = FALSE
    BY DEF EditsInit
  <2>2. QED
    BY <2>1, PlacedInit, TurnsInit, AnswersInit DEF Base
<1>2. Base /\ [EditsNext]_allVars => Base'
  <2> SUFFICES ASSUME Base, [EditsNext]_allVars PROVE Base'
    OBVIOUS
  <2>1. [ConfirmerNext]_vars
    BY EditsConfirm
  <2>2. UNCHANGED slow
    <3>1. CASE UNCHANGED vars
      BY <3>1 DEF vars
    <3>2. ASSUME NEW r \in Requests, Request(r) \/ Turn(r) \/ Complete(r)
                                        \/ \E result \in Outcomes[r] : Settle(r, result)
          PROVE  UNCHANGED slow
      BY <3>2 DEF Request, Turn, Squash, StartParallel, AwaitPrevious, Start, Complete,
                  RunCompletion, FinishCompletions, Throw, Settle
    <3>3. QED
      BY <2>1, <3>1, <3>2 DEF ConfirmerNext
  <2>3. QED
    BY <2>1, <2>2, PlacedStep, TurnsStep, AnswersStep DEF Base
<1>3. QED
  BY <1>1, <1>2, PTL DEF EditsSpec

-----------------------------------------------------------------------------
(* What the steps change.                                                  *)

\* Edit r is in a new stage, with the object it holds and what it has sent.
Puts(r, stage, held, sent) ==
    /\ edit'[r] = [stage |-> stage, held |-> held, sent |-> sent]
    /\ edit'[r].stage = stage /\ edit'[r].held = held /\ edit'[r].sent = sent
    /\ \A q \in Requests \ {r} : edit'[q] = edit[q]
    /\ edit' = [edit EXCEPT ![r] = edit'[r]]

LEMMA PutsTyped ==
    ASSUME EditsOK, NEW r \in Requests, NEW stage \in Stages, NEW held \in Nat,
           NEW sent \in SUBSET Tracks, Puts(r, stage, held, sent)
    PROVE  /\ edit' \in [Requests -> EditState]
           /\ \A q \in Requests : edit'[q].held = IF q = r THEN held ELSE edit[q].held
<1>1. edit'[r] \in EditState
  BY DEF Puts, EditState
<1>2. edit \in [Requests -> EditState] /\ edit' = [edit EXCEPT ![r] = edit'[r]]
  BY DEF EditsOK, Puts
<1>3. edit' \in [Requests -> EditState]
  BY <1>1, <1>2
<1>4. QED
  BY <1>3 DEF Puts

LEMMA EditTyped ==
    ASSUME EditsOK, NEW r \in Requests
    PROVE  /\ edit[r] = [stage |-> Stage(r), held |-> edit[r].held, sent |-> edit[r].sent]
           /\ edit[r].held \in 1..Len(copies) /\ Len(copies) \in Nat
           /\ Stage(r) \in Stages /\ edit[r].sent \in SUBSET Tracks
           /\ Held(r) \in SUBSET Tracks
<1>1. edit[r] \in EditState /\ copies \in Seq(SUBSET Tracks) /\ edit[r].held \in DOMAIN copies
  BY DEF EditsOK
<1>2. QED
  BY <1>1 DEF EditState, Stage, Held

LEMMA StagesNamed ==
    /\ "idle" \in Stages /\ "fetching" \in Stages /\ "reading" \in Stages
    /\ "artwork" \in Stages /\ "requested" \in Stages /\ "dropped" \in Stages
    /\ "refetching" \in Stages
BY DEF Stages

LEMMA HeldNat == ASSUME EditsOK, NEW r \in Requests PROVE edit[r].held \in Nat
<1>1. edit[r].held \in 1..Len(copies) /\ Len(copies) \in Nat
  BY EditTyped
<1>2. QED
  BY <1>1

LEMMA PutsOn ==
    ASSUME EditsOK, NEW r \in Requests, NEW stage \in Stages,
           NEW held \in Nat, Puts(r, stage, held, edit[r].sent)
    PROVE  /\ edit' \in [Requests -> EditState]
           /\ \A q \in Requests : edit'[q].held = IF q = r THEN held ELSE edit[q].held
<1>1. edit[r].sent \in SUBSET Tracks
  BY EditTyped
<1>2. QED
  BY <1>1, PutsTyped

LEMMA PutsStage ==
    ASSUME EditsOK, NEW r \in Requests, NEW stage,
           edit' = [edit EXCEPT ![r].stage = stage]
    PROVE  Puts(r, stage, edit[r].held, edit[r].sent)
<1>1. edit \in [Requests -> EditState] /\ edit[r] \in EditState
  BY DEF EditsOK
<1>2. edit'[r] = [edit[r] EXCEPT !.stage = stage] /\ \A q \in Requests \ {r} : edit'[q] = edit[q]
  BY <1>1
<1>3. edit'[r] = [stage |-> stage, held |-> edit[r].held, sent |-> edit[r].sent]
  BY <1>1, <1>2 DEF EditState, Stage
<1>4. edit' = [edit EXCEPT ![r] = edit'[r]]
  BY <1>1, <1>2
<1>5. QED
  BY <1>2, <1>3, <1>4 DEF Puts

LEMMA PutsHeld ==
    ASSUME EditsOK, NEW r \in Requests, NEW stage, NEW held,
           edit' = [edit EXCEPT ![r].stage = stage, ![r].held = held]
    PROVE  Puts(r, stage, held, edit[r].sent)
<1>1. edit \in [Requests -> EditState] /\ edit[r] \in EditState
  BY DEF EditsOK
<1>2. edit'[r] = [edit[r] EXCEPT !.stage = stage, !.held = held] /\ \A q \in Requests \ {r} : edit'[q] = edit[q]
  BY <1>1
<1>3. edit'[r] = [stage |-> stage, held |-> held, sent |-> edit[r].sent]
  BY <1>1, <1>2 DEF EditState, Stage
<1>4. edit' = [edit EXCEPT ![r] = edit'[r]]
  BY <1>1, <1>2
<1>5. edit'[r].stage = stage /\ edit'[r].held = held /\ edit'[r].sent = edit[r].sent
  BY <1>3
<1>6. QED
  BY <1>2, <1>3, <1>4, <1>5 DEF Puts

LEMMA PutsSent ==
    ASSUME EditsOK, NEW r \in Requests, NEW sent,
           edit' = [edit EXCEPT ![r].sent = sent]
    PROVE  Puts(r, Stage(r), edit[r].held, sent)
<1>1. edit \in [Requests -> EditState] /\ edit[r] \in EditState
  BY DEF EditsOK
<1>2. edit'[r] = [edit[r] EXCEPT !.sent = sent] /\ \A q \in Requests \ {r} : edit'[q] = edit[q]
  BY <1>1
<1>3. edit'[r] = [stage |-> Stage(r), held |-> edit[r].held, sent |-> sent]
  BY <1>1, <1>2 DEF EditState, Stage
<1>4. edit' = [edit EXCEPT ![r] = edit'[r]]
  BY <1>1, <1>2
<1>5. QED
  BY <1>2, <1>3, <1>4 DEF Puts

\* A call that was made, or waits, is of an edit that was asked for.
LEMMA CallsRequested ==
    ASSUME Base, Agreement
    PROVE  /\ \A i \in DOMAIN calls : calls[i].req \in Requests /\ Stage(calls[i].req) = "requested"
           /\ \A q \in Requests : Phase(q) # "idle" => Stage(q) = "requested"
           /\ calls # <<>> => /\ Len(calls) \in DOMAIN calls /\ LastReq \in Requests
                              /\ Stage(LastReq) = "requested"
           /\ calls = <<>> => ~PendingUpdates
<1>1. \A i \in DOMAIN calls : calls[i] \in Call
  BY CallsTyped DEF Base
<1>2. \A i \in DOMAIN calls : calls[i].req \in Requests /\ Stage(calls[i].req) = "requested"
  BY <1>1 DEF Agreement, InTurn, Call
<1>3. calls # <<>> => Len(calls) \in DOMAIN calls
  BY CallsTyped DEF Base
<1>4. \A q \in Requests : Phase(q) # "idle" => Stage(q) = "requested"
  BY DEF Agreement, EditsOK
<1>5. calls = <<>> => ~PendingUpdates
  BY DEF PendingUpdates, IsDone
<1>6. QED
  BY <1>2, <1>3, <1>4, <1>5 DEF LastReq

\* A step of the edits alone: what was asked for, its object and what was sent
\* stay, with the backend.
Elsewhere ==
    /\ UNCHANGED <<vars, server>> /\ history'.errors = history.errors
    /\ \A q \in Requests : Stage(q) = "requested" =>
          edit'[q] = edit[q] /\ (Undisturbed' => Held(q)' = Held(q))
    /\ Undisturbed' => Undisturbed
    /\ ~Adding' /\ ~history'.outdated =>
          /\ ~Adding
          /\ \/ copies'[cache'] = copies[cache] /\ ~history.outdated
             \/ copies'[cache'] = server

LEMMA ElsewhereKept ==
    ASSUME Base, Agreement, Elsewhere
    PROVE  InTurn' /\ Delivered' /\ Written'
<1>1. /\ UNCHANGED <<calls, next, arrays, task, server>> /\ history'.errors = history.errors
      /\ UNCHANGED <<PendingUpdates, LastReq>>
      /\ \A q \in Requests : UNCHANGED <<Phase(q), At(q), Chain(q)>>
  BY DEF Elsewhere, vars, PendingUpdates, LastReq, Phase, At, Chain
<1>2. InTurn'
  BY <1>1, CallsRequested DEF InTurn, Agreement, Elsewhere, Stage, Settled
<1>3. Delivered'
  <2>1. ASSUME NEW r \in Requests, Undisturbed', Phase(r) = "calling", At(r) = Len(calls)
        PROVE  edit'[r].sent = Held(r)'
    <3>1. Stage(r) = "requested" /\ Undisturbed /\ edit[r].sent = Held(r)
      BY <2>1, CallsRequested DEF Agreement, Delivered, Elsewhere
    <3>2. QED
      BY <2>1, <3>1 DEF Elsewhere
  <2>2. ASSUME Undisturbed', calls # <<>>, ~PendingUpdates
        PROVE  Held(LastReq)' = server
    <3>1. /\ LastReq \in Requests /\ Stage(LastReq) = "requested"
          /\ Undisturbed /\ Held(LastReq) = server
      BY <2>2, CallsRequested DEF Agreement, Delivered, Elsewhere
    <3>2. \A q \in Requests : Stage(q) = "requested" => Held(q)' = Held(q)
      BY <2>2 DEF Elsewhere
    <3>3. Held(LastReq)' = copies'[edit'[LastReq].held]
      BY <1>1 DEF Held
    <3>4. QED
      BY <3>1, <3>2, <3>3 DEF Held
  <2>3. QED
    BY <1>1, <2>1, <2>2 DEF Delivered
<1>4. Written'
  BY <1>1 DEF Agreement, Written, Elsewhere
<1>5. QED
  BY <1>2, <1>3, <1>4

LEMMA BeginStep ==
    ASSUME Base, Agreement, NEW r \in Requests, BeginEdit(r)
    PROVE  Agreement'
<1> DEFINE stage == IF PendingUpdates THEN "reading" ELSE "fetching"
<1>1. EditsOK /\ Apart
  BY DEF Agreement
<1>2. /\ Stage(r) = "idle" /\ UNCHANGED <<vars, copies, cache, server, written>>
      /\ edit' = [edit EXCEPT ![r].stage = stage, ![r].held = cache]
      /\ history' = [history EXCEPT !.overlap = @ \/ \E q \in Requests : InProgress(q)]
  BY DEF BeginEdit
<1>3. Puts(r, stage, cache, edit[r].sent)
  BY <1>1, <1>2, PutsHeld
<1>4. /\ history'.errors = history.errors /\ history'.abandoned = history.abandoned
      /\ history'.outdated = history.outdated
      /\ history'.overlap = (history.overlap \/ \E q \in Requests : InProgress(q))
      /\ history' \in History
  BY <1>1, <1>2 DEF EditsOK, History
<1>5. /\ stage \in {"reading", "fetching"} /\ (stage = "fetching" <=> ~PendingUpdates)
  OBVIOUS
<1> HIDE DEF stage
<1>6. EditsOK'
  <2>1. cache \in Nat /\ cache \in DOMAIN copies
        /\ \A q \in Requests : edit[q].held \in DOMAIN copies
    BY <1>1 DEF EditsOK
  <2>3. stage \in Stages /\ edit[r].sent \in SUBSET Tracks
    BY <1>1, <1>5, EditTyped DEF Stages
  <2>4. edit' \in [Requests -> EditState] /\ \A q \in Requests : edit'[q].held \in DOMAIN copies
    BY <1>1, <1>3, <2>1, <2>3, PutsTyped
  <2>2. \A q \in Requests : Stage(q)' = "requested" <=> Phase(q)' # "idle"
    BY <1>1, <1>2, <1>3, <1>5 DEF EditsOK, Puts, Stage, Phase, vars
  <2>5. QED
    BY <1>1, <1>2, <1>4, <2>2, <2>4 DEF EditsOK
<1>7. Elsewhere
  <2>1. \A q \in Requests : /\ Stage(q)' = "artwork" <=> Stage(q) = "artwork"
                            /\ Stage(q) = "requested" => edit'[q] = edit[q]
    BY <1>2, <1>3, <1>5 DEF Puts, Stage
  <2>2. Adding' <=> Adding
    BY <1>4, <2>1, EditsAssumption DEF Adding
  <2>3. Undisturbed' => Undisturbed
    BY <1>4, <2>2 DEF Undisturbed
  <2>4. \A q \in Requests : Stage(q) = "requested" => Held(q)' = Held(q)
    BY <1>2, <2>1 DEF Held
  <2>5. QED
    BY <1>2, <1>4, <2>1, <2>2, <2>3, <2>4 DEF Elsewhere
<1>8. Apart'
  <2> SUFFICES ASSUME ~history'.overlap PROVE Apart'
    BY DEF Apart
  <2>1. ~history.overlap /\ \A q \in Requests : ~InProgress(q)
    BY <1>4
  <2>2. \A q \in Requests : InProgress(q)' <=> q = r
    BY <1>3, <1>5, <2>1 DEF InProgress, Puts, Stage
  <2>3. \A q \in Requests : Stage(q)' = "requested" =>
           /\ q # r /\ Stage(q) = "requested" /\ edit'[q].held = edit[q].held
    BY <1>3, <1>5 DEF Puts, Stage
  <2>4. (UNCHANGED PendingUpdates) /\ (UNCHANGED LastReq) /\ (~Adding' => ~Adding)
    <3>1. UNCHANGED calls
      BY <1>2 DEF vars
    <3>2. ~Adding' => ~Adding
      BY <1>4, <2>1, EditsAssumption DEF Adding, InProgress
    <3>3. QED
      BY <3>1, <3>2 DEF PendingUpdates, LastReq
  <2>5. PendingUpdates /\ ~Adding' => copies[cache] = Held(LastReq)'
    <3>1. PendingUpdates => (~Adding' => copies[cache] = Held(LastReq)) /\ LastReq \in Requests
                            /\ Stage(LastReq) = "requested" /\ LastReq # r
      BY <1>1, <1>2, <2>1, <2>4, CallsRequested DEF Apart
    <3>2. \A q \in Requests \ {r} : Held(q)' = Held(q)
      BY <1>2, <1>3 DEF Held, Puts
    <3>3. PendingUpdates => Held(LastReq)' = Held(LastReq)
      BY <1>2, <2>4, <3>1, <3>2 DEF Held
    <3>4. QED
      BY <3>1, <3>3
  <2>6. \A q \in Requests : Stage(q)' \in {"fetching", "refetching"} => ~PendingUpdates
    BY <1>3, <1>5, <2>1, <2>2 DEF InProgress, Stage, Puts
  <2>7. edit'[r].held = cache /\ UNCHANGED cache
    BY <1>2, <1>3 DEF Puts
  <2>8. QED
    BY <1>1, <1>2, <2>1, <2>2, <2>3, <2>4, <2>5, <2>6, <2>7 DEF Apart
<1>9. QED
  BY <1>6, <1>7, <1>8, ElsewhereKept DEF Agreement

\* A fetch of edit r is answered.
Fetches(r, answer, stage, held) ==
    /\ Stage(r) \in {"fetching", "refetching"} /\ UNCHANGED <<vars, server, written>>
    /\ answer \in written /\ Refresh(answer)
    /\ stage \in {"refetching", "reading"} /\ Puts(r, stage, held, edit[r].sent)
    /\ \/ held = cache' /\ (~history'.stale => answer = server)
       \/ held = edit[r].held /\ Stage(r) = "refetching"
    /\ history' \in History /\ history'.overlap = history.overlap
    /\ history'.errors = history.errors /\ history'.abandoned = history.abandoned
    /\ (history.stale => history'.stale) /\ history'.outdated = (answer # server)

LEMMA FetchesOne ==
    ASSUME EditsOK, NEW r \in Requests, AnyFetch(r)
    PROVE  \E answer \in written, stage \in Stages, held \in Nat : Fetches(r, answer, stage, held)
<1>1. edit[r].held \in Nat /\ "refetching" \in Stages /\ "reading" \in Stages
      /\ cache \in Nat /\ Len(copies) + 1 \in Nat
  BY HeldNat, StagesNamed DEF EditsOK
<1>2. ASSUME NEW answer \in written, Fetched(r, answer)
      PROVE  \E stage \in Stages, held \in Nat : Fetches(r, answer, stage, held)
  <2> DEFINE stage == IF r \in Adds THEN "reading" ELSE "refetching"
  <2>1. /\ Stage(r) = "fetching" /\ UNCHANGED <<vars, server, written>> /\ Refresh(answer)
        /\ edit' = [edit EXCEPT ![r].stage = stage, ![r].held = cache']
    BY <1>2 DEF Fetched
  <2>2. Puts(r, stage, cache', edit[r].sent)
    BY <2>1, PutsHeld
  <2>3. /\ history' \in History /\ history'.overlap = history.overlap
        /\ history'.errors = history.errors /\ history'.abandoned = history.abandoned
        /\ history'.stale = (history.stale \/ answer # server)
        /\ history'.outdated = (answer # server)
    BY <1>2 DEF Fetched, EditsOK, History
  <2>4. cache' \in Nat
    BY <1>1, <2>1 DEF Refresh
  <2>5. stage \in {"refetching", "reading"} /\ stage \in Stages
    BY <1>1
  <2>6. Fetches(r, answer, stage, cache')
    BY <2>1, <2>2, <2>3, <2>5 DEF Fetches
  <2>7. QED
    BY <2>4, <2>5, <2>6
<1>3. ASSUME NEW answer \in written, Refetched(r, answer)
      PROVE  \E stage \in Stages, held \in Nat : Fetches(r, answer, stage, held)
  <2>1. /\ Stage(r) = "refetching" /\ UNCHANGED <<vars, server, written>> /\ Refresh(answer)
        /\ edit' = [edit EXCEPT ![r].stage = "reading"]
    BY <1>3 DEF Refetched
  <2>2. Puts(r, "reading", edit[r].held, edit[r].sent)
    BY <2>1, PutsStage
  <2>3. /\ history' \in History /\ history'.overlap = history.overlap
        /\ history'.errors = history.errors /\ history'.abandoned = history.abandoned
        /\ history'.stale = history.stale
        /\ history'.outdated = (answer # server)
    BY <1>3 DEF Refetched, EditsOK, History
  <2>4. Fetches(r, answer, "reading", edit[r].held)
    BY <2>1, <2>2, <2>3 DEF Fetches
  <2>5. QED
    BY <1>1, <2>4
<1>4. QED
  BY <1>2, <1>3 DEF AnyFetch

\* What a fetch does to the objects.
LEMMA Refreshed ==
    ASSUME EditsOK, NEW answer \in written, Refresh(answer)
    PROVE  /\ copies' \in Seq(SUBSET Tracks) /\ cache' \in DOMAIN copies' /\ cache' \in Nat
           /\ \A i \in 1..Len(copies) : i \in DOMAIN copies' /\ copies'[i] = copies[i]
           /\ \A i \in DOMAIN copies' : copies'[i] = answer \/ (i \in DOMAIN copies /\ copies'[i] = copies[i])
           /\ cache' = cache \/ cache' \notin 1..Len(copies)
           /\ copies'[cache'] = answer
<1>1. /\ copies \in Seq(SUBSET Tracks) /\ answer \in SUBSET Tracks /\ cache \in 1..Len(copies)
      /\ Len(copies) \in Nat
  BY DEF EditsOK
<1>2. CASE answer = copies[cache] /\ copies' = copies /\ cache' = cache
  BY <1>1, <1>2
<1>3. CASE copies' = Append(copies, answer) /\ cache' = Len(copies) + 1
  BY <1>1, <1>3
<1>4. QED
  BY <1>2, <1>3 DEF Refresh

LEMMA FetchStep ==
    ASSUME Base, Agreement, NEW r \in Requests, AnyFetch(r)
    PROVE  Agreement'
<1>1. EditsOK /\ Apart
  BY DEF Agreement
<1>2. PICK answer \in written, stage \in Stages, held \in Nat : Fetches(r, answer, stage, held)
  BY <1>1, FetchesOne
<1>3. /\ Stage(r) \in {"fetching", "refetching"} /\ UNCHANGED <<vars, server, written>>
      /\ stage \in {"refetching", "reading"} /\ Puts(r, stage, held, edit[r].sent)
      /\ held = cache' \/ held = edit[r].held
      /\ history' \in History /\ history'.overlap = history.overlap
      /\ history'.errors = history.errors /\ history'.abandoned = history.abandoned
      /\ history'.outdated = (answer # server)
  BY <1>2 DEF Fetches
<1>4. /\ cache \in 1..Len(copies) /\ Len(copies) \in Nat
      /\ \A q \in Requests : edit[q].held \in 1..Len(copies)
  BY <1>1 DEF EditsOK
<1>5. /\ copies' \in Seq(SUBSET Tracks) /\ cache' \in DOMAIN copies'
      /\ \A i \in 1..Len(copies) : i \in DOMAIN copies' /\ copies'[i] = copies[i]
      /\ cache' = cache \/ cache' \notin 1..Len(copies)
      /\ copies'[cache'] = answer
  BY <1>1, <1>2, Refreshed DEF Fetches
<1>6. EditsOK'
  <2>1. edit' \in [Requests -> EditState]
        /\ \A q \in Requests : edit'[q].held = IF q = r THEN held ELSE edit[q].held
    BY <1>1, <1>3, PutsOn
  <2>2. \A q \in Requests : Stage(q)' = "requested" <=> Phase(q)' # "idle"
    BY <1>1, <1>3 DEF EditsOK, Puts, Stage, Phase, vars
  <2>3. \A q \in Requests : edit'[q].held \in DOMAIN copies'
    BY <1>3, <1>4, <1>5, <2>1
  <2>4. QED
    BY <1>1, <1>3, <1>5, <2>1, <2>2, <2>3 DEF EditsOK
<1>7. \A q \in Requests : /\ Stage(q)' = "artwork" <=> Stage(q) = "artwork"
                          /\ Stage(q)' = "requested" <=> Stage(q) = "requested"
                          /\ Stage(q)' \in {"fetching", "refetching"} => Stage(q) \in {"fetching", "refetching"}
                          /\ InProgress(q)' <=> InProgress(q)
                          /\ Stage(q) = "requested" => edit'[q] = edit[q]
  BY <1>3 DEF Puts, Stage, InProgress
<1>8. (Adding' <=> Adding) /\ \A q \in Requests : Stage(q) = "requested" => Held(q)' = Held(q)
  <2>1. Adding' <=> Adding
    BY <1>3, <1>7, EditsAssumption DEF Adding
  <2>2. QED
    BY <1>4, <1>5, <1>7, <2>1 DEF Held
<1>9. Elsewhere
  <2>1. ~history'.outdated => copies'[cache'] = server
    BY <1>3, <1>5
  <2>2. Undisturbed' => Undisturbed
    BY <1>3, <1>8 DEF Undisturbed
  <2>3. QED
    BY <1>3, <1>7, <1>8, <2>1, <2>2 DEF Elsewhere
<1>10. Apart'
  <2> SUFFICES ASSUME ~history.overlap PROVE Apart'
    BY <1>3 DEF Apart
  <2>1. InProgress(r) /\ ~PendingUpdates /\ \A q \in Requests : InProgress(q) => q = r
    BY <1>1, <1>3 DEF Apart, InProgress
  <2>2. ~PendingUpdates'
    BY <1>3, <2>1 DEF PendingUpdates, vars
  <2>3. ASSUME NEW q \in Requests, Stage(q)' = "requested"
        PROVE  edit'[q].held # cache' /\ \A s \in Requests : InProgress(s)' => edit'[s].held # edit'[q].held
    <3>1. edit'[q].held = edit[q].held /\ edit[q].held # cache /\ edit[q].held \in 1..Len(copies)
          /\ edit[r].held # edit[q].held
      BY <1>1, <1>4, <1>7, <2>1, <2>3 DEF Apart
    <3>2. edit'[q].held # cache'
      BY <1>5, <3>1
    <3>3. edit'[r].held # edit'[q].held
      BY <1>3, <3>1, <3>2 DEF Puts
    <3>4. QED
      BY <1>7, <2>1, <3>2, <3>3
  <2>4. QED
    BY <1>7, <2>1, <2>2, <2>3 DEF Apart, InProgress
<1>11. QED
  BY <1>6, <1>9, <1>10, ElsewhereKept DEF Agreement

LEMMA ReadStep ==
    ASSUME Base, Agreement, NEW r \in Requests, ReadTracks(r)
    PROVE  Agreement'
<1>1. EditsOK /\ Apart
  BY DEF Agreement
<1>2. /\ Stage(r) = "reading" /\ UNCHANGED <<vars, cache, server, written, history>>
      /\ copies' = IF r \in Adds THEN [copies EXCEPT ![edit[r].held] = Changed(r, @)] ELSE copies
      /\ edit' = [edit EXCEPT ![r].stage = "artwork"]
  BY DEF ReadTracks
<1>3. Puts(r, "artwork", edit[r].held, edit[r].sent)
  BY <1>1, <1>2, PutsStage
<1>4. /\ copies \in Seq(SUBSET Tracks) /\ cache \in 1..Len(copies)
      /\ Len(copies) \in Nat /\ \A q \in Requests : edit[q].held \in 1..Len(copies)
  BY <1>1 DEF EditsOK
<1>5. /\ copies' \in Seq(SUBSET Tracks) /\ DOMAIN copies' = 1..Len(copies)
      /\ \A i \in 1..Len(copies) : i # edit[r].held => copies'[i] = copies[i]
      /\ r \notin Adds => copies' = copies
  <2>1. \A contents \in SUBSET Tracks : Changed(r, contents) \in SUBSET Tracks
    BY EditsAssumption DEF Changed
  <2>2. QED
    BY <1>2, <1>4, <2>1
<1>6. edit' \in [Requests -> EditState] /\ \A q \in Requests : edit'[q].held = edit[q].held
  BY <1>1, <1>3, <1>4, HeldNat, StagesNamed, PutsOn
<1>7. EditsOK'
  <2>2. \A q \in Requests : Stage(q)' = "requested" <=> Phase(q)' # "idle"
    BY <1>1, <1>2, <1>3 DEF EditsOK, Puts, Stage, Phase, vars
  <2>3. QED
    BY <1>1, <1>2, <1>4, <1>5, <1>6, <2>2 DEF EditsOK
<1>8. \A q \in Requests : /\ Stage(q) = "artwork" => Stage(q)' = "artwork"
                          /\ Stage(q)' = "requested" <=> Stage(q) = "requested"
                          /\ \A stage \in {"fetching", "refetching"} : Stage(q)' = stage <=> Stage(q) = stage
                          /\ InProgress(q)' <=> InProgress(q)
                          /\ Stage(q) = "requested" => edit'[q] = edit[q]
  BY <1>2, <1>3 DEF Puts, Stage, InProgress
<1>9. ~Adding' => ~Adding /\ r \notin Adds
  BY <1>2, <1>3, <1>8, EditsAssumption DEF Adding, Stage, Puts
<1>10. ASSUME NEW q \in Requests, Stage(q) = "requested", ~history.overlap \/ r \notin Adds
       PROVE  Held(q)' = Held(q)
  <2>1. edit'[q].held = edit[q].held /\ edit[q].held \in 1..Len(copies)
    BY <1>4, <1>6
  <2>2. CASE r \notin Adds
    BY <1>5, <2>1, <2>2 DEF Held
  <2>3. CASE ~history.overlap
    <3>1. edit[q].held # edit[r].held
      BY <1>1, <1>2, <1>10, <2>3 DEF Apart, InProgress
    <3>2. QED
      BY <1>5, <2>1, <3>1 DEF Held
  <2>4. QED
    BY <1>10, <2>2, <2>3
<1>11. Elsewhere
  <2>1. Undisturbed' => Undisturbed /\ (~history.overlap \/ r \notin Adds)
    BY <1>2, <1>9 DEF Undisturbed
  <2>2. ~Adding' => ~Adding /\ copies'[cache'] = copies[cache]
    BY <1>2, <1>5, <1>9
  <2>3. QED
    BY <1>2, <1>8, <1>10, <2>1, <2>2 DEF Elsewhere
<1>12. Apart'
  <2> SUFFICES ASSUME ~history.overlap PROVE Apart'
    BY <1>2 DEF Apart
  <2>1. (UNCHANGED PendingUpdates) /\ UNCHANGED LastReq
    BY <1>2 DEF PendingUpdates, LastReq, vars
  <2>2. PendingUpdates /\ ~Adding' => copies'[cache'] = Held(LastReq)'
    <3> SUFFICES ASSUME PendingUpdates, ~Adding' PROVE copies'[cache'] = Held(LastReq)'
      OBVIOUS
    <3>1. LastReq \in Requests /\ Stage(LastReq) = "requested"
      BY CallsRequested
    <3>2. copies[cache] = Held(LastReq) /\ copies'[cache'] = copies[cache]
      BY <1>1, <1>2, <1>5, <1>9 DEF Apart
    <3>3. Held(LastReq)' = copies'[edit'[LastReq].held]
      BY <2>1 DEF Held
    <3>4. QED
      BY <1>10, <3>1, <3>2, <3>3 DEF Held
  <2>3. QED
    BY <1>1, <1>2, <1>6, <1>8, <2>1, <2>2 DEF Apart
<1>13. QED
  BY <1>7, <1>11, <1>12, ElsewhereKept DEF Agreement

\* Edits end that were not asked for yet, and what an addition has changed in
\* place stays.
Leaves ==
    /\ UNCHANGED <<vars, copies, cache, server, written>>
    /\ edit' \in [Requests -> EditState]
    /\ \A q \in Requests :
          /\ edit'[q].held = edit[q].held /\ edit'[q].sent = edit[q].sent
          /\ edit'[q] = edit[q] \/ (InProgress(q) /\ Stage(q)' \in {"dropped", "failed"})
    /\ history' \in History /\ history'.overlap = history.overlap
    /\ history'.errors = history.errors /\ history'.stale = history.stale
    /\ history'.outdated = history.outdated /\ (history.abandoned => history'.abandoned)
    /\ \A q \in Adds : Stage(q) = "artwork" /\ Stage(q)' # "artwork" => history'.abandoned

LEMMA DropLeaves ==
    ASSUME EditsOK, NEW r \in Requests, GiveUp(r) \/ ReturnEarly(r)
    PROVE  Leaves
<1>1. /\ InProgress(r) /\ (r \in Adds => Stage(r) # "artwork")
      /\ UNCHANGED <<vars, copies, cache, server, written, history>>
      /\ edit' = [edit EXCEPT ![r].stage = "dropped"]
  BY DEF GiveUp, ReturnEarly, InProgress
<1>2. Puts(r, "dropped", edit[r].held, edit[r].sent)
  BY <1>1, PutsStage
<1>3. edit' \in [Requests -> EditState] /\ \A q \in Requests : edit'[q].held = edit[q].held
  BY <1>2, HeldNat, StagesNamed, PutsOn
<1>4. ASSUME NEW q \in Requests
      PROVE  /\ edit'[q].held = edit[q].held /\ edit'[q].sent = edit[q].sent
             /\ edit'[q] = edit[q] \/ (InProgress(q) /\ Stage(q)' \in {"dropped", "failed"})
             /\ q \in Adds /\ Stage(q) = "artwork" => Stage(q)' = "artwork"
  BY <1>1, <1>2, <1>3 DEF Puts, Stage
<1>5. history \in History
  BY DEF EditsOK
<1>6. \A q \in Adds : Stage(q) = "artwork" => Stage(q)' = "artwork"
  BY <1>4, EditsAssumption
<1>7. QED
  BY <1>1, <1>3, <1>4, <1>5, <1>6 DEF Leaves

LEMMA FailLeaves ==
    ASSUME EditsOK, NEW r \in Requests, Fail(r)
    PROVE  Leaves
<1> DEFINE aborted == {q \in Siblings(r) : InProgress(q)}
<1>1. /\ edit' = [q \in Requests |->
             IF q \in aborted THEN [edit[q] EXCEPT !.stage = "failed"] ELSE edit[q]]
      /\ history' = [history EXCEPT
             !.abandoned = @ \/ \E q \in aborted \cap Adds : Stage(q) = "artwork"]
      /\ UNCHANGED <<vars, copies, cache, server, written>>
  BY DEF Fail
<1>2. /\ edit \in [Requests -> EditState] /\ history \in History
      /\ \A q \in aborted : InProgress(q)
  BY DEF EditsOK
<1> HIDE DEF aborted
<1>3. ASSUME NEW q \in Requests
      PROVE  /\ edit'[q] \in EditState
             /\ edit'[q].held = edit[q].held /\ edit'[q].sent = edit[q].sent
             /\ q \notin aborted => edit'[q] = edit[q]
             /\ q \in aborted => InProgress(q) /\ Stage(q)' = "failed"
  <2>1. edit[q] \in EditState
    BY <1>2
  <2>2. CASE q \in aborted
    <3>1. edit'[q] = [edit[q] EXCEPT !.stage = "failed"]
      BY <1>1, <2>2
    <3>2. QED
      BY <1>2, <2>1, <2>2, <3>1 DEF EditState, Stages, Stage
  <2>3. CASE q \notin aborted
    BY <1>1, <2>1, <2>3
  <2>4. QED
    BY <2>2, <2>3
<1>4. /\ history' \in History /\ history'.overlap = history.overlap
      /\ history'.errors = history.errors /\ history'.stale = history.stale
      /\ history'.outdated = history.outdated
      /\ history'.abandoned = (history.abandoned \/ \E q \in aborted \cap Adds : Stage(q) = "artwork")
  BY <1>1, <1>2 DEF History
<1>5. edit' \in [Requests -> EditState]
  BY <1>1, <1>3
<1>6. \A q \in Adds : Stage(q) = "artwork" /\ Stage(q)' # "artwork" => history'.abandoned
  <2>1. \A q \in Adds : Stage(q) = "artwork" /\ Stage(q)' # "artwork" => q \in aborted
    BY <1>3, EditsAssumption DEF Stage
  <2>2. QED
    BY <1>4, <2>1
<1>7. QED
  BY <1>1, <1>3, <1>4, <1>5, <1>6 DEF Leaves

LEMMA LeaveStep ==
    ASSUME Base, Agreement, Leaves
    PROVE  Agreement'
<1>1. EditsOK /\ Apart
  BY DEF Agreement
<1>2. /\ UNCHANGED <<vars, copies, cache, server, written>>
      /\ edit' \in [Requests -> EditState]
      /\ \A q \in Requests : edit'[q].held = edit[q].held
      /\ history' \in History /\ history'.overlap = history.overlap
      /\ history'.errors = history.errors /\ history'.outdated = history.outdated
  BY DEF Leaves
<1>3. \A q \in Requests : /\ Stage(q)' = "requested" <=> Stage(q) = "requested"
                          /\ Stage(q)' \in {"fetching", "refetching"} => Stage(q)' = Stage(q)
                          /\ InProgress(q)' => InProgress(q)
                          /\ Stage(q) = "requested" => edit'[q] = edit[q]
  BY DEF Leaves, Stage, InProgress
<1>4. EditsOK'
  <2>1. \A q \in Requests : Stage(q)' = "requested" <=> Phase(q)' # "idle"
    BY <1>1, <1>2, <1>3 DEF EditsOK, Phase, vars
  <2>2. QED
    BY <1>1, <1>2, <2>1 DEF EditsOK
<1>5. ~Adding' => ~Adding
  BY EditsAssumption DEF Leaves, Adding
<1>6. /\ \A q \in Requests : Held(q)' = Held(q)
      /\ (UNCHANGED PendingUpdates) /\ UNCHANGED LastReq
  <2>1. \A q \in Requests : Held(q)' = Held(q)
    BY <1>2 DEF Held
  <2>2. (UNCHANGED PendingUpdates) /\ UNCHANGED LastReq
    BY <1>2 DEF PendingUpdates, LastReq, vars
  <2>3. QED
    BY <2>1, <2>2
<1>7. Elsewhere
  <2>1. Undisturbed' => ~history.errors /\ (~history.overlap \/ ~Adding)
    BY <1>2, <1>5 DEF Undisturbed
  <2>2. QED
    BY <1>2, <1>3, <1>5, <1>6, <2>1 DEF Elsewhere, Undisturbed
<1>8. Apart'
  <2>1. PendingUpdates => Held(LastReq)' = Held(LastReq)
    BY <1>2, <1>6, CallsRequested DEF Held
  <2>2. QED
    BY <1>1, <1>2, <1>3, <1>5, <1>6, <2>1 DEF Apart
<1>9. QED
  BY <1>4, <1>7, <1>8, ElsewhereKept DEF Agreement

LEMMA PublishStep ==
    ASSUME Base, Agreement, NEW r \in Requests, Publish(r)
    PROVE  Agreement'
<1> DEFINE contents == Changed(r, Held(r))
           call == [req |-> r, result |-> "null", cancelled |-> FALSE]
<1>1. EditsOK /\ InTurn /\ Apart
  BY DEF Agreement
<1>2. /\ Stage(r) = "artwork" /\ UNCHANGED <<server, written>>
      /\ history' = [history EXCEPT !.outdated = FALSE]
      /\ copies' = Append([copies EXCEPT ![edit[r].held] = contents], contents)
      /\ cache' = Len(copies) + 1
      /\ edit' = [edit EXCEPT ![r].stage = "requested"]
      /\ Phase(r) = "idle" /\ calls' = Append(calls, call) /\ next' = next
      /\ task' = [task EXCEPT ![r].phase = "queued", ![r].at = Len(calls) + 1]
      /\ UNCHANGED <<arrays, slow>>
  BY DEF Publish, Request
<1>3. /\ history' \in History /\ history'.overlap = history.overlap
      /\ history'.errors = history.errors
  <2> HIDE DEF contents
  <2> QED
    BY <1>1, <1>2 DEF EditsOK, History
<1>4. Puts(r, "requested", edit[r].held, edit[r].sent)
  BY <1>1, <1>2, PutsStage
<1>5. /\ copies \in Seq(SUBSET Tracks) /\ cache \in 1..Len(copies)
      /\ Len(copies) \in Nat /\ \A q \in Requests : edit[q].held \in 1..Len(copies)
  BY <1>1 DEF EditsOK
<1>6. contents \in SUBSET Tracks /\ call.req = r /\ call.result = "null" /\ ~call.cancelled
  <2>1. Held(r) \in SUBSET Tracks
    BY <1>1, EditTyped
  <2>2. QED
    BY <2>1, EditsAssumption DEF Changed
<1> HIDE DEF contents, call
<1>7. /\ copies' \in Seq(SUBSET Tracks) /\ DOMAIN copies' = 1..(Len(copies) + 1)
      /\ copies'[edit[r].held] = contents /\ copies'[cache'] = contents
  <2>1. /\ [copies EXCEPT ![edit[r].held] = contents] \in Seq(SUBSET Tracks)
        /\ Len([copies EXCEPT ![edit[r].held] = contents]) = Len(copies)
        /\ [copies EXCEPT ![edit[r].held] = contents][edit[r].held] = contents
    BY <1>5, <1>6
  <2>2. QED
    BY <1>2, <1>5, <1>6, <2>1
<1>8. edit' \in [Requests -> EditState] /\ \A q \in Requests : edit'[q].held = edit[q].held
  BY <1>1, <1>4, HeldNat, StagesNamed, PutsOn
<1>9. \A q \in Requests : /\ Stage(q)' = "requested" <=> q = r \/ Stage(q) = "requested"
                          /\ Stage(q)' = "fetching" => Stage(q) = "fetching"
                          /\ InProgress(q)' => q # r /\ InProgress(q)
  BY <1>2, <1>4 DEF Puts, Stage, InProgress
<1>10. /\ calls \in Seq(Call) /\ DOMAIN calls = 1..Len(calls) /\ Len(calls) \in Nat
      /\ next \in Nat /\ task \in [Requests -> TaskState]
  BY CallsTyped DEF Base
<1>11. /\ DOMAIN calls' = 1..(Len(calls) + 1) /\ Len(calls') = Len(calls) + 1
       /\ \A i \in DOMAIN calls : calls'[i] = calls[i]
       /\ calls'[Len(calls) + 1] = call
  BY <1>2, <1>10
<1>12. /\ LastReq' = r /\ PendingUpdates' /\ calls' # <<>>
  <2>1. Len(calls) + 1 \in DOMAIN calls' /\ ~Settled(calls'[Len(calls) + 1])
    BY <1>6, <1>10, <1>11 DEF Settled
  <2>2. LastReq' = r
    BY <1>6, <1>11 DEF LastReq
  <2>3. QED
    BY <2>1, <2>2 DEF PendingUpdates, IsDone
<1>13. Phase(r)' = "queued" /\ \A q \in Requests \ {r} : task'[q] = task[q]
  <2>1. task'[r] = [task[r] EXCEPT !.phase = "queued", !.at = Len(calls) + 1] /\ task[r] \in TaskState
    BY <1>2, <1>10
  <2>2. task'[r].phase = "queued"
    BY <2>1 DEF TaskState
  <2>3. QED
    BY <1>2, <1>10, <2>2 DEF Phase
<1>14. EditsOK'
  <2>1. \A q \in Requests : Stage(q)' = "requested" <=> Phase(q)' # "idle"
    BY <1>1, <1>9, <1>13 DEF EditsOK, Phase
  <2>2. cache' \in DOMAIN copies' /\ \A q \in Requests : edit'[q].held \in DOMAIN copies'
    BY <1>2, <1>5, <1>7, <1>8
  <2>3. QED
    BY <1>1, <1>2, <1>7, <1>8, <1>3, <2>1, <2>2 DEF EditsOK
<1>15. InTurn'
  <2>1. \A i \in DOMAIN calls' : (i \in DOMAIN calls /\ calls'[i] = calls[i]) \/ calls'[i] = call
    BY <1>10, <1>11
  <2>2. \A i \in DOMAIN calls' : edit'[calls'[i].req].stage = "requested"
    <3>1. \A q \in Requests : q = r \/ Stage(q) = "requested" => edit'[q].stage = "requested"
      BY <1>9 DEF Stage
    <3>2. QED
      BY <1>6, <2>1, <3>1, CallsRequested
  <2>3. \A i \in DOMAIN calls' : i >= next' => ~Settled(calls'[i])
    BY <1>1, <1>2, <1>6, <2>1 DEF InTurn, Settled
  <2>4. \A q \in Requests : Phase(q)' \in {"ready", "calling"} => q \notin Parallelizable /\ At(q)' = next'
    BY <1>1, <1>2, <1>13 DEF InTurn, Phase, At
  <2>5. ~history'.errors => \A i \in DOMAIN calls' : calls'[i].result \in {"null", "ok"}
    BY <1>1, <1>6, <1>3, <2>1 DEF InTurn
  <2>6. QED
    BY <2>2, <2>3, <2>4, <2>5 DEF InTurn, Stage
<1>16. Apart'
  <2> SUFFICES ASSUME ~history.overlap PROVE Apart'
    BY <1>3 DEF Apart
  <2>1. InProgress(r) /\ \A q \in Requests : ~InProgress(q)'
    BY <1>1, <1>2, <1>9 DEF Apart, InProgress
  <2>2. \A q \in Requests : edit'[q].held # cache'
    BY <1>2, <1>5, <1>8
  <2>3. copies'[cache'] = Held(LastReq)'
    BY <1>7, <1>8, <1>12 DEF Held
  <2>4. QED
    BY <2>1, <2>2, <2>3 DEF Apart, InProgress
<1>17. Delivered'
  <2>1. \A q \in Requests : Phase(q)' = "calling" => At(q)' # Len(calls')
    <3>1. \A q \in Requests : Phase(q) = "calling" => At(q) <= Len(calls) /\ At(q) \in Nat
      BY CallKept DEF Base, Open
    <3>2. QED
      BY <1>10, <1>11, <1>13, <3>1 DEF Phase, At
  <2>2. QED
    BY <1>12, <2>1 DEF Delivered
<1>18. Written'
  BY <1>12 DEF Written
<1>19. QED
  BY <1>14, <1>15, <1>16, <1>17, <1>18 DEF Agreement

LEMMA SendStep ==
    ASSUME Base, Agreement, NEW r \in Requests, Send(r)
    PROVE  Agreement'
<1>1. EditsOK /\ InTurn /\ Apart /\ Delivered /\ Written
  BY DEF Agreement
<1>2. /\ Phase(r) = "ready"
      /\ UNCHANGED <<calls, next, arrays, copies, cache, server, written, history>>
      /\ edit' = [edit EXCEPT ![r].sent = Held(r)]
      /\ Rephases(r, "calling", ReqAt(Previous(r)))
  BY DEF Send, Start, Rephases
<1>3. Puts(r, Stage(r), edit[r].held, Held(r))
  BY <1>1, <1>2, PutsSent
<1>4. /\ task'[r].phase = "calling" /\ task'[r].at = task[r].at
      /\ \A q \in Requests \ {r} : task'[q] = task[q]
  BY <1>2, Rephased DEF Base
<1>5. edit' \in [Requests -> EditState] /\ \A q \in Requests : edit'[q].held = edit[q].held
  <2>1. Stage(r) \in Stages /\ edit[r].held \in Nat /\ Held(r) \in SUBSET Tracks
    BY <1>1, EditTyped, HeldNat
  <2>2. QED
    BY <1>1, <1>3, <2>1, PutsTyped
<1>6. /\ \A q \in Requests : /\ Stage(q)' = Stage(q) /\ (InProgress(q)' <=> InProgress(q))
                             /\ Held(q)' = Held(q)
                             /\ q # r => edit'[q].sent = edit[q].sent
      /\ edit'[r].sent = Held(r)
  BY <1>2, <1>3, <1>5 DEF Puts, Stage, InProgress, Held
<1>7. /\ (UNCHANGED PendingUpdates) /\ (UNCHANGED LastReq)
      /\ (Adding' <=> Adding) /\ (Undisturbed' <=> Undisturbed)
      /\ PendingUpdates => Held(LastReq)' = Held(LastReq)
      /\ calls # <<>> => Held(LastReq)' = Held(LastReq)
  <2>1. (UNCHANGED PendingUpdates) /\ UNCHANGED LastReq
    BY <1>2 DEF PendingUpdates, LastReq
  <2>2. Adding' <=> Adding
    BY <1>2, <1>6, EditsAssumption DEF Adding
  <2>3. calls # <<>> => Held(LastReq)' = Held(LastReq)
    BY <1>2, <1>5, <2>1, CallsRequested DEF Held
  <2>4. QED
    BY <1>2, <2>1, <2>2, <2>3, CallsRequested DEF Undisturbed
<1>8. EditsOK'
  <2>1. \A q \in Requests : Stage(q)' = "requested" <=> Phase(q)' # "idle"
    BY <1>1, <1>2, <1>4, <1>6 DEF EditsOK, Phase
  <2>2. QED
    BY <1>1, <1>2, <1>5, <2>1 DEF EditsOK
<1>9. \A q \in Requests : /\ At(q)' = At(q)
                          /\ Phase(q)' = IF q = r THEN "calling" ELSE Phase(q)
                          /\ q # r => task'[q] = task[q]
  BY <1>4 DEF At, Phase
<1>10. InTurn'
  BY <1>1, <1>2, <1>6, <1>9, CallsRequested DEF InTurn, Settled
<1>11. Apart'
  BY <1>1, <1>2, <1>5, <1>6, <1>7 DEF Apart
<1>12. Delivered'
  BY <1>1, <1>2, <1>6, <1>7, <1>9 DEF Delivered
<1>13. Written'
  <2>1. ASSUME NEW c \in Requests, Phase(c)' = "completing"
        PROVE  Phase(c) = "completing" /\ task'[c] = task[c] /\ Chain(c)' = Chain(c)
    BY <1>2, <1>9, <2>1 DEF Chain
  <2>2. QED
    BY <1>1, <1>2, <1>7, <2>1 DEF Written
<1>14. QED
  BY <1>8, <1>10, <1>11, <1>12, <1>13 DEF Agreement

\* The call of r has its turn, and it is answered.
LEMMA AnswerCalls ==
    ASSUME Base, Agreement, NEW r \in Requests, NEW result \in Outcomes[r], Answer(r, result)
    PROVE  /\ result \in {"ok", "error"} /\ At(r) = next /\ At(r) \in DOMAIN calls /\ Stage(r) = "requested"
           /\ DOMAIN calls' = DOMAIN calls /\ Len(calls') = Len(calls) /\ calls' # <<>>
           /\ \A i \in DOMAIN calls : /\ calls'[i].req = calls[i].req
                                      /\ i # At(r) => calls'[i] = calls[i]
           /\ calls[At(r)].req = r /\ calls'[At(r)].result = result /\ Settled(calls'[At(r)])
           /\ next' = next + 1 /\ PendingUpdates
           /\ ~PendingUpdates' => At(r) = Len(calls)
           /\ \A q \in Requests : Phase(q)' \notin {"ready", "calling"}
           /\ \A q \in Requests : Phase(q)' = "completing" =>
                 q = r /\ task'[r].chain = current' /\ task'[r].pos = 1
           /\ \A q \in Requests : Phase(q)' # "idle" <=> Phase(q) # "idle"
<1>1. /\ Phase(r) = "calling" /\ ~slow /\ Settle(r, result)
      /\ \A q \in Requests : Phase(q) # "completing"
      /\ calls' = [calls EXCEPT ![At(r)].result = result]
      /\ next' = IF r \in Parallelizable THEN next ELSE next + 1
  BY DEF Answer, Settle, Base
<1>2. /\ calls \in Seq(Call) /\ DOMAIN calls = 1..Len(calls) /\ Len(calls) \in Nat
      /\ next \in Nat /\ task \in [Requests -> TaskState]
      /\ \A i \in DOMAIN calls : calls[i] \in Call
  BY CallsTyped DEF Base
<1>3. /\ At(r) \in DOMAIN calls /\ At(r) \in Nat \ {0} /\ calls[At(r)] \in Call
      /\ calls[At(r)].req = r /\ calls[At(r)].result = "null"
      /\ calls[At(r)].cancelled = FALSE
  BY <1>1, CallKept DEF Base, Open
<1>4. At(r) = next /\ r \notin Parallelizable /\ Stage(r) = "requested" /\ next' = next + 1
  BY <1>1, CallsRequested DEF Agreement, InTurn
<1>5. result \in {"ok", "error"}
  BY EditsAssumption
<1>6. /\ DOMAIN calls' = DOMAIN calls /\ Len(calls') = Len(calls)
      /\ \A i \in DOMAIN calls : i # At(r) => calls'[i] = calls[i]
      /\ calls'[At(r)] = [calls[At(r)] EXCEPT !.result = result]
  BY <1>1, <1>2, <1>3
<1>7. calls'[At(r)].req = r /\ calls'[At(r)].result = result /\ Settled(calls'[At(r)])
  <2>1. calls'[At(r)].req = r /\ calls'[At(r)].result = result
    BY <1>3, <1>6 DEF Call
  <2>2. QED
    BY <1>5, <2>1 DEF Settled
<1>8. PendingUpdates
  BY <1>3 DEF PendingUpdates, IsDone, Settled
<1>9. ASSUME ~PendingUpdates'
      PROVE  At(r) = Len(calls)
  <2>1. \A i \in DOMAIN calls : Settled(calls'[i])
    BY <1>6, <1>9 DEF PendingUpdates, IsDone
  <2>2. Len(calls) \in DOMAIN calls
    BY <1>2, <1>3
  <2>3. CASE Len(calls) # At(r)
    <3>1. Settled(calls[Len(calls)])
      BY <1>6, <2>1, <2>2, <2>3
    <3>2. Len(calls) >= next
      BY <1>2, <1>3, <1>4
    <3>3. QED
      BY <2>2, <3>1, <3>2 DEF Agreement, InTurn
  <2>4. QED
    BY <2>3
<1>10. /\ task'[r].phase \in {"finished", "completing"}
       /\ task'[r].phase = "completing" => task'[r].chain = current' /\ task'[r].pos = 1
       /\ \A q \in Requests \ {r} : task'[q] = task[q]
  <2>1. \/ task' = [task EXCEPT ![r] = Blank("finished")]
        \/ task' = [task EXCEPT ![r].phase = "completing", ![r].chain = current', ![r].pos = 1]
    BY <1>1 DEF Settle
  <2>2. CASE task' = [task EXCEPT ![r] = Blank("finished")]
    BY <1>2, <2>2 DEF Blank
  <2>3. CASE task' = [task EXCEPT ![r].phase = "completing", ![r].chain = current', ![r].pos = 1]
    <3>1. task'[r] = [task[r] EXCEPT !.phase = "completing", !.chain = current', !.pos = 1]
          /\ task[r] \in TaskState
      BY <1>2, <2>3
    <3>2. task'[r].phase = "completing" /\ task'[r].chain = current' /\ task'[r].pos = 1
      BY <3>1 DEF TaskState
    <3>3. QED
      BY <1>2, <2>3, <3>2
  <2>4. QED
    BY <2>1, <2>2, <2>3
<1>11. ASSUME NEW q \in Requests
       PROVE  Phase(q)' \notin {"ready", "calling"}
  <2>1. CASE q = r
    BY <1>10, <2>1 DEF Phase
  <2>2. CASE q # r
    <3>1. task'[q] = task[q]
      BY <1>10, <2>2
    <3>2. ASSUME Phase(q) \in {"ready", "calling"}
          PROVE  FALSE
      <4>1. At(q) = next
        BY <3>2 DEF Agreement, InTurn
      <4>2. At(q) # At(r)
        BY <1>1, <2>2, <3>2, PlacesDiffer DEF Base, Open
      <4>3. QED
        BY <1>4, <4>1, <4>2
    <3>3. QED
      BY <3>1, <3>2 DEF Phase
  <2>3. QED
    BY <2>1, <2>2
<1>12. ASSUME NEW q \in Requests
       PROVE  /\ Phase(q)' = "completing" =>
                    q = r /\ task'[r].chain = current' /\ task'[r].pos = 1
              /\ Phase(q)' # "idle" <=> Phase(q) # "idle"
  BY <1>1, <1>10 DEF Phase
<1>13. calls' # <<>>
  BY <1>3, <1>6
<1>14. QED
  BY <1>3, <1>4, <1>5, <1>6, <1>7, <1>8, <1>9, <1>11, <1>12, <1>13

LEMMA AnswerStep ==
    ASSUME Base, Agreement, NEW r \in Requests, NEW result \in Outcomes[r], Answer(r, result)
    PROVE  Agreement'
<1>1. EditsOK /\ InTurn /\ Apart /\ Delivered
  BY DEF Agreement
<1>2. /\ UNCHANGED <<copies, cache, edit>> /\ Settle(r, result) /\ Phase(r) = "calling"
      /\ server' \in IF result = "ok" THEN {edit[r].sent} ELSE {server, edit[r].sent}
      /\ written' = written \cup {server'}
      /\ history' = [history EXCEPT !.errors = @ \/ result = "error"]
  BY DEF Answer, Settle
<1>3. /\ history' \in History /\ history'.overlap = history.overlap
      /\ history'.abandoned = history.abandoned
      /\ ~history'.errors => ~history.errors /\ result # "error"
  BY <1>1, <1>2 DEF EditsOK, History
<1>4. /\ result \in {"ok", "error"} /\ At(r) = next /\ At(r) \in DOMAIN calls /\ Stage(r) = "requested"
      /\ DOMAIN calls' = DOMAIN calls /\ Len(calls') = Len(calls) /\ calls' # <<>>
      /\ \A i \in DOMAIN calls : /\ calls'[i].req = calls[i].req
                                 /\ i # At(r) => calls'[i] = calls[i]
      /\ calls[At(r)].req = r /\ calls'[At(r)].result = result /\ Settled(calls'[At(r)])
      /\ next' = next + 1 /\ PendingUpdates
      /\ ~PendingUpdates' => At(r) = Len(calls)
  BY AnswerCalls
<1>5. /\ \A q \in Requests : Phase(q)' \notin {"ready", "calling"}
      /\ \A q \in Requests : Phase(q)' = "completing" =>
            q = r /\ task'[r].chain = current' /\ task'[r].pos = 1
      /\ \A q \in Requests : Phase(q)' # "idle" <=> Phase(q) # "idle"
  BY AnswerCalls
<1>6. /\ \A q \in Requests : Stage(q)' = Stage(q) /\ (InProgress(q)' <=> InProgress(q))
                             /\ Held(q)' = Held(q)
      /\ Adding' <=> Adding
  <2>1. \A q \in Requests : Stage(q)' = Stage(q) /\ (InProgress(q)' <=> InProgress(q))
                             /\ Held(q)' = Held(q)
    BY <1>2 DEF Stage, InProgress, Held
  <2>2. QED
    BY <1>3, <2>1, EditsAssumption DEF Adding
<1>7. /\ LastReq' = LastReq /\ LastReq \in Requests /\ Held(LastReq)' = Held(LastReq)
      /\ Len(calls) \in DOMAIN calls /\ At(r) = Len(calls) => LastReq = r
  <2>1. calls # <<>> /\ Len(calls) \in DOMAIN calls /\ LastReq \in Requests
    BY <1>4, CallsRequested
  <2>2. LastReq' = LastReq
    BY <1>4, <2>1 DEF LastReq
  <2>3. QED
    BY <1>2, <1>4, <2>1, <2>2 DEF Held, LastReq
<1>8. EditsOK'
  <2>1. server' \in SUBSET Tracks
    BY <1>1, <1>2, EditTyped DEF EditsOK
  <2>2. QED
    BY <1>1, <1>2, <1>3, <1>5, <1>6, <2>1 DEF EditsOK
<1>9. InTurn'
  <2>1. \A i \in DOMAIN calls' : Stage(calls[i].req)' = "requested" /\ calls'[i].req = calls[i].req
    BY <1>1, <1>2, <1>4 DEF InTurn, Stage
  <2>2. \A i \in DOMAIN calls' : i >= next' => ~Settled(calls'[i])
    <3>1. next \in Nat /\ \A i \in DOMAIN calls : i \in Int
      BY CallsTyped DEF Base
    <3>2. ASSUME NEW i \in DOMAIN calls', i >= next'
          PROVE  ~Settled(calls'[i])
      <4>1. i \in DOMAIN calls /\ i >= next /\ i # At(r)
        <5>1. i \in DOMAIN calls /\ next' = next + 1 /\ At(r) = next
          BY <1>4
        <5>2. QED
          BY ONLY <3>1, <3>2, <5>1
      <4>2. ~Settled(calls[i]) /\ calls'[i] = calls[i]
        BY <1>1, <1>4, <4>1 DEF InTurn
      <4>3. QED
        BY <4>2
    <3>3. QED
      BY <3>2
  <2>3. ASSUME ~history'.errors, NEW i \in DOMAIN calls'
        PROVE  calls'[i].result \in {"null", "ok"}
    BY <1>1, <1>3, <1>4, <2>3 DEF InTurn
  <2>4. \A q \in Requests : Phase(q)' \in {"ready", "calling"} => FALSE
    BY <1>5
  <2>5. QED
    BY <1>4, <2>1, <2>2, <2>3, <2>4 DEF InTurn, Settled, Stage
<1>10. Apart'
  <2> SUFFICES ASSUME ~history.overlap PROVE Apart'
    BY <1>3 DEF Apart
  <2>1. \A q \in Requests : Stage(q) \notin {"fetching", "refetching"}
    BY <1>1, <1>4 DEF Apart
  <2>2. ~Adding => copies[cache] = Held(LastReq)
    BY <1>1, <1>4 DEF Apart
  <2>3. QED
    BY <1>1, <1>2, <1>6, <1>7, <2>1, <2>2 DEF Apart
<1>11. Delivered'
  <2>1. ASSUME Undisturbed', ~PendingUpdates'
        PROVE  Held(LastReq)' = server'
    <3>1. Undisturbed /\ result = "ok"
      BY <1>3, <1>4, <1>6, <2>1 DEF Undisturbed
    <3>2. At(r) = Len(calls) /\ LastReq = r
      BY <1>4, <1>7, <2>1
    <3>3. edit[r].sent = Held(r)
      BY <1>1, <1>2, <3>1, <3>2 DEF Delivered
    <3>4. server' = edit[r].sent
      BY <1>2, <3>1
    <3>5. QED
      BY <1>7, <3>2, <3>3, <3>4
  <2>2. QED
    BY <1>5, <2>1 DEF Delivered
<1>12. Written'
  <2>1. ASSUME NEW c \in Requests, Phase(c)' = "completing", ~PendingUpdates'
        PROVE  /\ Len(Chain(c)') > 0 /\ Chain(c)'[Len(Chain(c)')] = LastReq'
               /\ ~(task'[c].pos > Len(Chain(c)'))
    <3>1. c = r /\ task'[r].chain = current' /\ task'[r].pos = 1
      BY <1>5, <2>1
    <3>2. /\ Array' \in Seq(Requests \cup {NoRequest}) /\ Len(Array') = Len(Array) + 1
          /\ Array'[Len(Array) + 1] = r /\ Len(Array) \in Nat
      BY <1>2, SettleFiles, ArrayTyped DEF Refiled, Base
    <3>3. Chain(c)' = Array'
      <4>1. current' # 0
        <5>1. Len(arrays) \in Nat
          BY DEF Base, Placed, GroupOK, ArraysOK
        <5>2. QED
          BY <1>2, <5>1 DEF Settle
      <4>2. QED
        BY <3>1, <4>1 DEF Chain, Array
    <3>4. LastReq' = r
      BY <1>4, <1>7, <2>1
    <3>5. QED
      BY <3>1, <3>2, <3>3, <3>4
  <2>2. QED
    BY <1>4, <2>1 DEF Written
<1>13. QED
  BY <1>8, <1>9, <1>10, <1>11, <1>12 DEF Agreement

\* Where nothing is pending and nothing has failed, the last call was answered:
\* it has no later one to be squashed for.
LEMMA LastSucceeds ==
    ASSUME Base, Agreement, calls # <<>>, ~PendingUpdates, ~history.errors
    PROVE  Succeeded(LastReq)
<1>1. Len(calls) \in DOMAIN calls /\ DOMAIN calls = 1..Len(calls) /\ Len(calls) \in Nat
  BY CallsRequested, CallsTyped DEF Base
<1>2. ~calls[Len(calls)].cancelled
  BY <1>1 DEF Base, Turns, Covered
<1>3. Settled(calls[Len(calls)])
  BY <1>1 DEF PendingUpdates, IsDone
<1>4. calls[Len(calls)].result \in {"null", "ok"}
  BY <1>1 DEF Agreement, InTurn
<1>5. calls[Len(calls)].result = "ok"
  BY <1>2, <1>3, <1>4 DEF Settled
<1>6. QED
  BY <1>1, <1>5 DEF Succeeded, LastReq

LEMMA ChainTyped ==
    ASSUME Base, NEW r \in Requests, Phase(r) = "completing"
    PROVE  Chain(r) = Array /\ Len(Chain(r)) \in Nat
<1>1. current # 0 /\ task[r].chain = current
  BY DEF Base, Answers, LoopOK
<1>2. Chain(r) = Array
  BY <1>1 DEF Chain, Array
<1>3. QED
  BY <1>2, ArrayTyped DEF Base

LEMMA CompletionStep ==
    ASSUME Base, Agreement, NEW r \in Requests, RunEditCompletion(r)
    PROVE  Agreement'
<1> DEFINE pos == task[r].pos
           q == Chain(r)[pos]
<1>1. EditsOK /\ InTurn /\ Apart /\ Delivered /\ Written
  BY DEF Agreement
<1>2. /\ Phase(r) = "completing" /\ pos <= Len(Chain(r))
      /\ UNCHANGED <<calls, next, arrays, current, server, written, edit>>
      /\ task' = [task EXCEPT ![r].pos = @ + 1]
      /\ \/ /\ Succeeded(q) /\ ~PendingUpdates
            /\ copies' = Append(copies, Held(q)) /\ cache' = Len(copies) + 1
            /\ history' = [history EXCEPT !.outdated = FALSE]
         \/ /\ ~(Succeeded(q) /\ ~PendingUpdates)
            /\ copies' = copies /\ cache' = cache /\ history' = history
  BY DEF RunEditCompletion, RunCompletion, WriteCache
<1>3. /\ history' \in History /\ history'.overlap = history.overlap
       /\ history'.errors = history.errors /\ history'.abandoned = history.abandoned
  <2>1. history \in History
    BY <1>1 DEF EditsOK
  <2>2. history' = history \/ history' = [history EXCEPT !.outdated = FALSE]
    BY <1>2
  <2>3. QED
    BY <2>1, <2>2 DEF History
<1>4. /\ task'[r].phase = "completing" /\ task'[r].chain = task[r].chain
      /\ task'[r].pos = pos + 1 /\ pos \in Nat /\ \A s \in Requests \ {r} : task'[s] = task[s]
  <2>1. task'[r] = [task[r] EXCEPT !.pos = @ + 1] /\ task[r] \in TaskState
    BY <1>2, CallsTyped DEF Base
  <2>2. /\ task'[r].phase = task[r].phase /\ task'[r].chain = task[r].chain
        /\ task'[r].pos = pos + 1 /\ pos \in Nat
    BY <2>1 DEF TaskState
  <2>3. QED
    BY <1>2, <2>2, CallsTyped DEF Base, Phase
<1> HIDE DEF pos
<1>5. /\ \A s \in Requests : /\ Phase(s)' = Phase(s) /\ At(s)' = At(s) /\ Chain(s)' = Chain(s)
                             /\ Stage(s)' = Stage(s) /\ (InProgress(s)' <=> InProgress(s))
      /\ (UNCHANGED PendingUpdates) /\ (UNCHANGED LastReq) /\ (Adding' <=> Adding)
      /\ (Undisturbed' <=> Undisturbed)
  <2>1. \A s \in Requests : Stage(s)' = Stage(s) /\ (InProgress(s)' <=> InProgress(s))
    BY <1>2 DEF Stage, InProgress
  <2>2. \A s \in Requests : Phase(s)' = Phase(s) /\ At(s)' = At(s) /\ Chain(s)' = Chain(s)
    <3>1. task[r].phase = "completing" /\ task'[r].at = task[r].at
      <4>1. task'[r] = [task[r] EXCEPT !.pos = @ + 1] /\ task[r] \in TaskState
        BY <1>2, CallsTyped DEF Base
      <4>2. QED
        BY <1>2, <4>1 DEF TaskState, Phase
    <3>2. QED
      BY <1>2, <1>4, <3>1 DEF Phase, At, Chain
  <2>3. Adding' <=> Adding
    BY <1>3, <2>1, EditsAssumption DEF Adding
  <2>4. (UNCHANGED PendingUpdates) /\ (UNCHANGED LastReq)
    BY <1>2 DEF PendingUpdates, LastReq
  <2>5. Undisturbed' <=> Undisturbed
    BY <1>3, <2>3 DEF Undisturbed
  <2>6. QED
    BY <2>1, <2>2, <2>3, <2>4, <2>5
<1>6. /\ copies \in Seq(SUBSET Tracks) /\ cache \in 1..Len(copies)
      /\ Len(copies) \in Nat /\ \A s \in Requests : edit[s].held \in 1..Len(copies)
  BY <1>1 DEF EditsOK
<1>7. Succeeded(q) => q \in Requests /\ Held(q) \in SUBSET Tracks
  <2>1. Succeeded(q) => q \in Requests
    BY CallsRequested DEF Succeeded
  <2>2. QED
    BY <1>1, <2>1, EditTyped
<1> HIDE DEF q
<1>8. /\ copies' \in Seq(SUBSET Tracks) /\ cache' \in DOMAIN copies'
      /\ \A i \in 1..Len(copies) : i \in DOMAIN copies' /\ copies'[i] = copies[i]
      /\ cache' = cache \/ cache' \notin 1..Len(copies)
      /\ Succeeded(q) /\ ~PendingUpdates => copies'[cache'] = Held(q)
      /\ PendingUpdates => cache' = cache /\ copies' = copies
  <2>1. CASE copies' = copies /\ cache' = cache /\ ~(Succeeded(q) /\ ~PendingUpdates)
    BY <1>6, <2>1
  <2>2. CASE Succeeded(q) /\ ~PendingUpdates /\ copies' = Append(copies, Held(q))
             /\ cache' = Len(copies) + 1
    BY <1>6, <1>7, <2>2
  <2>3. QED
    BY <1>2, <2>1, <2>2
<1>9. \A s \in Requests : edit'[s] = edit[s] /\ Held(s)' = Held(s)
  BY <1>2, <1>6, <1>8 DEF Held
<1>10. calls # <<>> => Held(LastReq)' = Held(LastReq)
  BY <1>2, <1>5, <1>9, CallsRequested DEF Held
<1>11. EditsOK'
  BY <1>1, <1>2, <1>5, <1>6, <1>8, <1>3 DEF EditsOK
<1>12. InTurn'
  BY <1>1, <1>2, <1>5, <1>3, CallsRequested DEF InTurn, Settled
<1>13. Apart'
  <2> SUFFICES ASSUME ~history.overlap PROVE Apart'
    BY <1>3 DEF Apart
  <2>1. ASSUME NEW s \in Requests, Stage(s) = "requested"
        PROVE  edit[s].held # cache'
    BY <1>1, <1>6, <1>8, <2>1 DEF Apart
  <2>2. PendingUpdates /\ ~Adding' => copies'[cache'] = Held(LastReq)'
    BY <1>1, <1>5, <1>8, <1>10, CallsRequested DEF Apart
  <2>3. QED
    BY <1>1, <1>2, <1>5, <2>1, <2>2 DEF Apart
<1>14. Delivered'
  BY <1>1, <1>2, <1>5, <1>9, <1>10, <1>3 DEF Delivered
<1>15. Written'
  <2>1. calls # <<>>
    <3>1. LoopOK
      BY DEF Base, Answers
    <3>2. QED
      BY <1>2, <3>1 DEF LoopOK
  <2>2. ASSUME NEW c \in Requests, Phase(c)' = "completing", ~PendingUpdates'
        PROVE  /\ Len(Chain(c)') > 0 /\ Chain(c)'[Len(Chain(c)')] = LastReq'
               /\ ~history'.errors /\ ~Adding' /\ task'[c].pos > Len(Chain(c)') => copies'[cache'] = server'
    <3>1. Phase(c) = "completing" /\ ~PendingUpdates /\ c = r
      <4>1. LoopOK
        BY DEF Base, Answers
      <4>2. QED
        BY <1>2, <1>5, <2>2, <4>1 DEF LoopOK
    <3>2. Len(Chain(r)) > 0 /\ Chain(r)[Len(Chain(r))] = LastReq
      BY <1>1, <3>1 DEF Written
    <3>3. ASSUME ~history.errors, ~Adding, pos + 1 > Len(Chain(r))
          PROVE  copies'[cache'] = server
      <4>1. Len(Chain(r)) \in Nat
        BY <3>1, ChainTyped
      <4>2. q = LastReq
        BY <1>2, <1>4, <3>2, <3>3, <4>1 DEF q
      <4>3. Succeeded(LastReq)
        BY <2>1, <3>1, <3>3, LastSucceeds
      <4>4. Held(LastReq) = server
        BY <1>1, <2>1, <3>1, <3>3 DEF Delivered, Undisturbed
      <4>5. QED
        BY <1>8, <3>1, <4>2, <4>3, <4>4
    <3>4. QED
      BY <1>2, <1>4, <1>5, <1>3, <3>1, <3>2, <3>3
  <2>3. QED
    BY <1>2, <2>1, <2>2 DEF Written
<1>16. QED
  BY <1>11, <1>12, <1>13, <1>14, <1>15 DEF Agreement

LEMMA SquashStep ==
    ASSUME Base, Agreement, NEW r \in Requests, Squash(r), UNCHANGED editVars
    PROVE  Agreement'
<1>1. EditsOK /\ InTurn /\ Apart
  BY DEF Agreement
<1>2. /\ Phase(r) = "queued" /\ next = At(r) /\ next < Len(calls)
      /\ UNCHANGED <<copies, cache, server, written, edit, history>>
      /\ calls' = [calls EXCEPT ![At(r)].cancelled = TRUE]
      /\ next' = next + 1
      /\ task' = [task EXCEPT ![r] = Blank("squashed")]
  BY DEF Squash, HasTurn, ShouldCancel, editVars
<1>3. /\ calls \in Seq(Call) /\ DOMAIN calls = 1..Len(calls) /\ Len(calls) \in Nat
      /\ next \in Nat \ {0} /\ task \in [Requests -> TaskState]
      /\ \A i \in DOMAIN calls : calls[i] \in Call /\ i \in Int
  BY CallsTyped DEF Base
<1>4. /\ DOMAIN calls' = DOMAIN calls /\ Len(calls') = Len(calls)
      /\ \A i \in DOMAIN calls : i # next => calls'[i] = calls[i]
      /\ next \in DOMAIN calls /\ calls'[next] = [calls[next] EXCEPT !.cancelled = TRUE]
  <2>1. next \in DOMAIN calls
    BY <1>2, <1>3
  <2>2. calls' = [calls EXCEPT ![next] = [calls[next] EXCEPT !.cancelled = TRUE]]
    BY <1>2
  <2>3. DOMAIN calls' = DOMAIN calls /\ \A i \in DOMAIN calls : i # next => calls'[i] = calls[i]
    BY <1>3, <2>2
  <2>4. calls'[next] = [calls[next] EXCEPT !.cancelled = TRUE]
    BY <1>3, <2>1, <2>2
  <2>5. Len(calls') = Len(calls)
    BY <1>3, <2>2
  <2>6. QED
    BY <2>1, <2>3, <2>4, <2>5
<1>5. \A i \in DOMAIN calls : calls'[i].req = calls[i].req /\ calls'[i].result = calls[i].result
  <2>1. calls'[next].req = calls[next].req /\ calls'[next].result = calls[next].result
    BY <1>3, <1>4 DEF Call
  <2>2. QED
    BY <1>4, <2>1
<1>6. /\ task'[r].phase = "squashed" /\ \A q \in Requests \ {r} : task'[q] = task[q]
  BY <1>2, <1>3 DEF Blank
<1>7. PendingUpdates /\ PendingUpdates' /\ calls' # <<>> /\ LastReq' = LastReq
      /\ LastReq \in Requests
  <2>1. next + 1 \in DOMAIN calls /\ next + 1 >= next /\ next + 1 # next
    BY <1>2, <1>3
  <2>2. ~Settled(calls[next + 1]) /\ calls'[next + 1] = calls[next + 1]
    BY <1>1, <1>4, <2>1 DEF InTurn
  <2>3. calls # <<>> /\ Len(calls) \in DOMAIN calls /\ LastReq \in Requests
    BY <1>4, CallsRequested
  <2>4. LastReq' = LastReq /\ calls' # <<>>
    BY <1>4, <1>5, <2>3 DEF LastReq
  <2>5. QED
    BY <1>4, <2>1, <2>2, <2>3, <2>4 DEF PendingUpdates, IsDone
<1>8. ASSUME NEW q \in Requests
      PROVE  Phase(q)' \notin {"ready", "calling"}
  <2>1. CASE q = r
    BY <1>6, <2>1 DEF Phase
  <2>2. CASE q # r
    <3>1. task'[q] = task[q]
      BY <1>6, <2>2
    <3>2. ASSUME Phase(q) \in {"ready", "calling"}
          PROVE  FALSE
      <4>1. At(q) = next
        BY <1>1, <3>2 DEF InTurn
      <4>2. At(q) # At(r)
        BY <1>2, <2>2, <3>2, PlacesDiffer DEF Base, Open
      <4>3. QED
        BY <1>2, <4>1, <4>2
    <3>3. QED
      BY <3>1, <3>2 DEF Phase
  <2>3. QED
    BY <2>1, <2>2
<1>9. /\ \A q \in Requests : Stage(q)' = Stage(q) /\ (InProgress(q)' <=> InProgress(q))
                             /\ Held(q)' = Held(q)
      /\ (Adding' <=> Adding)
  <2>1. \A q \in Requests : Stage(q)' = Stage(q) /\ (InProgress(q)' <=> InProgress(q))
                             /\ Held(q)' = Held(q)
    BY <1>2 DEF Stage, InProgress, Held
  <2>2. QED
    BY <1>2, <2>1, EditsAssumption DEF Adding
<1>10. EditsOK'
  <2>1. \A q \in Requests : Phase(q)' # "idle" <=> Phase(q) # "idle"
    BY <1>2, <1>6 DEF Phase
  <2>2. QED
    BY <1>1, <1>2, <1>9, <2>1 DEF EditsOK
<1>11. InTurn'
  <2>1. \A i \in DOMAIN calls' : Stage(calls[i].req)' = "requested" /\ calls'[i].req = calls[i].req
    BY <1>1, <1>2, <1>4, <1>5 DEF InTurn, Stage
  <2>2. ASSUME NEW i \in DOMAIN calls', i >= next'
        PROVE  ~Settled(calls'[i])
    <3>1. i \in DOMAIN calls /\ i >= next /\ i # next
      BY <1>2, <1>3, <1>4, <2>2
    <3>2. QED
      BY <1>1, <1>4, <3>1 DEF InTurn
  <2>3. ASSUME ~history'.errors, NEW i \in DOMAIN calls'
        PROVE  calls'[i].result \in {"null", "ok"}
    BY <1>1, <1>2, <1>4, <1>5, <2>3 DEF InTurn
  <2>4. QED
    BY <1>8, <2>1, <2>2, <2>3 DEF InTurn, Settled, Stage
<1>12. Apart'
  <2>1. Held(LastReq)' = Held(LastReq)
    BY <1>2, <1>7 DEF Held
  <2>2. QED
    BY <1>1, <1>2, <1>7, <1>9, <2>1 DEF Apart
<1>13. Delivered' /\ Written'
  BY <1>7, <1>8 DEF Delivered, Written
<1>14. QED
  BY <1>10, <1>11, <1>12, <1>13 DEF Agreement

\* A step that leaves the calls, and with them everything of the edits.
LEMMA SameEdits ==
    ASSUME Base, Agreement, UNCHANGED editVars, UNCHANGED <<calls, next, arrays>>,
           NEW r \in Requests, \A q \in Requests \ {r} : task'[q] = task[q],
           Phase(r) # "idle", task'[r].phase \notin {"idle", "calling", "completing"},
           task'[r].phase = "ready" => r \notin Parallelizable /\ task'[r].at = next
    PROVE  Agreement'
<1>1. EditsOK /\ InTurn /\ Apart /\ Delivered /\ Written
  BY DEF Agreement
<1>2. UNCHANGED <<copies, cache, server, written, edit, history>>
  BY DEF editVars
<1>3. /\ \A q \in Requests : Stage(q)' = Stage(q) /\ (InProgress(q)' <=> InProgress(q))
                             /\ Held(q)' = Held(q)
      /\ (Adding' <=> Adding) /\ (UNCHANGED PendingUpdates) /\ (UNCHANGED LastReq)
      /\ (Undisturbed' <=> Undisturbed)
  <2>1. \A q \in Requests : Stage(q)' = Stage(q) /\ (InProgress(q)' <=> InProgress(q))
                             /\ Held(q)' = Held(q)
    BY <1>2 DEF Stage, InProgress, Held
  <2>2. Adding' <=> Adding
    BY <1>2, <2>1, EditsAssumption DEF Adding
  <2>3. (UNCHANGED PendingUpdates) /\ (UNCHANGED LastReq)
    BY DEF PendingUpdates, LastReq
  <2>4. QED
    BY <1>2, <2>1, <2>2, <2>3 DEF Undisturbed
<1>4. calls # <<>> => Held(LastReq)' = Held(LastReq)
  BY <1>2, <1>3, CallsRequested DEF Held
<1>5. EditsOK'
  <2>1. \A q \in Requests : Phase(q)' # "idle" <=> Phase(q) # "idle"
    BY DEF Phase
  <2>2. QED
    BY <1>1, <1>2, <1>3, <2>1 DEF EditsOK
<1>6. InTurn'
  <2>1. ASSUME NEW q \in Requests, Phase(q)' \in {"ready", "calling"}
        PROVE  q \notin Parallelizable /\ At(q)' = next'
    BY <1>1, <2>1 DEF InTurn, Phase, At
  <2>2. \A i \in DOMAIN calls : Stage(calls[i].req)' = "requested"
    BY <1>1, <1>2 DEF InTurn, Stage
  <2>3. QED
    BY <1>1, <1>2, <2>1, <2>2 DEF InTurn, Settled, Stage
<1>7. Apart'
  BY <1>1, <1>2, <1>3, <1>4, CallsRequested DEF Apart
<1>8. \A q \in Requests : Phase(q)' \in {"calling", "completing"} =>
         q # r /\ task'[q] = task[q] /\ Phase(q)' = Phase(q) /\ At(q)' = At(q) /\ Chain(q)' = Chain(q)
  BY DEF Phase, At, Chain
<1>9. Delivered'
  BY <1>1, <1>2, <1>3, <1>4, <1>8 DEF Delivered
<1>10. Written'
  BY <1>1, <1>2, <1>3, <1>8 DEF Written
<1>11. QED
  BY <1>5, <1>6, <1>7, <1>9, <1>10 DEF Agreement

LEMMA FinishStep ==
    ASSUME Base, Agreement, NEW r \in Requests, FinishCompletions(r), UNCHANGED editVars
    PROVE  Agreement'
<1>1. EditsOK /\ InTurn /\ Apart /\ Delivered /\ Written
  BY DEF Agreement
<1>2. /\ Phase(r) = "completing" /\ task[r].pos > Len(Chain(r))
      /\ calls' = (IF PendingUpdates THEN calls ELSE <<>>)
      /\ next' = (IF PendingUpdates THEN next ELSE 1)
      /\ UNCHANGED <<copies, cache, server, written, edit, history>>
      /\ task' = [task EXCEPT ![r] = Blank("finished")]
  BY DEF FinishCompletions, LoopOver, ClearConfirm, PendingUpdates, editVars
<1>3. task'[r].phase = "finished" /\ \A q \in Requests \ {r} : task'[q] = task[q]
  BY <1>2, CallsTyped DEF Blank, Base
<1>4. \A q \in Requests : /\ Phase(q)' # "completing"
                          /\ Phase(q)' # "idle" <=> Phase(q) # "idle"
                          /\ Phase(q)' \in {"ready", "calling"} =>
                                Phase(q)' = Phase(q) /\ At(q)' = At(q)
  <2>1. \A q \in Requests : Phase(q) = "completing" => q = r
    BY <1>2 DEF Base, Answers, LoopOK
  <2>2. QED
    BY <1>2, <1>3, <2>1 DEF Phase, At
<1>5. /\ \A q \in Requests : Stage(q)' = Stage(q) /\ (InProgress(q)' <=> InProgress(q))
                             /\ Held(q)' = Held(q)
      /\ (Adding' <=> Adding) /\ (Undisturbed' <=> Undisturbed)
  <2>1. \A q \in Requests : Stage(q)' = Stage(q) /\ (InProgress(q)' <=> InProgress(q))
                             /\ Held(q)' = Held(q)
    BY <1>2 DEF Stage, InProgress, Held
  <2>2. Adding' <=> Adding
    BY <1>2, <2>1, EditsAssumption DEF Adding
  <2>3. QED
    BY <1>2, <2>1, <2>2 DEF Undisturbed
<1>6. EditsOK'
  BY <1>1, <1>2, <1>4, <1>5 DEF EditsOK
<1>7. CASE PendingUpdates
  <2>1. calls' = calls /\ next' = next /\ calls # <<>> /\ LastReq \in Requests
    BY <1>2, <1>7, CallsRequested
  <2>2. PendingUpdates' /\ LastReq' = LastReq
    BY <1>7, <2>1 DEF PendingUpdates, LastReq
  <2>3. InTurn'
    <3>1. \A i \in DOMAIN calls : Stage(calls[i].req)' = "requested"
      BY <1>1, <1>2, <2>1 DEF InTurn, Stage
    <3>2. QED
      BY <1>1, <1>2, <1>4, <2>1, <3>1 DEF InTurn, Settled, Stage
  <2>4. Apart'
    <3>1. Held(LastReq)' = Held(LastReq)
      BY <1>2, <2>1, <2>2 DEF Held
    <3>2. QED
      BY <1>1, <1>2, <1>5, <1>7, <2>2, <3>1 DEF Apart
  <2>5. Delivered'
    <3>1. \A q \in Requests : Undisturbed' /\ Phase(q)' = "calling" /\ At(q)' = Len(calls) =>
             edit[q].sent = Held(q)
      BY <1>1, <1>4, <1>5 DEF Delivered
    <3>2. QED
      BY <1>2, <1>5, <2>1, <2>2, <3>1 DEF Delivered
  <2>6. Written'
    BY <1>4, <2>1 DEF Written
  <2>7. QED
    BY <1>6, <2>3, <2>4, <2>5, <2>6 DEF Agreement
<1>8. CASE ~PendingUpdates
  <2>1. calls' = <<>> /\ ~PendingUpdates'
    BY <1>2, <1>8 DEF PendingUpdates, IsDone
  <2>2. \A q \in Requests : Phase(q)' \notin {"ready", "calling"}
    <3>1. \A q \in Requests : Phase(q) \notin {"ready", "calling"}
      BY <1>8, CallKept DEF PendingUpdates, IsDone, Settled, Open, Base
    <3>2. QED
      BY <1>4, <3>1
  <2>3. InTurn'
    BY <2>1, <2>2 DEF InTurn
  <2>4. Apart'
    BY <1>1, <1>2, <1>5, <2>1 DEF Apart
  <2>5. Delivered'
    BY <2>1, <2>2 DEF Delivered
  <2>6. ~history.errors /\ ~Adding /\ ~history.outdated => copies[cache] = server
    BY <1>1, <1>2, <1>8 DEF Written
  <2>7. Written'
    BY <1>2, <1>4, <1>5, <2>1, <2>6 DEF Written
  <2>8. QED
    BY <1>6, <2>3, <2>4, <2>5, <2>7 DEF Agreement
<1>9. QED
  BY <1>7, <1>8

LEMMA ConfirmerStep ==
    ASSUME Base, Agreement, NEW r \in Requests, ConfirmerOnly(r)
    PROVE  Agreement'
<1>1. CASE AwaitPrevious(r)
  <2>1. /\ Phase(r) = "queued" /\ next = At(r) /\ r \notin Parallelizable
        /\ UNCHANGED <<calls, next, arrays>> /\ task' = [task EXCEPT ![r].phase = "ready"]
    BY <1>1 DEF AwaitPrevious, HasTurn
  <2>2. task'[r] = [task[r] EXCEPT !.phase = "ready"] /\ task[r] \in TaskState
        /\ \A q \in Requests \ {r} : task'[q] = task[q]
    BY <2>1, CallsTyped DEF Base
  <2>3. task'[r].phase = "ready" /\ task'[r].at = next
    BY <2>1, <2>2 DEF TaskState, At
  <2>4. QED
    BY <2>1, <2>2, <2>3, SameEdits DEF ConfirmerOnly
<1>2. QED
  BY <1>1, SquashStep, FinishStep DEF ConfirmerOnly

LEMMA AgreementInit == EditsInit => Agreement
<1> SUFFICES ASSUME EditsInit PROVE Agreement
  OBVIOUS
<1>1. /\ calls = <<>> /\ copies = <<FirstContents>> /\ cache = 1 /\ server = FirstContents
      /\ edit = [r \in Requests |-> [stage |-> "idle", held |-> 1, sent |-> {}]]
      /\ written = {FirstContents}
      /\ history = [overlap |-> FALSE, errors |-> FALSE, abandoned |-> FALSE,
                    stale |-> FALSE, outdated |-> FALSE]
      /\ \A r \in Requests : Phase(r) = "idle"
  BY DEF EditsInit, ConfirmerInit, Phase, Blank
<1>2. \A r \in Requests : /\ Stage(r) = "idle" /\ ~InProgress(r)
                          /\ edit[r] \in EditState /\ edit[r].held = 1
  BY <1>1 DEF Stage, InProgress, EditState, Stages
<1>3. copies \in Seq(SUBSET Tracks) /\ DOMAIN copies = {1} /\ copies[1] = FirstContents
  BY <1>1, EditsAssumption
<1>4. EditsOK
  <2>1. history \in History
    BY <1>1 DEF History
  <2>2. QED
    BY <1>1, <1>2, <1>3, <2>1, EditsAssumption DEF EditsOK
<1>5. ~PendingUpdates
  BY <1>1 DEF PendingUpdates, IsDone
<1>6. InTurn /\ Apart /\ Delivered /\ Written
  BY <1>1, <1>2, <1>3, <1>5 DEF InTurn, Apart, Delivered, Written
<1>7. QED
  BY <1>4, <1>6 DEF Agreement

LEMMA AgreementStep == Base /\ Agreement /\ [EditsNext]_allVars => Agreement'
<1> SUFFICES ASSUME Base, Agreement, [EditsNext]_allVars PROVE Agreement'
  OBVIOUS
<1>1. CASE UNCHANGED allVars
  BY <1>1 DEF Agreement, EditsOK, InTurn, Apart, Delivered, Written, allVars, vars, editVars,
              Stage, Held, InProgress, Phase, At, Chain, LastReq, PendingUpdates, IsDone, Settled,
              Adding, Undisturbed
<1>2. CASE EditsNext
  BY <1>2, BeginStep, FetchStep, ReadStep, PublishStep, DropLeaves, FailLeaves, LeaveStep,
     SendStep, AnswerStep, CompletionStep, ConfirmerStep
     DEF EditsNext, EditStep, TaskStep, AnyAnswer, Agreement
<1>3. QED
  BY <1>1, <1>2

LEMMA AgreementInvariant == EditsSpec => [](Base /\ Agreement)
BY EditsBase, AgreementInit, AgreementStep, PTL DEF EditsSpec

\* When everything is confirmed and nothing has failed, the user sees what the
\* backend has, or an answer that was behind.
THEOREM UserSeesBackend == EditsSpec => []CacheAgrees
<1>1. Agreement => CacheAgrees
  BY EditsAssumption DEF Agreement, Written, CacheAgrees, Quiet, InProgress, Adding
<1>2. QED
  BY <1>1, AgreementInvariant, PTL

\* While edits made one after the other are pending, the user sees the last.
THEOREM UserSeesLastEdit == EditsSpec => []OptimisticKept
<1>1. Agreement => OptimisticKept
  BY EditsAssumption DEF Agreement, Apart, OptimisticKept, InProgress, Adding, LastReq
<1>2. QED
  BY <1>1, AgreementInvariant, PTL

-----------------------------------------------------------------------------
(* No edit is lost.                                                        *)

\* An edit that has begun does not begin again, one that was asked for stays
\* so, and one that has ended is not taken up again.
Onward ==
    \A q \in Requests : /\ Stage(q) # "idle" => Stage(q)' # "idle"
                        /\ Stage(q) = "requested" => Stage(q)' = "requested"
                        /\ Stage(q) # "idle" /\ ~InProgress(q) => ~InProgress(q)'

\* What a playlist object may hold after the step.
SomeContents(contents) ==
    \/ contents \in written
    \/ \E i \in DOMAIN copies :
          \/ contents = copies[i]
          \/ \E r \in Requests : Stage(r) # "idle" /\ contents = Changed(r, copies[i])

\* Contents come from where they were, and only what the user sees is removed.
Sources ==
    /\ Onward
    /\ \A i \in DOMAIN copies' : SomeContents(copies'[i])
    /\ \A contents \in written' : contents \in written \/ \E r \in Requests : contents = edit[r].sent
    /\ \A q \in Requests : edit'[q].sent = edit[q].sent \/ edit'[q].sent = Held(q)
    /\ ~history'.overlap =>
          /\ ~history.overlap
          /\ \A r \in Requests \ Adds : Stage(r) = "idle" /\ Stage(r)' # "idle" =>
                Track[r] \in copies[cache] /\ \A q \in Requests : ~InProgress(q)

LEMMA SourcesKept ==
    ASSUME OneAdditionEach, EditsOK, Removals, Sources
    PROVE  Removals'
<1>1. Begun \subseteq Begun'
  BY EditsAssumption DEF Begun, Sources, Onward
<1>2. ASSUME NEW contents, SomeContents(contents)
      PROVE  contents \subseteq Begun'
  <2>1. CASE contents \in written
    BY <1>1, <2>1 DEF Removals
  <2>2. ASSUME NEW i \in DOMAIN copies, contents = copies[i]
        PROVE  contents \subseteq Begun'
    BY <1>1, <2>2 DEF Removals
  <2>3. ASSUME NEW i \in DOMAIN copies, NEW r \in Requests, Stage(r) # "idle",
               contents = Changed(r, copies[i])
        PROVE  contents \subseteq Begun'
    <3>1. copies[i] \subseteq Begun'
      BY <1>1 DEF Removals
    <3>2. r \in Adds => Track[r] \in Begun'
      <4>1. Stage(r)' # "idle" /\ Track[r] \in Tracks
        BY <2>3, EditsAssumption DEF Sources, Onward
      <4>2. QED
        BY <4>1 DEF Begun
    <3>3. QED
      BY <2>3, <3>1, <3>2 DEF Changed
  <2>4. QED
    BY <1>2, <2>1, <2>2, <2>3 DEF SomeContents
<1>3. \A i \in DOMAIN copies' : copies'[i] \subseteq Begun'
  BY <1>2 DEF Sources
<1>4. \A contents \in written' : contents \subseteq Begun'
  BY <1>1 DEF Sources, Removals
<1>5. \A q \in Requests : edit'[q].sent \subseteq Begun'
  <2>1. \A q \in Requests : Held(q) \subseteq Begun /\ edit[q].sent \subseteq Begun
    BY DEF Removals, EditsOK, Held
  <2>2. QED
    BY <1>1, <2>1 DEF Sources
<1>6. ASSUME ~history'.overlap, NEW r \in Requests \ Adds, Stage(r)' # "idle"
      PROVE  \E q \in Adds : Track[q] = Track[r] /\ Stage(q)' # "idle" /\ ~InProgress(q)'
  <2>1. \E q \in Adds : Track[q] = Track[r] /\ Stage(q) # "idle" /\ ~InProgress(q)
    <3>1. CASE Stage(r) # "idle"
      BY <1>6, <3>1 DEF Sources, Removals
    <3>2. CASE Stage(r) = "idle"
      <4>1. Track[r] \in copies[cache] /\ \A q \in Requests : ~InProgress(q)
        BY <1>6, <3>2 DEF Sources
      <4>2. Track[r] \in Begun /\ Track[r] \notin FirstContents
        BY <4>1 DEF Removals, EditsOK, OneAdditionEach
      <4>3. PICK q \in Adds : Track[q] = Track[r] /\ Stage(q) # "idle"
        BY <4>2 DEF Begun
      <4>4. QED
        BY <4>1, <4>3, EditsAssumption
    <3>3. QED
      BY <3>1, <3>2
  <2>2. QED
    BY <2>1, EditsAssumption DEF Sources, Onward
<1>7. QED
  BY <1>3, <1>4, <1>5, <1>6 DEF Removals, Stage

\* A step that leaves what is asked for, and what the next edits begin with.
SameKept ==
    /\ Onward
    /\ \A q \in Requests : Stage(q)' = "requested" => Stage(q) = "requested"
    /\ Orderly' =>
          /\ Orderly
          /\ LastContents' = LastContents
          /\ \A q \in Requests : Holding(q)' =>
                \/ Holding(q) /\ Held(q)' = Held(q)
                \/ Held(q)' = LastContents

LEMMA DecidingOn ==
    ASSUME Onward, NEW r \in Requests,
           \A q \in Requests : Stage(q)' = "requested" => q = r \/ Stage(q) = "requested"
    PROVE  Deciding' \subseteq Deciding \cup {r}
<1>1. ASSUME NEW s \in Deciding', s # r
      PROVE  s \in Deciding
  <2>1. s \in Requests /\ Stage(s)' = "requested" /\ LastOfTrack(s)'
    BY <1>1 DEF Deciding
  <2>2. LastOfTrack(s)
    BY <2>1 DEF LastOfTrack, Onward
  <2>3. QED
    BY <1>1, <2>1, <2>2 DEF Deciding
<1>2. QED
  BY <1>1

LEMMA SameKeptStays ==
    ASSUME AllKept, SameKept
    PROVE  AllKept'
<1> SUFFICES ASSUME Orderly'
             PROVE  /\ KeptIn(LastContents)'
                    /\ \A q \in Requests : Holding(q)' => KeptIn(Held(q))'
  BY DEF AllKept
<1>1. Deciding' \subseteq Deciding
  <2>1. ASSUME NEW s \in Deciding'
        PROVE  s \in Deciding
    <3>1. s \in Requests /\ Stage(s)' = "requested" /\ LastOfTrack(s)'
      BY DEF Deciding
    <3>2. LastOfTrack(s)
      BY <3>1 DEF LastOfTrack, SameKept, Onward
    <3>3. QED
      BY <3>1, <3>2 DEF Deciding, SameKept
  <2>2. QED
    BY <2>1
<1>2. KeptIn(LastContents) /\ LastContents' = LastContents
  BY DEF AllKept, SameKept
<1>3. KeptIn(LastContents)'
  BY <1>1, <1>2 DEF KeptIn
<1>4. ASSUME NEW q \in Requests, Holding(q)'
      PROVE  KeptIn(Held(q))'
  <2>1. \/ KeptIn(Held(q)) /\ Held(q)' = Held(q)
        \/ Held(q)' = LastContents
    BY <1>4 DEF AllKept, SameKept
  <2>2. \A r \in Deciding : Track[r] \in Held(q)' <=> r \in Adds
    BY <1>2, <2>1 DEF KeptIn
  <2>3. QED
    BY <1>1, <2>2 DEF KeptIn
<1>5. QED
  BY <1>3, <1>4

\* What the kept contents are where nothing is pending.
LEMMA LastIsServer ==
    ASSUME Base, Agreement, ~history.overlap, ~history.errors, ~PendingUpdates
    PROVE  LastContents = server
BY DEF Agreement, Delivered, Undisturbed, LastContents

\* The last contents do not change with the object of another edit.
LEMMA LastStays ==
    ASSUME Base, Agreement, UNCHANGED <<calls, server>>,
           \A q \in Requests : Stage(q) = "requested" => Held(q)' = Held(q)
    PROVE  LastContents' = LastContents
<1>1. CASE calls = <<>>
  BY <1>1 DEF LastContents
<1>2. CASE calls # <<>>
  <2>1. LastReq \in Requests /\ Stage(LastReq) = "requested" /\ LastReq' = LastReq
    BY <1>2, CallsRequested DEF LastReq
  <2>2. Held(LastReq)' = copies'[edit'[LastReq].held]
    BY <2>1 DEF Held
  <2>3. QED
    BY <1>2, <2>1, <2>2 DEF LastContents, Held
<1>3. QED
  BY <1>1, <1>2

LEMMA BeginKept ==
    ASSUME Base, Agreement, AllKept, NEW r \in Requests, BeginEdit(r)
    PROVE  Sources /\ AllKept'
<1>1. EditsOK /\ Apart
  BY DEF Agreement
<1>2. /\ Stage(r) = "idle" /\ UNCHANGED <<calls, copies, cache, server, written>>
      /\ edit' = [edit EXCEPT ![r].stage = IF PendingUpdates THEN "reading" ELSE "fetching",
                              ![r].held = cache]
      /\ history' = [history EXCEPT !.overlap = @ \/ \E q \in Requests : InProgress(q)]
      /\ r \in Adds \/ Track[r] \in copies[cache]
  BY DEF BeginEdit, vars
<1> DEFINE stage == IF PendingUpdates THEN "reading" ELSE "fetching"
<1>3. Puts(r, stage, cache, edit[r].sent)
  BY <1>1, <1>2, PutsHeld
<1>4. /\ history'.errors = history.errors /\ history'.abandoned = history.abandoned
      /\ history'.stale = history.stale
      /\ history'.overlap = (history.overlap \/ \E q \in Requests : InProgress(q))
  BY <1>1, <1>2 DEF EditsOK, History
<1>5. stage \in {"reading", "fetching"} /\ (stage = "reading" <=> PendingUpdates)
  OBVIOUS
<1> HIDE DEF stage
<1>6. /\ \A q \in Requests : /\ Stage(q)' = IF q = r THEN stage ELSE Stage(q)
                             /\ q # r => Held(q)' = Held(q)
                             /\ edit'[q].sent = edit[q].sent
      /\ Held(r)' = copies[cache]
  <2>1. copies' = copies
    BY <1>2
  <2>2. \A q \in Requests : /\ Stage(q)' = IF q = r THEN stage ELSE Stage(q)
                            /\ edit'[q].sent = edit[q].sent
    BY <1>3 DEF Puts, Stage
  <2>3. edit'[r].held = cache /\ \A q \in Requests : q # r => edit'[q].held = edit[q].held
    BY <1>3 DEF Puts
  <2>4. QED
    BY <2>1, <2>2, <2>3 DEF Held
<1>7. Onward /\ \A q \in Requests : Stage(q)' = "requested" => Stage(q) = "requested"
  BY <1>2, <1>5, <1>6 DEF Onward, InProgress
<1>8. Sources
  BY <1>2, <1>4, <1>6, <1>7 DEF Sources, SomeContents
<1>9. SameKept
  <2> SUFFICES ASSUME Orderly'
               PROVE  /\ Orderly
                      /\ LastContents' = LastContents
                      /\ \A q \in Requests : Holding(q)' =>
                            \/ Holding(q) /\ Held(q)' = Held(q)
                            \/ Held(q)' = LastContents
    BY <1>7 DEF SameKept
  <2>1. Orderly /\ ~Adding
    BY <1>4, EditsAssumption DEF Orderly, Adding, InProgress
  <2>2. LastContents' = LastContents
    BY <1>2, <1>6, LastStays
  <2>3. stage = "reading" => copies[cache] = LastContents
    BY <1>1, <1>5, <2>1, CallsRequested DEF Apart, LastContents, Orderly
  <2>4. QED
    BY <1>5, <1>6, <2>1, <2>2, <2>3 DEF Holding
<1>10. QED
  BY <1>8, <1>9, SameKeptStays

LEMMA FetchKept ==
    ASSUME Base, Agreement, AllKept, NEW r \in Requests, AnyFetch(r)
    PROVE  Sources /\ AllKept'
<1>1. EditsOK /\ Apart
  BY DEF Agreement
<1>2. PICK answer \in written, stage \in Stages, held \in Nat : Fetches(r, answer, stage, held)
  BY <1>1, FetchesOne
<1>3. /\ Stage(r) \in {"fetching", "refetching"} /\ UNCHANGED <<calls, server, written>>
      /\ stage \in {"refetching", "reading"} /\ Puts(r, stage, held, edit[r].sent)
      /\ \/ held = cache' /\ (~history'.stale => answer = server)
         \/ held = edit[r].held /\ Stage(r) = "refetching"
      /\ history'.overlap = history.overlap /\ (Orderly' => Orderly /\ ~history'.stale)
  BY <1>2 DEF Fetches, Orderly, vars
<1>4. \A q \in Requests : edit[q].held \in 1..Len(copies)
  BY <1>1 DEF EditsOK
<1>5. /\ \A i \in 1..Len(copies) : copies'[i] = copies[i]
      /\ \A i \in DOMAIN copies' : copies'[i] = answer \/ (i \in DOMAIN copies /\ copies'[i] = copies[i])
      /\ copies'[cache'] = answer
  BY <1>1, <1>2, Refreshed DEF Fetches
<1>6. /\ \A q \in Requests : /\ Stage(q)' = IF q = r THEN stage ELSE Stage(q)
                             /\ q # r => Held(q)' = Held(q)
                             /\ edit'[q].sent = edit[q].sent
      /\ \/ Held(r)' = answer /\ (~history'.stale => answer = server)
         \/ Held(r)' = Held(r) /\ Stage(r) = "refetching"
  <2>1. \A q \in Requests : Stage(q)' = IF q = r THEN stage ELSE Stage(q)
    BY <1>3 DEF Puts, Stage
  <2>2. \A q \in Requests : edit'[q].held = IF q = r THEN held ELSE edit[q].held
    BY <1>3 DEF Puts
  <2>3. \A q \in Requests : edit'[q].sent = edit[q].sent
    BY <1>3 DEF Puts
  <2>4. QED
    BY <1>3, <1>4, <1>5, <2>1, <2>2, <2>3 DEF Held
<1>7. Onward /\ \A q \in Requests : Stage(q)' = "requested" => Stage(q) = "requested"
  BY <1>3, <1>6 DEF Onward, InProgress
<1>8. Sources
  <2>1. \A i \in DOMAIN copies' : SomeContents(copies'[i])
    BY <1>5 DEF SomeContents
  <2>2. QED
    BY <1>3, <1>6, <1>7, <2>1 DEF Sources
<1>9. SameKept
  <2> SUFFICES ASSUME Orderly'
               PROVE  /\ LastContents' = LastContents
                      /\ \A q \in Requests : Holding(q)' =>
                            \/ Holding(q) /\ Held(q)' = Held(q)
                            \/ Held(q)' = LastContents
    BY <1>3, <1>7 DEF SameKept
  <2>1. LastContents' = LastContents
    BY <1>3, <1>6, <1>7, LastStays
  <2>2. LastContents = server
    BY <1>1, <1>3, LastIsServer DEF Apart, Orderly
  <2>3. Held(r)' = LastContents \/ (Holding(r) /\ Held(r)' = Held(r))
    BY <1>3, <1>6, <2>2 DEF Holding
  <2>4. \A q \in Requests : q # r /\ Holding(q)' => Holding(q) /\ Held(q)' = Held(q)
    BY <1>6 DEF Holding
  <2>5. QED
    BY <2>1, <2>3, <2>4
<1>10. QED
  BY <1>8, <1>9, SameKeptStays

\* A removal was asked for after the addition of its track has ended: an
\* addition in progress has none of its track before it.
LEMMA FirstOfTrack ==
    ASSUME OneAdditionEach, Removals, ~history.overlap,
           NEW r \in Adds, InProgress(r),
           NEW s \in Requests, s # r, Stage(s) = "requested"
    PROVE  Track[s] # Track[r]
<1> SUFFICES ASSUME Track[s] = Track[r] PROVE FALSE
  OBVIOUS
<1>1. s \notin Adds
  BY DEF OneAdditionEach
<1>2. PICK q \in Adds : Track[q] = Track[s] /\ ~InProgress(q)
  BY <1>1 DEF Removals
<1>3. QED
  BY <1>2 DEF OneAdditionEach

LEMMA ReadKept ==
    ASSUME Base, Agreement, OneAdditionEach, Removals, AllKept, NEW r \in Requests, ReadTracks(r)
    PROVE  Sources /\ AllKept'
<1>1. EditsOK /\ Apart
  BY DEF Agreement
<1>2. /\ Stage(r) = "reading" /\ UNCHANGED <<calls, server, written, history>>
      /\ copies' = IF r \in Adds THEN [copies EXCEPT ![edit[r].held] = Changed(r, @)] ELSE copies
      /\ edit' = [edit EXCEPT ![r].stage = "artwork"]
  BY DEF ReadTracks, vars
<1>3. Puts(r, "artwork", edit[r].held, edit[r].sent)
  BY <1>1, <1>2, PutsStage
<1>4. /\ copies \in Seq(SUBSET Tracks)
      /\ Len(copies) \in Nat /\ \A q \in Requests : edit[q].held \in 1..Len(copies)
  BY <1>1 DEF EditsOK
<1>5. /\ DOMAIN copies' = DOMAIN copies
      /\ \A i \in DOMAIN copies : i # edit[r].held => copies'[i] = copies[i]
      /\ copies'[edit[r].held] = IF r \in Adds THEN Changed(r, Held(r)) ELSE Held(r)
      /\ edit[r].held \in DOMAIN copies
  BY <1>2, <1>4 DEF Held
<1>6. \A q \in Requests : /\ Stage(q)' = IF q = r THEN "artwork" ELSE Stage(q)
                          /\ edit'[q].held = edit[q].held
                          /\ edit'[q].sent = edit[q].sent
  BY <1>3 DEF Puts, Stage
<1>7. Onward /\ \A q \in Requests : Stage(q)' = "requested" => Stage(q) = "requested"
  BY <1>2, <1>6 DEF Onward, InProgress
<1>8. Sources
  <2>1. \A i \in DOMAIN copies' : SomeContents(copies'[i])
    BY <1>2, <1>5 DEF SomeContents, Held
  <2>2. QED
    BY <1>2, <1>6, <1>7, <2>1 DEF Sources
<1>9. AllKept'
  <2> SUFFICES ASSUME Orderly
               PROVE  /\ KeptIn(LastContents)'
                      /\ \A q \in Requests : Holding(q)' => KeptIn(Held(q))'
    BY <1>2 DEF AllKept, Orderly
  <2>1. \A q \in Requests : Stage(q) = "requested" => Held(q)' = Held(q)
    BY <1>1, <1>2, <1>4, <1>5, <1>6 DEF Apart, InProgress, Held, Orderly
  <2>2. LastContents' = LastContents
    BY <1>2, <2>1, LastStays
  <2>3. Deciding' \subseteq Deciding
    <3>1. Stage(r)' # "requested"
      BY <1>6
    <3>2. \A q \in Requests : Stage(q)' = "requested" => q = r \/ Stage(q) = "requested"
      BY <1>7
    <3>3. Deciding' \subseteq Deciding \cup {r}
      BY <1>7, <3>2, DecidingOn
    <3>4. QED
      BY <3>1, <3>3 DEF Deciding
  <2>4. KeptIn(LastContents)'
    BY <2>2, <2>3 DEF AllKept, KeptIn
  <2>5. ASSUME NEW q \in Requests, Holding(q)'
        PROVE  KeptIn(Held(q))'
    <3>1. q = r /\ KeptIn(Held(r))
      BY <1>1, <1>2, <1>6, <2>5 DEF Apart, InProgress, AllKept, Holding, Orderly
    <3>2. Held(r)' = IF r \in Adds THEN Held(r) \cup {Track[r]} ELSE Held(r)
      BY <1>5, <1>6 DEF Held, Changed
    <3>3. r \in Adds => \A s \in Deciding : Track[s] # Track[r]
      BY <1>2, FirstOfTrack DEF Deciding, InProgress, Orderly
    <3>4. \A s \in Deciding' : Track[s] \in Held(r)' <=> s \in Adds
      BY <2>3, <3>1, <3>2, <3>3 DEF KeptIn
    <3>5. QED
      BY <3>1, <3>4 DEF KeptIn
  <2>6. QED
    BY <2>4, <2>5
<1>10. QED
  BY <1>8, <1>9

LEMMA PublishKept ==
    ASSUME Base, Agreement, OneAdditionEach, Removals, AllKept, NEW r \in Requests, Publish(r)
    PROVE  Sources /\ AllKept'
<1> DEFINE contents == Changed(r, Held(r))
           call == [req |-> r, result |-> "null", cancelled |-> FALSE]
<1>1. EditsOK /\ Apart
  BY DEF Agreement
<1>2. /\ Stage(r) = "artwork" /\ UNCHANGED <<server, written>>
      /\ history' = [history EXCEPT !.outdated = FALSE]
      /\ copies' = Append([copies EXCEPT ![edit[r].held] = contents], contents)
      /\ edit' = [edit EXCEPT ![r].stage = "requested"]
      /\ calls' = Append(calls, call)
  BY DEF Publish, Request
<1>3. history'.overlap = history.overlap /\ (Orderly' <=> Orderly)
  BY <1>1, <1>2 DEF EditsOK, History, Orderly
<1>4. Puts(r, "requested", edit[r].held, edit[r].sent)
  BY <1>1, <1>2, PutsStage
<1>5. /\ copies \in Seq(SUBSET Tracks)
      /\ Len(copies) \in Nat /\ \A q \in Requests : edit[q].held \in 1..Len(copies)
  BY <1>1 DEF EditsOK
<1>6. contents \in SUBSET Tracks
  <2>1. Held(r) \in SUBSET Tracks
    BY <1>1, EditTyped
  <2>2. QED
    BY <2>1, EditsAssumption DEF Changed
<1>7. calls' # <<>> /\ LastReq' = r
  <2>1. calls \in Seq(Call) /\ Len(calls) \in Nat
    BY CallsTyped DEF Base
  <2>2. Len(calls') = Len(calls) + 1 /\ calls'[Len(calls) + 1] = call
    BY <1>2, <2>1
  <2>3. calls' # <<>> /\ LastReq' = call.req
    BY <2>1, <2>2 DEF LastReq
  <2>4. QED
    BY <2>3
<1> HIDE DEF contents, call
<1>8. /\ copies'[edit[r].held] = contents
      /\ \A i \in DOMAIN copies' : copies'[i] = contents \/ (i \in DOMAIN copies /\ copies'[i] = copies[i])
  <2> DEFINE changed == [copies EXCEPT ![edit[r].held] = contents]
  <2>1. /\ changed \in Seq(SUBSET Tracks) /\ Len(changed) = Len(copies)
        /\ changed[edit[r].held] = contents
        /\ \A i \in DOMAIN copies : i # edit[r].held => changed[i] = copies[i]
    BY <1>5, <1>6
  <2>2. copies' = Append(changed, contents)
    BY <1>2
  <2> HIDE DEF changed
  <2>3. QED
    BY <1>5, <1>6, <2>1, <2>2
<1>9. \A q \in Requests : /\ Stage(q)' = IF q = r THEN "requested" ELSE Stage(q)
                          /\ edit'[q].held = edit[q].held
                          /\ edit'[q].sent = edit[q].sent
  BY <1>4 DEF Puts, Stage
<1>10. Onward
  BY <1>2, <1>9 DEF Onward, InProgress
<1>11. Sources
  <2>1. \A i \in DOMAIN copies' : SomeContents(copies'[i])
    BY <1>2, <1>5, <1>8 DEF SomeContents, contents, Held
  <2>2. QED
    BY <1>2, <1>9, <1>10, <1>3, <2>1 DEF Sources
<1>12. AllKept'
  <2> SUFFICES ASSUME Orderly
               PROVE  /\ KeptIn(LastContents)'
                      /\ \A q \in Requests : Holding(q)' => KeptIn(Held(q))'
    BY <1>3 DEF AllKept
  <2>1. \A q \in Requests : ~Holding(q)'
    BY <1>1, <1>2, <1>9 DEF Apart, InProgress, Holding, Orderly
  <2>2. LastContents' = contents
    BY <1>7, <1>8, <1>9 DEF LastContents, Held
  <2>3. Deciding' \subseteq Deciding \cup {r}
    BY <1>9, <1>10, DecidingOn
  <2>4. KeptIn(Held(r))
    BY <1>2 DEF AllKept, Holding
  <2>5. ASSUME NEW s \in Deciding', s # r
        PROVE  Track[s] # Track[r]
    <3>1. s \in Requests /\ Stage(s) = "requested" /\ LastOfTrack(s)'
      BY <1>9, <2>5 DEF Deciding
    <3>2. Stage(r)' = "requested"
      BY <1>9
    <3>3. Track[s] = Track[r] => r \in Adds
      BY <2>5, <3>1, <3>2 DEF LastOfTrack
    <3>4. QED
      BY <1>2, <2>5, <3>1, <3>3, FirstOfTrack DEF InProgress, Orderly
  <2>6. \A s \in Deciding' : Track[s] \in contents <=> s \in Adds
    BY <2>3, <2>4, <2>5 DEF KeptIn, contents, Changed
  <2>7. QED
    BY <2>1, <2>2, <2>6 DEF KeptIn
<1>13. QED
  BY <1>11, <1>12

LEMMA LeaveKept ==
    ASSUME Base, Agreement, AllKept, Leaves
    PROVE  Sources /\ AllKept'
<1>1. /\ UNCHANGED <<calls, copies, cache, server, written>>
      /\ history'.overlap = history.overlap /\ (Orderly' => Orderly)
  BY DEF Leaves, Orderly, vars
<1>2. \A q \in Requests : /\ edit'[q].sent = edit[q].sent /\ Held(q)' = Held(q)
                          /\ \/ Stage(q)' = Stage(q)
                             \/ InProgress(q) /\ Stage(q)' \in {"dropped", "failed"}
  BY <1>1 DEF Leaves, Stage, Held
<1>3. Onward /\ \A q \in Requests : Stage(q)' = "requested" => Stage(q) = "requested"
  BY <1>2 DEF Onward, InProgress
<1>4. Sources
  BY <1>1, <1>2, <1>3 DEF Sources, SomeContents, InProgress
<1>5. SameKept
  BY <1>1, <1>2, <1>3, LastStays DEF SameKept, Holding
<1>6. QED
  BY <1>4, <1>5, SameKeptStays

\* A step of the confirmer leaves what the edits hold, and clears the group
\* when the backend has the last contents.
LEMMA ConfirmerKept ==
    ASSUME Base, Agreement, AllKept, UNCHANGED <<copies, edit, history, server, written>>,
           \/ LastContents' = LastContents
           \/ calls' = <<>> /\ ~PendingUpdates
    PROVE  Sources /\ AllKept'
<1>1. \A q \in Requests : Stage(q)' = Stage(q) /\ Held(q)' = Held(q)
  BY DEF Stage, Held
<1>2. Onward /\ Sources
  BY <1>1 DEF Onward, Sources, SomeContents, InProgress
<1>3. Orderly => LastContents' = LastContents
  BY LastIsServer DEF LastContents, Orderly
<1>4. SameKept
  BY <1>1, <1>2, <1>3 DEF SameKept, Orderly, Holding
<1>5. QED
  BY <1>2, <1>4, SameKeptStays

LEMMA AnswerKept ==
    ASSUME Base, Agreement, AllKept, NEW r \in Requests, NEW result \in Outcomes[r], Answer(r, result)
    PROVE  Sources /\ AllKept'
<1>1. /\ UNCHANGED <<copies, edit>>
      /\ server' = server \/ server' = edit[r].sent
      /\ written' = written \cup {server'} /\ server \in written
      /\ history' = [history EXCEPT !.errors = @ \/ result = "error"]
  BY DEF Answer, Agreement, EditsOK
<1>2. history'.overlap = history.overlap /\ (Orderly' => Orderly)
  BY <1>1 DEF Agreement, EditsOK, History, Orderly
<1>3. \A q \in Requests : Stage(q)' = Stage(q) /\ Held(q)' = Held(q)
  BY <1>1 DEF Stage, Held
<1>4. Onward /\ Sources
  BY <1>1, <1>2, <1>3 DEF Onward, Sources, SomeContents, InProgress
<1>5. LastContents' = LastContents
  <2>1. calls # <<>> /\ calls' # <<>> /\ Len(calls') = Len(calls)
        /\ \A i \in DOMAIN calls : calls'[i].req = calls[i].req
    BY AnswerCalls
  <2>2. LastReq' = LastReq
    BY <2>1, CallsRequested DEF LastReq
  <2>3. QED
    BY <1>1, <2>1, <2>2 DEF LastContents, Held
<1>6. SameKept
  BY <1>2, <1>3, <1>4, <1>5 DEF SameKept, Holding
<1>7. QED
  BY <1>4, <1>6, SameKeptStays

LEMMA SquashKept ==
    ASSUME Base, Agreement, AllKept, NEW r \in Requests, Squash(r), UNCHANGED editVars
    PROVE  Sources /\ AllKept'
<1>1. UNCHANGED <<copies, edit, history, server, written>>
  BY DEF editVars
<1>2. /\ calls \in Seq(Call) /\ Len(calls) \in Nat /\ DOMAIN calls = 1..Len(calls)
      /\ \A i \in DOMAIN calls : calls[i] \in Call
  BY CallsTyped DEF Base
<1>3. /\ calls' = [calls EXCEPT ![At(r)].cancelled = TRUE]
      /\ At(r) \in DOMAIN calls
  BY CallKept DEF Squash, HasTurn, Open, Base
<1>4. calls # <<>> /\ calls' # <<>> /\ Len(calls') = Len(calls)
      /\ \A i \in DOMAIN calls : calls'[i].req = calls[i].req
  <2>1. \A i \in DOMAIN calls : calls'[i] = IF i = At(r) THEN [calls[i] EXCEPT !.cancelled = TRUE]
                                            ELSE calls[i]
    BY <1>2, <1>3
  <2>2. DOMAIN calls' = DOMAIN calls /\ Len(calls') = Len(calls)
    BY <1>2, <1>3
  <2>3. \A i \in DOMAIN calls : calls'[i].req = calls[i].req
    BY <1>2, <2>1 DEF Call
  <2>4. QED
    BY <1>3, <2>2, <2>3
<1>5. LastReq' = LastReq
  BY <1>4, CallsRequested DEF LastReq
<1>6. LastContents' = LastContents
  BY <1>1, <1>4, <1>5 DEF LastContents, Held
<1>7. QED
  BY <1>1, <1>6, ConfirmerKept

LEMMA TaskKept ==
    ASSUME Base, Agreement, AllKept, NEW r \in Requests, TaskStep(r)
    PROVE  Sources /\ AllKept'
<1>1. EditsOK
  BY DEF Agreement
<1>2. CASE Send(r)
  <2>1. /\ UNCHANGED <<calls, copies, server, written, history>>
        /\ edit' = [edit EXCEPT ![r].sent = Held(r)]
    BY <1>2 DEF Send, Start
  <2>2. Puts(r, Stage(r), edit[r].held, Held(r))
    BY <1>1, <2>1, PutsSent
  <2>3. \A q \in Requests : /\ Stage(q)' = Stage(q) /\ Held(q)' = Held(q)
                            /\ edit'[q].sent = edit[q].sent \/ edit'[q].sent = Held(q)
    BY <2>1, <2>2 DEF Puts, Stage, Held
  <2>4. Onward /\ Sources
    BY <2>1, <2>3 DEF Onward, Sources, SomeContents, InProgress
  <2>5. SameKept
    BY <2>1, <2>3, <2>4, LastStays DEF SameKept, Orderly, Holding
  <2>6. QED
    BY <2>4, <2>5, SameKeptStays
<1>3. CASE Squash(r) /\ UNCHANGED editVars
  BY <1>3, SquashKept
<1>4. CASE AwaitPrevious(r) /\ UNCHANGED editVars
  <2>1. UNCHANGED <<calls, copies, edit, history, server, written>>
    BY <1>4 DEF AwaitPrevious, editVars
  <2>2. LastContents' = LastContents
    BY <2>1 DEF LastContents, LastReq, Held
  <2>3. QED
    BY <2>1, <2>2, ConfirmerKept
<1>5. CASE FinishCompletions(r) /\ UNCHANGED editVars
  <2>1. /\ UNCHANGED <<copies, edit, history, server, written>>
        /\ calls' = IF PendingUpdates THEN calls ELSE <<>>
    BY <1>5 DEF FinishCompletions, ClearConfirm, PendingUpdates, editVars
  <2>2. PendingUpdates => LastContents' = LastContents
    BY <2>1 DEF LastContents, LastReq, Held
  <2>3. QED
    BY <2>1, <2>2, ConfirmerKept
<1>6. CASE RunEditCompletion(r)
  <2> DEFINE q == Chain(r)[task[r].pos]
  <2>1. /\ UNCHANGED <<calls, server, written, edit>>
        /\ history' = history \/ history' = [history EXCEPT !.outdated = FALSE]
        /\ \/ Succeeded(q) /\ copies' = Append(copies, Held(q))
           \/ copies' = copies
    BY <1>6 DEF RunEditCompletion, RunCompletion, WriteCache
  <2>2. history'.overlap = history.overlap /\ (Orderly' <=> Orderly)
    BY <1>1, <2>1 DEF EditsOK, History, Orderly
  <2>3. Succeeded(q) => q \in Requests
    BY CallsRequested DEF Succeeded
  <2> HIDE DEF q
  <2>4. /\ copies \in Seq(SUBSET Tracks) /\ Len(copies) \in Nat
        /\ \A s \in Requests : edit[s].held \in 1..Len(copies)
    BY <1>1 DEF EditsOK
  <2>5. /\ \A i \in 1..Len(copies) : copies'[i] = copies[i]
        /\ \A i \in DOMAIN copies' : (i \in DOMAIN copies /\ copies'[i] = copies[i])
                                     \/ (q \in Requests /\ copies'[i] = Held(q))
    <3>1. CASE copies' = copies
      BY <2>4, <3>1
    <3>2. CASE Succeeded(q) /\ copies' = Append(copies, Held(q))
      <4>1. Held(q) \in SUBSET Tracks
        BY <1>1, <2>3, <3>2, EditTyped
      <4>2. QED
        BY <2>3, <2>4, <3>2, <4>1
    <3>3. QED
      BY <2>1, <3>1, <3>2
  <2>6. \A s \in Requests : Stage(s)' = Stage(s) /\ Held(s)' = Held(s)
    BY <2>1, <2>4, <2>5 DEF Stage, Held
  <2>7. \A i \in DOMAIN copies' : SomeContents(copies'[i])
    BY <2>4, <2>5 DEF SomeContents, Held
  <2>8. Onward /\ Sources
    BY <2>1, <2>6, <2>7, <2>2 DEF Onward, Sources, InProgress
  <2>9. SameKept
    BY <2>1, <2>6, <2>8, <2>2, LastStays DEF SameKept, Holding
  <2>10. QED
    BY <2>8, <2>9, SameKeptStays
<1>7. QED
  BY <1>2, <1>3, <1>4, <1>5, <1>6 DEF TaskStep, ConfirmerOnly

LEMMA KeptStep ==
    ASSUME OneAdditionEach, Base, Agreement, Removals, AllKept, [EditsNext]_allVars
    PROVE  Removals' /\ AllKept'
<1>1. CASE UNCHANGED allVars
  <2>1. UNCHANGED <<calls, copies, edit, history, server, written>>
    BY <1>1 DEF allVars, vars, editVars
  <2>2. LastContents' = LastContents
    BY <2>1 DEF LastContents, LastReq, Held
  <2>3. QED
    BY <2>1, <2>2, ConfirmerKept, SourcesKept DEF Agreement
<1>2. CASE EditsNext
  <2>1. Sources /\ AllKept'
    BY <1>2, BeginKept, FetchKept, ReadKept, PublishKept, DropLeaves, FailLeaves, LeaveKept,
       TaskKept, AnswerKept DEF EditsNext, EditStep, AnyAnswer, Agreement
  <2>2. QED
    BY <2>1, SourcesKept DEF Agreement
<1>3. QED
  BY <1>1, <1>2

LEMMA KeptInit == ASSUME OneAdditionEach, EditsInit PROVE Removals /\ AllKept
<1>1. /\ calls = <<>> /\ copies = <<FirstContents>> /\ written = {FirstContents}
      /\ edit = [r \in Requests |-> [stage |-> "idle", held |-> 1, sent |-> {}]]
  BY DEF EditsInit, ConfirmerInit
<1>2. \A r \in Requests : Stage(r) = "idle" /\ edit[r].sent = {}
  BY <1>1 DEF Stage
<1>3. FirstContents \subseteq Begun
  BY EditsAssumption DEF Begun
<1>4. \A i \in DOMAIN copies : copies[i] = FirstContents
  BY <1>1
<1>5. Removals
  BY <1>1, <1>2, <1>3, <1>4, EditsAssumption DEF Removals
<1>6. AllKept
  BY <1>2 DEF AllKept, KeptIn, Deciding
<1>7. QED
  BY <1>5, <1>6

\* Of edits made one after the other, each on contents that were not stale,
\* none is lost, whichever of them are squashed, dropped or fail: when
\* everything is confirmed the backend has every track as its last edit left it.
THEOREM NoEditLost == ASSUME OneAdditionEach PROVE EditsSpec => []SequentialKept
<1>1. EditsInit => Removals /\ AllKept
  BY KeptInit
<1>2. (Base /\ Agreement) /\ (Removals /\ AllKept) /\ [EditsNext]_allVars => (Removals /\ AllKept)'
  BY KeptStep
<1>3. AllKept => SequentialKept
  <2> SUFFICES ASSUME AllKept, Orderly, calls = <<>>,
                      NEW r \in Requests, Stage(r) = "requested", LastOfTrack(r)
               PROVE  (Track[r] \in server) = (r \in Adds)
    BY DEF SequentialKept, NothingLost, Quiet, Kept, Orderly
  <2>1. r \in Deciding /\ KeptIn(server)
    BY DEF Deciding, AllKept, LastContents
  <2>2. Track[r] \in server <=> r \in Adds
    BY <2>1 DEF KeptIn
  <2>3. QED
    BY <2>2
<1>4. QED
  BY <1>1, <1>2, <1>3, AgreementInvariant, PTL DEF EditsSpec
=============================================================================
