--------------------------- MODULE ConfirmerProofs ---------------------------
(***************************************************************************)
(* Theorems of the confirmer, for any requests and options that it accepts *)
(* and for completions that await something or not.                        *)
(***************************************************************************)
EXTENDS Confirmer, FiniteSetTheorems, TLAPS

-----------------------------------------------------------------------------
(* Requests keep their place.                                              *)

Phases == {"idle", "queued", "squashed", "ready", "calling", "completing", "finished", "aborted"}
Results == {"ok", "error", "undefined", "null"}
Call == [req : Requests, result : Results, cancelled : BOOLEAN]
TaskState == [phase : Phases, at : Nat, prev : Requests \cup {NoRequest}, chain : Nat, pos : Nat]

Completions == Seq(Requests \cup {NoRequest})

ArraysOK ==
    /\ arrays \in Seq(Completions)
    /\ current \in 0..Len(arrays)
    /\ opCall \in [Operations -> Nat]
    /\ ran \in [Requests -> Nat]
    /\ \A r \in Requests : Phase(r) = "completing" =>
          task[r].chain \in DOMAIN arrays /\ task[r].pos \in Nat \ {0}

GroupOK ==
    /\ calls \in Seq(Call)
    /\ next \in Nat \ {0}
    /\ task \in [Requests -> TaskState]
    /\ ArraysOK

Placed == GroupOK /\ OpenKept

LEMMA BlankOK == \A phase \in Phases : Blank(phase) \in TaskState
BY DEF Blank, TaskState

LEMMA CallKept ==
    ASSUME Placed, NEW r \in Requests, Open(r)
    PROVE  /\ At(r) \in DOMAIN calls /\ At(r) \in Nat \ {0} /\ At(r) <= Len(calls)
           /\ calls[At(r)] \in Call /\ calls[At(r)].req = r
           /\ calls[At(r)].result = "null" /\ calls[At(r)].cancelled = FALSE
<1>1. At(r) \in DOMAIN calls /\ calls[At(r)] = [req |-> r, result |-> "null", cancelled |-> FALSE]
  BY DEF Placed, OpenKept
<1>2. calls \in Seq(Call)
  BY DEF Placed, GroupOK
<1>3. \A i \in DOMAIN calls : i \in Nat \ {0} /\ i <= Len(calls) /\ calls[i] \in Call
  BY <1>2
<1>4. /\ calls[At(r)].req = r
      /\ calls[At(r)].result = "null" /\ calls[At(r)].cancelled = FALSE
  BY <1>1
<1>5. QED
  BY <1>1, <1>3, <1>4

\* Two open requests have two places.
LEMMA PlacesDiffer ==
    ASSUME Placed, NEW q \in Requests, NEW r \in Requests, Open(q), Open(r), q # r
    PROVE  At(q) # At(r)
BY CallKept

\* A set without a greatest number would have a smallest subset without one.
LEMMA Greatest ==
    ASSUME NEW n \in Nat, NEW is \in SUBSET (1..n), is # {}
    PROVE  \E i \in is : \A j \in is : j <= i
<1> DEFINE HasGreatest(T) == \E i \in T : \A j \in T : j <= i
           Bad == {T \in SUBSET (1..n) : T # {} /\ ~HasGreatest(T)}
<1> SUFFICES ASSUME Bad # {} PROVE FALSE
  OBVIOUS
<1>1. IsWellFoundedOn(StrictSubsetOrdering(1..n), SUBSET (1..n))
  <2>1. IsFiniteSet(1..n)
    BY FS_Interval
  <2>2. FiniteSubsetsOf(1..n) = SUBSET (1..n)
    BY <2>1, FS_FiniteSubsetsOfFinite
  <2>3. IsWellFoundedOn(StrictSubsetOrdering(1..n), FiniteSubsetsOf(1..n))
    BY FS_StrictSubsetOrderingWellFounded
  <2>4. QED
    BY <2>2, <2>3, Zenon
<1>2. PICK T \in Bad : \A U \in Bad : <<U, T>> \notin StrictSubsetOrdering(1..n)
  <2>1. Bad \subseteq SUBSET (1..n)
    OBVIOUS
  <2> HIDE DEF Bad
  <2>2. QED
    BY <1>1, <2>1, WFMin
<1>3. PICK x \in T : TRUE
  OBVIOUS
<1>4. x \in Int /\ \A j \in T : j \in Int
  OBVIOUS
<1>5. CASE T \ {x} = {}
  <2>1. \A j \in T : j = x
    BY <1>5
  <2>2. QED
    BY <1>3, <1>4, <2>1
<1>6. CASE T \ {x} # {}
  <2>1. <<T \ {x}, T>> \in StrictSubsetOrdering(1..n)
    BY <1>3 DEF StrictSubsetOrdering
  <2>2. PICK i \in T \ {x} : \A j \in T \ {x} : j <= i
    BY <1>2, <1>6, <2>1
  <2>3. CASE x <= i
    BY <2>2, <2>3
  <2>4. CASE i <= x
    BY <1>3, <1>4, <2>2, <2>4
  <2>5. QED
    BY <1>4, <2>3, <2>4
<1>7. QED
  BY <1>5, <1>6

LEMMA LatestIs ==
    ASSUME NEW n \in Nat, NEW is \in SUBSET (1..n)
    PROVE  /\ is = {} => Latest(is) = 0
           /\ is # {} => Latest(is) \in is /\ \A j \in is : j <= Latest(is)
<1>1. is # {} => \E i \in is : \A j \in is : j <= i
  BY Greatest
<1>2. QED
  BY <1>1 DEF Latest

LEMMA LatestCall ==
    ASSUME Placed, NEW is \in SUBSET DOMAIN calls
    PROVE  ReqAt(Latest(is)) \in Requests \cup {NoRequest}
<1>1. calls \in Seq(Call) /\ DOMAIN calls = 1..Len(calls) /\ Len(calls) \in Nat
  BY DEF Placed, GroupOK
<1>2. Latest(is) = 0 \/ Latest(is) \in DOMAIN calls
  BY <1>1, LatestIs
<1>3. \A i \in DOMAIN calls : calls[i].req \in Requests
  <2>1. \A i \in DOMAIN calls : calls[i] \in Call
    BY <1>1
  <2>2. QED
    BY <2>1 DEF Call
<1>4. QED
  BY <1>2, <1>3 DEF ReqAt

LEMMA ArraysKept ==
    ASSUME Placed, UNCHANGED <<arrays, current, opCall, ran>>,
           \A q \in Requests : Phase(q)' = "completing" => task'[q] = task[q]
    PROVE  ArraysOK'
BY DEF Placed, GroupOK, ArraysOK, Phase

\* A task that does not go on to run completions.
LEMMA TaskMoves ==
    ASSUME Placed, UNCHANGED <<arrays, current, opCall, ran>>,
           calls' \in Seq(Call), next' \in Nat \ {0},
           NEW r \in Requests, NEW state \in TaskState, state.phase # "completing",
           task' = [task EXCEPT ![r] = state]
    PROVE  GroupOK'
<1>1. task \in [Requests -> TaskState] /\ task' \in [Requests -> TaskState]
  BY DEF Placed, GroupOK
<1>2. \A q \in Requests : task'[q] = IF q = r THEN state ELSE task[q]
  BY <1>1
<1>3. ArraysOK'
  BY <1>2, ArraysKept DEF Phase
<1>4. QED
  BY <1>1, <1>3 DEF GroupOK

LEMMA JoinGroup ==
    ASSUME Placed, NEW r \in Requests,
           Request(r) \/ Squash(r) \/ StartParallel(r) \/ AwaitPrevious(r) \/ Start(r)
    PROVE  GroupOK'
<1>0. calls \in Seq(Call) /\ next \in Nat \ {0} /\ task \in [Requests -> TaskState]
  BY DEF Placed, GroupOK
<1>1. CASE Request(r)
  <2> DEFINE state == [task[r] EXCEPT !.phase = "queued", !.at = Len(calls) + 1]
             call  == [req |-> r, result |-> "null", cancelled |-> FALSE]
  <2>1. call \in Call
    BY DEF Call, Results
  <2>2. Len(calls) + 1 \in Nat
    BY <1>0
  <2>3. state \in TaskState /\ state.phase # "completing"
    BY <1>0, <2>2 DEF TaskState, Phases
  <2>4. calls' = Append(calls, call) /\ UNCHANGED <<next, arrays, current, opCall, ran>>
    BY <1>1 DEF Request
  <2>5. task' = [task EXCEPT ![r] = state]
    BY <1>1 DEF Request
  <2> HIDE DEF state, call
  <2>6. calls' \in Seq(Call) /\ next' \in Nat \ {0}
    BY <1>0, <2>1, <2>4
  <2>7. QED
    BY <2>3, <2>4, <2>5, <2>6, TaskMoves
<1>2. CASE Squash(r)
  <2>1. calls[At(r)] \in Call /\ At(r) \in DOMAIN calls
    BY <1>2, CallKept DEF Squash, HasTurn, Open
  <2>2. [calls[At(r)] EXCEPT !.cancelled = TRUE] \in Call
    BY <2>1 DEF Call
  <2>3. /\ calls' = [calls EXCEPT ![At(r)] = [calls[At(r)] EXCEPT !.cancelled = TRUE]]
        /\ next' = next + 1 /\ UNCHANGED <<arrays, current, opCall, ran>>
    BY <1>2 DEF Squash
  <2>4. calls' \in Seq(Call) /\ next' \in Nat \ {0}
    BY <1>0, <2>1, <2>2, <2>3
  <2>5. task' = [task EXCEPT ![r] = Blank("squashed")]
    BY <1>2 DEF Squash
  <2>6. Blank("squashed") \in TaskState /\ Blank("squashed").phase # "completing"
    BY BlankOK DEF Phases, Blank
  <2>7. QED
    BY <2>3, <2>4, <2>5, <2>6, TaskMoves
<1>3. CASE StartParallel(r)
  <2> DEFINE i == Latest({k \in DOMAIN calls : calls[k].result # "null"})
             state == [task[r] EXCEPT !.phase = "calling", !.prev = ReqAt(i)]
  <2>1. ReqAt(i) \in Requests \cup {NoRequest}
    BY LatestCall
  <2>2. /\ task' = [task EXCEPT ![r] = state]
        /\ next' = next + 1 /\ UNCHANGED <<calls, arrays, current, opCall, ran>>
    BY <1>3 DEF StartParallel
  <2> HIDE DEF i
  <2>3. state \in TaskState /\ state.phase # "completing"
    BY <1>0, <2>1 DEF TaskState, Phases
  <2> HIDE DEF state
  <2>4. calls' \in Seq(Call) /\ next' \in Nat \ {0}
    BY <1>0, <2>2
  <2>5. QED
    BY <2>2, <2>3, <2>4, TaskMoves
<1>4. CASE AwaitPrevious(r)
  <2> DEFINE state == [task[r] EXCEPT !.phase = "ready"]
  <2>1. task' = [task EXCEPT ![r] = state] /\ UNCHANGED <<calls, next, arrays, current, opCall, ran>>
    BY <1>4 DEF AwaitPrevious
  <2>2. state \in TaskState /\ state.phase # "completing"
    BY <1>0 DEF TaskState, Phases
  <2> HIDE DEF state
  <2>3. QED
    BY <1>0, <2>1, <2>2, TaskMoves
<1>5. CASE Start(r)
  <2> DEFINE state == [task[r] EXCEPT !.phase = "calling", !.prev = ReqAt(Previous(r))]
  <2>1. At(r) \in Nat /\ At(r) <= Len(calls)
    BY <1>5, CallKept DEF Start, Open
  <2>2. {i \in 1..(At(r) - 1) : ~calls[i].cancelled} \in SUBSET DOMAIN calls
    BY <1>0, <2>1
  <2>3. ReqAt(Previous(r)) \in Requests \cup {NoRequest}
    BY <2>2, LatestCall DEF Previous
  <2>4. task' = [task EXCEPT ![r] = state] /\ UNCHANGED <<calls, next, arrays, current, opCall, ran>>
    BY <1>5 DEF Start
  <2>5. state \in TaskState /\ state.phase # "completing"
    BY <1>0, <2>3 DEF TaskState, Phases
  <2> HIDE DEF state
  <2>6. QED
    BY <1>0, <2>4, <2>5, TaskMoves
<1>6. QED
  BY <1>1, <1>2, <1>3, <1>4, <1>5

\* The array that completions are filed in.
Array == IF current = 0 THEN <<>> ELSE arrays[current]

LEMMA ArrayOK == ASSUME ArraysOK PROVE Array \in Completions
BY DEF ArraysOK, Array, Completions

LEMMA FiledOK ==
    ASSUME ArraysOK, NEW r \in Requests, NEW result
    PROVE  Filed(r, result) \in Completions /\ Len(Filed(r, result)) \in Nat
<1>1. Array \in Seq(Requests \cup {NoRequest})
  BY ArrayOK DEF Completions
<1> DEFINE put == [Array EXCEPT ![opCall[Operation[r]]] = NoRequest]
           filed == IF r \in OnlyLast /\ result # "error" /\ opCall[Operation[r]] # 0
                    THEN put ELSE Array
<1>2. put \in Seq(Requests \cup {NoRequest})
  <2>1. /\ Len(Array) \in Nat /\ DOMAIN Array = 1..Len(Array)
        /\ \A i \in DOMAIN Array : Array[i] \in Requests \cup {NoRequest}
    BY <1>1
  <2>2. put = [i \in 1..Len(Array) |->
                  IF i = opCall[Operation[r]] THEN NoRequest ELSE Array[i]]
    BY <2>1
  <2>3. put \in [1..Len(Array) -> Requests \cup {NoRequest}]
    BY <2>1, <2>2
  <2>4. QED
    BY <2>1, <2>3
<1>3. filed \in Seq(Requests \cup {NoRequest})
  BY <1>1, <1>2
<1>4. Filed(r, result) = Append(filed, r)
  BY DEF Filed, Array
<1> HIDE DEF filed
<1>5. QED
  BY <1>3, <1>4 DEF Completions

LEMMA SettleGroup ==
    ASSUME Placed, NEW r \in Requests, NEW result \in Outcomes[r], Settle(r, result)
    PROVE  GroupOK'
<1>0. /\ calls \in Seq(Call) /\ next \in Nat \ {0} /\ task \in [Requests -> TaskState]
      /\ ArraysOK
  BY DEF Placed, GroupOK
<1>1. calls' \in Seq(Call)
  <2>1. calls[At(r)] \in Call /\ At(r) \in DOMAIN calls /\ result \in Results
    BY CallKept, ConfirmerAssumption DEF Settle, Open, Results
  <2>2. [calls[At(r)] EXCEPT !.result = result] \in Call
    BY <2>1 DEF Call
  <2>3. calls' = [calls EXCEPT ![At(r)] = [calls[At(r)] EXCEPT !.result = result]]
    BY DEF Settle
  <2>4. QED
    BY <1>0, <2>1, <2>2, <2>3
<1>2. next' \in Nat \ {0}
  BY <1>0 DEF Settle
<1>3. /\ arrays' \in Seq(Completions) /\ current' \in 1..Len(arrays')
      /\ DOMAIN arrays \subseteq DOMAIN arrays'
  <2>1. Filed(r, result) \in Completions /\ arrays \in Seq(Completions) /\ current \in 0..Len(arrays)
    BY <1>0, FiledOK DEF ArraysOK
  <2>2. CASE current = 0
    <3>1. current' = Len(arrays) + 1 /\ arrays' = Append(arrays, Filed(r, result))
      BY <2>2 DEF Settle
    <3>2. QED
      BY <2>1, <3>1
  <2>3. CASE current # 0
    <3>1. current' = current /\ arrays' = [arrays EXCEPT ![current] = Filed(r, result)]
      BY <2>3 DEF Settle
    <3>2. QED
      BY <2>1, <2>3, <3>1
  <2>4. QED
    BY <2>2, <2>3
<1>4. opCall' \in [Operations -> Nat] /\ UNCHANGED ran
  BY <1>0, FiledOK DEF Settle, ArraysOK
<1>5. \/ task' = [task EXCEPT ![r] = Blank("finished")]
      \/ task' = [task EXCEPT ![r].phase = "completing", ![r].chain = current', ![r].pos = 1]
  BY DEF Settle
<1>6. CASE task' = [task EXCEPT ![r] = Blank("finished")]
  <2>1. Blank("finished") \in TaskState /\ Blank("finished").phase # "completing"
    BY BlankOK DEF Phases, Blank
  <2>2. \A q \in Requests : Phase(q)' = "completing" => task'[q] = task[q]
    BY <1>0, <1>6, <2>1 DEF Phase
  <2>3. task' \in [Requests -> TaskState]
    BY <1>0, <1>6, <2>1
  <2>4. QED
    BY <1>0, <1>1, <1>2, <1>3, <1>4, <2>2, <2>3 DEF GroupOK, ArraysOK, Phase
<1>7. CASE task' = [task EXCEPT ![r].phase = "completing", ![r].chain = current', ![r].pos = 1]
  <2> DEFINE state == [task[r] EXCEPT !.phase = "completing", !.chain = current', !.pos = 1]
  <2>1. current' \in Nat
    BY <1>3
  <2>2. state \in TaskState /\ state.chain = current' /\ state.pos = 1
    BY <1>0, <2>1 DEF TaskState, Phases
  <2>3. task' = [task EXCEPT ![r] = state]
    BY <1>7
  <2> HIDE DEF state
  <2>4. task' \in [Requests -> TaskState]
    BY <1>0, <2>2, <2>3
  <2>5. \A q \in Requests : task'[q] = IF q = r THEN state ELSE task[q]
    BY <1>0, <2>3
  <2>6. \A q \in Requests : Phase(q)' = "completing" =>
           task'[q].chain \in DOMAIN arrays' /\ task'[q].pos \in Nat \ {0}
    BY <1>0, <1>3, <2>2, <2>5 DEF ArraysOK, Phase
  <2>7. QED
    BY <1>0, <1>1, <1>2, <1>3, <1>4, <2>4, <2>6 DEF GroupOK, ArraysOK
<1>8. QED
  BY <1>5, <1>6, <1>7

LEMMA CompleteGroup ==
    ASSUME Placed, NEW r \in Requests, Complete(r)
    PROVE  GroupOK'
<1>0. /\ calls \in Seq(Call) /\ next \in Nat \ {0} /\ task \in [Requests -> TaskState]
      /\ ArraysOK
  BY DEF Placed, GroupOK
<1>1. CASE RunCompletion(r)
  <2> DEFINE state == [task[r] EXCEPT !.pos = @ + 1]
  <2>1. Phase(r) = "completing" /\ task' = [task EXCEPT ![r] = state]
    BY <1>1 DEF RunCompletion
  <2>2. task[r] \in TaskState /\ task[r].pos \in Nat /\ task[r].chain \in DOMAIN arrays
    BY <1>0, <2>1 DEF ArraysOK
  <2>3. /\ state \in TaskState /\ state.chain = task[r].chain
        /\ state.pos \in Nat \ {0}
    BY <2>2 DEF TaskState
  <2> HIDE DEF state
  <2>4. /\ task' \in [Requests -> TaskState]
        /\ \A q \in Requests : task'[q] = IF q = r THEN state ELSE task[q]
    BY <1>0, <2>1, <2>3
  <2>5. ran' \in [Requests -> Nat]
    <3>1. Chain(r)[task[r].pos] \in Requests \cup {NoRequest}
      <4>1. Chain(r) \in Seq(Requests \cup {NoRequest})
        BY <1>0, <2>2 DEF Chain, ArraysOK, Completions
      <4>2. task[r].pos \in 1..Len(Chain(r))
        BY <1>0, <1>1, <2>1, <4>1 DEF RunCompletion, ArraysOK
      <4>3. QED
        BY <4>1, <4>2
    <3>2. \A q \in Requests : [ran EXCEPT ![q] = @ + 1] \in [Requests -> Nat]
      BY <1>0 DEF ArraysOK
    <3>3. QED
      BY <1>0, <1>1, <3>1, <3>2 DEF RunCompletion, ArraysOK
  <2>6. UNCHANGED <<calls, next, arrays, current, opCall>>
    BY <1>1 DEF RunCompletion
  <2>7. \A q \in Requests : Phase(q)' = "completing" =>
           task'[q].chain \in DOMAIN arrays' /\ task'[q].pos \in Nat \ {0}
    BY <1>0, <2>1, <2>2, <2>3, <2>4, <2>6 DEF ArraysOK, Phase
  <2>8. QED
    BY <1>0, <2>4, <2>5, <2>6, <2>7 DEF GroupOK, ArraysOK
<1>2. CASE FinishCompletions(r)
  <2> DEFINE n     == Len(Chain(r))
             alone == \A q \in Requests \ {r} : Phase(q) # "completing"
  <2>1. calls' \in Seq(Call) /\ next' \in Nat \ {0}
    BY <1>0, <1>2 DEF FinishCompletions, ClearConfirm
  <2>2. Blank("finished") \in TaskState /\ Blank("finished").phase # "completing"
    BY BlankOK DEF Phases, Blank
  <2>3. /\ task' \in [Requests -> TaskState]
        /\ \A q \in Requests : task'[q] = IF q = r THEN Blank("finished") ELSE task[q]
    BY <1>0, <1>2, <2>2 DEF FinishCompletions
  <2>4. /\ current # 0 /\ ClearComplete(n, alone) /\ Phase(r) = "completing" /\ UNCHANGED ran
    BY <1>2 DEF FinishCompletions, LoopOver
  <2>5. /\ arrays \in Seq(Completions) /\ current \in 1..Len(arrays)
        /\ arrays[current] \in Seq(Requests \cup {NoRequest}) /\ n \in Nat
    <3>1. arrays \in Seq(Completions) /\ current \in 1..Len(arrays) /\ task[r].chain \in DOMAIN arrays
      BY <1>0, <2>4 DEF ArraysOK
    <3>2. Chain(r) \in Seq(Requests \cup {NoRequest})
      BY <3>1 DEF Chain, Completions
    <3>3. QED
      BY <3>1, <3>2 DEF Completions
  <2>6. opCall' \in [Operations -> Nat]
    BY <2>4 DEF ClearComplete
  <2> HIDE DEF n
  <2>7. CASE current' = 0 /\ alone /\ arrays' = <<>>
    <3>1. \A q \in Requests : Phase(q)' # "completing"
      BY <2>2, <2>3, <2>7 DEF Phase
    <3>2. arrays' \in Seq(Completions) /\ current' \in 0..Len(arrays')
      BY <2>7
    <3>3. QED
      BY <1>0, <2>1, <2>3, <2>4, <2>6, <3>1, <3>2 DEF GroupOK, ArraysOK
  <2>8. CASE DOMAIN arrays \subseteq DOMAIN arrays' /\ arrays' \in Seq(Completions)
             /\ current' \in 0..Len(arrays')
    <3>1. \A q \in Requests : Phase(q)' = "completing" =>
             task'[q].chain \in DOMAIN arrays' /\ task'[q].pos \in Nat \ {0}
      BY <1>0, <2>2, <2>3, <2>8 DEF ArraysOK, Phase
    <3>2. QED
      BY <1>0, <2>1, <2>3, <2>4, <2>6, <2>8, <3>1 DEF GroupOK, ArraysOK
  <2>9. CASE current' = 0 /\ UNCHANGED arrays
    BY <2>5, <2>8, <2>9
  <2>10. CASE current' = Len(arrays) + 1
              /\ arrays' = Append(arrays, SubSeq(arrays[current], n + 1, Len(arrays[current])))
    <3>1. SubSeq(arrays[current], n + 1, Len(arrays[current])) \in Completions
      BY <2>5 DEF Completions
    <3>2. QED
      BY <2>5, <2>8, <2>10, <3>1
  <2>11. QED
    BY <2>4, <2>7, <2>9, <2>10 DEF ClearComplete
<1>3. CASE Throw(r)
  <2>1. \A q \in Requests : (task'[q] = task[q] /\ Phase(q) # "completing") \/ task'[q] = Blank("aborted")
    BY <1>3 DEF Throw
  <2>2. Blank("aborted") \in TaskState /\ Blank("aborted").phase # "completing"
    BY BlankOK DEF Phases, Blank
  <2>3. task' \in [Requests -> TaskState]
    BY <1>0, <1>3, <2>2 DEF Throw
  <2>4. \A q \in Requests : Phase(q)' # "completing"
    BY <2>1, <2>2 DEF Phase
  <2>5. QED
    BY <1>0, <1>3, <2>3, <2>4 DEF Throw, GroupOK, ArraysOK
<1>4. QED
  BY <1>1, <1>2, <1>3 DEF Complete

LEMMA OpenStep ==
    ASSUME Placed, ConfirmerNext
    PROVE  OpenKept'
<1>0. calls \in Seq(Call) /\ task \in [Requests -> TaskState]
  BY DEF Placed, GroupOK
<1> DEFINE Queued(q) == [req |-> q, result |-> "null", cancelled |-> FALSE]
           Good(q) == Open(q)' => /\ task'[q].at \in DOMAIN calls'
                                  /\ calls'[task'[q].at] = Queued(q)
<1>1. ASSUME \A q \in Requests : Good(q)
      PROVE  OpenKept'
  BY <1>1 DEF OpenKept, At
<1>2. ASSUME NEW q \in Requests, task'[q] = task[q], Open(q) => At(q) \in DOMAIN calls',
             Open(q) => calls'[At(q)] = calls[At(q)]
      PROVE  Good(q)
  BY <1>2 DEF Placed, OpenKept, Open, Phase, At
<1> HIDE DEF Good, Queued
<1>3. ASSUME NEW r \in Requests, Request(r)
      PROVE  OpenKept'
  <2>1. /\ calls' = Append(calls, Queued(r))
        /\ task' = [task EXCEPT ![r].phase = "queued", ![r].at = Len(calls) + 1]
    BY <1>3 DEF Request, Queued
  <2>2. /\ DOMAIN calls \subseteq DOMAIN calls' /\ \A i \in DOMAIN calls : calls'[i] = calls[i]
        /\ Len(calls) + 1 \in DOMAIN calls' /\ calls'[Len(calls) + 1] = Queued(r)
    <3>1. Queued(r) \in Call
      BY DEF Queued, Call, Results
    <3>2. QED
      BY <1>0, <2>1, <3>1
  <2>3. task'[r].at = Len(calls) + 1 /\ \A q \in Requests \ {r} : task'[q] = task[q]
    <3>1. task'[r] = [task[r] EXCEPT !.phase = "queued", !.at = Len(calls) + 1]
      BY <1>0, <2>1
    <3>2. task[r] \in TaskState
      BY <1>0
    <3>3. QED
      BY <1>0, <2>1, <3>1, <3>2 DEF TaskState
  <2>4. \A q \in Requests : Open(q) => At(q) \in DOMAIN calls' /\ calls'[At(q)] = calls[At(q)]
    BY <2>2, CallKept
  <2>5. QED
    BY <1>1, <1>2, <2>2, <2>3, <2>4 DEF Good
<1>4. ASSUME NEW r \in Requests, NEW call, Open(r), calls' = [calls EXCEPT ![At(r)] = call],
             ~Open(r)', \A q \in Requests \ {r} : task'[q] = task[q]
      PROVE  OpenKept'
  <2>1. /\ DOMAIN calls' = DOMAIN calls
        /\ \A i \in DOMAIN calls \ {At(r)} : calls'[i] = calls[i]
    BY <1>0, <1>4
  <2>2. \A q \in Requests \ {r} :
           Open(q) => At(q) \in DOMAIN calls' /\ calls'[At(q)] = calls[At(q)]
    BY <1>4, <2>1, CallKept, PlacesDiffer
  <2>3. QED
    BY <1>1, <1>2, <1>4, <2>2 DEF Good
<1>5. ASSUME NEW r \in Requests, Squash(r)
      PROVE  OpenKept'
  <2>1. Open(r) /\ calls' = [calls EXCEPT ![At(r)] = [calls[At(r)] EXCEPT !.cancelled = TRUE]]
    BY <1>5 DEF Squash, HasTurn, Open
  <2>2. task' = [task EXCEPT ![r] = Blank("squashed")]
    BY <1>5 DEF Squash
  <2>3. ~Open(r)' /\ \A q \in Requests \ {r} : task'[q] = task[q]
    BY <1>0, <2>2 DEF Open, Phase, Blank
  <2>4. QED
    BY <1>4, <2>1, <2>3
<1>6. ASSUME NEW r \in Requests, UNCHANGED calls, NEW phase \in {"ready", "calling"}, NEW prev,
             Open(r), task' = [task EXCEPT ![r].phase = phase, ![r].prev = prev]
      PROVE  OpenKept'
  <2>1. task'[r].at = task[r].at /\ \A q \in Requests \ {r} : task'[q] = task[q]
    <3>1. task'[r] = [task[r] EXCEPT !.phase = phase, !.prev = prev] /\ task[r] \in TaskState
      BY <1>0, <1>6
    <3>2. QED
      BY <1>0, <1>6, <3>1 DEF TaskState
  <2>2. Good(r)
    BY <1>6, <2>1 DEF Good, Placed, OpenKept, At, Queued
  <2>3. \A q \in Requests : Open(q) => At(q) \in DOMAIN calls' /\ calls'[At(q)] = calls[At(q)]
    BY <1>6, CallKept
  <2>4. QED
    BY <1>1, <1>2, <2>1, <2>2, <2>3
<1>7. ASSUME NEW r \in Requests, StartParallel(r) \/ AwaitPrevious(r) \/ Start(r)
      PROVE  OpenKept'
  <2>1. Open(r) /\ UNCHANGED calls
    BY <1>7 DEF StartParallel, AwaitPrevious, Start, HasTurn, Open
  <2>2. CASE StartParallel(r) \/ Start(r)
    BY <1>6, <2>1, <2>2 DEF StartParallel, Start
  <2>3. CASE AwaitPrevious(r)
    <3>1. task' = [task EXCEPT ![r].phase = "ready"]
      BY <2>3 DEF AwaitPrevious
    <3>2. task' = [task EXCEPT ![r].phase = "ready", ![r].prev = task[r].prev]
      BY <1>0, <3>1 DEF TaskState
    <3>3. QED
      BY <1>6, <2>1, <3>2
  <2>4. QED
    BY <1>7, <2>2, <2>3
<1>8. ASSUME NEW r \in Requests, NEW result \in Outcomes[r], Settle(r, result)
      PROVE  OpenKept'
  <2>1. Open(r) /\ calls' = [calls EXCEPT ![At(r)] = [calls[At(r)] EXCEPT !.result = result]]
    BY <1>8 DEF Settle, Open
  <2>2. \/ task' = [task EXCEPT ![r] = Blank("finished")]
        \/ task' = [task EXCEPT ![r].phase = "completing", ![r].chain = current', ![r].pos = 1]
    BY <1>8 DEF Settle
  <2>3. \A q \in Requests \ {r} : task'[q] = task[q]
    BY <1>0, <2>2
  <2>4. ~Open(r)'
    <3>1. CASE task' = [task EXCEPT ![r] = Blank("finished")]
      BY <1>0, <3>1 DEF Open, Phase, Blank
    <3>2. CASE task' = [task EXCEPT ![r].phase = "completing", ![r].chain = current', ![r].pos = 1]
      <4>1. task'[r] = [task[r] EXCEPT !.phase = "completing", !.chain = current', !.pos = 1]
            /\ task[r] \in TaskState
        BY <1>0, <3>2
      <4>2. task'[r].phase = "completing"
        BY <4>1 DEF TaskState
      <4>3. QED
        BY <4>2 DEF Open, Phase
    <3>3. QED
      BY <2>2, <3>1, <3>2
  <2>5. QED
    BY <1>4, <2>1, <2>3, <2>4
<1>9. ASSUME NEW r \in Requests, RunCompletion(r)
      PROVE  OpenKept'
  <2>1. /\ task'[r].phase = "completing" /\ UNCHANGED calls
        /\ \A q \in Requests \ {r} : task'[q] = task[q]
    <3>1. task' = [task EXCEPT ![r].pos = @ + 1] /\ Phase(r) = "completing" /\ UNCHANGED calls
      BY <1>9 DEF RunCompletion
    <3>2. task'[r] = [task[r] EXCEPT !.pos = @ + 1] /\ task[r] \in TaskState
      BY <1>0, <3>1
    <3>3. QED
      BY <1>0, <3>1, <3>2 DEF TaskState, Phase
  <2>2. ~Open(r)'
    BY <2>1 DEF Open, Phase
  <2>3. \A q \in Requests : Open(q) => At(q) \in DOMAIN calls' /\ calls'[At(q)] = calls[At(q)]
    BY <2>1, CallKept
  <2>4. QED
    BY <1>1, <1>2, <2>1, <2>2, <2>3 DEF Good
<1>10. ASSUME NEW r \in Requests, FinishCompletions(r)
       PROVE  OpenKept'
  <2>1. /\ task' = [task EXCEPT ![r] = Blank("finished")]
        /\ calls' = IF IsDone(calls) THEN <<>> ELSE calls
    BY <1>10 DEF FinishCompletions, ClearConfirm
  <2>2. ~Open(r)' /\ \A q \in Requests \ {r} : task'[q] = task[q]
    BY <1>0, <2>1 DEF Open, Phase, Blank
  <2>3. (\E q \in Requests : Open(q)) => UNCHANGED calls
    BY <2>1, CallKept DEF IsDone, Settled
  <2>4. \A q \in Requests : Open(q) => At(q) \in DOMAIN calls' /\ calls'[At(q)] = calls[At(q)]
    BY <2>3, CallKept
  <2>5. QED
    BY <1>1, <1>2, <2>2, <2>4 DEF Good
<1>11. ASSUME NEW r \in Requests, Throw(r)
       PROVE  OpenKept'
  <2>1. \A q \in Requests : ~Open(q)'
    BY <1>0, <1>11 DEF Throw, Open, Phase, Blank
  <2>2. QED
    BY <1>1, <2>1 DEF Good
<1>12. QED
  BY <1>3, <1>5, <1>7, <1>8, <1>9, <1>10, <1>11 DEF ConfirmerNext, Turn, Complete

LEMMA PlacedInit == ConfirmerInit => Placed
<1> SUFFICES ASSUME ConfirmerInit PROVE Placed
  OBVIOUS
<1>1. calls = <<>> /\ next = 1 /\ arrays = <<>> /\ current = 0
      /\ opCall = [o \in Operations |-> 0] /\ task = [r \in Requests |-> Blank("idle")]
      /\ ran = [r \in Requests |-> 0]
  BY DEF ConfirmerInit
<1>2. Blank("idle") \in TaskState /\ Blank("idle").phase = "idle"
  BY BlankOK DEF Phases, Blank
<1>3. task \in [Requests -> TaskState] /\ \A r \in Requests : Phase(r) = "idle"
  BY <1>1, <1>2 DEF Phase
<1>4. ArraysOK
  BY <1>1, <1>3 DEF ArraysOK
<1>5. QED
  BY <1>1, <1>3, <1>4 DEF Placed, GroupOK, OpenKept, Open

LEMMA PlacedStep == Placed /\ [ConfirmerNext]_vars => Placed'
<1>1. CASE UNCHANGED vars
  BY <1>1 DEF vars, Placed, GroupOK, ArraysOK, OpenKept, Open, Phase, At
<1>2. ASSUME Placed, ConfirmerNext PROVE Placed'
  <2>1. GroupOK'
    BY <1>2, JoinGroup, SettleGroup, CompleteGroup DEF ConfirmerNext, Turn
  <2>2. QED
    BY <1>2, <2>1, OpenStep DEF Placed
<1>3. QED
  BY <1>1, <1>2

\* A request that is open is in its place in the group: the group is never
\* cleared under it.
THEOREM RequestsKept == ConfirmerSpec => []OpenKept
<1>1. Placed => OpenKept
  BY DEF Placed
<1>2. QED
  BY <1>1, PlacedInit, PlacedStep, PTL DEF ConfirmerSpec

-----------------------------------------------------------------------------
(* Turns.                                                                  *)

\* What r may be made with: the calls before it have settled or run with it,
\* and it has the result of the last one that was not squashed.
Clear(r) ==
    \A i \in 1..(At(r) - 1) :
        Settled(calls[i]) \/ ({r, calls[i].req} \subseteq Parallelizable
                              /\ SameOperation(r, calls[i].req))
UsesPrevious(r) ==
    \/ task[r].prev = NoRequest /\ \A i \in 1..(At(r) - 1) : calls[i].cancelled
    \/ \E i \in 1..(At(r) - 1) :
          /\ calls[i].req = task[r].prev /\ ~calls[i].cancelled
          /\ \A j \in (i + 1)..(At(r) - 1) : calls[j].cancelled

Fired(r) ==
    /\ Phase(r) \in {"ready", "calling"} => Clear(r)
    /\ Phase(r) = "ready" => r \notin Parallelizable
    /\ Phase(r) = "calling" => r \in Parallelizable \/ UsesPrevious(r)

\* Only calls whose turn has passed are squashed.
Covered(cs, n) ==
    \A i \in DOMAIN cs :
        cs[i].cancelled =>
            /\ i < n
            /\ \E j \in DOMAIN cs : /\ j > i /\ ~cs[j].cancelled
                                    /\ SameOperation(cs[i].req, cs[j].req)

Turns == (\A r \in Requests : Fired(r)) /\ Covered(calls, next)

LEMMA TurnsGood == Placed /\ Turns => FiredInOrder /\ SquashedCovered
<1> SUFFICES ASSUME Placed, Turns PROVE FiredInOrder /\ SquashedCovered
  OBVIOUS
<1>1. SquashedCovered
  BY DEF Turns, Covered, SquashedCovered
<1>2. ASSUME NEW r \in Requests, Phase(r) = "calling"
      PROVE  /\ \A i \in 1..(At(r) - 1) : calls[i].result = "null" /\ ~calls[i].cancelled =>
                   {r, calls[i].req} \subseteq Parallelizable /\ SameOperation(r, calls[i].req)
             /\ r \notin Parallelizable =>
                  \/ task[r].prev = NoRequest /\ \A i \in 1..(At(r) - 1) : calls[i].cancelled
                  \/ \E i \in 1..(At(r) - 1) :
                        /\ calls[i].req = task[r].prev /\ ~calls[i].cancelled
                        /\ \A j \in (i + 1)..(At(r) - 1) : calls[j].cancelled
  BY <1>2 DEF Turns, Fired, Clear, UsesPrevious, Settled
<1>3. QED
  BY <1>1, <1>2 DEF FiredInOrder

\* What a call is to those after it.
Stays(i) ==
    /\ calls'[i].req = calls[i].req /\ calls'[i].cancelled = calls[i].cancelled
    /\ Settled(calls[i]) => Settled(calls'[i])

LEMMA FiredKept ==
    ASSUME NEW r \in Requests, Fired(r), task'[r] = task[r],
           Phase(r) \in {"ready", "calling"} => \A i \in 1..(At(r) - 1) : Stays(i)
    PROVE  Fired(r)'
<1>1. At(r)' = At(r) /\ Phase(r)' = Phase(r)
  BY DEF At, Phase
<1>2. CASE Phase(r) \notin {"ready", "calling"}
  BY <1>1, <1>2 DEF Fired
<1>3. CASE Phase(r) \in {"ready", "calling"}
  <2>1. \A i \in 1..(At(r) - 1) : /\ calls'[i].req = calls[i].req
                                  /\ calls'[i].cancelled = calls[i].cancelled
                                  /\ Settled(calls[i]) => Settled(calls'[i])
    BY <1>3 DEF Stays
  <2>2. Clear(r) => Clear(r)'
    BY <1>1, <2>1 DEF Clear, SameOperation, Settled
  <2>3. UsesPrevious(r) => UsesPrevious(r)'
    <3>1. task'[r].prev = task[r].prev
      OBVIOUS
    <3>2. ASSUME NEW i \in 1..(At(r) - 1), calls[i].req = task[r].prev, ~calls[i].cancelled,
                 \A j \in (i + 1)..(At(r) - 1) : calls[j].cancelled
          PROVE  UsesPrevious(r)'
      <4>1. \A j \in (i + 1)..(At(r) - 1) : j \in 1..(At(r) - 1)
        OBVIOUS
      <4>2. QED
        BY <1>1, <2>1, <3>1, <3>2, <4>1 DEF UsesPrevious
    <3>3. QED
      BY <1>1, <2>1, <3>1, <3>2 DEF UsesPrevious
  <2>4. QED
    BY <1>1, <1>3, <2>2, <2>3 DEF Fired
<1>4. QED
  BY <1>2, <1>3

\* The calls change, and one task.
LEMMA OthersFired ==
    ASSUME Placed, Turns, NEW r \in Requests, \A q \in Requests \ {r} : task'[q] = task[q],
           \A i \in DOMAIN calls : Stays(i), Fired(r)'
    PROVE  \A q \in Requests : Fired(q)'
<1>1. ASSUME NEW q \in Requests, Phase(q) \in {"ready", "calling"}
      PROVE  \A i \in 1..(At(q) - 1) : i \in DOMAIN calls
  <2>1. At(q) \in Nat /\ At(q) <= Len(calls)
    BY <1>1, CallKept DEF Open
  <2>2. DOMAIN calls = 1..Len(calls) /\ Len(calls) \in Nat
    BY DEF Placed, GroupOK
  <2>3. QED
    BY <2>1, <2>2
<1>2. \A q \in Requests \ {r} : Fired(q)'
  BY <1>1, FiredKept DEF Turns
<1>3. QED
  BY <1>2

LEMMA CoveredKept ==
    ASSUME NEW cs, NEW n \in Int, Covered(cs, n), NEW after, NEW m \in Int, n <= m,
           DOMAIN cs \subseteq DOMAIN after, DOMAIN cs \subseteq Int,
           \A i \in DOMAIN cs : after[i].req = cs[i].req /\ after[i].cancelled = cs[i].cancelled,
           \A i \in DOMAIN after \ DOMAIN cs : ~after[i].cancelled
    PROVE  Covered(after, m)
<1> SUFFICES ASSUME NEW i \in DOMAIN after, after[i].cancelled
             PROVE  /\ i < m
                    /\ \E j \in DOMAIN after : /\ j > i /\ ~after[j].cancelled
                                               /\ SameOperation(after[i].req, after[j].req)
  BY DEF Covered
<1>1. i \in DOMAIN cs /\ cs[i].cancelled
  OBVIOUS
<1>2. /\ i < n
      /\ \E j \in DOMAIN cs : /\ j > i /\ ~cs[j].cancelled
                              /\ SameOperation(cs[i].req, cs[j].req)
  BY <1>1 DEF Covered
<1>3. i \in Int
  BY <1>1
<1>4. QED
  BY <1>1, <1>2, <1>3 DEF SameOperation

LEMMA SquashCovers ==
    ASSUME Placed, Turns, NEW r \in Requests, Squash(r)
    PROVE  Covered(calls', next')
<1>1. /\ calls' = [calls EXCEPT ![At(r)] = [calls[At(r)] EXCEPT !.cancelled = TRUE]]
      /\ next' = next + 1 /\ next = At(r) /\ ShouldCancel
  BY DEF Squash, HasTurn
<1>2. /\ calls \in Seq(Call) /\ DOMAIN calls = 1..Len(calls) /\ Len(calls) \in Nat
      /\ next \in DOMAIN calls /\ next \in Nat /\ calls[next] \in Call
      /\ DOMAIN calls' = DOMAIN calls
      /\ \A i \in DOMAIN calls : calls[i] \in Call
  <2>1. Open(r)
    BY DEF Squash, HasTurn, Open
  <2>2. calls \in Seq(Call)
    BY DEF Placed, GroupOK
  <2>3. At(r) \in DOMAIN calls /\ At(r) \in Nat /\ calls[At(r)] \in Call
    BY <2>1, CallKept
  <2>4. QED
    BY <1>1, <2>2, <2>3
<1>3. /\ next + 1 \in DOMAIN calls
      /\ SameOperation(calls[next].req, calls[next + 1].req)
  BY <1>1, <1>2 DEF ShouldCancel
<1>4. /\ \A i \in DOMAIN calls \ {next} : calls'[i] = calls[i]
      /\ calls'[next].req = calls[next].req
  <2>1. calls'[next] = [calls[next] EXCEPT !.cancelled = TRUE]
    BY <1>1, <1>2
  <2>2. calls'[next].req = calls[next].req
    BY <1>2, <2>1 DEF Call
  <2>3. QED
    BY <1>1, <1>2, <2>2
<1>5. ~calls[next + 1].cancelled
  BY <1>2, <1>3 DEF Turns, Covered
<1> SUFFICES ASSUME NEW i \in DOMAIN calls', calls'[i].cancelled
             PROVE  /\ i < next'
                    /\ \E j \in DOMAIN calls' : /\ j > i /\ ~calls'[j].cancelled
                                                /\ SameOperation(calls'[i].req, calls'[j].req)
  BY DEF Covered
<1>6. i \in Nat
  BY <1>2
<1>7. CASE i = next
  BY <1>1, <1>2, <1>3, <1>4, <1>5, <1>7
<1>8. CASE i # next
  <2>1. i < next /\ \E j \in DOMAIN calls : /\ j > i /\ ~calls[j].cancelled
                                            /\ SameOperation(calls[i].req, calls[j].req)
    BY <1>2, <1>4, <1>8 DEF Turns, Covered
  <2>2. PICK j \in DOMAIN calls : /\ j > i /\ ~calls[j].cancelled
                                  /\ SameOperation(calls[i].req, calls[j].req)
    BY <2>1
  <2>3. CASE j # next
    BY <1>1, <1>2, <1>4, <1>6, <1>8, <2>1, <2>2, <2>3
  <2>4. CASE j = next
    <3>1. next + 1 > i /\ i < next'
      BY <1>1, <1>2, <1>6, <2>1
    <3>2. SameOperation(calls[i].req, calls[next + 1].req)
      BY <1>3, <2>2, <2>4 DEF SameOperation
    <3>3. calls'[next + 1] = calls[next + 1] /\ calls'[i] = calls[i]
      BY <1>2, <1>3, <1>4, <1>8
    <3>4. QED
      BY <1>2, <1>3, <1>5, <3>1, <3>2, <3>3
  <2>5. QED
    BY <2>3, <2>4
<1>9. QED
  BY <1>7, <1>8

LEMMA CallsTyped ==
    ASSUME Placed
    PROVE  /\ calls \in Seq(Call) /\ DOMAIN calls = 1..Len(calls) /\ Len(calls) \in Nat
           /\ \A i \in DOMAIN calls : calls[i] \in Call
           /\ next \in Nat \ {0} /\ task \in [Requests -> TaskState]
BY DEF Placed, GroupOK

LEMMA SameCallsTurns ==
    ASSUME Placed, Turns, UNCHANGED calls, next' = next \/ next' = next + 1,
           NEW r \in Requests, \A q \in Requests \ {r} : task'[q] = task[q], Fired(r)'
    PROVE  Turns'
<1>1. \A i \in DOMAIN calls : Stays(i)
  BY DEF Stays, Settled
<1>2. \A q \in Requests : Fired(q)'
  BY <1>1, OthersFired
<1>3. Covered(calls', next')
  <2>1. /\ next \in Int /\ next' \in Int /\ next <= next' /\ DOMAIN calls \subseteq Int
        /\ Covered(calls, next)
    BY CallsTyped DEF Turns
  <2>2. QED
    BY <2>1, CoveredKept
<1>4. QED
  BY <1>2, <1>3 DEF Turns

\* The phase of r changes, and what it has of the previous call.
Rephases(r, phase, prev) == task' = [task EXCEPT ![r].phase = phase, ![r].prev = prev]

LEMMA Rephased ==
    ASSUME Placed, NEW r \in Requests, NEW phase, NEW prev, Rephases(r, phase, prev)
    PROVE  /\ task'[r].phase = phase /\ task'[r].prev = prev /\ task'[r].at = task[r].at
           /\ \A q \in Requests \ {r} : task'[q] = task[q]
<1>1. task'[r] = [task[r] EXCEPT !.phase = phase, !.prev = prev] /\ task[r] \in TaskState
  BY CallsTyped DEF Rephases
<1>2. QED
  BY <1>1, CallsTyped DEF TaskState, Rephases

LEMMA StartTurns ==
    ASSUME Placed, Turns, NEW r \in Requests, StartParallel(r) \/ AwaitPrevious(r) \/ Start(r)
    PROVE  Turns'
<1>0. UNCHANGED calls /\ (next' = next \/ next' = next + 1)
  BY DEF StartParallel, AwaitPrevious, Start
<1>1. ASSUME NEW phase, NEW prev, task'[r].phase = phase, task'[r].prev = prev,
             task'[r].at = task[r].at, \A q \in Requests \ {r} : task'[q] = task[q],
             phase \in {"ready", "calling"}, Clear(r), phase = "ready" => r \notin Parallelizable,
             phase = "calling" => r \in Parallelizable \/ UsesPrevious(r)'
      PROVE  Turns'
  <2>1. Clear(r)'
    BY <1>0, <1>1 DEF Clear, At, Settled
  <2>2. Fired(r)'
    BY <1>1, <2>1 DEF Fired, Phase
  <2>3. QED
    BY <1>0, <1>1, <2>2, SameCallsTurns
<1>2. CASE StartParallel(r)
  <2> DEFINE prev == ReqAt(Latest({i \in DOMAIN calls : calls[i].result # "null"}))
  <2>1. Rephases(r, "calling", prev) /\ r \in Parallelizable
    BY <1>2 DEF StartParallel, Rephases
  <2>2. Clear(r)
    BY <1>2 DEF StartParallel, HasTurn, RequisitesComplete, Clear
  <2> HIDE DEF prev
  <2>3. QED
    BY <1>1, <2>1, <2>2, Rephased
<1>3. CASE AwaitPrevious(r)
  <2>1. Rephases(r, "ready", task[r].prev) /\ r \notin Parallelizable
    <3>1. task' = [task EXCEPT ![r].phase = "ready"] /\ r \notin Parallelizable
      BY <1>3 DEF AwaitPrevious
    <3>2. QED
      BY <3>1, CallsTyped DEF TaskState, Rephases
  <2>2. Clear(r)
    BY <1>3 DEF AwaitPrevious, HasTurn, RequisitesComplete, Clear
  <2>3. QED
    BY <1>1, <2>1, <2>2, Rephased
<1>4. CASE Start(r)
  <2> DEFINE is == {i \in 1..(At(r) - 1) : ~calls[i].cancelled}
  <2>1. Rephases(r, "calling", ReqAt(Previous(r))) /\ Phase(r) = "ready"
    BY <1>4 DEF Start, Rephases
  <2>2. Clear(r) /\ r \notin Parallelizable
    BY <2>1 DEF Turns, Fired
  <2>3. At(r) - 1 \in Nat /\ is \in SUBSET (1..(At(r) - 1))
    <3>1. At(r) \in Nat \ {0}
      BY <2>1, CallKept DEF Open
    <3>2. QED
      BY <3>1
  <2>4. /\ is = {} => Previous(r) = 0
        /\ is # {} => Previous(r) \in is /\ \A j \in is : j <= Previous(r)
    BY <2>3, LatestIs DEF Previous
  <2>5. At(r)' = At(r) /\ task'[r].prev = ReqAt(Previous(r))
    <3>1. task'[r].at = task[r].at /\ task'[r].prev = ReqAt(Previous(r))
      BY <2>1, Rephased
    <3>2. QED
      BY <3>1 DEF At
  <2>6. UsesPrevious(r)'
    <3>1. CASE is = {}
      <4>1. ReqAt(Previous(r)) = NoRequest
        BY <2>4, <3>1 DEF ReqAt
      <4>2. QED
        BY <1>0, <2>5, <3>1, <4>1 DEF UsesPrevious
    <3>2. CASE is # {}
      <4> DEFINE i == Previous(r)
      <4>1. i \in 1..(At(r) - 1) /\ ~calls[i].cancelled /\ \A j \in is : j <= i
        BY <2>4, <3>2
      <4>2. ReqAt(i) = calls[i].req
        BY <4>1 DEF ReqAt
      <4> HIDE DEF i
      <4>3. \A j \in (i + 1)..(At(r) - 1) : calls[j].cancelled
        <5> TAKE j \in (i + 1)..(At(r) - 1)
        <5>1. j \in 1..(At(r) - 1) /\ ~(j <= i)
          BY <2>3, <4>1
        <5>2. QED
          BY <4>1, <5>1
      <4>4. calls[i].req = task'[r].prev
        BY <2>5, <4>2 DEF i
      <4>5. QED
        BY <1>0, <2>5, <4>1, <4>3, <4>4 DEF UsesPrevious
    <3>3. QED
      BY <3>1, <3>2
  <2>7. QED
    BY <1>1, <2>1, <2>2, <2>6, Rephased
<1>5. QED
  BY <1>2, <1>3, <1>4

LEMMA SquashTurns ==
    ASSUME Placed, Turns, NEW r \in Requests, Squash(r)
    PROVE  Turns'
<1>1. /\ calls' = [calls EXCEPT ![At(r)] = [calls[At(r)] EXCEPT !.cancelled = TRUE]]
      /\ next = At(r) /\ ShouldCancel /\ Phase(r) = "queued"
      /\ task' = [task EXCEPT ![r] = Blank("squashed")]
  BY DEF Squash, HasTurn
<1>2. Open(r)
  BY <1>1 DEF Open
<1>3. /\ At(r) \in DOMAIN calls /\ calls[At(r)].req = r /\ ~Settled(calls[At(r)])
      /\ r \notin Parallelizable
  BY <1>1, <1>2, CallKept, ConfirmerAssumption DEF Settled, ShouldCancel
<1>4. \A i \in DOMAIN calls \ {At(r)} : Stays(i)
  BY <1>1, CallsTyped DEF Stays
<1>5. ASSUME NEW q \in Requests \ {r}
      PROVE  Fired(q)'
  <2>1. task'[q] = task[q]
    BY <1>1, CallsTyped
  <2>2. ASSUME Phase(q) \in {"ready", "calling"}
        PROVE  \A i \in 1..(At(q) - 1) : Stays(i)
    <3>1. Clear(q) /\ Open(q)
      BY <2>2 DEF Turns, Fired, Open
    <3>2. At(q) \in Nat /\ At(q) <= Len(calls)
      BY <3>1, CallKept
    <3>3. \A i \in 1..(At(q) - 1) : i \in DOMAIN calls /\ i # At(r)
      BY <1>3, <3>1, <3>2, CallsTyped DEF Clear
    <3>4. QED
      BY <1>4, <3>3
  <2>3. QED
    BY <2>1, <2>2, FiredKept DEF Turns
<1>6. Fired(r)'
  BY <1>1, CallsTyped DEF Fired, Phase, Blank
<1>7. QED
  BY <1>5, <1>6, SquashCovers DEF Turns

LEMMA TurnsStep ==
    ASSUME Placed, Turns, [ConfirmerNext]_vars
    PROVE  Turns'
<1>1. ASSUME NEW r \in Requests, Request(r)
      PROVE  Turns'
  <2> DEFINE call == [req |-> r, result |-> "null", cancelled |-> FALSE]
  <2>1. /\ calls' = Append(calls, call) /\ UNCHANGED next
        /\ task' = [task EXCEPT ![r].phase = "queued", ![r].at = Len(calls) + 1]
    BY <1>1 DEF Request
  <2>2. call \in Call /\ ~call.cancelled
    BY DEF Call, Results
  <2> HIDE DEF call
  <2>3. /\ DOMAIN calls' = DOMAIN calls \cup {Len(calls) + 1}
        /\ \A i \in DOMAIN calls : calls'[i] = calls[i]
        /\ calls'[Len(calls) + 1] = call
    BY <2>1, <2>2, CallsTyped
  <2>4. \A i \in DOMAIN calls : Stays(i)
    BY <2>3 DEF Stays
  <2>5. /\ task'[r].phase = "queued" /\ \A q \in Requests \ {r} : task'[q] = task[q]
    <3>1. task'[r] = [task[r] EXCEPT !.phase = "queued", !.at = Len(calls) + 1]
          /\ task[r] \in TaskState
      BY <2>1, CallsTyped
    <3>2. QED
      BY <2>1, <3>1, CallsTyped DEF TaskState
  <2>6. Fired(r)'
    BY <2>5 DEF Fired, Phase
  <2>7. \A q \in Requests : Fired(q)'
    BY <2>4, <2>5, <2>6, OthersFired
  <2>8. Covered(calls', next')
    <3>1. /\ next \in Int /\ next' \in Int /\ next <= next' /\ DOMAIN calls \subseteq Int
          /\ Covered(calls, next) /\ DOMAIN calls \subseteq DOMAIN calls'
          /\ \A i \in DOMAIN calls' \ DOMAIN calls : ~calls'[i].cancelled
      BY <2>1, <2>2, <2>3, CallsTyped DEF Turns
    <3>2. QED
      BY <2>3, <3>1, CoveredKept
  <2>9. QED
    BY <2>7, <2>8 DEF Turns
<1>2. ASSUME NEW r \in Requests, NEW result \in Outcomes[r], Settle(r, result)
      PROVE  Turns'
  <2>1. /\ calls' = [calls EXCEPT ![At(r)] = [calls[At(r)] EXCEPT !.result = result]]
        /\ next' = next \/ next' = next + 1
        /\ Open(r)
    BY <1>2 DEF Settle, Open
  <2>2. At(r) \in DOMAIN calls /\ calls[At(r)].cancelled = FALSE /\ ~Settled(calls[At(r)])
    BY <2>1, CallKept DEF Settled
  <2>3. /\ DOMAIN calls' = DOMAIN calls
        /\ \A i \in DOMAIN calls : Stays(i)
    <3>1. /\ DOMAIN calls' = DOMAIN calls
          /\ \A i \in DOMAIN calls \ {At(r)} : calls'[i] = calls[i]
          /\ calls'[At(r)] = [calls[At(r)] EXCEPT !.result = result]
      BY <2>1, <2>2, CallsTyped
    <3>2. /\ calls'[At(r)].req = calls[At(r)].req
          /\ calls'[At(r)].cancelled = calls[At(r)].cancelled
      BY <2>2, <3>1, CallsTyped DEF Call
    <3>3. QED
      BY <2>2, <3>1, <3>2 DEF Stays
  <2>4. /\ task'[r].phase \in {"finished", "completing"}
        /\ \A q \in Requests \ {r} : task'[q] = task[q]
    <3>1. CASE task' = [task EXCEPT ![r] = Blank("finished")]
      BY <3>1, CallsTyped DEF Blank
    <3>2. CASE task' = [task EXCEPT ![r].phase = "completing", ![r].chain = current', ![r].pos = 1]
      <4>1. task'[r] = [task[r] EXCEPT !.phase = "completing", !.chain = current', !.pos = 1]
            /\ task[r] \in TaskState
        BY <3>2, CallsTyped
      <4>2. QED
        BY <3>2, <4>1, CallsTyped DEF TaskState
    <3>3. QED
      BY <1>2, <3>1, <3>2 DEF Settle
  <2>5. Fired(r)'
    BY <2>4 DEF Fired, Phase
  <2>6. \A q \in Requests : Fired(q)'
    BY <2>3, <2>4, <2>5, OthersFired
  <2>7. Covered(calls', next')
    <3>1. /\ next \in Int /\ next' \in Int /\ next <= next' /\ DOMAIN calls \subseteq Int
          /\ Covered(calls, next)
      BY <2>1, CallsTyped DEF Turns
    <3>2. QED
      BY <2>3, <3>1, CoveredKept DEF Stays
  <2>8. QED
    BY <2>6, <2>7 DEF Turns
<1>3. ASSUME NEW r \in Requests, RunCompletion(r)
      PROVE  Turns'
  <2>1. /\ task'[r].phase = "completing" /\ UNCHANGED <<calls, next>>
        /\ \A q \in Requests \ {r} : task'[q] = task[q]
    <3>1. task' = [task EXCEPT ![r].pos = @ + 1] /\ Phase(r) = "completing"
          /\ UNCHANGED <<calls, next>>
      BY <1>3 DEF RunCompletion
    <3>2. task'[r] = [task[r] EXCEPT !.pos = @ + 1] /\ task[r] \in TaskState
      BY <3>1, CallsTyped
    <3>3. QED
      BY <3>1, <3>2, CallsTyped DEF TaskState, Phase
  <2>2. Fired(r)'
    BY <2>1 DEF Fired, Phase
  <2>3. QED
    BY <2>1, <2>2, SameCallsTurns
<1>4. ASSUME NEW r \in Requests, FinishCompletions(r)
      PROVE  Turns'
  <2>1. /\ task' = [task EXCEPT ![r] = Blank("finished")]
        /\ IF IsDone(calls) THEN calls' = <<>> /\ next' = 1 ELSE UNCHANGED <<calls, next>>
    BY <1>4 DEF FinishCompletions, ClearConfirm
  <2>2. /\ task'[r].phase = "finished" /\ \A q \in Requests \ {r} : task'[q] = task[q]
    BY <2>1, CallsTyped DEF Blank
  <2>3. Fired(r)'
    BY <2>2 DEF Fired, Phase
  <2>4. CASE ~IsDone(calls)
    BY <2>1, <2>2, <2>3, <2>4, SameCallsTurns
  <2>5. CASE IsDone(calls)
    <3>1. \A q \in Requests : ~Open(q)
      BY <2>5, CallKept DEF IsDone, Settled
    <3>2. \A q \in Requests \ {r} : Fired(q)'
      BY <2>2, <3>1 DEF Fired, Phase, Open
    <3>3. Covered(calls', next')
      BY <2>1, <2>5 DEF Covered
    <3>4. QED
      BY <2>3, <3>2, <3>3 DEF Turns
  <2>6. QED
    BY <2>4, <2>5
<1>5. ASSUME NEW r \in Requests, Throw(r)
      PROVE  Turns'
  <2>1. \A q \in Requests : Fired(q)'
    BY <1>5, CallsTyped DEF Throw, Fired, Phase, Blank
  <2>2. UNCHANGED <<calls, next>>
    BY <1>5 DEF Throw
  <2>3. QED
    BY <2>1, <2>2 DEF Turns
<1>6. CASE UNCHANGED vars
  BY <1>6 DEF vars, Turns, Fired, Phase, Clear, UsesPrevious, At, Settled, SameOperation
<1>7. QED
  BY <1>1, <1>2, <1>3, <1>4, <1>5, <1>6, StartTurns, SquashTurns DEF ConfirmerNext, Turn, Complete

LEMMA TurnsInit == ConfirmerInit => Turns
<1> SUFFICES ASSUME ConfirmerInit PROVE Turns
  OBVIOUS
<1>1. calls = <<>> /\ \A r \in Requests : task[r].phase = "idle"
  BY DEF ConfirmerInit, Blank
<1>2. QED
  BY <1>1 DEF Turns, Fired, Phase, Covered

LEMMA TurnsInvariant == ConfirmerSpec => [](Placed /\ Turns)
<1>1. Placed /\ Turns /\ [ConfirmerNext]_vars => (Placed /\ Turns)'
  BY PlacedStep, TurnsStep
<1>2. QED
  BY <1>1, PlacedInit, TurnsInit, PTL DEF ConfirmerSpec

\* A call is made when those before it have settled or may run with it, and
\* with the result of the last one before it that was not squashed.
THEOREM CallsFiredInOrder == ConfirmerSpec => []FiredInOrder
BY TurnsInvariant, TurnsGood, PTL

\* A call that was squashed is followed by one of its operation that was not.
THEOREM SquashedAreCovered == ConfirmerSpec => []SquashedCovered
BY TurnsInvariant, TurnsGood, PTL

-----------------------------------------------------------------------------
(* Completions.                                                            *)

Ended(r)  == Phase(r) \in {"finished", "completing"}
Listed(r) == \E k \in DOMAIN Array : Array[k] = r

\* The k-th completion of the array has been run.
Reached(k) == \E c \in Requests : Phase(c) = "completing" /\ task[c].pos > k

\* One task at a time runs completions, those of the array.
LoopOK ==
    /\ \A q, r \in Requests : Phase(q) = "completing" /\ Phase(r) = "completing" => q = r
    /\ \A r \in Requests : Phase(r) = "completing" =>
          current # 0 /\ task[r].chain = current /\ task[r].pos <= Len(Array) + 1
    /\ current # 0 => calls # <<>>

\* The array has the completions of calls that have ended, each once.
FiledOnce ==
    /\ \A k \in DOMAIN Array : Array[k] # NoRequest => Ended(Array[k])
    /\ \A k, m \in DOMAIN Array : Array[k] = Array[m] /\ Array[k] # NoRequest => k = m

\* Where the last success of an operation is, there is one.
LatestOK ==
    \A o \in Operations : opCall[o] # 0 =>
        /\ opCall[o] \in DOMAIN Array /\ Array[opCall[o]] \in OnlyLast \cap Requests
        /\ Operation[Array[opCall[o]]] = o

\* Completions in the array have been run as far as the loop has come; those
\* of other calls that have ended were run once, or a later one replaces them.
RunOK ==
    \A r \in Requests :
        /\ \A k \in DOMAIN Array : Array[k] = r => ran[r] = IF Reached(k) THEN 1 ELSE 0
        /\ ~Listed(r) /\ ~Ended(r) => ran[r] = 0
        /\ ~Listed(r) /\ Ended(r) =>
              \/ ran[r] = 1
              \/ ran[r] = 0 /\ r \in OnlyLast /\ (opCall[Operation[r]] # 0 \/ Superseded(r))

Answers == slow \/ (LoopOK /\ FiledOnce /\ LatestOK /\ RunOK)

LEMMA AnswersGood == Placed /\ Answers => AnsweredOnce
<1> SUFFICES ASSUME Placed, LoopOK, FiledOnce, LatestOK, RunOK, NEW r \in Requests
             PROVE  /\ ran[r] <= 1
                    /\ Phase(r) = "finished" /\ calls = <<>> => ran[r] = 1 \/ Superseded(r)
  BY DEF Answers, AnsweredOnce
<1>1. CASE Listed(r)
  <2>1. PICK k \in DOMAIN Array : Array[k] = r
    BY <1>1 DEF Listed
  <2>2. ran[r] \in {0, 1}
    BY <2>1 DEF RunOK
  <2>3. current # 0
    BY <2>1 DEF Array
  <2>4. QED
    BY <2>2, <2>3 DEF LoopOK
<1>2. CASE ~Listed(r)
  <2>1. ran[r] \in {0, 1}
    BY <1>2 DEF RunOK
  <2>2. ASSUME Phase(r) = "finished", calls = <<>>, ran[r] # 1
        PROVE  Superseded(r)
    <3>1. current = 0
      BY <2>2 DEF LoopOK
    <3>2. Array = <<>>
      BY <3>1 DEF Array
    <3>3. Operation[r] \in Operations
      BY DEF Operations
    <3>4. opCall[Operation[r]] = 0
      BY <3>2, <3>3 DEF LatestOK
    <3>5. QED
      BY <1>2, <2>2, <3>4 DEF RunOK, Ended
  <2>3. QED
    BY <2>1, <2>2
<1>3. QED
  BY <1>1, <1>2

LEMMA ArrayTyped ==
    ASSUME Placed
    PROVE  /\ Array \in Seq(Requests \cup {NoRequest}) /\ Len(Array) \in Nat
           /\ DOMAIN Array = 1..Len(Array)
           /\ \A r \in Requests : Phase(r) = "completing" => task[r].pos \in Nat \ {0}
           /\ ran \in [Requests -> Nat] /\ opCall \in [Operations -> Nat]
<1>1. ArraysOK
  BY DEF Placed, GroupOK
<1>2. Array \in Seq(Requests \cup {NoRequest})
  BY <1>1, ArrayOK DEF Completions
<1>3. QED
  BY <1>1, <1>2 DEF ArraysOK

\* A step in which no call ends and no completion moves.
Aside == /\ UNCHANGED <<arrays, current, opCall, ran, slow>>
         /\ calls # <<>> => calls' # <<>>
         /\ \A q \in Requests : task'[q] = task[q] \/ (~Ended(q) /\ ~Ended(q)')

\* Before a call has ended nothing happens to the completions.
LEMMA AnswersKept == ASSUME Placed, Answers, Aside PROVE Answers'
<1> USE DEF Aside
<1>1. CASE slow
  BY <1>1 DEF Answers
<1>2. CASE LoopOK /\ FiledOnce /\ LatestOK /\ RunOK
  <2>1. UNCHANGED Array
    BY DEF Array
  <2>2. \A q \in Requests : /\ Ended(q)' = Ended(q)
                            /\ Phase(q)' = "completing" => /\ Phase(q) = "completing"
                                                           /\ task'[q] = task[q]
                            /\ Phase(q) = "completing" => /\ Phase(q)' = "completing"
                                                          /\ task'[q] = task[q]
    BY DEF Ended, Phase
  <2>3. LoopOK'
    BY <1>2, <2>1, <2>2 DEF LoopOK
  <2>4. FiledOnce'
    <3>1. \A k \in DOMAIN Array : Array[k] \in Requests \cup {NoRequest}
      BY ArrayTyped
    <3>2. ASSUME NEW k \in DOMAIN Array', Array'[k] # NoRequest
          PROVE  Ended(Array[k])'
      <4>1. Array[k] \in Requests /\ Ended(Array[k])
        BY <1>2, <2>1, <3>1, <3>2 DEF FiledOnce
      <4>2. QED
        BY <2>1, <2>2, <4>1 DEF Ended, Phase
    <3>3. QED
      BY <1>2, <2>1, <3>2 DEF FiledOnce, Ended, Phase
  <2>5. LatestOK'
    BY <1>2, <2>1 DEF LatestOK
  <2>6. RunOK'
    <3>1. \A k : Reached(k)' = Reached(k)
      BY <2>2 DEF Reached
    <3>2. \A q \in Requests : /\ Listed(q)' = Listed(q)
                              /\ Superseded(q)' = Superseded(q)
      BY <2>1 DEF Listed, Superseded, SameOperation
    <3>3. QED
      BY <1>2, <2>1, <2>2, <3>1, <3>2 DEF RunOK
  <2>7. QED
    BY <2>3, <2>4, <2>5, <2>6 DEF Answers
<1>3. QED
  BY <1>1, <1>2 DEF Answers

\* Array' is Array with the no-op in the place of before, if that is not 0.
Refiled(before, r) ==
    /\ Array' \in Seq(Requests \cup {NoRequest}) /\ Len(Array') = Len(Array) + 1
    /\ Array'[Len(Array) + 1] = r
    /\ \A k \in DOMAIN Array : Array'[k] = IF k = before THEN NoRequest ELSE Array[k]

LEMMA SettleFiles ==
    ASSUME Placed, NEW r \in Requests, NEW result \in Outcomes[r], Settle(r, result)
    PROVE  Refiled(IF r \in OnlyLast /\ result # "error" THEN opCall[Operation[r]] ELSE 0, r)
<1>1. /\ Array \in Seq(Requests \cup {NoRequest}) /\ Len(Array) \in Nat
      /\ DOMAIN Array = 1..Len(Array)
      /\ \A k \in DOMAIN Array : Array[k] \in Requests \cup {NoRequest}
  BY ArrayTyped
<1>2. Array' = Filed(r, result)
  <2>1. arrays \in Seq(Completions) /\ current \in 0..Len(arrays)
        /\ Filed(r, result) \in Completions
    BY FiledOK DEF Placed, GroupOK, ArraysOK
  <2>2. CASE current = 0
    <3>1. current' = Len(arrays) + 1 /\ arrays' = Append(arrays, Filed(r, result))
      BY <2>2 DEF Settle
    <3>2. current' # 0 /\ arrays'[current'] = Filed(r, result)
      BY <2>1, <3>1
    <3>3. QED
      BY <3>2 DEF Array
  <2>3. CASE current # 0
    <3>1. current' = current /\ arrays' = [arrays EXCEPT ![current] = Filed(r, result)]
      BY <2>3 DEF Settle
    <3>2. arrays'[current] = Filed(r, result)
      BY <2>1, <2>3, <3>1
    <3>3. QED
      BY <2>3, <3>1, <3>2 DEF Array
  <2>4. QED
    BY <2>2, <2>3
<1> DEFINE before == opCall[Operation[r]]
           put    == [k \in 1..Len(Array) |-> IF k = before THEN NoRequest ELSE Array[k]]
<1>3. CASE r \in OnlyLast /\ result # "error" /\ before # 0
  <2>1. [Array EXCEPT ![before] = NoRequest] = put
    BY <1>1
  <2>2. Array' = Append(put, r)
    BY <1>2, <1>3, <2>1 DEF Filed, Array
  <2>3. put \in Seq(Requests \cup {NoRequest}) /\ Len(put) = Len(Array)
    <3>1. put \in [1..Len(Array) -> Requests \cup {NoRequest}]
      BY <1>1
    <3>2. QED
      BY <1>1, <3>1
  <2>4. QED
    BY <1>1, <1>3, <2>2, <2>3 DEF Refiled
<1>4. CASE ~(r \in OnlyLast /\ result # "error" /\ before # 0)
  <2>1. Array' = Append(Array, r)
    BY <1>2, <1>4 DEF Filed, Array
  <2>2. QED
    BY <1>1, <1>4, <2>1 DEF Refiled
<1>5. QED
  BY <1>3, <1>4

LEMMA SettleAnswers ==
    ASSUME Placed, Answers, NEW r \in Requests, NEW result \in Outcomes[r], Settle(r, result)
    PROVE  Answers'
<1> DEFINE op     == Operation[r]
           latest == r \in OnlyLast /\ result # "error"
           before == IF latest THEN opCall[op] ELSE 0
           n      == Len(Array)
<1>1. CASE slow
  BY <1>1 DEF Answers, Settle
<1> SUFFICES ASSUME LoopOK, FiledOnce, LatestOK, RunOK, ~slow
             PROVE  LoopOK' /\ FiledOnce' /\ LatestOK' /\ RunOK'
  BY <1>1 DEF Answers
<1>2. /\ Phase(r) = "calling" /\ \A q \in Requests : Phase(q) # "completing"
      /\ UNCHANGED ran /\ op \in Operations
  BY DEF Settle, Operations
<1>3. /\ Array \in Seq(Requests \cup {NoRequest}) /\ n \in Nat /\ DOMAIN Array = 1..n
      /\ \A k \in DOMAIN Array : Array[k] \in Requests \cup {NoRequest}
      /\ DOMAIN opCall = Operations
  BY ArrayTyped
<1>4. Refiled(before, r)
  BY SettleFiles
<1>5. /\ DOMAIN Array' = 1..(n + 1) /\ Array'[n + 1] = r /\ Len(Array') = n + 1
      /\ \A k \in 1..n : Array'[k] = IF k = before THEN NoRequest ELSE Array[k]
  BY <1>3, <1>4 DEF Refiled
<1>6. \A k \in 1..n : Array[k] # r
  BY <1>2, <1>3, ConfirmerAssumption DEF FiledOnce, Ended
<1>7. /\ \A q \in Requests \ {r} : task'[q] = task[q]
      /\ task'[r].phase \in {"finished", "completing"}
      /\ task'[r].phase = "completing" => task'[r].chain = current' /\ task'[r].pos = 1
  <2>1. CASE task' = [task EXCEPT ![r] = Blank("finished")]
    BY <2>1, CallsTyped DEF Blank
  <2>2. CASE task' = [task EXCEPT ![r].phase = "completing", ![r].chain = current', ![r].pos = 1]
    <3>1. task'[r] = [task[r] EXCEPT !.phase = "completing", !.chain = current', !.pos = 1]
          /\ task[r] \in TaskState
      BY <2>2, CallsTyped
    <3>2. task'[r].phase = "completing" /\ task'[r].chain = current' /\ task'[r].pos = 1
      BY <3>1 DEF TaskState
    <3>3. QED
      BY <2>2, <3>2, CallsTyped
  <2>3. QED
    BY <2>1, <2>2 DEF Settle
<1>8. \A q \in Requests : Ended(q)' <=> Ended(q) \/ q = r
  BY <1>2, <1>7 DEF Ended, Phase
<1>9. opCall' = IF latest THEN [opCall EXCEPT ![op] = n + 1] ELSE opCall
  <2>1. Len(Filed(r, result)) = n + 1 \/ ~latest
    <3>1. CASE latest /\ opCall[op] # 0
      BY <1>3, <3>1 DEF Filed, Array
    <3>2. CASE latest /\ opCall[op] = 0
      BY <1>3, <3>2 DEF Filed, Array
    <3>3. QED
      BY <3>1, <3>2
  <2>2. QED
    BY <2>1 DEF Settle
<1> HIDE DEF n
<1>10. LoopOK'
  <2>1. current' # 0 /\ calls' # <<>>
    <3>1. At(r) \in DOMAIN calls /\ calls' = [calls EXCEPT ![At(r)].result = result]
      BY <1>2, CallKept DEF Settle, Open
    <3>2. DOMAIN calls' # {}
      BY <3>1
    <3>3. current' # 0
      BY DEF Settle, Placed, GroupOK, ArraysOK
    <3>4. QED
      BY <3>2, <3>3
  <2>2. ASSUME NEW q \in Requests, Phase(q)' = "completing"
        PROVE  q = r
    BY <1>2, <1>7, <2>2 DEF Phase
  <2>3. Phase(r)' = "completing" => task'[r].chain = current' /\ task'[r].pos <= Len(Array') + 1
    BY <1>3, <1>5, <1>7 DEF Phase
  <2>4. QED
    BY <2>1, <2>2, <2>3 DEF LoopOK
<1>11. FiledOnce'
  <2>1. \A k \in DOMAIN Array' : Array'[k] # NoRequest =>
           \/ k = n + 1 /\ Array'[k] = r
           \/ k \in DOMAIN Array /\ Array'[k] = Array[k]
    BY <1>3, <1>5
  <2>2. ASSUME NEW k \in DOMAIN Array', Array'[k] # NoRequest
        PROVE  Ended(Array[k])'
    <3>1. \/ Array'[k] = r
          \/ /\ Array'[k] = Array[k] /\ Array[k] \in Requests /\ Ended(Array[k])
      BY <1>3, <2>1, <2>2 DEF FiledOnce
    <3>2. Array'[k] \in Requests /\ (Ended(Array'[k]) \/ Array'[k] = r)
      BY <3>1
    <3>3. QED
      BY <1>7, <3>2 DEF Ended, Phase
  <2>3. ASSUME NEW k \in DOMAIN Array', NEW m \in DOMAIN Array', Array'[k] = Array'[m],
               Array'[k] # NoRequest
        PROVE  k = m
    BY <1>3, <1>6, <2>1, <2>3 DEF FiledOnce
  <2>4. QED
    BY <2>2, <2>3 DEF FiledOnce
<1>12. LatestOK'
  <2> SUFFICES ASSUME NEW o \in Operations, opCall'[o] # 0
               PROVE  /\ opCall'[o] \in DOMAIN Array'
                      /\ Array'[opCall'[o]] \in OnlyLast \cap Requests
                      /\ Operation[Array'[opCall'[o]]] = o
    BY DEF LatestOK
  <2>1. CASE latest /\ o = op
    <3>1. opCall'[o] = n + 1
      BY <1>3, <1>9, <2>1
    <3>2. QED
      BY <1>3, <1>5, <2>1, <3>1
  <2>2. CASE ~(latest /\ o = op)
    <3>1. opCall'[o] = opCall[o]
      BY <1>3, <1>9, <2>2
    <3>2. /\ opCall[o] \in DOMAIN Array /\ Array[opCall[o]] \in OnlyLast \cap Requests
          /\ Operation[Array[opCall[o]]] = o
      BY <3>1 DEF LatestOK
    <3>3. opCall[o] # before
      BY <1>2, <2>2, <3>1, <3>2 DEF LatestOK
    <3>4. QED
      BY <1>3, <1>5, <3>1, <3>2, <3>3
  <2>3. QED
    BY <2>1, <2>2
<1>13. RunOK'
  <2>1. ASSUME NEW k \in DOMAIN Array'
        PROVE  ~Reached(k) /\ ~Reached(k)'
    BY <1>2, <1>3, <1>5, <1>7 DEF Reached, Phase
  <2>2. ASSUME NEW s \in Requests, NEW k \in DOMAIN Array', Array'[k] = s
        PROVE  ran'[s] = IF Reached(k)' THEN 1 ELSE 0
    <3>1. CASE s = r
      <4>1. ~Listed(r) /\ ~Ended(r)
        BY <1>2, <1>3, <1>6 DEF Listed, Ended
      <4>2. QED
        BY <1>2, <2>1, <3>1, <4>1 DEF RunOK
    <3>2. CASE s # r
      <4>1. k \in DOMAIN Array /\ Array[k] = s
        BY <1>3, <1>5, <2>2, <3>2, ConfirmerAssumption
      <4>2. QED
        BY <1>2, <2>1, <4>1 DEF RunOK
    <3>3. QED
      BY <3>1, <3>2
  <2>3. Listed(r)'
    BY <1>3, <1>5 DEF Listed
  <2>4. \A s \in Requests : Superseded(s)' = Superseded(s)
    BY <1>2 DEF Superseded, SameOperation
  <2>5. ASSUME NEW s \in Requests, ~Listed(s)'
        PROVE  /\ ~Ended(s)' => ran'[s] = 0
               /\ Ended(s)' => \/ ran'[s] = 1
                               \/ /\ ran'[s] = 0 /\ s \in OnlyLast
                                  /\ (opCall'[Operation[s]] # 0 \/ Superseded(s)')
    <3>1. s # r /\ (Ended(s)' <=> Ended(s)) /\ ran'[s] = ran[s] /\ Operation[s] \in Operations
      BY <1>2, <1>8, <2>3, <2>5 DEF Operations
    <3>2. opCall[Operation[s]] # 0 => opCall'[Operation[s]] # 0
      BY <1>3, <1>9, <3>1
    <3>3. CASE ~Listed(s)
      BY <2>4, <3>1, <3>2, <3>3 DEF RunOK
    <3>4. CASE Listed(s)
      <4>1. PICK k \in DOMAIN Array : Array[k] = s
        BY <3>4 DEF Listed
      <4>2. k \in DOMAIN Array' /\ Array'[k] # s
        BY <1>3, <1>5, <2>5, <4>1 DEF Listed
      <4>3. k = before /\ latest
        BY <1>3, <1>5, <4>1, <4>2
      <4>4. s \in OnlyLast /\ Operation[s] = op /\ opCall'[Operation[s]] # 0
        BY <1>2, <1>3, <1>9, <4>1, <4>3 DEF LatestOK
      <4>5. ran'[s] = 0
        BY <1>2, <2>1, <4>1, <4>2 DEF RunOK
      <4>6. Ended(s)
        BY <4>1, ConfirmerAssumption DEF FiledOnce
      <4>7. QED
        BY <3>1, <4>4, <4>5, <4>6
    <3>5. QED
      BY <3>3, <3>4
  <2>6. QED
    BY <2>2, <2>5 DEF RunOK
<1>14. QED
  BY <1>10, <1>11, <1>12, <1>13

LEMMA RunAnswers ==
    ASSUME Placed, Answers, NEW r \in Requests, RunCompletion(r)
    PROVE  Answers'
<1>1. CASE slow
  BY <1>1 DEF Answers, RunCompletion
<1> SUFFICES ASSUME LoopOK, FiledOnce, LatestOK, RunOK
             PROVE  LoopOK' /\ FiledOnce' /\ LatestOK' /\ RunOK'
  BY <1>1 DEF Answers
<1> DEFINE pos == task[r].pos
<1>2. /\ Phase(r) = "completing" /\ UNCHANGED <<calls, arrays, current, opCall>>
      /\ UNCHANGED Array /\ current # 0 /\ Chain(r) = Array
      /\ \A c \in Requests : Phase(c) = "completing" => c = r
  BY DEF RunCompletion, Array, LoopOK, Chain
<1>3. /\ Array \in Seq(Requests \cup {NoRequest}) /\ Len(Array) \in Nat
      /\ DOMAIN Array = 1..Len(Array) /\ pos \in Nat \ {0} /\ pos \in DOMAIN Array
      /\ ran \in [Requests -> Nat]
  BY <1>2, ArrayTyped DEF RunCompletion
<1>4. /\ task'[r].phase = "completing" /\ task'[r].chain = task[r].chain
      /\ task'[r].pos = pos + 1 /\ \A q \in Requests \ {r} : task'[q] = task[q]
  <2>1. task' = [task EXCEPT ![r].pos = @ + 1]
    BY DEF RunCompletion
  <2>2. task'[r] = [task[r] EXCEPT !.pos = @ + 1] /\ task[r] \in TaskState
    BY <2>1, CallsTyped
  <2>3. task'[r].phase = task[r].phase /\ task'[r].chain = task[r].chain /\ task'[r].pos = pos + 1
    BY <2>2 DEF TaskState
  <2>4. QED
    BY <1>2, <2>1, <2>3, CallsTyped DEF Phase
<1>5. ran' = IF Array[pos] = NoRequest THEN ran ELSE [ran EXCEPT ![Array[pos]] = @ + 1]
  BY <1>2 DEF RunCompletion
<1> HIDE DEF pos
<1>6. \A q \in Requests : /\ Phase(q)' = Phase(q) /\ (Ended(q)' <=> Ended(q))
                          /\ Listed(q)' <=> Listed(q)
  BY <1>2, <1>4 DEF Phase, Ended, Listed
<1>7. LoopOK'
  <2>1. pos + 1 <= Len(Array) + 1
    BY <1>3
  <2>2. QED
    BY <1>2, <1>4, <1>6, <2>1 DEF LoopOK
<1>8. FiledOnce' /\ LatestOK'
  <2>1. \A k \in DOMAIN Array : Array[k] \in Requests \cup {NoRequest}
    BY <1>3
  <2>2. ASSUME NEW k \in DOMAIN Array', Array'[k] # NoRequest
        PROVE  Ended(Array[k])'
    <3>1. Array[k] \in Requests /\ Ended(Array[k])
      BY <1>2, <2>1, <2>2 DEF FiledOnce
    <3>2. QED
      BY <1>2, <1>4, <3>1 DEF Ended, Phase
  <2>3. QED
    BY <1>2, <2>2 DEF FiledOnce, LatestOK
<1>9. ASSUME NEW k \in DOMAIN Array
      PROVE  (Reached(k) <=> pos > k) /\ (Reached(k)' <=> pos + 1 > k)
  BY <1>2, <1>4, <1>6 DEF Reached, pos
<1>10. RunOK'
  <2>1. ASSUME NEW s \in Requests, NEW k \in DOMAIN Array, Array[k] = s
        PROVE  ran'[s] = IF Reached(k)' THEN 1 ELSE 0
    <3>1. ran[s] = IF pos > k THEN 1 ELSE 0
      BY <1>9, <2>1 DEF RunOK
    <3>2. CASE k = pos
      <4>1. ran[s] = 0
        BY <1>3, <3>1, <3>2
      <4>2. ran' = [ran EXCEPT ![s] = @ + 1]
        BY <1>5, <2>1, <3>2, ConfirmerAssumption
      <4>3. ran'[s] = 1 /\ pos + 1 > k
        BY <1>3, <3>2, <4>1, <4>2
      <4>4. QED
        BY <1>9, <4>3
    <3>3. CASE k # pos
      <4>1. Array[pos] # s
        BY <1>3, <2>1, <3>3, ConfirmerAssumption DEF FiledOnce
      <4>2. ran'[s] = ran[s]
        BY <1>3, <1>5, <4>1
      <4>3. pos + 1 > k <=> pos > k
        BY <1>3, <3>3
      <4>4. QED
        BY <1>9, <3>1, <4>2, <4>3
    <3>4. QED
      BY <3>2, <3>3
  <2>2. ASSUME NEW s \in Requests, ~Listed(s)
        PROVE  ran'[s] = ran[s]
    BY <1>3, <1>5, <2>2 DEF Listed
  <2>3. ASSUME NEW s \in Requests, Superseded(s)
        PROVE  Superseded(s)'
    <3>1. PICK q \in OnlyLast \ {s} : SameOperation(q, s) /\ ran[q] > 0
      BY <2>3 DEF Superseded
    <3>2. ran'[q] > 0
      <4>1. CASE q \in Requests
        BY <1>3, <1>5, <3>1, <4>1
      <4>2. CASE q \notin Requests
        BY <1>3, <1>5, <3>1, <4>2
      <4>3. QED
        BY <4>1, <4>2
    <3>3. QED
      BY <2>3, <3>1, <3>2 DEF Superseded, SameOperation
  <2>4. QED
    BY <1>2, <1>6, <2>1, <2>2, <2>3 DEF RunOK
<1>11. QED
  BY <1>7, <1>8, <1>10

LEMMA FinishAnswers ==
    ASSUME Placed, Answers, NEW r \in Requests, FinishCompletions(r)
    PROVE  Answers'
<1>1. CASE slow
  BY <1>1 DEF Answers, FinishCompletions
<1> SUFFICES ASSUME LoopOK, FiledOnce, LatestOK, RunOK
             PROVE  LoopOK' /\ FiledOnce' /\ LatestOK' /\ RunOK'
  BY <1>1 DEF Answers
<1>2. /\ Phase(r) = "completing" /\ task[r].pos > Len(Array) /\ UNCHANGED ran
      /\ current # 0 /\ Chain(r) = Array /\ arrays[current] = Array
      /\ \A c \in Requests : Phase(c) = "completing" => c = r
  BY DEF FinishCompletions, LoopOver, Array, LoopOK, Chain
<1>3. /\ Array \in Seq(Requests \cup {NoRequest}) /\ Len(Array) \in Nat
      /\ DOMAIN Array = 1..Len(Array) /\ task[r].pos \in Nat /\ ran \in [Requests -> Nat]
  BY <1>2, ArrayTyped
<1>4. current' = 0 /\ Array' = <<>> /\ opCall' = [o \in Operations |-> 0]
  <2>1. Len(Array) > Len(Array) - 1
    BY <1>3
  <2>2. QED
    BY <1>2, <2>1 DEF FinishCompletions, ClearComplete, Array
<1>5. task'[r].phase = "finished" /\ \A q \in Requests \ {r} : task'[q] = task[q]
  <2>1. task' = [task EXCEPT ![r] = Blank("finished")]
    BY DEF FinishCompletions
  <2>2. QED
    BY <2>1, CallsTyped DEF Blank
<1>6. \A q \in Requests : Phase(q)' # "completing" /\ (Ended(q)' <=> Ended(q)) /\ ~Listed(q)'
  BY <1>2, <1>4, <1>5 DEF Phase, Ended, Listed
<1>7. LoopOK' /\ FiledOnce' /\ LatestOK'
  BY <1>4, <1>6 DEF LoopOK, FiledOnce, LatestOK
<1>8. \A k \in DOMAIN Array : Reached(k)
  BY <1>2, <1>3 DEF Reached
<1>9. RunOK'
  <2> SUFFICES ASSUME NEW s \in Requests
               PROVE  /\ ~Ended(s) => ran[s] = 0
                      /\ Ended(s) => ran[s] = 1 \/ (ran[s] = 0 /\ s \in OnlyLast /\ Superseded(s)')
    BY <1>2, <1>4, <1>6 DEF RunOK
  <2>1. CASE Listed(s)
    <3>1. PICK k \in DOMAIN Array : Array[k] = s
      BY <2>1 DEF Listed
    <3>2. ran[s] = 1 /\ Ended(s)
      BY <1>8, <3>1, ConfirmerAssumption DEF RunOK, FiledOnce
    <3>3. QED
      BY <3>2
  <2>2. CASE ~Listed(s)
    <3>1. ASSUME ran[s] # 1, Ended(s)
          PROVE  ran[s] = 0 /\ s \in OnlyLast /\ Superseded(s)'
      <4>1. /\ ran[s] = 0 /\ s \in OnlyLast
            /\ opCall[Operation[s]] # 0 \/ Superseded(s)
        BY <2>2, <3>1 DEF RunOK
      <4>2. CASE Superseded(s)
        BY <1>2, <4>1, <4>2 DEF Superseded, SameOperation
      <4>3. CASE opCall[Operation[s]] # 0
        <5> DEFINE k == opCall[Operation[s]]
        <5>1. Operation[s] \in Operations
          BY DEF Operations
        <5>2. /\ k \in DOMAIN Array /\ Array[k] \in OnlyLast \cap Requests
              /\ Operation[Array[k]] = Operation[s]
          BY <4>3, <5>1 DEF LatestOK
        <5> HIDE DEF k
        <5>3. Array[k] # s
          BY <2>2, <5>2 DEF Listed
        <5>4. ran[Array[k]] = 1
          BY <1>8, <5>2 DEF RunOK
        <5>5. QED
          BY <1>2, <4>1, <5>2, <5>3, <5>4 DEF Superseded, SameOperation
      <4>4. QED
        BY <4>1, <4>2, <4>3
    <3>2. QED
      BY <2>2, <3>1 DEF RunOK
  <2>3. QED
    BY <2>1, <2>2
<1>10. QED
  BY <1>7, <1>9

LEMMA AnswersStep ==
    ASSUME Placed, Answers, [ConfirmerNext]_vars
    PROVE  Answers'
<1> DEFINE Moves(r) == /\ UNCHANGED <<arrays, current, opCall, ran, slow>>
                       /\ calls # <<>> => calls' # <<>>
                       /\ ~Ended(r) /\ task'[r].phase \notin {"finished", "completing"}
                       /\ \A q \in Requests \ {r} : task'[q] = task[q]
<1>1. ASSUME NEW r \in Requests, Moves(r)
      PROVE  Answers'
  <2>1. ~Ended(r)'
    BY <1>1 DEF Ended, Phase
  <2>2. Aside
    BY <1>1, <2>1 DEF Aside
  <2>3. QED
    BY <2>2, AnswersKept
<1> HIDE DEF Moves
<1>2. ASSUME NEW r \in Requests, Request(r)
      PROVE  Answers'
  <2>1. /\ task' = [task EXCEPT ![r].phase = "queued", ![r].at = Len(calls) + 1]
        /\ UNCHANGED <<arrays, current, opCall, ran, slow>> /\ Phase(r) = "idle"
        /\ \E call \in Call : calls' = Append(calls, call)
    BY <1>2 DEF Request, Call, Results
  <2>2. calls' # <<>>
    BY <2>1, CallsTyped
  <2>3. task'[r].phase = "queued" /\ \A q \in Requests \ {r} : task'[q] = task[q]
    <3>1. task'[r] = [task[r] EXCEPT !.phase = "queued", !.at = Len(calls) + 1]
          /\ task[r] \in TaskState
      BY <2>1, CallsTyped
    <3>2. QED
      BY <2>1, <3>1, CallsTyped DEF TaskState
  <2>4. Moves(r)
    BY <2>1, <2>2, <2>3 DEF Ended, Moves
  <2>5. QED
    BY <1>1, <2>4
<1>3. ASSUME NEW r \in Requests, Squash(r)
      PROVE  Answers'
  <2>1. /\ task' = [task EXCEPT ![r] = Blank("squashed")] /\ Phase(r) = "queued"
        /\ UNCHANGED <<arrays, current, opCall, ran, slow>>
        /\ calls' = [calls EXCEPT ![At(r)].cancelled = TRUE]
    BY <1>3 DEF Squash, HasTurn
  <2>2. calls # <<>> => calls' # <<>>
    <3>1. DOMAIN calls' = DOMAIN calls /\ (calls # <<>> => DOMAIN calls # {})
      BY <2>1, CallsTyped
    <3>2. QED
      BY <3>1
  <2>3. task'[r].phase = "squashed" /\ \A q \in Requests \ {r} : task'[q] = task[q]
    BY <2>1, CallsTyped DEF Blank
  <2>4. Moves(r)
    BY <2>1, <2>2, <2>3 DEF Ended, Moves
  <2>5. QED
    BY <1>1, <2>4
<1>4. ASSUME NEW r \in Requests, StartParallel(r) \/ AwaitPrevious(r) \/ Start(r)
      PROVE  Answers'
  <2>1. /\ UNCHANGED <<calls, arrays, current, opCall, ran, slow>>
        /\ Phase(r) \in {"queued", "ready"}
    BY <1>4 DEF StartParallel, AwaitPrevious, Start, HasTurn
  <2>2. \E phase \in {"ready", "calling"} : \E prev : Rephases(r, phase, prev)
    <3>1. CASE StartParallel(r) \/ Start(r)
      BY <3>1 DEF StartParallel, Start, Rephases
    <3>2. CASE AwaitPrevious(r)
      <4>1. task' = [task EXCEPT ![r].phase = "ready"]
        BY <3>2 DEF AwaitPrevious
      <4>2. task' = [task EXCEPT ![r].phase = "ready", ![r].prev = task[r].prev]
        BY <4>1, CallsTyped DEF TaskState
      <4>3. QED
        BY <4>2 DEF Rephases
    <3>3. QED
      BY <1>4, <3>1, <3>2
  <2>3. task'[r].phase \in {"ready", "calling"} /\ \A q \in Requests \ {r} : task'[q] = task[q]
    BY <2>2, Rephased
  <2>4. Moves(r)
    BY <2>1, <2>3 DEF Ended, Moves
  <2>5. QED
    BY <1>1, <2>4
<1>5. ASSUME NEW r \in Requests, Throw(r)
      PROVE  Answers'
  BY <1>5 DEF Throw, LoopOver, Answers, LoopOK
<1>6. CASE UNCHANGED vars
  <2>1. Aside
    BY <1>6 DEF vars, Aside
  <2>2. QED
    BY <2>1, AnswersKept
<1>7. QED
  BY <1>2, <1>3, <1>4, <1>5, <1>6, SettleAnswers, RunAnswers, FinishAnswers
     DEF ConfirmerNext, Turn, Complete

LEMMA AnswersInit == ConfirmerInit => Answers
<1> SUFFICES ASSUME ConfirmerInit PROVE Answers
  OBVIOUS
<1>1. /\ current = 0 /\ Array = <<>> /\ opCall = [o \in Operations |-> 0]
      /\ ran = [r \in Requests |-> 0] /\ \A r \in Requests : Phase(r) = "idle"
  BY DEF ConfirmerInit, Array, Phase, Blank
<1>2. LoopOK /\ FiledOnce /\ LatestOK
  BY <1>1 DEF LoopOK, FiledOnce, LatestOK
<1>3. RunOK
  BY <1>1 DEF RunOK, Ended
<1>4. QED
  BY <1>2, <1>3 DEF Answers

\* Where completions await nothing, the completion of every call that was made
\* is run once, unless a later one of its operation takes its place.
THEOREM EveryCallAnswered == ConfirmerSpec => []AnsweredOnce
<1>1. Placed /\ Answers /\ [ConfirmerNext]_vars => Answers'
  BY AnswersStep
<1>2. QED
  BY <1>1, AnswersInit, PlacedInit, PlacedStep, AnswersGood, PTL DEF ConfirmerSpec
=============================================================================
