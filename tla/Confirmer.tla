------------------------------ MODULE Confirmer ------------------------------
(***************************************************************************)
(* The confirmer of the client (common/src/store/confirmer): one confirm   *)
(* group, that is the requests with one uid.  Each request is a saga task: *)
(* it joins the group, waits for its turn, makes its call, files its       *)
(* result and its completion, and the task that finds the group done runs  *)
(* the completions.  Tasks interleave wherever a call awaits something.    *)
(* The array of completions is changed in place, and a task that runs it   *)
(* keeps a reference: arrays are kept in a heap and named by their number. *)
(***************************************************************************)
EXTENDS Integers, Sequences, FiniteSets

CONSTANTS Requests,
          Operation,      \* the operationId of each request
          Squashable,     \* requests that may be squashed
          Parallelizable, \* requests that may run together
          OnlyLast,       \* requests with useOnlyLastSuccessCall
          Outcomes,       \* how the call of each request may end
          NoRequest

ASSUME ConfirmerAssumption ==
    /\ DOMAIN Operation = Requests
    /\ Squashable \subseteq Requests /\ Parallelizable \subseteq Requests
    /\ Squashable \cap Parallelizable = {}   \* validateConfirmationOptions
    /\ Outcomes \in [Requests -> SUBSET {"ok", "error", "undefined", "null"}]
    /\ NoRequest \notin Requests

Operations == {Operation[r] : r \in Requests}

VARIABLES
    calls,    \* confirm[uid].calls; empty when the group is absent
    next,     \* confirm[uid].index, counted from 1
    arrays,   \* the arrays of completion calls ever made
    current,  \* the one that complete[uid] is, or 0
    opCall,   \* operationSuccessCallIdx[uid]
    task,     \* of each request: [phase, at, prev, chain, pos]
    ran,      \* how often the completion of each request was run
    slow      \* whether completions await something

vars == <<calls, next, arrays, current, opCall, task, ran, slow>>

(* A task in a phase that has no locals. *)
Blank(phase) == [phase |-> phase, at |-> 0, prev |-> NoRequest, chain |-> 0, pos |-> 0]

ConfirmerInit ==
    /\ calls = <<>> /\ next = 1
    /\ arrays = <<>> /\ current = 0
    /\ opCall = [o \in Operations |-> 0]
    /\ task = [r \in Requests |-> Blank("idle")]
    /\ ran = [r \in Requests |-> 0]
    /\ slow \in BOOLEAN

Settled(c) == c.result # "null" \/ c.cancelled
IsDone(cs) == \A i \in DOMAIN cs : Settled(cs[i])
Phase(r) == task[r].phase
At(r) == task[r].at

(* requestConfirmation; the task adds its call to the group. *)
Request(r) ==
    /\ Phase(r) = "idle"
    /\ calls' = Append(calls, [req |-> r, result |-> "null", cancelled |-> FALSE])
    /\ task' = [task EXCEPT ![r].phase = "queued", ![r].at = Len(calls) + 1]
    /\ UNCHANGED <<next, arrays, current, opCall, ran, slow>>

SameOperation(r, s) == Operation[r] = Operation[s]

(* Variant of RequisitesComplete: calls that are parallelizable are not waited for. *)
SequentialComplete(r) ==
    \A i \in 1..(At(r) - 1) : Settled(calls[i]) \/ calls[i].req \in Parallelizable

(* getAreRequisiteCallsComplete. *)
RequisitesComplete(r) ==
    \A i \in 1..(At(r) - 1) :
        \/ Settled(calls[i])
        \/ {r, calls[i].req} \subseteq Parallelizable /\ SameOperation(r, calls[i].req)

(* Variant of ShouldCancel: the next call need not be squashable. *)
CancelForNext == next < Len(calls) /\ calls[next].req \in Squashable

(* getShouldCancelCurrentCall. *)
ShouldCancel ==
    /\ next < Len(calls)
    /\ {calls[next].req, calls[next + 1].req} \subseteq Squashable
    /\ SameOperation(calls[next].req, calls[next + 1].req)

HasTurn(r) == Phase(r) = "queued" /\ next = At(r) /\ RequisitesComplete(r)

(* The next call does the same: this one is squashed. *)
Squash(r) ==
    /\ HasTurn(r) /\ ShouldCancel
    /\ calls' = [calls EXCEPT ![At(r)].cancelled = TRUE]
    /\ next' = next + 1
    /\ task' = [task EXCEPT ![r] = Blank("squashed")]
    /\ UNCHANGED <<arrays, current, opCall, ran, slow>>

(* getLatestResult: a parallelizable call takes what there is, and lets the next *)
(* call have its turn.                                                           *)
Latest(is) == IF is = {} THEN 0 ELSE CHOOSE i \in is : \A j \in is : j <= i
ReqAt(i) == IF i = 0 THEN NoRequest ELSE calls[i].req

(* Variant of StartParallel: the index is not incremented. *)
StartKeepingTurn(r) ==
    /\ HasTurn(r) /\ ~ShouldCancel /\ r \in Parallelizable
    /\ task' = [task EXCEPT ![r].phase = "calling",
         ![r].prev = ReqAt(Latest({i \in DOMAIN calls : calls[i].result # "null"}))]
    /\ UNCHANGED <<calls, next, arrays, current, opCall, ran, slow>>

StartParallel(r) ==
    /\ HasTurn(r) /\ ~ShouldCancel /\ r \in Parallelizable
    /\ next' = next + 1
    /\ task' = [task EXCEPT ![r].phase = "calling",
         ![r].prev = ReqAt(Latest({i \in DOMAIN calls : calls[i].result # "null"}))]
    /\ UNCHANGED <<calls, arrays, current, opCall, ran, slow>>

AwaitPrevious(r) ==
    /\ HasTurn(r) /\ ~ShouldCancel /\ r \notin Parallelizable
    /\ task' = [task EXCEPT ![r].phase = "ready"]
    /\ UNCHANGED <<calls, next, arrays, current, opCall, ran, slow>>

(* waitForValue(getResult): the result of the last call before it that was not *)
(* squashed, once it is truthy.                                                *)
Previous(r) == Latest({i \in 1..(At(r) - 1) : ~calls[i].cancelled})

Start(r) ==
    /\ Phase(r) = "ready"
    /\ Previous(r) # 0 => calls[Previous(r)].result \in {"ok", "error"}
    /\ task' = [task EXCEPT ![r].phase = "calling", ![r].prev = ReqAt(Previous(r))]
    /\ UNCHANGED <<calls, next, arrays, current, opCall, ran, slow>>

(* Variant of Filed: the no-op takes the place of the completion before it. *)
FiledOneOff(r, result) ==
    LET array == IF current = 0 THEN <<>> ELSE arrays[current]
    IN Append(IF r \in OnlyLast /\ array # <<>> THEN [array EXCEPT ![Len(array)] = NoRequest]
              ELSE array, r)

(* Variant of Filed: the completion goes before those that are there. *)
FiledFirst(r, result) == <<r>> \o (IF current = 0 THEN <<>> ELSE arrays[current])

(* ADD_COMPLETION_CALL and SET_OPERATION_SUCCESS_CALL, which puts a no-op in the *)
(* place of the success call of the operation before.                            *)
Filed(r, result) ==
    LET array == IF current = 0 THEN <<>> ELSE arrays[current]
        before == opCall[Operation[r]]
    IN Append(IF r \in OnlyLast /\ result # "error" /\ before # 0
              THEN [array EXCEPT ![before] = NoRequest] ELSE array, r)

(* The call ends or times out: its result is set, its completion filed, and if *)
(* nothing of the group is open the task goes on to run the completions.       *)
Settle(r, result) ==
    /\ Phase(r) = "calling"
    /\ slow \/ \A q \in Requests : Phase(q) # "completing"
    /\ result \in Outcomes[r]
    /\ calls' = [calls EXCEPT ![At(r)].result = result]
    /\ next' = IF r \in Parallelizable THEN next ELSE next + 1
    /\ current' = IF current = 0 THEN Len(arrays) + 1 ELSE current
    /\ arrays' = IF current = 0 THEN Append(arrays, Filed(r, result))
                 ELSE [arrays EXCEPT ![current] = Filed(r, result)]
    /\ opCall' = IF r \in OnlyLast /\ result # "error"
                 THEN [opCall EXCEPT ![Operation[r]] = Len(Filed(r, result))] ELSE opCall
    /\ task' = IF IsDone(calls')
               THEN [task EXCEPT ![r].phase = "completing", ![r].chain = current', ![r].pos = 1]
               ELSE [task EXCEPT ![r] = Blank("finished")]
    /\ UNCHANGED <<ran, slow>>

Chain(r) == arrays[task[r].chain]

(* One round of the loop over commandChain, whose length is read each time. *)
RunCompletion(r) ==
    /\ Phase(r) = "completing" /\ task[r].pos <= Len(Chain(r))
    /\ task' = [task EXCEPT ![r].pos = @ + 1]
    /\ LET q == Chain(r)[task[r].pos]
       IN ran' = IF q = NoRequest THEN ran ELSE [ran EXCEPT ![q] = @ + 1]
    /\ UNCHANGED <<calls, next, arrays, current, opCall, slow>>

(* CLEAR_COMPLETE with the length of the chain that was run; arrays that nobody  *)
(* refers to are forgotten.                                                      *)
ClearComplete(n, alone) ==
    /\ opCall' = [o \in Operations |-> 0]
    /\ IF n > Len(arrays[current]) - 1
       THEN current' = 0 /\ arrays' = (IF alone THEN <<>> ELSE arrays)
       ELSE /\ current' = Len(arrays) + 1
            /\ arrays' = Append(arrays, SubSeq(arrays[current], n + 1, Len(arrays[current])))

LoopOver(r) == Phase(r) = "completing" /\ task[r].pos > Len(Chain(r))

(* Variant of ClearConfirm: the group is cleared without looking again. *)
ClearAnyway == calls' = <<>> /\ next' = 1

ClearConfirm == calls' = (IF IsDone(calls) THEN <<>> ELSE calls)
                /\ next' = (IF IsDone(calls) THEN 1 ELSE next)

FinishCompletions(r) ==
    /\ LoopOver(r) /\ current # 0
    /\ ClearComplete(Len(Chain(r)), \A q \in Requests \ {r} : Phase(q) # "completing")
    /\ ClearConfirm
    /\ task' = [task EXCEPT ![r] = Blank("finished")]
    /\ UNCHANGED <<ran, slow>>

(* Another task has cleared complete[uid] meanwhile: the reducer throws, and the *)
(* watcher that is restarted has none of its tasks any more.                      *)
Throw(r) ==
    /\ LoopOver(r) /\ current = 0
    /\ task' = [q \in Requests |-> IF Phase(q) \in {"idle", "finished", "squashed"}
                                   THEN task[q] ELSE Blank("aborted")]
    /\ UNCHANGED <<calls, next, arrays, current, opCall, ran, slow>>

Turn(r) == Squash(r) \/ StartParallel(r) \/ AwaitPrevious(r) \/ Start(r)
Complete(r) == RunCompletion(r) \/ FinishCompletions(r) \/ Throw(r)

ConfirmerNext ==
    \E r \in Requests :
        \/ Request(r) \/ Turn(r) \/ Complete(r)
        \/ \E result \in Outcomes[r] : Settle(r, result)

(* Sagas run when they can, and the race with the timeout ends every call. *)
ConfirmerFairness ==
    \A r \in Requests : WF_vars(Turn(r)) /\ WF_vars(Complete(r))
                     /\ WF_vars(\E result \in Outcomes[r] : Settle(r, result))

ConfirmerSpec == ConfirmerInit /\ [][ConfirmerNext]_vars /\ ConfirmerFairness
-----------------------------------------------------------------------------
(* Properties *)

Open(r) == Phase(r) \in {"queued", "ready", "calling"}

(* A request that is open is in its place in the group: the group is not cleared *)
(* under it, whatever completions run and requests join meanwhile.               *)
OpenKept ==
    \A r \in Requests : Open(r) =>
        At(r) \in DOMAIN calls /\ calls[At(r)] = [req |-> r, result |-> "null", cancelled |-> FALSE]

(* "The calls are fired in order in such a way that each call makes use [of] the *)
(* result of the previous call" (confirmer/actions.ts).                          *)
FiredInOrder ==
    \A r \in Requests : Phase(r) = "calling" =>
        /\ \A i \in 1..(At(r) - 1) : calls[i].result = "null" /\ ~calls[i].cancelled =>
              {r, calls[i].req} \subseteq Parallelizable /\ SameOperation(r, calls[i].req)
        /\ r \notin Parallelizable =>
              \/ task[r].prev = NoRequest /\ \A i \in 1..(At(r) - 1) : calls[i].cancelled
              \/ \E i \in 1..(At(r) - 1) :
                    /\ calls[i].req = task[r].prev /\ ~calls[i].cancelled
                    /\ \A j \in (i + 1)..(At(r) - 1) : calls[j].cancelled

(* "squashed (where only the last call is necessary to resolve)": a call that was *)
(* squashed is followed by one of its operation that was not.                     *)
SquashedCovered ==
    \A i \in DOMAIN calls : calls[i].cancelled =>
        \E j \in DOMAIN calls : j > i /\ ~calls[j].cancelled
                                /\ SameOperation(calls[i].req, calls[j].req)

Superseded(r) == r \in OnlyLast /\ \E q \in OnlyLast \ {r} : SameOperation(q, r) /\ ran[q] > 0

(* Where completions do not await anything, the completion of every call that was *)
(* made is run once when the group is cleared, unless a later one replaces it.    *)
AnsweredOnce ==
    ~slow => \A r \in Requests :
        /\ ran[r] <= 1
        /\ Phase(r) = "finished" /\ calls = <<>> => ran[r] = 1 \/ Superseded(r)

(* "dispatching success on completion or failure on timeout": once. *)
AnsweredAtMostOnce == \A r \in Requests : ran[r] <= 1

(* "Check whether anything is confirming so UI can block reloads": a group is     *)
(* cleared in the end, if its calls return something.                             *)
GroupCleared == ~slow => (calls # <<>> ~> calls = <<>>)
=============================================================================
