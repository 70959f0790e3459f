----------------------------- MODULE Invocation -----------------------------
(***************************************************************************)
(* Isolated capabilities.  A caller Run - an agent whose tool call is a     *)
(* capability, or the fixed Research parent - prepares an immutable         *)
(* invocation with a child Execution, runs the registered child Workflow,   *)
(* closes the Execution, and uses the committed result: the agent observes  *)
(* it in its transcript, the parent publishes a view, saves the report in   *)
(* the workspace and completes the Run.  All but close are fenced           *)
(* Activities of the caller Execution.  A tried Activity may have committed *)
(* without being answered; one nobody waits for may commit until the next   *)
(* try acquires the Execution.  Temporal may be reset: then a closed        *)
(* invocation of an unfinished Run is called again.                         *)
(***************************************************************************)
EXTENDS Naturals, FiniteSets

CONSTANTS
    Agents, Parents,            \* Runs by the kind of their caller
    AccountOf,
    GlobalLimit, AccountLimit,  \* capability_global_executions, capability_account_executions
    Tries,                      \* maximum_attempts of an Activity
    Resets,                     \* bound on Workflow resets
    Outcomes                    \* of CapabilityResult

ASSUME InvocationAssumption ==
    /\ Agents \cap Parents = {} /\ IsFiniteSet(Agents \cup Parents)
    /\ Tries \in Nat \ {0} /\ Resets \in Nat
    /\ GlobalLimit \in Nat /\ AccountLimit \in Nat
    /\ Outcomes \subseteq {"succeeded", "insufficient", "failed", "cancelled", "uncertain"}

Runs == Agents \cup Parents

VARIABLES
    runSt,    \* runs.status
    exe,      \* status of the child Execution, "none" before the insert
    token,    \* its fencing token
    result,   \* capability_results.outcome
    op,       \* the caller's tool Operation: "open", or what it was completed with
    events,   \* tool_result events of the call in the transcript
    observed, \* the capability_observations row exists
    view,     \* the report has its artifact version
    intent,   \* research_run_save_intents.state; "refused" is pending with a failure_code
    saved,    \* entries the workspace holds for this report
    wpc, ans, tries, late,   \* the Workflow, its Activity, a try that was given up
    cpc,      \* the child Workflow
    holds,    \* token of the attempt the child Workflow waits for
    ghosts,   \* tokens of attempts it gave up
    atts,     \* tries of its work
    status,   \* what close will be told
    resets, why

run == <<runSt>>
exec == <<exe, token>>
tool == <<op, events, observed>>
delivery == <<view, intent, saved>>
flow == <<wpc, ans, tries, late, status, why>>
child == <<cpc, holds, ghosts, atts>>
vars == <<run, exec, result, tool, delivery, flow, child, resets>>

Ended == {"succeeded", "failed", "cancelled"}
Active == {"queued", "running", "cancelling"}
Fenced == {"prepare", "observe", "publish", "saving", "saved", "complete", "failing"}

TypeOK ==
    /\ runSt \in [Runs -> {"running", "cancelling"} \cup Ended]
    /\ exe \in [Runs -> {"none"} \cup Active \cup Ended] /\ token \in [Runs -> Nat]
    /\ result \in [Runs -> {"none"} \cup Outcomes]
    /\ op \in [Runs -> {"open", "error"} \cup Outcomes] /\ events \in [Runs -> Nat]
    /\ observed \in [Runs -> BOOLEAN] /\ view \in [Runs -> BOOLEAN]
    /\ intent \in [Runs -> {"none", "pending", "refused", "succeeded", "failed"}] /\ saved \in [Runs -> Nat]
    /\ wpc \in [Runs -> Fenced \cup {"start", "wait", "close", "done", "failed"}]
    /\ ans \in [Runs -> {"none", "backoff", "ok", "error", "child", "committed", "replay", "refused"}]
    /\ tries \in [Runs -> 0 .. Tries - 1] /\ late \in [Runs -> {"none"} \cup Fenced]
    /\ cpc \in [Runs -> {"none", "idle", "working", "done", "failed", "cancelled"}]
    /\ holds \in [Runs -> Nat] /\ \A r \in Runs : ghosts[r] \subseteq 0 .. token[r]
    /\ atts \in [Runs -> 0 .. Tries] /\ status \in [Runs -> {"none", "succeeded", "failed", "cancelled"}]
    /\ resets \in 0 .. Resets /\ why \in [Runs -> {"none", "lost", "conflict", "result", "child", "cancelled"}]

Each(v) == [r \in Runs |-> v]
Init ==
    /\ runSt = Each("running") /\ exe = Each("none") /\ token = Each(0) /\ result = Each("none")
    /\ op = Each("open") /\ events = Each(0) /\ observed = Each(FALSE)
    /\ view = Each(FALSE) /\ saved = Each(0)
    /\ intent \in {f \in [Runs -> {"none", "pending"}] : \A r \in Agents : f[r] = "none"}
    /\ wpc = Each("prepare") /\ ans = Each("none") /\ tries = Each(0) /\ late = Each("none")
    /\ cpc = Each("none") /\ holds = Each(0) /\ ghosts = Each({}) /\ atts = Each(0)
    /\ status = Each("none") /\ resets = 0 /\ why = Each("none")

----------------------------------------------------------------------------
\* Fenced Activities: the current try answers a, or a late one commits in silence.

\* Variation: the Run may have ended.
FenceAnyRun(r) == TRUE
\* assert_execution_fence of the caller Execution: the Run still runs.
Fence(r) == runSt[r] = "running"

By(r, p, a) ==
    /\ Fence(r)
    /\ \/ wpc[r] = p /\ ans[r] = "none" /\ ans' = [ans EXCEPT ![r] = a] /\ UNCHANGED late
       \/ late[r] = p /\ late' = [late EXCEPT ![r] = "none"] /\ UNCHANGED ans
    /\ UNCHANGED <<wpc, tries, status, why>>

\* A transaction of such a try that is not its last.
During(r, p) ==
    /\ Fence(r)
    /\ (wpc[r] = p /\ ans[r] = "none") \/ late[r] = p
    /\ UNCHANGED flow

Counts(e) == e \in Active
Children(R) == {r \in R : Counts(exe[r])}
\* admit_in_uow; an invocation that exists is admitted.
Admits(r) ==
    \/ exe[r] # "none"
    \/ /\ Cardinality(Children(Runs)) < GlobalLimit
       /\ Cardinality(Children({s \in Runs : AccountOf[s] = AccountOf[r]})) < AccountLimit

\* child_input and result_committed; the Research parent does not ask for the result.
PreparedAnswer(r) == IF r \in Agents /\ result[r] # "none" THEN "committed" ELSE "child"

Prepare(r) ==
    /\ op[r] = "open" /\ Admits(r) /\ By(r, "prepare", PreparedAnswer(r))
    /\ exe' = [exe EXCEPT ![r] = IF @ = "none" THEN "queued" ELSE @]
    /\ UNCHANGED <<run, token, result, tool, delivery, child, resets>>
\* ResourceDenied, ValidationError: an observation for an agent, a failed try for the parent.
PrepareRefused(r) ==
    /\ op[r] = "open" /\ exe[r] = "none" /\ By(r, "prepare", IF r \in Agents THEN "error" ELSE "refused")
    /\ UNCHANGED <<run, exec, result, tool, delivery, child, resets>>
PrepareReplay(r) ==
    /\ op[r] # "open" /\ By(r, "prepare", IF r \in Agents THEN "replay" ELSE "child")
    /\ UNCHANGED <<run, exec, result, tool, delivery, child, resets>>

Replays(r) == op[r] # "open"

\* _observe: version check, event, completion and observation row in one transaction.
Observe(r, o) ==
    /\ IF Replays(r) THEN By(r, "observe", "ok") /\ UNCHANGED tool
       ELSE \/ /\ o \in {"uncertain", "cancelled"} /\ By(r, "observe", "refused") /\ UNCHANGED tool
            \/ /\ o \notin {"uncertain", "cancelled"} /\ events[r] > 0   \* transcript version changed
               /\ By(r, "observe", "refused") /\ UNCHANGED tool
            \/ /\ o \notin {"uncertain", "cancelled"} /\ events[r] = 0
               /\ By(r, "observe", "ok")
               /\ op' = [op EXCEPT ![r] = o] /\ events' = [events EXCEPT ![r] = @ + 1]
               /\ observed' = [observed EXCEPT ![r] = o # "error"]
    /\ UNCHANGED <<run, exec, result, delivery, child, resets>>
\* What observe is about: the admission error, or the result, which read_result must find.
ObserveResult(r) == \E o \in {"error"} \cup Outcomes :
    /\ IF exe[r] = "none" THEN o = "error" ELSE o = result[r]
    /\ Observe(r, o)
ObserveMissing(r) ==
    /\ exe[r] # "none" /\ result[r] = "none" /\ ~Replays(r) /\ By(r, "observe", "refused")
    /\ UNCHANGED <<run, exec, result, tool, delivery, child, resets>>

----------------------------------------------------------------------------
\* Delivery by the Research parent.

Reported(r) == result[r] # "none"
Publish(r) ==
    /\ Reported(r) /\ By(r, "publish", "ok") /\ view' = [view EXCEPT ![r] = TRUE]
    /\ UNCHANGED <<run, exec, result, tool, intent, saved, child, resets>>

\* WorkspaceCatalog dedupes by the operation id of the intent.
SaveEntry(r) == IF saved[r] = 0 THEN 1 ELSE saved[r]

\* An intent that is still pending is recorded as s.
Record(r, s) == intent' = [intent EXCEPT ![r] = IF @ \in {"pending", "refused"} THEN s ELSE @]

\* _save_workspace: the catalog commits first, then the intent.
Save(r) ==
    /\ intent[r] \notin {"none", "succeeded"} /\ Reported(r) /\ By(r, "saving", "ok")
    /\ saved' = [saved EXCEPT ![r] = SaveEntry(r)]
    /\ UNCHANGED <<run, exec, result, tool, view, intent, child, resets>>
\* The catalog refuses; the failure code is kept for _fail.
SaveRefused(r) ==
    /\ intent[r] \notin {"none", "succeeded"} /\ saved[r] = 0 /\ By(r, "saving", "refused")
    /\ Record(r, "refused")
    /\ UNCHANGED <<run, exec, result, tool, view, saved, child, resets>>
SaveNothing(r) ==
    /\ intent[r] \in {"none", "succeeded"} /\ By(r, "saving", "ok")
    /\ UNCHANGED <<run, exec, result, tool, delivery, child, resets>>
SaveRecorded(r) ==
    /\ By(r, "saved", "ok")
    /\ Record(r, "succeeded")
    /\ UNCHANGED <<run, exec, result, tool, view, saved, child, resets>>

SavedIfRequired(r) == intent[r] = "none" \/ (intent[r] = "succeeded" /\ saved[r] > 0)

Sufficient(r) == result[r] = "succeeded"

\* The trigger project_execution_status.
Project(r, s) ==
    IF exe[r] \notin Active THEN exe[r] ELSE IF s = "cancelling" THEN "cancelling" ELSE "cancelled"

RunTo(r, s) ==
    /\ runSt' = [runSt EXCEPT ![r] = s]
    /\ exe' = [exe EXCEPT ![r] = Project(r, s)]
    /\ token' = [token EXCEPT ![r] = IF exe[r] = "none" THEN @ ELSE @ + 1]

\* _complete closes the caller's Operation in one transaction ...
CloseOperation(r) ==
    /\ op[r] = "open" /\ SavedIfRequired(r) /\ Sufficient(r) /\ During(r, "complete")
    /\ op' = [op EXCEPT ![r] = result[r]]
    /\ UNCHANGED <<run, exec, result, events, observed, delivery, child, resets>>
\* ... and ends the Run in another.
Complete(r) ==
    /\ op[r] # "open" /\ By(r, "complete", "ok") /\ RunTo(r, "succeeded")
    /\ UNCHANGED <<result, tool, delivery, child, resets>>
CompleteRefused(r) ==
    /\ ~(SavedIfRequired(r) /\ Sufficient(r)) /\ By(r, "complete", "refused")
    /\ UNCHANGED <<run, exec, result, tool, delivery, child, resets>>
\* The Run had succeeded before: the Activity only answers.
CompleteAgain(r) ==
    /\ wpc[r] = "complete" /\ ans[r] = "none" /\ runSt[r] = "succeeded" /\ ans' = [ans EXCEPT ![r] = "ok"]
    /\ UNCHANGED <<run, exec, result, tool, delivery, wpc, tries, late, status, why, child, resets>>
\* _fail: a save that was refused fails its intent, and then the Run ends.
FailIntent(r) ==
    /\ intent[r] = "refused" /\ During(r, "failing")
    /\ intent' = [intent EXCEPT ![r] = "failed"]
    /\ UNCHANGED <<run, exec, result, tool, view, saved, child, resets>>
FailDelivery(r) ==
    /\ intent[r] # "refused" /\ By(r, "failing", "ok") /\ RunTo(r, "failed")
    /\ UNCHANGED <<result, tool, delivery, child, resets>>

----------------------------------------------------------------------------
\* The child Workflow and its attempts.

\* acquire_segment of the child Execution: a new token for every attempt.
ChildAcquires(r) ==
    /\ cpc[r] = "idle" /\ Fence(r) /\ exe[r] \in {"queued", "running"}
    /\ exe' = [exe EXCEPT ![r] = "running"] /\ token' = [token EXCEPT ![r] = @ + 1]
    /\ cpc' = [cpc EXCEPT ![r] = "working"] /\ holds' = [holds EXCEPT ![r] = token[r] + 1]
    /\ atts' = [atts EXCEPT ![r] = @ + 1]
    /\ UNCHANGED <<run, result, tool, delivery, flow, ghosts, resets>>

\* Variation: an attempt publishes under whatever token it was given.
AnyToken(r, t) == Fence(r)
\* invocation_context: the producer's own fence.
Producer(r, t) == Fence(r) /\ exe[r] \in {"queued", "running"} /\ t = token[r]

\* commit_result under the fence; a prior result of the invocation stays.
Publishes(r, t, o) ==
    /\ t \in {holds[r]} \cup ghosts[r] /\ t > 0 /\ Producer(r, t)
    /\ result' = [result EXCEPT ![r] = IF @ = "none" THEN o ELSE @]
    /\ UNCHANGED <<run, exec, tool, delivery, flow, child, resets>>
\* A stale attempt keeps its own receipt and fails.
PublishStale(r, t) ==
    /\ t \in ghosts[r] /\ ~Producer(r, t) /\ ghosts' = [ghosts EXCEPT ![r] = @ \ {t}]
    /\ UNCHANGED <<run, exec, result, tool, delivery, flow, cpc, holds, atts, resets>>
ChildGivesUpTry(r) ==
    /\ cpc[r] = "working" /\ ghosts' = [ghosts EXCEPT ![r] = @ \cup {holds[r]}]
    /\ \/ cpc' = [cpc EXCEPT ![r] = "idle"] /\ atts[r] < Tries
       \/ cpc' = [cpc EXCEPT ![r] = "failed"]
    /\ holds' = [holds EXCEPT ![r] = 0]
    /\ UNCHANGED <<run, exec, result, tool, delivery, flow, atts, resets>>
ChildDone(r) ==
    /\ cpc[r] = "working" /\ result[r] # "none" /\ cpc' = [cpc EXCEPT ![r] = "done"]
    /\ holds' = [holds EXCEPT ![r] = 0]
    /\ UNCHANGED <<run, exec, result, tool, delivery, flow, ghosts, atts, resets>>
\* Acquire refused, or the child was cancelled by its parent or its duration.
ChildFails(r) ==
    /\ cpc[r] = "idle" /\ (~Fence(r) \/ exe[r] \notin {"queued", "running"})
    /\ cpc' = [cpc EXCEPT ![r] = "failed"]
    /\ UNCHANGED <<run, exec, result, tool, delivery, flow, holds, ghosts, atts, resets>>
ChildCancelled(r) ==
    /\ cpc[r] \in {"idle", "working"} /\ cpc' = [cpc EXCEPT ![r] = "cancelled"]
    /\ ghosts' = [ghosts EXCEPT ![r] = IF holds[r] = 0 THEN @ ELSE @ \cup {holds[r]}]
    /\ holds' = [holds EXCEPT ![r] = 0]
    /\ UNCHANGED <<run, exec, result, tool, delivery, flow, atts, resets>>

----------------------------------------------------------------------------
\* The Workflow.

Go(r, p) ==
    /\ wpc' = [wpc EXCEPT ![r] = p] /\ ans' = [ans EXCEPT ![r] = "none"]
    /\ tries' = [tries EXCEPT ![r] = 0] /\ late' = [late EXCEPT ![r] = "none"]
Fail(r, reason) ==
    /\ wpc' = [wpc EXCEPT ![r] = "failed"] /\ ans' = [ans EXCEPT ![r] = "none"]
    /\ tries' = [tries EXCEPT ![r] = 0] /\ why' = [why EXCEPT ![r] = reason]

\* A committed result: its Execution may still be open.
CommittedNext(r) == "close"

Prepared(r) ==
    /\ wpc[r] = "prepare"
    /\ \/ ans[r] = "child" /\ Go(r, "start") /\ UNCHANGED status
       \/ ans[r] = "committed" /\ Go(r, CommittedNext(r)) /\ status' = [status EXCEPT ![r] = "succeeded"]
       \/ ans[r] = "error" /\ Go(r, "observe") /\ UNCHANGED status
       \/ ans[r] = "replay" /\ Go(r, "done") /\ UNCHANGED status
    /\ UNCHANGED <<run, exec, result, tool, delivery, child, why, resets>>
StartChild(r) ==
    /\ wpc[r] = "start" /\ Go(r, "wait") /\ cpc' = [cpc EXCEPT ![r] = "idle"]
    /\ atts' = [atts EXCEPT ![r] = 0]
    /\ UNCHANGED <<run, exec, result, tool, delivery, holds, ghosts, status, why, resets>>
\* The handle returns or raises; wait_for may report a cancelled child as a timeout.
ChildReturned(r) ==
    /\ wpc[r] = "wait" /\ cpc[r] \in {"done", "failed", "cancelled"} /\ Go(r, "close")
    /\ \E s \in {"succeeded", "failed", "cancelled"} :
          /\ cpc[r] = "done" <=> s = "succeeded"
          /\ cpc[r] = "failed" => s = "failed"
          /\ status' = [status EXCEPT ![r] = s]
    /\ cpc' = [cpc EXCEPT ![r] = "none"]
    /\ UNCHANGED <<run, exec, result, tool, delivery, holds, ghosts, atts, why, resets>>

ClosedToken(r) == [token EXCEPT ![r] = @ + 1]
CloseStatus(r) == IF runSt[r] # "running" \/ exe[r] = "cancelling" THEN "cancelled" ELSE status[r]

\* close_capability_activity is not fenced and may be repeated.
Close(r) ==
    /\ wpc[r] = "close" /\ ans[r] = "none"
    /\ IF exe[r] \in Ended THEN UNCHANGED exec
       ELSE /\ CloseStatus(r) = "succeeded" => result[r] # "none"
            /\ exe' = [exe EXCEPT ![r] = CloseStatus(r)] /\ token' = ClosedToken(r)
    /\ ans' = [ans EXCEPT ![r] = "ok"]
    /\ UNCHANGED <<run, result, tool, delivery, wpc, tries, late, status, why, child, resets>>
Closed(r) ==
    /\ wpc[r] = "close" /\ ans[r] = "ok"
    /\ IF status[r] = "succeeded"
       THEN Go(r, IF r \in Agents THEN "observe" ELSE "publish") /\ UNCHANGED why
       ELSE Fail(r, "child") /\ UNCHANGED late
    /\ status' = [status EXCEPT ![r] = "none"]
    /\ UNCHANGED <<run, exec, result, tool, delivery, child, resets>>

After(p) == CASE p = "observe" -> "done" [] p = "publish" -> "saving" [] p = "saving" -> "saved"
              [] p = "saved" -> "complete" [] p = "complete" -> "done" [] p = "failing" -> "failed"
\* execute_segment or Temporal hands the answer over.
Answered(r) ==
    /\ wpc[r] \in Fenced \ {"prepare"} /\ ans[r] = "ok"
    /\ Go(r, After(wpc[r])) /\ UNCHANGED <<run, exec, result, tool, delivery, child, status, why, resets>>

\* A view is optional; a delivery that failed for good is failed.
GiveUp(r, reason) ==
    CASE wpc[r] = "publish" -> Go(r, "saving") /\ UNCHANGED why
      [] wpc[r] \in {"saving", "saved", "complete"} -> Go(r, "failing") /\ UNCHANGED why
      [] OTHER -> Fail(r, reason)
MayRetry(r) == tries[r] + 1 < Tries
Retry(r, p, ghost) ==
    IF MayRetry(r)
    THEN /\ tries' = [tries EXCEPT ![r] = @ + 1] /\ ans' = [ans EXCEPT ![r] = "backoff"]
         /\ wpc' = [wpc EXCEPT ![r] = IF @ = "saved" THEN "saving" ELSE @]
         /\ late' = [late EXCEPT ![r] = ghost] /\ UNCHANGED why
    ELSE IF wpc[r] \in {"publish", "saving", "saved", "complete"} THEN GiveUp(r, p)
    ELSE Fail(r, p) /\ late' = [late EXCEPT ![r] = ghost]

\* A try fails, or is lost with its answer; the thread of one that had not committed goes on.
TryLost(r, ghost) ==
    /\ wpc[r] \in Fenced \cup {"close"} /\ ans[r] # "backoff"
    /\ ghost \in {"none"} \cup (IF ans[r] = "none" THEN {wpc[r]} \cap Fenced ELSE {})
    /\ Retry(r, "lost", ghost)
    /\ UNCHANGED <<run, exec, result, tool, delivery, child, status, resets>>
\* capability_uncertain, a changed transcript: not retried.  Refusals of the parent are.
Refused(r) ==
    /\ ans[r] = "refused"
    /\ IF wpc[r] = "observe" THEN Fail(r, IF events[r] > 0 THEN "conflict" ELSE "result") /\ UNCHANGED late
       ELSE Retry(r, "result", "none")
    /\ UNCHANGED <<run, exec, result, tool, delivery, child, status, resets>>
\* acquire of the next try revokes the last one.
Acquire(r) ==
    /\ ans[r] = "backoff" /\ ans' = [ans EXCEPT ![r] = "none"] /\ late' = [late EXCEPT ![r] = "none"]
    /\ UNCHANGED <<run, exec, result, tool, delivery, wpc, tries, status, why, child, resets>>
\* StaleFencingToken or run_not_executable: the Run no longer runs.
Stale(r) ==
    /\ wpc[r] \in Fenced /\ ~Fence(r) /\ (wpc[r] = "complete" => runSt[r] # "succeeded")
    /\ Fail(r, "cancelled") /\ UNCHANGED late
    /\ UNCHANGED <<run, exec, result, tool, delivery, child, status, resets>>

Reset(r) ==
    /\ wpc[r] \in {"done", "failed"} /\ cpc[r] = "none" /\ runSt[r] = "running" /\ resets < Resets
    /\ Go(r, "prepare") /\ resets' = resets + 1 /\ why' = [why EXCEPT ![r] = "none"]
    /\ UNCHANGED <<run, exec, result, tool, delivery, child, status>>

----------------------------------------------------------------------------
\* The Run around it.

CancelRun(r) ==
    /\ runSt[r] = "running" /\ RunTo(r, "cancelling")
    /\ UNCHANGED <<result, tool, delivery, flow, child, resets>>
Cancelled(r) ==
    /\ runSt[r] = "cancelling" /\ RunTo(r, "cancelled")
    /\ UNCHANGED <<result, tool, delivery, flow, child, resets>>
\* The agent goes on and ends; a failed Workflow is finished by the reconciler.
RunEnds(r, s) ==
    /\ runSt[r] = "running" /\ RunTo(r, s)
    /\ wpc[r] = (IF s = "failed" THEN "failed" ELSE "done") /\ (s = "succeeded" => r \in Agents)
    /\ UNCHANGED <<result, tool, delivery, flow, child, resets>>

Next == \E r \in Runs :
    \/ Prepare(r) \/ PrepareRefused(r) \/ PrepareReplay(r) \/ ObserveResult(r) \/ ObserveMissing(r)
    \/ Publish(r) \/ Save(r) \/ SaveRefused(r) \/ SaveNothing(r) \/ SaveRecorded(r)
    \/ CloseOperation(r) \/ Complete(r) \/ CompleteRefused(r) \/ CompleteAgain(r)
    \/ FailIntent(r) \/ FailDelivery(r)
    \/ ChildAcquires(r) \/ ChildGivesUpTry(r) \/ ChildDone(r) \/ ChildFails(r) \/ ChildCancelled(r)
    \/ \E o \in Outcomes : Publishes(r, holds[r], o)
    \/ \E t \in ghosts[r] : PublishStale(r, t) \/ \E o \in Outcomes : Publishes(r, t, o)
    \/ Prepared(r) \/ StartChild(r) \/ ChildReturned(r) \/ Close(r) \/ Closed(r) \/ Answered(r)
    \/ \E g \in {"none"} \cup Fenced : TryLost(r, g)
    \/ Refused(r) \/ Acquire(r) \/ Stale(r) \/ Reset(r)
    \/ CancelRun(r) \/ Cancelled(r) \/ \E s \in {"succeeded", "failed"} : RunEnds(r, s)

Spec == Init /\ [][Next]_vars

\* What Temporal, the Workers, the agent and the reconciler do sooner or later.
CallerMoves(r) ==
    \/ Prepare(r) \/ PrepareRefused(r) \/ PrepareReplay(r) \/ ObserveResult(r) \/ ObserveMissing(r)
    \/ Publish(r) \/ Save(r) \/ SaveRefused(r) \/ SaveNothing(r) \/ SaveRecorded(r)
    \/ CloseOperation(r) \/ Complete(r) \/ CompleteRefused(r) \/ CompleteAgain(r)
    \/ FailIntent(r) \/ FailDelivery(r)
    \/ Prepared(r) \/ StartChild(r) \/ ChildReturned(r) \/ Close(r) \/ Closed(r) \/ Answered(r)
    \/ Refused(r) \/ Acquire(r) \/ Stale(r)
ChildMoves(r) ==
    \/ ChildAcquires(r) \/ ChildDone(r) \/ ChildFails(r)
    \/ result[r] = "none" /\ \E o \in Outcomes : Publishes(r, holds[r], o)
RunMoves(r) == Cancelled(r) \/ \E s \in {"succeeded", "failed"} : RunEnds(r, s)
FairSpec == Spec /\ \A r \in Runs :
    WF_vars(CallerMoves(r)) /\ WF_vars(ChildMoves(r)) /\ WF_vars(RunMoves(r))

----------------------------------------------------------------------------
\* Properties.

\* Child Executions that are not closed never exceed the limits of the deployment and of an
\* account, however the admissions of several Runs interleave with late prepares and closings.
LimitsHold ==
    LET open(R) == {r \in R : exe[r] \notin {"none"} \cup Ended} IN
    /\ Cardinality(open(Runs)) <= GlobalLimit
    /\ \A r \in Runs : Cardinality(open({s \in Runs : AccountOf[s] = AccountOf[r]})) <= AccountLimit

\* A Run that has ended leaves no child Execution open, whatever prepare or child attempt was
\* still on its way.
NoChildOutlivesRun == \A r \in Runs : runSt[r] \in Ended => exe[r] \notin Active

\* An Execution that was closed without a result never gets one from an attempt that was
\* cancelled, timed out or replaced and goes on.
NoResultAfterCloseStep ==
    \A r \in Runs : exe[r] \in Ended /\ result[r] = "none" => result'[r] = "none"
NoResultAfterClose == [][NoResultAfterCloseStep]_vars

\* What an agent was told stays what the producer committed, stands once in the transcript, and
\* asking again never ends as a transcript conflict.
ObservedAsCommitted ==
    \A r \in Agents :
        /\ observed[r] => op[r] = result[r] /\ events[r] = 1
        /\ op[r] \in Outcomes => observed[r]
        /\ why[r] # "conflict"

\* When the agent goes on after a capability, its child Execution no longer takes a slot.
SlotIsFree == \A r \in Agents : wpc[r] = "done" => exe[r] \notin Active

\* A research Run succeeds only with a sufficient report that is in the workspace when its
\* mandate asks for that.
DeliveredIsSaved ==
    \A r \in Parents : runSt[r] = "succeeded" =>
        /\ result[r] = "succeeded" /\ op[r] = "succeeded"
        /\ intent[r] # "none" => intent[r] = "succeeded" /\ saved[r] = 1

\* The workspace holds the report once, however often the save was tried, and an intent that
\* counts as succeeded has its entry.
SavedOnce ==
    \A r \in Parents : saved[r] <= 1 /\ (intent[r] = "succeeded" => saved[r] = 1)

\* Every child Execution is closed sooner or later: by close, or by the end of its Run.
SlotsReturn == \A r \in Runs : exe[r] \in Active ~> exe[r] \in Ended

\* Child Executions stay within their limits, and what their caller sees is what was
\* committed and saved once (main_capability.py).
Safety ==
    /\ TypeOK
    /\ LimitsHold
    /\ NoChildOutlivesRun
    /\ ObservedAsCommitted
    /\ SlotIsFree
    /\ DeliveredIsSaved
    /\ SavedOnce
============================================================================
