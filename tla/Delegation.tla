----------------------------- MODULE Delegation -----------------------------
(***************************************************************************)
(* Fan-out of a Generic Work Run.  WorkDelegationWorkflow prepares the      *)
(* branches, runs each as a child AgentRunWorkflow, prepares one second     *)
(* attempt for the failed ones and stores the aggregate as the tool result  *)
(* of the root.  prepare and finish are fenced Activities of the root       *)
(* Execution, each tried a few times; finish_branch is an unfenced Activity *)
(* that closes a branch Execution.  An answer may be lost after its         *)
(* transaction, and a try nobody waits for may commit until the next try    *)
(* acquires the Execution.                                                  *)
(***************************************************************************)
EXTENDS Naturals, FiniteSets

CONSTANTS
    Runs, AccountOf,
    Keys, Required,           \* branch keys of the brief, the required ones
    GlobalLimit, AccountLimit,\* work_global_subagents, work_account_subagents
    BranchErrors,             \* what failure_code finds at the root of a child's failure
    Tries                     \* maximum_attempts of every Activity

DelegationAssumption ==
    /\ Required \subseteq Keys /\ Keys # {}
    /\ Tries \in Nat \ {0} /\ GlobalLimit \in Nat /\ AccountLimit \in Nat

VARIABLES
    runSt,    \* runs.status
    kind,     \* result kind of a succeeded Run
    scope,    \* the Run is still authorized for what the brief names
    deleg,    \* the execution_delegations row exists
    exe,      \* run_executions.status of a branch attempt, "none" before the insert
    err,      \* its error_code
    res,      \* its committed result and the disposition of the receipt
    outcome,  \* result_payload of the root's tool Operation
    wpc,      \* position of WorkDelegationWorkflow
    ans,      \* what the current Activity answers
    tries,    \* tries of the current Activity
    late,     \* a prepare that was given up and still runs: its branch_attempt
    bpc, bout, btries,  \* a branch coroutine, what its child answered, tries of finish_branch
    agg,      \* what _aggregate read
    refused,  \* a prepare answered with an error
    why       \* why the Workflow failed

run == <<runSt, kind, scope>>
facts == <<deleg, exe, err, res, outcome>>
flow == <<wpc, ans, tries, late, agg, refused, why>>
branches == <<bpc, bout, btries>>
vars == <<run, facts, flow, branches>>

Attempts == {1, 2}
Active == {"queued", "running", "cancelling"}
Closed == {"succeeded", "failed", "cancelled"}
Ended == {"succeeded", "failed", "cancelled"}

NonRetryableBranchErrors ==
    {"run_budget_exhausted", "work_budget_exhausted", "account_daily_budget_exhausted",
     "stale_fencing_token", "run_not_executable", "delegation_scope_denied"}

NoAnswer == [kind |-> "none"]
NoAggregate == [success |-> FALSE, gaps |-> {}, branches |-> FALSE]
Aggregates == [success : BOOLEAN, gaps : SUBSET Keys, branches : BOOLEAN]
NoOutcome == [status |-> "failed", error |-> "none"]

TypeOK ==
    /\ runSt \in [Runs -> {"running", "cancelling"} \cup Ended]
    /\ kind \in [Runs -> {"none", "deliverable_ready", "progress_saved"}]
    /\ scope \in [Runs -> BOOLEAN] /\ deleg \in [Runs -> BOOLEAN]
    /\ exe \in [Runs -> [Keys -> [Attempts -> {"none"} \cup Active \cup Closed]]]
    /\ err \in [Runs -> [Keys -> [Attempts -> {"none"} \cup BranchErrors]]]
    /\ res \in [Runs -> [Keys -> [Attempts -> {"none", "current", "late"}]]]
    /\ \A r \in Runs : outcome[r] = NoAnswer \/ outcome[r] \in Aggregates
    /\ wpc \in [Runs -> {"prepare1", "branches1", "prepare2", "branches2", "finish", "done", "failed"}]
    /\ tries \in [Runs -> 0 .. Tries - 1] /\ late \in [Runs -> {0} \cup Attempts]
    /\ bpc \in [Runs -> [Keys -> {"none", "child", "finish", "done"}]]
    /\ btries \in [Runs -> [Keys -> 0 .. Tries - 1]]
    /\ agg \in [Runs -> Aggregates] /\ refused \in [Runs -> BOOLEAN]
    /\ why \in [Runs -> {"none", "lost", "receipt", "unfinished", "cancelled"}]

Each(v) == [r \in Runs |-> v]
EachBranch(v) == [r \in Runs |-> [k \in Keys |-> v]]
Init ==
    /\ runSt = Each("running") /\ kind = Each("none") /\ scope = Each(TRUE)
    /\ deleg = Each(FALSE) /\ outcome = Each(NoAnswer)
    /\ exe = EachBranch([n \in Attempts |-> "none"])
    /\ err = EachBranch([n \in Attempts |-> "none"])
    /\ res = EachBranch([n \in Attempts |-> "none"])
    /\ wpc = Each("prepare1") /\ ans = Each(NoAnswer) /\ tries = Each(0) /\ late = Each(0)
    /\ bpc = EachBranch("none") /\ bout = EachBranch(NoOutcome) /\ btries = EachBranch(0)
    /\ agg = Each(NoAggregate) /\ refused = Each(FALSE) /\ why = Each("none")

----------------------------------------------------------------------------
\* Reading branch rows.

Latest(r, k) == IF exe[r][k][2] # "none" THEN 2 ELSE 1

Counted(e) == e \in Active
Subagents(R) == {<<r, k, n>> \in R \X Keys \X Attempts : Counted(exe[r][k][n])}

Retriable(r, k) == exe[r][k][1] = "failed" /\ err[r][k][1] \notin NonRetryableBranchErrors

Pending(r, n) == IF n = 1 THEN Keys ELSE {k \in Keys : Retriable(r, k)}
NewOnes(r, n) == {k \in Pending(r, n) : exe[r][k][n] = "none"}

Admits(r, new) ==
    /\ Cardinality(Subagents(Runs)) + new <= GlobalLimit
    /\ Cardinality(Subagents({s \in Runs : AccountOf[s] = AccountOf[r]})) + new <= AccountLimit

Gaps(r) == {k \in Keys : exe[r][k][Latest(r, k)] # "succeeded"}

RequiredGaps(r) == {k \in Required : deleg[r] /\ \A n \in Attempts : exe[r][k][n] # "succeeded"}

----------------------------------------------------------------------------
\* The root's fenced Activities.

\* Variation: the status of the Run is not looked at.
NoFence(r) == TRUE
\* assert_execution_fence; the token of a try is the last one unless it is late.
Fence(r) == runSt[r] = "running"

Answer(r, a) == ans' = [ans EXCEPT ![r] = a]

\* _prepare has committed: the delegation row and the missing Executions.
Insert(r, n) ==
    /\ deleg' = [deleg EXCEPT ![r] = TRUE]
    /\ exe' = [exe EXCEPT ![r] = [k \in Keys |->
                  IF k \in NewOnes(r, n) THEN [exe[r][k] EXCEPT ![n] = "queued"] ELSE exe[r][k]]]
    /\ UNCHANGED <<err, res, outcome>>

CanPrepare(r, n) ==
    /\ Fence(r) /\ scope[r]
    /\ NewOnes(r, n) = {} \/ Admits(r, Cardinality(NewOnes(r, n)))

Trying(r, p) == wpc[r] = p /\ ans[r] = NoAnswer
Position(n) == IF n = 1 THEN "prepare1" ELSE "prepare2"

Prepare(r, n) ==
    /\ Trying(r, Position(n)) /\ CanPrepare(r, n)
    /\ Insert(r, n) /\ Answer(r, [kind |-> "prepared", branches |-> Pending(r, n)])
    /\ UNCHANGED <<run, branches, wpc, tries, late, agg, refused, why>>

\* DelegationDenied: scope, capacity or budget.
PrepareDenied(r, n) ==
    /\ Trying(r, Position(n)) /\ Fence(r)
    /\ ~scope[r] \/ (NewOnes(r, n) # {} /\ ~Admits(r, Cardinality(NewOnes(r, n))))
    /\ Answer(r, [kind |-> "error"])
    /\ UNCHANGED <<run, facts, branches, wpc, tries, late, agg, refused, why>>

\* The thread of a prepare that was given up commits before the next try acquires.
LatePrepare(r) ==
    /\ late[r] # 0 /\ CanPrepare(r, late[r]) /\ Insert(r, late[r])
    /\ late' = [late EXCEPT ![r] = 0]
    /\ UNCHANGED <<run, branches, wpc, ans, tries, agg, refused, why>>

\* The Workflow gets the answer.
StartBranches(r, n, K) ==
    /\ bpc' = [bpc EXCEPT ![r] = [k \in Keys |-> IF k \in K THEN "child" ELSE "none"]]
    /\ bout' = [bout EXCEPT ![r] = [k \in Keys |-> NoOutcome]]
    /\ btries' = [btries EXCEPT ![r] = [k \in Keys |-> 0]]
    /\ wpc' = [wpc EXCEPT ![r] = IF n = 1 THEN "branches1" ELSE "branches2"]

Next1(r) == /\ ans' = [ans EXCEPT ![r] = NoAnswer] /\ tries' = [tries EXCEPT ![r] = 0]
            /\ late' = [late EXCEPT ![r] = 0]

Prepared(r, n) ==
    /\ wpc[r] = Position(n)
    /\ \/ /\ ans[r].kind = "prepared" /\ StartBranches(r, n, ans[r].branches)
          /\ UNCHANGED refused
       \/ /\ ans[r].kind = "error" /\ wpc' = [wpc EXCEPT ![r] = "finish"]
          /\ refused' = [refused EXCEPT ![r] = TRUE] /\ UNCHANGED branches
    /\ Next1(r) /\ UNCHANGED <<run, facts, agg, why>>

----------------------------------------------------------------------------
\* Branches.

Attempt(r) == IF wpc[r] = "branches1" THEN 1 ELSE 2
InBranches(r) == wpc[r] \in {"branches1", "branches2"}

\* The Workflow raises; what it held is gone with it.
NoBranches(r) ==
    /\ bpc' = [bpc EXCEPT ![r] = [k \in Keys |-> "none"]]
    /\ bout' = [bout EXCEPT ![r] = [k \in Keys |-> NoOutcome]]
    /\ btries' = [btries EXCEPT ![r] = [k \in Keys |-> 0]]
Fail(r, reason) ==
    /\ wpc' = [wpc EXCEPT ![r] = "failed"] /\ why' = [why EXCEPT ![r] = reason]
    /\ ans' = [ans EXCEPT ![r] = NoAnswer] /\ tries' = [tries EXCEPT ![r] = 0]
    /\ agg' = [agg EXCEPT ![r] = NoAggregate] /\ NoBranches(r)

Child(r, k) == InBranches(r) /\ bpc[r][k] = "child"
SetExe(r, k, n, s) == exe' = [exe EXCEPT ![r][k][n] = s]

\* A child commits its answer, under its own fence or as a late receipt no newer attempt excludes.
ChildRuns(r, k) ==
    LET n == Attempt(r) IN
    /\ Child(r, k) /\ runSt[r] = "running" /\ exe[r][k][n] = "queued"
    /\ SetExe(r, k, n, "running")
    /\ UNCHANGED <<run, deleg, err, res, outcome, flow, branches>>
ChildCommits(r, k, d) ==
    LET n == Attempt(r) IN
    /\ InBranches(r) /\ bpc[r][k] \in {"child", "finish"}
    /\ runSt[r] = "running" /\ exe[r][k][n] = "running" /\ res[r][k][n] = "none"
    /\ res' = [res EXCEPT ![r][k][n] = d]
    /\ UNCHANGED <<run, deleg, exe, err, outcome, flow, branches>>

ChildEnds(r, k, o) ==
    /\ Child(r, k)
    /\ o.status = "succeeded" => res[r][k][Attempt(r)] # "none"
    /\ bout' = [bout EXCEPT ![r][k] = o] /\ bpc' = [bpc EXCEPT ![r][k] = "finish"]
    /\ UNCHANGED <<run, facts, flow, btries>>

OwnReceipt(d) == d = "current"

\* _finish_branch: one transaction, repeated without effect.
BranchStatus(r, k) == IF runSt[r] = "running" THEN bout[r][k].status ELSE "cancelled"
FinishBranch(r, k) ==
    LET n == Attempt(r) IN
    /\ InBranches(r) /\ bpc[r][k] = "finish" /\ exe[r][k][n] \in Active
    /\ BranchStatus(r, k) = "succeeded" => OwnReceipt(res[r][k][n])
    /\ SetExe(r, k, n, BranchStatus(r, k))
    /\ err' = [err EXCEPT ![r][k][n] = bout[r][k].error]
    /\ UNCHANGED <<run, deleg, res, outcome, flow, branches>>

BranchFinished(r, k) ==
    /\ InBranches(r) /\ bpc[r][k] = "finish" /\ exe[r][k][Attempt(r)] \in Closed
    /\ bpc' = [bpc EXCEPT ![r][k] = "done"] /\ btries' = [btries EXCEPT ![r][k] = 0]
    /\ UNCHANGED <<run, facts, flow, bout>>

MayRetry(n) == n + 1 < Tries

\* A try of finish_branch fails: refused for want of a current receipt, or lost.
Unfinished(r, k) ==
    BranchStatus(r, k) = "succeeded" /\ exe[r][k][Attempt(r)] \in Active /\ ~OwnReceipt(res[r][k][Attempt(r)])
BranchTryFails(r, k) ==
    /\ InBranches(r) /\ bpc[r][k] = "finish"
    /\ IF MayRetry(btries[r][k])
       THEN btries' = [btries EXCEPT ![r][k] = @ + 1] /\ UNCHANGED <<bpc, bout, wpc, ans, tries, agg, why>>
       ELSE Fail(r, IF Unfinished(r, k) THEN "receipt" ELSE "lost")
    /\ UNCHANGED <<run, facts, late, refused>>

\* asyncio.gather has returned; errors are what the coroutines of this round returned.
Errors(r) == {bout[r][k].error : k \in Keys} \ {"none"}
Gathered(r) ==
    /\ InBranches(r) /\ \A k \in Keys : bpc[r][k] \in {"none", "done"}
    /\ wpc' = [wpc EXCEPT ![r] =
         IF wpc[r] = "branches1" /\ Errors(r) \ NonRetryableBranchErrors # {} THEN "prepare2" ELSE "finish"]
    /\ NoBranches(r)
    /\ UNCHANGED <<run, facts, ans, tries, late, agg, refused, why>>

----------------------------------------------------------------------------
\* finish_delegation_activity: _aggregate, then the tool result and its transcript event.

Aggregable(r) == deleg[r] => \A k \in Keys : exe[r][k][Latest(r, k)] \in Closed

Aggregate(r) == IF deleg[r] THEN [success |-> Gaps(r) \cap Required = {}, gaps |-> Gaps(r), branches |-> TRUE]
                ELSE NoAggregate

FinishRead(r) ==
    /\ Trying(r, "finish") /\ Fence(r) /\ outcome[r] = NoAnswer /\ Aggregable(r)
    /\ agg' = [agg EXCEPT ![r] = Aggregate(r)] /\ Answer(r, [kind |-> "read"])
    /\ UNCHANGED <<run, facts, branches, wpc, tries, late, refused, why>>
FinishWrite(r) ==
    /\ wpc[r] = "finish" /\ ans[r].kind = "read" /\ Fence(r)
    /\ outcome' = [outcome EXCEPT ![r] = agg[r]] /\ Answer(r, [kind |-> "result"])
    /\ UNCHANGED <<run, deleg, exe, err, res, branches, wpc, tries, late, agg, refused, why>>
FinishReplay(r) ==
    /\ Trying(r, "finish") /\ Fence(r) /\ outcome[r] # NoAnswer /\ Answer(r, [kind |-> "result"])
    /\ UNCHANGED <<run, facts, branches, wpc, tries, late, agg, refused, why>>
Finished(r) ==
    /\ wpc[r] = "finish" /\ ans[r].kind = "result" /\ wpc' = [wpc EXCEPT ![r] = "done"]
    /\ agg' = [agg EXCEPT ![r] = NoAggregate]
    /\ Next1(r) /\ UNCHANGED <<run, facts, branches, refused, why>>

\* A try fails or its answer is lost; a prepare may go on in its thread.
TryFails(r, ghost) ==
    /\ wpc[r] \in {"prepare1", "prepare2", "finish"} /\ ans[r].kind # "backoff"
    /\ ghost \in {0} \cup {n \in Attempts : ans[r] = NoAnswer /\ wpc[r] = Position(n)}
    /\ LET reason == IF wpc[r] = "finish" /\ ~Aggregable(r) THEN "unfinished" ELSE "lost" IN
       IF MayRetry(tries[r])
       THEN /\ tries' = [tries EXCEPT ![r] = @ + 1] /\ Answer(r, [kind |-> "backoff"])
            /\ agg' = [agg EXCEPT ![r] = NoAggregate] /\ UNCHANGED <<branches, wpc, why>>
       ELSE Fail(r, reason)
    /\ late' = [late EXCEPT ![r] = ghost] /\ UNCHANGED <<run, facts, refused>>

\* acquire_segment of the next try: a new token, nothing commits under the old one.
NewToken(r) == [late EXCEPT ![r] = 0]
Acquire(r) ==
    /\ ans[r].kind = "backoff" /\ Fence(r) /\ wpc[r] # "failed"
    /\ late' = NewToken(r) /\ Answer(r, NoAnswer)
    /\ UNCHANGED <<run, facts, branches, wpc, tries, agg, refused, why>>

----------------------------------------------------------------------------
\* The Run around it, with the trigger project_execution_status.

\* Variation: branches keep their status when the Run ends.
ProjectNothing(r, s) == exe[r]
Project(r, s) == [k \in Keys |-> [n \in Attempts |->
    IF exe[r][k][n] \in Active THEN (IF s = "cancelling" THEN "cancelling" ELSE "cancelled")
    ELSE exe[r][k][n]]]

RunTo(r, s) ==
    /\ runSt' = [runSt EXCEPT ![r] = s] /\ exe' = [exe EXCEPT ![r] = Project(r, s)]
    /\ UNCHANGED <<scope, deleg, err, res, outcome>>

CancelRun(r) ==
    /\ runSt[r] = "running" /\ RunTo(r, "cancelling")
    /\ UNCHANGED <<kind, flow, branches>>
\* cancelled by a dispatcher, the Workflow or the reconciler.
Cancelled(r) ==
    /\ runSt[r] = "cancelling" /\ RunTo(r, "cancelled")
    /\ UNCHANGED <<kind, flow, branches>>
\* The Workflow failed and the Run with it, or the reconciler fails it.
FailRun(r) ==
    /\ runSt[r] = "running" /\ wpc[r] = "failed" /\ RunTo(r, "failed")
    /\ UNCHANGED <<kind, flow, branches>>
\* finish_in_uow refuses success while a branch is active; execution_result degrades a gap.
Succeed(r) ==
    /\ runSt[r] = "running" /\ wpc[r] = "done"
    /\ \A k \in Keys, n \in Attempts : exe[r][k][n] \notin Active
    /\ RunTo(r, "succeeded")
    /\ kind' = [kind EXCEPT ![r] = IF RequiredGaps(r) = {} THEN "deliverable_ready" ELSE "progress_saved"]
    /\ UNCHANGED <<flow, branches>>
\* Cancellation reaches the Workflow: gather raises, open branches are not finished.
WorkflowCancelled(r) ==
    /\ runSt[r] \in {"cancelling"} \cup Ended /\ wpc[r] \notin {"done", "failed"}
    /\ Fail(r, "cancelled") /\ UNCHANGED <<run, facts, late, refused>>
Revoke(r) ==
    /\ scope[r] /\ runSt[r] = "running" /\ scope' = [scope EXCEPT ![r] = FALSE]
    /\ UNCHANGED <<runSt, kind, facts, flow, branches>>

ChildOutcomes == {[status |-> "succeeded", error |-> "none"]}
                   \cup {[status |-> "failed", error |-> e] : e \in BranchErrors}

Next == \E r \in Runs :
    \/ \E n \in Attempts : Prepare(r, n) \/ PrepareDenied(r, n) \/ Prepared(r, n)
    \/ LatePrepare(r) \/ Gathered(r)
    \/ \E k \in Keys :
          \/ ChildRuns(r, k) \/ FinishBranch(r, k) \/ BranchFinished(r, k) \/ BranchTryFails(r, k)
          \/ \E d \in {"current", "late"} : ChildCommits(r, k, d)
          \/ \E o \in ChildOutcomes : ChildEnds(r, k, o)
    \/ FinishRead(r) \/ FinishWrite(r) \/ FinishReplay(r) \/ Finished(r)
    \/ \E g \in {0} \cup Attempts : TryFails(r, g)
    \/ Acquire(r)
    \/ CancelRun(r) \/ Cancelled(r) \/ FailRun(r) \/ Succeed(r) \/ WorkflowCancelled(r) \/ Revoke(r)

Spec == Init /\ [][Next]_vars

\* What Temporal and the reconciler do sooner or later; faults, commands and revocation are not.
Progress(r) ==
    \/ \E n \in Attempts : Prepare(r, n) \/ PrepareDenied(r, n) \/ Prepared(r, n)
    \/ Gathered(r) \/ FinishRead(r) \/ FinishWrite(r) \/ FinishReplay(r) \/ Finished(r) \/ Acquire(r)
    \/ \E k \in Keys : \E o \in ChildOutcomes : ChildEnds(r, k, o)
    \/ \E k \in Keys : FinishBranch(r, k) \/ BranchFinished(r, k)
    \/ Cancelled(r) \/ FailRun(r) \/ Succeed(r) \/ WorkflowCancelled(r)
\* A try that can only be refused fails.
Refuses(r) ==
    \/ \E k \in Keys : Unfinished(r, k) /\ BranchTryFails(r, k)
    \/ ~Aggregable(r) /\ ans[r] = NoAnswer /\ TryFails(r, 0)
FairSpec == Spec /\ \A r \in Runs : WF_vars(Progress(r)) /\ WF_vars(Refuses(r))

----------------------------------------------------------------------------
\* Properties.

\* However prepares interleave, and whichever of them is late or repeated, the branch
\* Executions that are not closed never exceed the limits of work_global_subagents and
\* work_account_subagents.
BranchLimitsHold ==
    LET open(R) == {<<r, k, n>> \in R \X Keys \X Attempts : exe[r][k][n] \notin {"none"} \cup Closed} IN
    /\ Cardinality(open(Runs)) <= GlobalLimit
    /\ \A r \in Runs : Cardinality(open({s \in Runs : AccountOf[s] = AccountOf[r]})) <= AccountLimit

\* A branch is attempted a second time only when its first attempt failed for a reason the
\* contract calls retryable; a success is never redone, also when prepare is repeated.
SecondOnlyAfterFailure ==
    \A r \in Runs, k \in Keys : exe[r][k][2] # "none" =>
        exe[r][k][1] = "failed" /\ err[r][k][1] \notin NonRetryableBranchErrors

\* The stored tool result stays true: it names exactly the branches without a success, of a
\* delegation that was stored, and calls itself a success only when none of them is required.
AggregateMatches ==
    \A r \in Runs : outcome[r] # NoAnswer =>
        /\ outcome[r].branches = deleg[r]
        /\ deleg[r] => outcome[r].gaps = {k \in Keys : \A n \in Attempts : exe[r][k][n] # "succeeded"}
        /\ outcome[r].success = (deleg[r] /\ outcome[r].gaps \cap Required = {})

\* A branch that counts as succeeded has an answer committed under its own authority, never
\* one that arrived after its attempt had been fenced.
BranchEvidenceIsCurrent ==
    \A r \in Runs, k \in Keys, n \in Attempts : exe[r][k][n] = "succeeded" => res[r][k][n] = "current"

\* A Run ends as deliverable only if every required branch of its delegation succeeded in one
\* of its attempts, and its tool result said so.
DeliverableIsComplete ==
    \A r \in Runs : runSt[r] = "succeeded" /\ deleg[r] =>
        ((kind[r] = "deliverable_ready") <=>
         \A k \in Required : \E n \in Attempts : exe[r][k][n] = "succeeded")

\* No branch is left open when its Run has ended, whatever prepare, child or finish_branch was
\* still on its way.
NoBranchOutlivesRun ==
    \A r \in Runs : runSt[r] \in Ended => \A k \in Keys, n \in Attempts : exe[r][k][n] \notin Active

\* Every branch Execution is closed sooner or later, so its slot comes back: by finish_branch,
\* or by the end of the Run when the Workflow failed, was cancelled or never saw the branch.
SlotsReturn ==
    \A r \in Runs, k \in Keys, n \in Attempts :
        exe[r][k][n] \in Active ~> exe[r][k][n] \in Closed

\* Branches stay within their limits, their results are current and complete, and
\* none outlives its Run (delegation.py, child_agent.py).
Safety ==
    /\ TypeOK
    /\ BranchLimitsHold
    /\ SecondOnlyAfterFailure
    /\ AggregateMatches
    /\ BranchEvidenceIsCurrent
    /\ DeliverableIsComplete
    /\ NoBranchOutlivesRun

============================================================================
