---------------------------- MODULE WorkProgress ----------------------------
(***************************************************************************)
(* The protection of an ongoing Work against advancing without progress,  *)
(* and the comparison of its daily results.  The result of a capability    *)
(* invocation is one sample of its requirement revision: a failure that    *)
(* repeats, or results without a new fact, block the revision until the    *)
(* user revises it or pauses and resumes it.  A daily Run is compared with *)
(* the daily result that was current when it was admitted, and only a      *)
(* change is announced.                                                    *)
(*                                                                         *)
(* A result's content is one of Facts; the inputs of an invocation are one *)
(* of Inputs.  The Work is ongoing: its criteria are never all satisfied.  *)
(* Its deliveries are taken by the channel.  Effects that stay unresolved  *)
(* and criteria that complete a Work are in WorkStore.                     *)
(***************************************************************************)
EXTENDS Integers, SequencesExt, FiniteSetsExt

CONSTANTS
    Daily,            \* the timing: daily, or immediate
    Delivers,         \* the criteria ask for a delivery receipt
    Inputs, Facts, None,
    Outcomes,         \* what an invocation may come to
    Verdicts,         \* of the checks of a result that succeeded
    FailureLimit, NoProgressLimit,
    MaxRuns, MaxRevisions, MaxInvocations, MaxRaises, MaxResumes

ProgressAssumption ==
    /\ {Daily, Delivers} \subseteq BOOLEAN /\ None \notin Facts /\ Verdicts \subseteq BOOLEAN
    /\ Outcomes \subseteq {"succeeded", "failed", "insufficient", "cancelled", "needs_input"}
    /\ {FailureLimit, NoProgressLimit} \subseteq 1 .. 100
    /\ {MaxRuns, MaxRevisions, MaxInvocations} \subseteq Nat \ {0}
    /\ {MaxRaises, MaxResumes} \subseteq Nat

VARIABLES
    work,      \* [status, revision, epoch, run, reason, raised, resumed]; reason is the continuation's
    runs,      \* the Runs: [revision, epoch, status, baseline, invocations]
    progress,  \* work_progress of each revision: [failures, idle, last, blocked]
    seen,      \* work_progress_facts of each revision
    daily,     \* work_daily_results in the order of their acceptance: [run, revision, previous, signature, changed]
    notices,   \* Runs whose result was announced: result_changed, or a fulfilment
    samples,   \* history: the samples of each revision, [failure, facts, quiet]
    mark       \* history: how many samples of each revision were taken before its last reset

vars == <<work, runs, progress, seen, daily, notices, samples, mark>>

Revisions == 1 .. MaxRevisions
Protections == {"repeated_failure", "no_progress"}
Reasons == Protections \cup
    {"ready", "scheduled", "input", "delivery", "admitted", "budget_exhausted", "attempt_failed", "attempt_cancelled"}
NoProgress == [failures |-> 0, idle |-> 0, last |-> None, blocked |-> None]

InitialContinuation == IF Daily THEN "scheduled" ELSE "ready"

Init ==
    /\ work = [status |-> "active", revision |-> 1, epoch |-> 1, run |-> None,
               reason |-> InitialContinuation, raised |-> 0, resumed |-> 0]
    /\ runs = <<>> /\ daily = <<>> /\ notices = {}
    /\ progress = [r \in Revisions |-> NoProgress]
    /\ seen = [r \in Revisions |-> {}]
    /\ samples = [r \in Revisions |-> <<>>]
    /\ mark = [r \in Revisions |-> 0]

BlockedReason == progress[work.revision].blocked

-----------------------------------------------------------------------------
(* The results of invocations and what they count for.                     *)

\* What a result proves: its content, when no check of it failed.
ResultFacts(result) ==
    IF result.outcome = "succeeded" /\ result.passed /\ result.fact # None THEN {result.fact} ELSE {}

Failed(result) == result.outcome \in {"failed", "insufficient"}

\* The same capability, inputs and error.
Failure(input, result) == IF Failed(result) THEN <<input, result.outcome>> ELSE None

NewFacts(r, result) == ResultFacts(result) \ seen[runs[r].revision]

\* A protection that is on stays on.
ReasonOf(state, failures, idle) ==
    IF state.blocked # None THEN state.blocked
    ELSE IF failures >= FailureLimit THEN "repeated_failure"
    ELSE IF idle >= NoProgressLimit THEN "no_progress"
    ELSE None

Counts(result) == result.outcome \notin {"cancelled", "needs_input"}

\* The state of the protection after one more sample of Run r.
After(state, r, input, result) ==
    LET failure == Failure(input, result)
        failures == IF failure = None THEN 0 ELSE IF state.last = failure THEN state.failures + 1 ELSE 1
        normal == Daily /\ ~Failed(result) /\ ResultFacts(result) # {}
        idle == IF NewFacts(r, result) # {} \/ normal THEN 0 ELSE state.idle + 1
    IN [failures |-> failures, idle |-> idle, last |-> failure, blocked |-> ReasonOf(state, failures, idle)]

\* What the history keeps of a sample: a quiet day proves something, if nothing new.
Sample(input, result) ==
    [failure |-> Failure(input, result), facts |-> ResultFacts(result),
     normal |-> Daily /\ ResultFacts(result) # {}]

-----------------------------------------------------------------------------
(* Daily results.                                                          *)

\* The Run of the last daily result of the revision.
PreviousDaily(revision) ==
    LET of == {i \in DOMAIN daily : daily[i].revision = revision}
    IN IF of = {} THEN None ELSE daily[Max(of)].run

SignatureOf(run) == (CHOOSE d \in ToSet(daily) : d.run = run).signature

\* All the facts of the Run, if every invocation succeeded with its checks passed, and some are facts.
DailySignature(r) ==
    LET invocations == runs[r].invocations
        facts == UNION {ResultFacts(invocations[i].result) : i \in DOMAIN invocations}
    IN IF \/ ~Daily \/ invocations = <<>>
          \/ \E i \in DOMAIN invocations : invocations[i].result = None
          \/ \E i \in DOMAIN invocations :
                ~(invocations[i].result.outcome = "succeeded" /\ invocations[i].result.passed)
          \/ facts = {}
       THEN None ELSE facts

\* A success that states what its baseline stated.
Unchanged(r) ==
    DailySignature(r) # None /\ runs[r].baseline # None /\ SignatureOf(runs[r].baseline) = DailySignature(r)

\* The result becomes what the next Run is compared with.
AcceptDailyResult(r) ==
    daily' = Append(daily, [run |-> r, revision |-> runs[r].revision, previous |-> runs[r].baseline,
                            signature |-> DailySignature(r), changed |-> ~Unchanged(r)])

-----------------------------------------------------------------------------
(* Admission and invocations.                                              *)

MayAdvance == BlockedReason = None /\ work.reason # "budget_exhausted"

\* The scheduler's due Run, a wakeup or the user's advance: all the same gate.
Admit ==
    /\ work.status = "active" /\ work.run = None /\ Len(runs) < MaxRuns
    /\ work.reason \notin {"input", "delivery"}
    /\ MayAdvance
    /\ runs' = Append(runs, [revision |-> work.revision, epoch |-> work.epoch + 1, status |-> "running",
                             baseline |-> IF Daily THEN PreviousDaily(work.revision) ELSE None,
                             invocations |-> <<>>])
    /\ work' = [work EXCEPT !.run = Len(runs) + 1, !.epoch = @ + 1, !.reason = "admitted"]
    /\ UNCHANGED <<progress, seen, daily, notices, samples, mark>>

\* The cumulative budget of the Work is exhausted.
AdmitExhausted ==
    /\ work.status = "active" /\ work.run = None /\ Len(runs) < MaxRuns
    /\ work.reason \notin {"input", "delivery"}
    /\ MayAdvance
    /\ work.raised < MaxRaises
    /\ work' = [work EXCEPT !.reason = "budget_exhausted"]
    /\ UNCHANGED <<runs, progress, seen, daily, notices, samples, mark>>

Owns(r) ==
    /\ work.status = "active" /\ work.run = r /\ runs[r].status = "running"
    /\ work.revision = runs[r].revision /\ work.epoch = runs[r].epoch

Open(r) == {i \in DOMAIN runs[r].invocations : runs[r].invocations[i].result = None}
Live(r) == {i \in Open(r) : ~runs[r].invocations[i].dead}

Invokes == BlockedReason = None

\* One invocation of the parent at a time.
Invoke(r, input) ==
    /\ Owns(r) /\ Live(r) = {} /\ Len(runs[r].invocations) < MaxInvocations
    /\ Invokes
    /\ runs' = [runs EXCEPT ![r].invocations =
                    Append(@, [input |-> input, result |-> None, dead |-> FALSE])]
    /\ UNCHANGED <<work, progress, seen, daily, notices, samples, mark>>

\* The producer commits its result, and the sample with it.
Result(r, i, result) ==
    /\ Owns(r) /\ i \in Live(r)
    /\ runs' = [runs EXCEPT ![r].invocations[i].result = result]
    /\ LET v == runs[r].revision
           input == runs[r].invocations[i].input
       IN IF Counts(result)
          THEN /\ progress' = [progress EXCEPT ![v] = After(@, r, input, result)]
               /\ seen' = [seen EXCEPT ![v] = @ \cup ResultFacts(result)]
               /\ samples' = [samples EXCEPT ![v] = Append(@, Sample(input, result))]
          ELSE UNCHANGED <<progress, seen, samples>>
    /\ UNCHANGED <<work, daily, notices, mark>>

\* The child ends without a result; the parent observes that and goes on.
ChildDies(r, i) ==
    /\ Owns(r) /\ i \in Live(r)
    /\ runs' = [runs EXCEPT ![r].invocations[i].dead = TRUE]
    /\ UNCHANGED <<work, progress, seen, daily, notices, samples, mark>>

-----------------------------------------------------------------------------
(* The end of a Run.                                                       *)

\* The continuation when Run r has ended, which would have been next.
NextStep(r, next, budgetFailure, blocked) ==
    LET step == IF blocked # None /\ ~budgetFailure THEN blocked ELSE next
    IN IF runs[r].revision # work.revision THEN work.reason ELSE step

\* pausing becomes paused, with a new epoch.
Ended(r, reason) ==
    LET paused == work.status = "pausing"
    IN [work EXCEPT !.run = None, !.reason = reason, !.status = IF paused THEN "paused" ELSE @,
                    !.epoch = IF paused THEN @ + 1 ELSE @]

\* The invocations that have no result fail with the Run.
LostResult == [outcome |-> "failed", fact |-> None, passed |-> TRUE]

Failing(r) ==
    SelectSeq([i \in DOMAIN runs[r].invocations |-> i], LAMBDA i : i \in Open(r))

FinishFailed(r, budgetFailure) ==
    /\ work.run = r /\ runs[r].status = "running"
    /\ LET v == runs[r].revision
           counted == IF Owns(r) /\ ~budgetFailure THEN Failing(r) ELSE <<>>
           state == FoldLeft(LAMBDA s, i : After(s, r, runs[r].invocations[i].input, LostResult),
                             progress[v], counted)
       IN /\ progress' = [progress EXCEPT ![v] = state]
          /\ samples' = [samples EXCEPT ![v] =
                @ \o [k \in DOMAIN counted |-> Sample(runs[r].invocations[counted[k]].input, LostResult)]]
          /\ work' = Ended(r, NextStep(r, IF budgetFailure THEN "budget_exhausted" ELSE "attempt_failed",
                                       budgetFailure, progress'[work.revision].blocked))
    /\ runs' = [runs EXCEPT ![r].status = "failed"]
    /\ UNCHANGED <<seen, daily, notices, mark>>

\* A fulfilment is enqueued for what is not unchanged.
Fulfils(r, kind) ==
    Delivers /\ kind = "deliverable_ready" /\ BlockedReason = None /\ ~Unchanged(r)

FinishSucceeded(r, kind) ==
    /\ Owns(r)
    /\ Live(r) = {}
    /\ LET next == IF Unchanged(r) THEN "scheduled"
                   ELSE CASE kind = "waiting_input" -> "input"
                          [] Fulfils(r, kind) -> "delivery"
                          [] OTHER -> InitialContinuation
           step == NextStep(r, next, FALSE, BlockedReason)
           accepts == DailySignature(r) # None /\ step \notin Protections \cup {"input"}
       IN /\ work' = Ended(r, step)
          /\ IF accepts THEN AcceptDailyResult(r) ELSE UNCHANGED daily
          /\ notices' = IF Fulfils(r, kind) \/ (accepts /\ ~Unchanged(r)) THEN notices \cup {r} ELSE notices
    /\ runs' = [runs EXCEPT ![r].status = "succeeded"]
    /\ UNCHANGED <<progress, seen, samples, mark>>

\* A Run that a control is cancelling ends cancelled.
FinishCancelled(r) ==
    /\ work.run = r /\ runs[r].status = "cancelling"
    /\ runs' = [runs EXCEPT ![r].status = "cancelled"]
    /\ work' = Ended(r, NextStep(r, "attempt_cancelled", FALSE, BlockedReason))
    /\ UNCHANGED <<progress, seen, daily, notices, samples, mark>>

-----------------------------------------------------------------------------
(* The user's commands.                                                    *)

CancelCoordinator == IF work.run = None THEN runs ELSE [runs EXCEPT ![work.run].status = "cancelling"]

RevisedReason == IF work.reason = "budget_exhausted" THEN work.reason ELSE InitialContinuation

Revise ==
    /\ work.status \in {"active", "pausing", "paused"} /\ work.revision < MaxRevisions
    /\ work' = [work EXCEPT !.revision = @ + 1, !.epoch = @ + 1, !.reason = RevisedReason]
    /\ runs' = CancelCoordinator
    /\ UNCHANGED <<progress, seen, daily, notices, samples, mark>>

Pause ==
    /\ work.status = "active" /\ work.resumed < MaxResumes
    /\ work' = [work EXCEPT !.status = IF work.run = None THEN "paused" ELSE "pausing", !.epoch = @ + 1]
    /\ runs' = CancelCoordinator
    /\ UNCHANGED <<progress, seen, daily, notices, samples, mark>>

\* Resuming is the intervention that clears the protection; an exhausted budget it leaves.
Resume ==
    /\ work.status = "paused"
    /\ IF work.reason = "budget_exhausted"
       THEN /\ work' = [work EXCEPT !.status = "active", !.epoch = @ + 1, !.resumed = @ + 1]
            /\ UNCHANGED <<progress, mark>>
       ELSE /\ work' = [work EXCEPT !.status = "active", !.epoch = @ + 1, !.resumed = @ + 1,
                                    !.reason = InitialContinuation]
            /\ progress' = [progress EXCEPT ![work.revision] = NoProgress]
            /\ mark' = [mark EXCEPT ![work.revision] = Len(samples[work.revision])]
    /\ UNCHANGED <<runs, seen, daily, notices, samples>>

RaisedReason ==
    IF work.status = "active" /\ work.reason = "budget_exhausted"
    THEN IF BlockedReason # None THEN BlockedReason ELSE "ready"
    ELSE work.reason

AddBudget ==
    /\ work.raised < MaxRaises
    /\ work' = [work EXCEPT !.raised = @ + 1, !.reason = RaisedReason]
    /\ UNCHANGED <<runs, progress, seen, daily, notices, samples, mark>>

\* The channel has the fulfilment, and the criteria of an ongoing Work stay open.
DeliveryAccepted ==
    /\ work.status = "active" /\ work.run = None /\ work.reason = "delivery"
    /\ work' = [work EXCEPT !.reason = InitialContinuation]
    /\ UNCHANGED <<runs, progress, seen, daily, notices, samples, mark>>

Results ==
    [outcome : Outcomes \cap {"succeeded"}, fact : Facts \cup {None}, passed : Verdicts] \cup
    [outcome : Outcomes \ {"succeeded"}, fact : {None}, passed : {TRUE}]

Step(r) ==
    \/ \E input \in Inputs : Invoke(r, input)
    \/ \E i \in DOMAIN runs[r].invocations, result \in Results : Result(r, i, result)
    \/ \E i \in DOMAIN runs[r].invocations : ChildDies(r, i)
    \/ \E b \in BOOLEAN : FinishFailed(r, b)
    \/ \E kind \in {"deliverable_ready", "waiting_input"} : FinishSucceeded(r, kind)
    \/ FinishCancelled(r)

Next ==
    \/ Admit \/ AdmitExhausted
    \/ \E r \in DOMAIN runs : Step(r)
    \/ Revise \/ Pause \/ Resume \/ AddBudget \/ DeliveryAccepted

Spec == Init /\ [][Next]_vars

-----------------------------------------------------------------------------
(* Properties.                                                             *)

Invocations == [input : Inputs, result : Results \cup {None}, dead : BOOLEAN]

\* The types of the variables: the rows of runs, work_progress, its facts and the daily results.
TypeOK ==
    /\ work.status \in {"active", "pausing", "paused"} /\ work.revision \in Revisions
    /\ work.run \in 1 .. MaxRuns \cup {None} /\ work.reason \in Reasons
    /\ \A r \in DOMAIN runs :
        /\ runs[r].status \in {"running", "succeeded", "failed", "cancelling", "cancelled"}
        /\ runs[r].epoch <= work.epoch
        /\ ToSet(runs[r].invocations) \subseteq Invocations
    /\ \A v \in Revisions :
        /\ progress[v].failures \in Nat /\ progress[v].idle \in Nat
        /\ progress[v].blocked \in Protections \cup {None}
        /\ seen[v] \subseteq Facts /\ mark[v] <= Len(samples[v])
    /\ ToSet(daily) \subseteq [run : 1 .. MaxRuns, revision : Revisions, previous : 1 .. MaxRuns \cup {None},
                               signature : SUBSET Facts, changed : BOOLEAN]
    /\ notices \subseteq 1 .. MaxRuns

\* What was sampled since the last reset of the current revision, told by the samples alone.
Window == mark[work.revision] + 1 .. Len(samples[work.revision])
Nothing(i) ==
    LET of == samples[work.revision]
    IN ~of[i].normal /\ of[i].facts \subseteq UNION {of[j].facts : j \in 1 .. i - 1}

\* The same failure FailureLimit times in a row.
FailedRepeatedly ==
    \E i \in Window : /\ i + FailureLimit - 1 \in Window
                      /\ samples[work.revision][i].failure # None
                      /\ \A j \in i .. i + FailureLimit - 1 :
                            samples[work.revision][j].failure = samples[work.revision][i].failure

\* NoProgressLimit samples in a row that said nothing new.
WentNowhere ==
    \E i \in Window : /\ i + NoProgressLimit - 1 \in Window
                      /\ \A j \in i .. i + NoProgressLimit - 1 : Nothing(j)

Advances ==
    \/ Len(runs') > Len(runs)
    \/ \E r \in DOMAIN runs : Len(runs'[r].invocations) > Len(runs[r].invocations)

\* A revision that failed in the same way too often starts neither a Run nor an invocation until the user
\* intervenes, whatever Runs, wakeups and later samples there are (record_result, admission, invoke).
RepeatIsNotAdvanced == FailedRepeatedly => ~Advances

\* Nor does one whose results have said nothing new too often: a repetition of a known fact by another
\* Run is not new (record_result, result_facts).
NowhereIsNotAdvanced == WentNowhere => ~Advances

\* The user sees why a Work stands still: an active Work without a Run whose revision is spent says so, or
\* that its budget is exhausted (finish_in_uow, budget and admission).
BlockShows ==
    work.status = "active" /\ work.run = None /\ (FailedRepeatedly \/ WentNowhere)
        => work.reason \in Protections \cup {"budget_exhausted"}

\* An exhausted budget is left by raising it and by nothing else: not by a revision, a pause, an occurrence.
BudgetIsRaised ==
    work.reason = "budget_exhausted" /\ work'.reason # "budget_exhausted" => work'.raised > work.raised

\* Each daily result is compared with the one before it in its revision, and says truly whether it changed.
DailyChain ==
    \A i \in DOMAIN daily :
        LET before == {j \in 1 .. i - 1 : daily[j].revision = daily[i].revision}
        IN IF before = {} THEN daily[i].previous = None /\ daily[i].changed
           ELSE /\ daily[i].previous = daily[Max(before)].run
                /\ daily[i].changed = (daily[i].signature # daily[Max(before)].signature)

\* What a Run found.
Found(r) == UNION {ResultFacts(runs[r].invocations[i].result) :
                      i \in {j \in DOMAIN runs[r].invocations : runs[r].invocations[j].result # None}}

\* A day on which the same is found as on the day before is announced to nobody (finish_in_uow,
\* accept_daily_result).
QuietDayIsSilent ==
    \A i \in DOMAIN daily :
        daily[i].run \in notices /\ daily[i].previous # None => Found(daily[i].run) # Found(daily[i].previous)

\* A Work that does not go on shows why; its days are chained and quiet ones silent.
Safety ==
    /\ TypeOK
    /\ BlockShows
    /\ DailyChain
    /\ QuietDayIsSilent
=============================================================================
