---------------------------- MODULE ToolExecution ----------------------------
(***************************************************************************)
(* One durable tool call: the Workflow coroutine execute_segment, the      *)
(* tool_execution_activity attempts it starts, one per segment, and the    *)
(* external tool.  The Workflow stops waiting for an Activity whose        *)
(* heartbeats stop, but the Activity may live on; a cancelled Activity     *)
(* leaves the thread (asyncio.to_thread) or the request it awaited running *)
(* behind it; segment Activities are executed again or late; leases expire *)
(* and the Run is cancelled or ended by others at any moment.              *)
(***************************************************************************)
EXTENDS FenceStore

CONSTANT MaxFaults   \* bound on injected faults

ASSUME FaultAssumption == MaxFaults \in Nat

VARIABLES
  dpc,     \* where execute_segment is
  seg,     \* its attempt, hence its segment
  dout,    \* how the Activity of this attempt ended, as the Workflow knows it
  dres,    \* how execute_segment ended
  apc,     \* apc[s]: where the Activity of segment s is
  tok,     \* tok[s]: the lease_token it was given
  prior,   \* prior[s]: did begin_tool_operation return an unresolved intent
  may,     \* may[s]: non_idempotent_may_have_executed
  aout,    \* aout[s]: how it ended
  orphan,  \* orphan[s]: what a cancelled Activity left running
  lateCtl, \* segment Activity executions the Workflow no longer waits for
  effects, \* how often the external tool took effect
  faults   \* faults injected so far

driverVars == <<dpc, seg, dout, dres>>
activityVars == <<apc, tok, prior, may, aout, orphan>>
vars == <<fenceVars, driverVars, activityVars, lateCtl, effects, faults>>
-----------------------------------------------------------------------------
NonIdempotent == cls = "non_idempotent_write"

\* Steps inside the try block, and the except clauses that end it.
BodyStep == {"renew", "intent", "dispatch", "effect", "complete", "receive"}
Handler == {"onStale", "onError", "onCancel"}
ActivityPc == {"none", "begin", "ended"} \cup BodyStep \cup Handler
OrphanStep == {"none", "begin", "intent", "effect", "complete", "receive"}

\* "lost": no answer, a retryable ActivityError once the heartbeats time out.
Outcome == {"none", "ok", "stale", "uncertain", "fatal", "cancelled", "lost"}

TypeOK ==
  /\ FenceTypeOK
  /\ dpc \in {"acquire", "activity", "release", "backoff", "done"}
  /\ seg \in Segments
  /\ dout \in Outcome
  /\ dres \in {"none", "result", "error", "cancelled"}
  /\ apc \in [Segments -> ActivityPc]
  /\ tok \in [Segments -> Nat]
  /\ prior \in [Segments -> BOOLEAN]
  /\ may \in [Segments -> BOOLEAN]
  /\ aout \in [Segments -> Outcome]
  /\ orphan \in [Segments -> OrphanStep]
  /\ lateCtl \in SUBSET ({"acquire", "release"} \X Segments)
  /\ effects \in Nat
  /\ faults \in 0..MaxFaults

Init ==
  /\ FenceInit
  /\ dpc = "acquire"
  /\ seg = 1
  /\ dout = "none"
  /\ dres = "none"
  /\ apc = [s \in Segments |-> "none"]
  /\ tok = [s \in Segments |-> 0]
  /\ prior = [s \in Segments |-> FALSE]
  /\ may = [s \in Segments |-> FALSE]
  /\ aout = [s \in Segments |-> "none"]
  /\ orphan = [s \in Segments |-> "none"]
  /\ lateCtl = {}
  /\ effects = 0
  /\ faults = 0

Fault == faults < MaxFaults /\ faults' = faults + 1
-----------------------------------------------------------------------------
(* execute_segment *)

DriverTo(pc, out) ==
  /\ dpc' = pc
  /\ dout' = out
  /\ UNCHANGED <<seg, dres>>

\* acquire_agent_segment_activity answers with a token; the tool Activity is
\* scheduled with it.  On LeaseConflict the Workflow sleeps and asks again.
AcquireAnswered ==
  /\ dpc = "acquire"
  /\ AcquireSegment(seg)
  /\ DriverTo("activity", "none")
  /\ tok' = [tok EXCEPT ![seg] = AcquireToken(seg)]
  /\ apc' = [apc EXCEPT ![seg] = "begin"]
  /\ UNCHANGED <<prior, may, aout, orphan, lateCtl, effects, faults>>

\* RunNotExecutable, or the Workflow's own cancellation: CancelledError.
AcquireCancelled ==
  /\ dpc = "acquire"
  /\ ~RunActive
  /\ DriverTo("release", "cancelled")
  /\ UNCHANGED <<fenceVars, activityVars, lateCtl, effects, faults>>

\* start_to_close_timeout of a segment Activity: _control has it executed
\* again, and the first execution may still reach the database.
ControlTimesOut(kind) ==
  /\ dpc = kind
  /\ Fault
  /\ lateCtl' = lateCtl \cup {<<kind, seg>>}
  /\ UNCHANGED <<fenceVars, driverVars, activityVars, effects>>

LateAcquire(s) ==
  /\ <<"acquire", s>> \in lateCtl
  /\ lateCtl' = lateCtl \ {<<"acquire", s>>}
  /\ \/ AcquireSegment(s)
     \/ ~CanAcquire(s) /\ UNCHANGED fenceVars
  /\ UNCHANGED <<driverVars, activityVars, effects, faults>>

LateRelease(s) ==
  /\ <<"release", s>> \in lateCtl
  /\ lateCtl' = lateCtl \ {<<"release", s>>}
  /\ ReleaseSegment(s)
  /\ UNCHANGED <<driverVars, activityVars, effects, faults>>

\* The Activity's answer reaches the Workflow.
ActivityAnswered ==
  /\ dpc = "activity"
  /\ aout[seg] # "none"
  /\ DriverTo("release", aout[seg])
  /\ UNCHANGED <<fenceVars, activityVars, lateCtl, effects, faults>>

\* Heartbeats stop because the Worker is gone ...
WorkerLost ==
  /\ dpc = "activity"
  /\ apc[seg] = "ended" /\ aout[seg] = "none"
  /\ DriverTo("release", "lost")
  /\ UNCHANGED <<fenceVars, activityVars, lateCtl, effects, faults>>

\* ... or late, while the Activity lives on.
ActivityTimesOut ==
  /\ dpc = "activity"
  /\ Fault
  /\ DriverTo("release", "lost")
  /\ UNCHANGED <<fenceVars, activityVars, lateCtl, effects>>

Retried(out) == out \in {"stale", "lost"} /\ seg < MaxSegments

Verdict(out) == CASE out = "ok"        -> "result"
                  [] out = "cancelled" -> "cancelled"
                  [] OTHER             -> "error"

\* The finally clause, and what follows it.
Release ==
  /\ dpc = "release"
  /\ ReleaseSegment(seg)
  /\ IF Retried(dout)
       THEN dpc' = "backoff" /\ UNCHANGED dres
       ELSE dpc' = "done" /\ dres' = Verdict(dout)
  /\ UNCHANGED <<seg, dout, activityVars, lateCtl, effects, faults>>

Backoff ==
  /\ dpc = "backoff"
  /\ dpc' = "acquire"
  /\ seg' = seg + 1
  /\ dout' = "none"
  /\ UNCHANGED <<dres, fenceVars, activityVars, lateCtl, effects, faults>>

\* The Workflow is cancelled while it sleeps.
BackoffCancelled ==
  /\ dpc = "backoff"
  /\ ~RunActive
  /\ dpc' = "done"
  /\ dres' = "cancelled"
  /\ UNCHANGED <<seg, dout, fenceVars, activityVars, lateCtl, effects, faults>>
-----------------------------------------------------------------------------
(* tool_execution_activity *)

ActivityTo(s, pc) ==
  /\ apc' = [apc EXCEPT ![s] = pc]
  /\ UNCHANGED aout

ActivityEnds(s, out) ==
  /\ apc' = [apc EXCEPT ![s] = "ended"]
  /\ aout' = [aout EXCEPT ![s] = out]

\* begin_tool_operation is outside the try block: a refusal ends the Activity,
\* a completed Operation answers with its stored result.
Begin(s) ==
  /\ apc[s] = "begin"
  /\ BeginOperation(tok[s])
  /\ IF ~Fenced(tok[s]) THEN ActivityEnds(s, "stale")
     ELSE IF opSt = "completed" THEN ActivityEnds(s, "ok")
     ELSE ActivityTo(s, "renew")
  /\ prior' = [prior EXCEPT ![s] = Fenced(tok[s]) /\ OpUnresolved]
  /\ may' = [may EXCEPT ![s] = Fenced(tok[s]) /\ OpUnresolved /\ NonIdempotent]
  /\ UNCHANGED <<run, leaseVars, cls, driverVars, tok, orphan, lateCtl, effects, faults>>

\* A validate_and_renew_lease: before the workspace, or before the tool is
\* called.  The second one opens the side effect window.
Renew(s) ==
  /\ apc[s] = "renew"
  /\ ActivityTo(s, IF Fenced(tok[s]) THEN "intent" ELSE "onStale")
  /\ UNCHANGED <<fenceVars, driverVars, tok, prior, may, orphan, lateCtl, effects, faults>>

\* Variation: the window is not remembered.
DispatchUnmarked(s) ==
  /\ apc[s] = "dispatch"
  /\ ActivityTo(s, IF Fenced(tok[s]) THEN "effect" ELSE "onStale")
  /\ UNCHANGED <<fenceVars, driverVars, tok, prior, may, orphan, lateCtl, effects, faults>>

Dispatch(s) ==
  /\ apc[s] = "dispatch"
  /\ IF Fenced(tok[s])
       THEN ActivityTo(s, "effect") /\ may' = [may EXCEPT ![s] = NonIdempotent]
       ELSE ActivityTo(s, "onStale") /\ UNCHANGED may
  /\ UNCHANGED <<fenceVars, driverVars, tok, prior, orphan, lateCtl, effects, faults>>

\* A fresh Operation records its intent.
Intent(s) ==
  /\ apc[s] = "intent" /\ ~prior[s]
  /\ RecordIntent(tok[s])
  /\ ActivityTo(s, CASE CanRecordIntent(tok[s]) -> "dispatch"
                     [] ~Fenced(tok[s])         -> "onStale"
                     [] OTHER                   -> "onError")
  /\ UNCHANGED <<run, leaseVars, cls, driverVars, tok, prior, may, orphan,
                 lateCtl, effects, faults>>

\* Variation: every tool is called again.
ReconcileByCalling(s) ==
  /\ apc[s] = "intent" /\ prior[s]
  /\ ActivityTo(s, "dispatch")
  /\ UNCHANGED <<fenceVars, driverVars, tok, prior, may, orphan, lateCtl, effects, faults>>

\* An unresolved one is reconciled: an idempotent tool is called again, for any
\* other the only reconciler there is answers UNSUPPORTED.
Reconcile(s) ==
  /\ apc[s] = "intent" /\ prior[s]
  /\ ActivityTo(s, IF NonIdempotent THEN "onError" ELSE "dispatch")
  /\ UNCHANGED <<fenceVars, driverVars, tok, prior, may, orphan, lateCtl, effects, faults>>

\* The external call takes effect or not, and returns a result or raises.  An
\* unsuccessful result of a non-idempotent tool counts as raising.
Effect(s) ==
  /\ apc[s] = "effect"
  /\ effects' \in {effects, effects + 1}
  /\ \/ (effects' # effects \/ ~NonIdempotent) /\ ActivityTo(s, "complete")
     \/ ActivityTo(s, "onError")
  /\ UNCHANGED <<fenceVars, driverVars, tok, prior, may, orphan, lateCtl, faults>>

\* Variation: a refused completion is answered like an accepted one.
CompleteUnchecked(s) ==
  /\ apc[s] = "complete"
  /\ CompleteWithEvent(tok[s])
  /\ ActivityEnds(s, "ok")
  /\ UNCHANGED <<run, leaseVars, cls, driverVars, tok, prior, may, orphan,
                 lateCtl, effects, faults>>

\* complete_operation_with_event, or a refusal by the fence.
Complete(s) ==
  /\ apc[s] = "complete"
  /\ CompleteWithEvent(tok[s])
  /\ IF Fenced(tok[s]) THEN ActivityEnds(s, "ok") ELSE ActivityTo(s, "receive")
  /\ UNCHANGED <<run, leaseVars, cls, driverVars, tok, prior, may, orphan,
                 lateCtl, effects, faults>>

\* preserve_late_result
ReceiveLate(s) ==
  /\ apc[s] = "receive"
  /\ Receive(tok[s])
  /\ ActivityTo(s, "onStale")
  /\ UNCHANGED <<run, leaseVars, cls, driverVars, tok, prior, may, orphan,
                 lateCtl, effects, faults>>

\* Workspace, policy, classification, budget, capacity: anything else raises.
Raises(s) ==
  /\ apc[s] \in {"renew", "intent", "dispatch"}
  /\ ActivityTo(s, "onError")
  /\ UNCHANGED <<fenceVars, driverVars, tok, prior, may, orphan, lateCtl, effects, faults>>

\* What an except clause answers when its own transaction is accepted; when it
\* is refused, StaleFencingToken leaves the clause instead.
HandlerOutcome(s) ==
  IF apc[s] = "onCancel" THEN IF RunActive THEN "lost" ELSE "cancelled"
  ELSE IF may[s] THEN "uncertain"
  ELSE IF apc[s] = "onStale" THEN "stale" ELSE "fatal"

\* An effect that may have happened is never recorded as a plain failure.
Handle(s) ==
  /\ apc[s] \in Handler
  /\ IF may[s] THEN MarkUncertain(tok[s]) ELSE FailOperation(tok[s])
  /\ ActivityEnds(s, IF Fenced(tok[s]) THEN HandlerOutcome(s) ELSE "stale")
  /\ UNCHANGED <<run, leaseVars, cls, driverVars, tok, prior, may, orphan,
                 lateCtl, effects, faults>>

\* CancelledError at an await: the Run is cancelled, the Workflow has stopped
\* waiting, or the Worker shuts down.  What was awaited goes on by itself.
Awaited(s) ==
  CASE apc[s] = "intent" /\ prior[s]   -> "none"
    [] apc[s] \in {"renew", "dispatch"} -> "none"
    [] OTHER                            -> apc[s]

Cancel(s) ==
  /\ apc[s] \in BodyStep \cup {"begin"}
  /\ \/ (~RunActive \/ dpc # "activity" \/ seg # s) /\ UNCHANGED faults
     \/ Fault
  /\ orphan' = [orphan EXCEPT ![s] = Awaited(s)]
  /\ IF apc[s] = "begin"
       THEN ActivityEnds(s, IF RunActive THEN "lost" ELSE "cancelled")
       ELSE ActivityTo(s, "onCancel")
  /\ UNCHANGED <<fenceVars, driverVars, tok, prior, may, lateCtl, effects>>

\* The Worker process dies: PostgreSQL rolls back what was not committed, but a
\* request already sent to the tool is beyond recall.
Crash(s) ==
  /\ apc[s] \notin {"none", "ended"} \/ orphan[s] # "none"
  /\ Fault
  /\ apc' = [apc EXCEPT ![s] = "ended"]
  /\ orphan' = [orphan EXCEPT ![s] = IF "effect" \in {@, apc[s]} THEN "effect" ELSE "none"]
  /\ UNCHANGED <<fenceVars, driverVars, tok, prior, may, aout, lateCtl, effects>>

\* The thread or request left behind by Cancel finishes.
Orphan(s) ==
  /\ orphan[s] # "none"
  /\ CASE orphan[s] = "begin"    -> BeginOperation(tok[s])
       [] orphan[s] = "intent"   -> RecordIntent(tok[s])
       [] orphan[s] = "complete" -> CompleteWithEvent(tok[s])
       [] orphan[s] = "receive"  -> Receive(tok[s])
       [] OTHER                  -> UNCHANGED opVars
  /\ effects' \in IF orphan[s] = "effect" THEN {effects, effects + 1} ELSE {effects}
  /\ orphan' = [orphan EXCEPT ![s] = IF @ = "complete" /\ ~Fenced(tok[s])
                                       THEN "receive" ELSE "none"]
  /\ UNCHANGED <<run, leaseVars, cls, driverVars, apc, tok, prior, may, aout,
                 lateCtl, faults>>
-----------------------------------------------------------------------------
(* The rest of the system *)

\* CancelRun, the lifecycle Activities or the reconciler change the Run; "failed"
\* stands for succeeded as well.
RunChanges ==
  /\ \/ run = "running" /\ SetRunStatus("cancelling")
     \/ run = "cancelling" /\ SetRunStatus("cancelled")
     \/ run = "running" /\ SetRunStatus("failed")
  /\ UNCHANGED <<driverVars, activityVars, lateCtl, effects, faults>>

Expire ==
  /\ Fault
  /\ LeaseExpires
  /\ UNCHANGED <<driverVars, activityVars, lateCtl, effects>>

DriverStep ==
  \/ AcquireAnswered \/ AcquireCancelled \/ ActivityAnswered \/ WorkerLost
  \/ Release \/ Backoff \/ BackoffCancelled

ActivityStep(s) ==
  \/ Begin(s) \/ Renew(s) \/ Intent(s) \/ Reconcile(s) \/ Dispatch(s)
  \/ Effect(s) \/ Complete(s) \/ ReceiveLate(s) \/ Handle(s)

Next ==
  \/ DriverStep
  \/ ControlTimesOut("acquire") \/ ControlTimesOut("release")
  \/ ActivityTimesOut
  \/ \E s \in Segments :
       \/ LateAcquire(s) \/ LateRelease(s) \/ ActivityStep(s)
       \/ Raises(s) \/ Cancel(s) \/ Crash(s) \/ Orphan(s)
  \/ RunChanges
  \/ Expire

Spec == Init /\ [][Next]_vars

\* Temporal keeps scheduling the Workflow and its Activities.
FairSpec == Spec /\ WF_vars(DriverStep)
                 /\ \A s \in Segments : WF_vars(ActivityStep(s))
-----------------------------------------------------------------------------
(* Properties *)

\* A tool that is not idempotent takes effect at most once, whatever is
\* retried, late, cancelled or left running (runtime.py: intent before call,
\* reconcile instead of a second call).
EffectOnce == NonIdempotent => effects <= 1

\* ... and once it has, the Operation says so or admits that it may have: it is
\* never recorded as failed or back to started.
EffectAccounted ==
  NonIdempotent /\ effects > 0 => opSt \in {"intent_recorded", "uncertain", "completed"}

\* A completed Operation holds the result of the latest attempt registered for
\* it, also when the result came in late (results.py: receive).
ResultFromLatestAttempt == opSt = "completed" => opRes = opAtt

\* Only a result accepted under its fence enters the transcript; a late one
\* completes its Operation only after the Run stopped, and without an event.
EvidenceIsCurrent ==
  /\ event # 0 => opRes = event /\ <<event, "current">> \in receipts
  /\ opSt = "completed" /\ event = 0 => ~RunActive
  /\ \A r1, r2 \in receipts : r1[1] = r2[1] => r1 = r2

\* execute_segment reports a result only for an Operation that is completed and
\* whose observation is in the transcript.
ReportedResultIsDurable ==
  dres = "result" => opSt = "completed" /\ event # 0

\* "No active segment ... across retry backoff" (segments.py): neither then nor
\* after the end does a lease live on, even when an acquire comes late.
NoLeaseAcrossBackoff ==
  /\ dpc \in {"backoff", "done"} => ~live
  /\ \A s \in Segments : SegmentClosed(s) => ~(live /\ owner = s)

\* Two Activities never share a token, so at most one passes any fence check.
OneFencedActivity ==
  \A s1, s2 \in Segments : s1 # s2 /\ apc[s1] # "none" /\ apc[s2] # "none" => tok[s1] # tok[s2]

\* Operation, receipts and lease agree: the latest attempt's result is the one kept, only a
\* fenced result is in the transcript, and no lease outlives its segment (runtime.py).
Safety ==
  /\ TypeOK
  /\ ResultFromLatestAttempt
  /\ EvidenceIsCurrent
  /\ NoLeaseAcrossBackoff
  /\ OneFencedActivity

\* A token that was handed out and has lost its authority never regains it.
NoTokenRevival ==
  [][\A s \in Segments : apc[s] # "none" /\ ~Fenced(tok[s]) => ~Fenced(tok[s])']_vars

\* execute_segment always comes to an end.
DriverEnds == <>(dpc = "done")
=============================================================================
