----------------------------- MODULE RunDispatch -----------------------------
(***************************************************************************)
(* How an accepted chat Run reaches a terminal status: clients commit      *)
(* commands, WebOutboxDispatcher processes lease start_run / cancel_run    *)
(* events and call Temporal between their transactions, the                *)
(* AgentLifecycleWorkflow executes the Run, and WebRunReconciler converges *)
(* Runs and Temporal facts.  Processes crash, RPCs fail or lose their      *)
(* answer, leases expire early, Activities are executed twice or late, and *)
(* Workflows die; `faults` bounds how many such events an instance has.    *)
(***************************************************************************)
EXTENDS RunStore

CONSTANTS Workers,      \* dispatcher processes
          PidOf,        \* os.getpid() of each: equal ids can occur across hosts
          MaxAttempts,  \* WebOutboxDispatcher.max_attempts
          BatchLimit,   \* WebOutboxDispatcher.run_once limit
          ReconLimit,   \* WebRunReconciler.run_once limit; 0: an instance without it
          MaxFaults     \* bound on injected faults

ASSUME DispatchAssumption == /\ PidOf \in [Workers -> Pids]
                             /\ MaxAttempts \in Nat \ {0}
                             /\ BatchLimit \in Nat \ {0}
                             /\ ReconLimit \in Nat
                             /\ MaxFaults \in Nat

VARIABLES
  wpc,      \* wpc[w]: where dispatcher w is in run_once
  wcur,     \* wcur[w]: the event it handles, as claimed
  wbatch,   \* wbatch[w]: the rest of its claimed batch
  tmpSt,    \* tmpSt[r]: Temporal's answer to describe(workflow id of r)
  tmpCancel,\* tmpCancel[r]: has a cancel request reached Temporal / the Workflow
  flow,     \* flow[r]: where the AgentLifecycleWorkflow of r is
  late,     \* late[r]: Activity executions the Workflow no longer waits for
  rpc,      \* where the reconciler is
  rtodo,    \* candidates it has still to look at
  rcur,     \* the candidate it handles, as read
  faults    \* faults injected so far

workerVars == <<wpc, wcur, wbatch>>
temporalVars == <<tmpSt, tmpCancel, flow, late>>
reconVars == <<rpc, rtodo, rcur>>
vars == <<storeVars, workerVars, temporalVars, reconVars, faults>>
-----------------------------------------------------------------------------
\* The transactions an Activity body of the Workflow runs, by Workflow step.
ActivityStep == {"prepare", "finalize", "fail", "cancelRead", "cancelFinish", "cancelFail"}
FlowStep == {"none", "agent"} \cup ActivityStep

StartStep  == {"prepareStart", "startRpc", "recordStarted", "needsCancel", "lateCancel"}
CancelStep == {"lookup", "cancelRpc", "finRead", "finCancel", "finFail"}
WorkerStep == {"idle", "recordCancel", "mark", "raised"} \cup StartStep \cup CancelStep

ReconStep == {"idle", "next", "record", "cancelRpc", "finRead", "finCancel", "finFail"}

\* A claimed event carries the attempt_count its claim returned.
Claimed == [ev : Events, att : Nat]
NoClaim == [ev |-> <<"none", NoRun>>, att |-> 0]

\* A candidate carries the status read with it and, later, the fact described.
TmpStatus == {"not_found", "open"} \cup ClosedRow
Candidate == [run : Runs, st : RunStatus, wf : BOOLEAN, fact : TmpStatus]
NoCandidate == [run |-> NoRun, st |-> "none", wf |-> FALSE, fact |-> "not_found"]

TypeOK ==
  /\ StoreTypeOK
  /\ wpc \in [Workers -> WorkerStep]
  /\ wcur \in [Workers -> Claimed \cup {NoClaim}]
  /\ \A w \in Workers : wpc[w] # "idle" => wcur[w] \in Claimed
  /\ wbatch \in [Workers -> SUBSET Claimed]
  /\ tmpSt \in [Runs -> TmpStatus]
  /\ tmpCancel \in [Runs -> {"no", "requested", "delivered"}]
  /\ flow \in [Runs -> FlowStep]
  /\ late \in [Runs -> SUBSET ActivityStep]
  /\ rpc \in ReconStep
  /\ rtodo \in SUBSET Candidate
  /\ rcur \in Candidate \cup {NoCandidate}
  /\ rpc \notin {"idle", "next"} => rcur \in Candidate
  /\ faults \in 0..MaxFaults

Init ==
  /\ StoreInit
  /\ wpc = [w \in Workers |-> "idle"]
  /\ wcur = [w \in Workers |-> NoClaim]
  /\ wbatch = [w \in Workers |-> {}]
  /\ tmpSt = [r \in Runs |-> "not_found"]
  /\ tmpCancel = [r \in Runs |-> "no"]
  /\ flow = [r \in Runs |-> "none"]
  /\ late = [r \in Runs |-> {}]
  /\ rpc = "idle"
  /\ rtodo = {}
  /\ rcur = NoCandidate
  /\ faults = 0

Fault == faults < MaxFaults /\ faults' = faults + 1
-----------------------------------------------------------------------------
(* Client commands *)

ClientStep ==
  /\ \/ \E r \in Runs : SendMessage(r) \/ CancelRun(r)
     \/ \E src, r \in Runs : RetryRun(src, r)
  /\ UNCHANGED <<workerVars, temporalVars, reconVars, faults>>
-----------------------------------------------------------------------------
(* Temporal, as the code uses it *)

\* start_workflow with REJECT_DUPLICATE: a known Workflow ID is never started
\* again; the adapter turns AlreadyStarted into the known Temporal Run ID.
StartWorkflow(r) ==
  IF tmpSt[r] = "not_found"
    THEN /\ tmpSt' = [tmpSt EXCEPT ![r] = "open"]
         /\ flow' = [flow EXCEPT ![r] = "prepare"]
         /\ UNCHANGED <<tmpCancel, late>>
    ELSE UNCHANGED temporalVars

\* handle.cancel(): recorded once, NOT_FOUND for an unknown or closed Workflow.
CancelFound(r) == tmpSt[r] = "open"
CancelWorkflow(r) ==
  /\ tmpCancel' = [tmpCancel EXCEPT ![r] =
                     IF CancelFound(r) /\ @ = "no" THEN "requested" ELSE @]
  /\ UNCHANGED <<tmpSt, flow, late>>
-----------------------------------------------------------------------------
(* WebOutboxDispatcher.run_once and TemporalOutboxDispatcher *)

FirstStep(c) == IF c.ev[1] = "start_run" THEN "prepareStart" ELSE "lookup"

\* Take one event of a non-empty batch, leave the rest.
TakeFrom(w, B) ==
  \E c \in B : /\ wcur' = [wcur EXCEPT ![w] = c]
               /\ wbatch' = [wbatch EXCEPT ![w] = B \ {c}]
               /\ wpc' = [wpc EXCEPT ![w] = FirstStep(c)]

GoIdle(w) == /\ wpc' = [wpc EXCEPT ![w] = "idle"]
             /\ wcur' = [wcur EXCEPT ![w] = NoClaim]
             /\ wbatch' = [wbatch EXCEPT ![w] = {}]

NextEvent(w) == IF wbatch[w] = {} THEN GoIdle(w) ELSE TakeFrom(w, wbatch[w])

Goto(w, step) == /\ wpc' = [wpc EXCEPT ![w] = step]
                 /\ UNCHANGED <<wcur, wbatch>>

Claim(w) ==
  /\ wpc[w] = "idle"
  /\ \E E \in SUBSET {e \in Events : evSt[e] = "pending"} :
       /\ E # {} /\ Cardinality(E) <= BatchLimit
       /\ ClaimBatch(E, PidOf[w])
       /\ TakeFrom(w, {[ev |-> e, att |-> evAtt[e] + 1] : e \in E})
  /\ UNCHANGED <<temporalVars, reconVars, faults>>

At(w, step) == wpc[w] = step
EvRun(w) == wcur[w].ev[2]

DispatchPrepareStart(w) ==
  /\ At(w, "prepareStart")
  /\ PrepareStart(EvRun(w))
  /\ Goto(w, IF ShouldStart(EvRun(w)) THEN "startRpc" ELSE "mark")
  /\ UNCHANGED <<temporalVars, reconVars, faults>>

\* The start reaches Temporal; its answer may be lost (an ambiguous Start).
DispatchStartRpc(w) ==
  /\ At(w, "startRpc")
  /\ StartWorkflow(EvRun(w))
  /\ \/ Goto(w, "recordStarted") /\ UNCHANGED faults
     \/ Goto(w, "raised") /\ Fault
  /\ UNCHANGED <<storeVars, reconVars>>

DispatchRecordStarted(w) ==
  /\ At(w, "recordStarted")
  /\ RecordStarted(EvRun(w))
  /\ Goto(w, "needsCancel")
  /\ UNCHANGED <<temporalVars, reconVars, faults>>

\* The Start/Cancel race: a cancellation committed during the start.
DispatchNeedsCancel(w) ==
  /\ At(w, "needsCancel")
  /\ Goto(w, IF runSt[EvRun(w)] \in {"cancelling", "cancelled"} THEN "lateCancel" ELSE "mark")
  /\ UNCHANGED <<storeVars, temporalVars, reconVars, faults>>

DispatchLookup(w) ==
  /\ At(w, "lookup")
  /\ Goto(w, IF rowSt[EvRun(w)] = "none" THEN "finRead" ELSE "cancelRpc")
  /\ UNCHANGED <<storeVars, temporalVars, reconVars, faults>>

DispatchCancelRpc(w) ==
  /\ wpc[w] \in {"lateCancel", "cancelRpc"}
  /\ CancelWorkflow(EvRun(w))
  /\ \/ /\ Goto(w, IF CancelFound(EvRun(w)) THEN "recordCancel"
                   ELSE IF At(w, "lateCancel") THEN "mark" ELSE "finRead")
        /\ UNCHANGED faults
     \/ Goto(w, "raised") /\ Fault
  /\ UNCHANGED <<storeVars, reconVars>>

DispatchRecordCancel(w) ==
  /\ At(w, "recordCancel")
  /\ RecordCancelRequested(EvRun(w))
  /\ Goto(w, "mark")
  /\ UNCHANGED <<temporalVars, reconVars, faults>>

\* WebRunLifecycleService.finalize_cancelled reads the status in one
\* transaction and finishes in a second one: AfterRead is the second.
AfterRead(st) == IF st = "cancelling" THEN "finCancel"
                 ELSE IF st \in Terminal THEN "mark" ELSE "finFail"

DispatchFinRead(w) ==
  /\ At(w, "finRead")
  /\ Goto(w, AfterRead(runSt[EvRun(w)]))
  /\ UNCHANGED <<storeVars, temporalVars, reconVars, faults>>

DispatchFinish(w) ==
  /\ wpc[w] \in {"finCancel", "finFail"}
  /\ Finish(EvRun(w), IF At(w, "finCancel") THEN "cancelled" ELSE "failed")
  /\ Goto(w, "mark")
  /\ UNCHANGED <<rowVars, evVars, temporalVars, reconVars, faults>>

DispatchMark(w) ==
  /\ At(w, "mark")
  /\ MarkProcessed(wcur[w].ev, PidOf[w])
  /\ NextEvent(w)
  /\ UNCHANGED <<temporalVars, reconVars, faults>>

\* An exception: retry later, or dead-letter an exhausted event; losing the
\* lease there abandons the rest of the batch.
DispatchRaised(w) ==
  /\ At(w, "raised")
  /\ \/ /\ wcur[w].att < MaxAttempts
        /\ MarkRetryableFailure(wcur[w].ev, PidOf[w])
        /\ NextEvent(w)
     \/ /\ wcur[w].att >= MaxAttempts
        /\ DeadLetter(wcur[w].ev, PidOf[w])
        /\ NextEvent(w)
     \/ /\ wcur[w].att >= MaxAttempts
        /\ ~Owns(wcur[w].ev, PidOf[w])
        /\ GoIdle(w)
        /\ UNCHANGED storeVars
  /\ UNCHANGED <<temporalVars, reconVars, faults>>

\* A transaction or an RPC fails before it has any effect.
DispatchError(w) ==
  /\ wpc[w] \notin {"idle", "raised"}
  /\ Goto(w, "raised")
  /\ Fault
  /\ UNCHANGED <<storeVars, temporalVars, reconVars>>

\* The process dies; a restarted one may get the same pid.
DispatchCrash(w) ==
  /\ wpc[w] # "idle"
  /\ GoIdle(w)
  /\ Fault
  /\ UNCHANGED <<storeVars, temporalVars, reconVars>>

\* run_web_outbox_recovery_loop.  A lease a live worker still works on expires
\* only when that worker is slower than the timeout, which counts as a fault.
Held == UNION {{c.ev : c \in wbatch[w] \cup {wcur[w]}} : w \in Workers}

RecoverAbandoned ==
  /\ \E E \in SUBSET {e \in Events : evSt[e] = "processing" /\ e \notin Held} :
       E # {} /\ RecoverExpired(E)
  /\ UNCHANGED <<workerVars, temporalVars, reconVars, faults>>

RecoverSlow ==
  /\ \E e \in Held : e \in Events /\ RecoverExpired({e})
  /\ Fault
  /\ UNCHANGED <<workerVars, temporalVars, reconVars>>

DispatcherStep(w) ==
  \/ Claim(w) \/ DispatchPrepareStart(w) \/ DispatchStartRpc(w) \/ DispatchRecordStarted(w)
  \/ DispatchNeedsCancel(w) \/ DispatchLookup(w) \/ DispatchCancelRpc(w)
  \/ DispatchRecordCancel(w) \/ DispatchFinRead(w) \/ DispatchFinish(w)
  \/ DispatchMark(w) \/ DispatchRaised(w)
-----------------------------------------------------------------------------
(* AgentLifecycleWorkflow and the Activities it awaits *)

FlowGoto(r, step) == /\ flow' = [flow EXCEPT ![r] = step]
                     /\ UNCHANGED <<tmpSt, tmpCancel, late>>

FlowClose(r, st) == /\ flow' = [flow EXCEPT ![r] = "none"]
                    /\ tmpSt' = [tmpSt EXCEPT ![r] = st]
                    /\ UNCHANGED <<tmpCancel, late>>

\* How the Workflow ends once a cancellation was finalized with status st.
CancelOutcome(st) == CASE st = "succeeded" -> "completed"
                       [] st = "failed" -> "failed"
                       [] OTHER -> "cancelled"

\* How it ends once a failure was finalized with status st.
FailOutcome(st) == CASE st = "succeeded" -> "completed"
                     [] st = "cancelled" -> "cancelled"
                     [] OTHER -> "failed"

FlowPrepare(r) ==
  /\ flow[r] = "prepare"
  /\ Prepare(r)
  /\ CASE runSt[r] \in {"queued", "running"} -> FlowGoto(r, "agent")
       [] runSt[r] \in {"cancelling", "cancelled"} -> FlowGoto(r, "cancelRead")
       [] runSt[r] = "succeeded" -> FlowClose(r, "completed")
       [] OTHER -> FlowClose(r, "failed")
  /\ UNCHANGED <<workerVars, reconVars, faults>>

\* The agent returns a result or fails, or its fences notice that the Run is
\* no longer executable.
FlowAgent(r) ==
  /\ flow[r] = "agent"
  /\ \/ FlowGoto(r, "finalize")
     \/ FlowGoto(r, "fail")
     \/ runSt[r] \notin {"queued", "running"} /\ FlowGoto(r, "cancelRead")
  /\ UNCHANGED <<storeVars, workerVars, reconVars, faults>>

\* WebRunLifecycleService.complete commits success only for a running Run.
Complete(r) ==
  /\ IF runSt[r] \in {"queued", "running"}
       THEN Finish(r, "succeeded")
       ELSE UNCHANGED runVars
  /\ UNCHANGED <<rowVars, evVars>>

FlowFinalize(r) ==
  /\ flow[r] = "finalize"
  /\ Complete(r)
  /\ CASE runSt[r] \in {"running", "succeeded"} -> FlowClose(r, "completed")
       [] runSt[r] \in {"cancelling", "cancelled"} -> FlowGoto(r, "cancelRead")
       [] OTHER -> FlowClose(r, "failed")
  /\ UNCHANGED <<workerVars, reconVars, faults>>

FlowFail(r) ==
  /\ flow[r] = "fail"
  /\ Finish(r, "failed")
  /\ FlowClose(r, FailOutcome(runSt'[r]))
  /\ UNCHANGED <<rowVars, evVars, workerVars, reconVars, faults>>

FlowCancelRead(r) ==
  /\ flow[r] = "cancelRead"
  /\ CASE runSt[r] = "cancelling" -> FlowGoto(r, "cancelFinish")
       [] runSt[r] \in Terminal -> FlowClose(r, CancelOutcome(runSt[r]))
       [] OTHER -> FlowGoto(r, "cancelFail")
  /\ UNCHANGED <<storeVars, workerVars, reconVars, faults>>

FlowCancelFinish(r) ==
  /\ flow[r] \in {"cancelFinish", "cancelFail"}
  /\ Finish(r, IF flow[r] = "cancelFinish" THEN "cancelled" ELSE "failed")
  /\ FlowClose(r, CancelOutcome(runSt'[r]))
  /\ UNCHANGED <<rowVars, evVars, workerVars, reconVars, faults>>

\* A cancel request reaches the Workflow: inside the try block it moves to the
\* cancellation handler (or, before the first await, it ends at once), inside
\* a handler it ends.  The awaited Activity may go on running.
Abandoned(r) == late[r] \cup ({flow[r]} \cap ActivityStep)

FlowCancelled(r) ==
  /\ tmpSt[r] = "open" /\ tmpCancel[r] = "requested"
  /\ tmpCancel' = [tmpCancel EXCEPT ![r] = "delivered"]
  /\ late' = [late EXCEPT ![r] = Abandoned(r)]
  /\ \/ /\ flow[r] \in {"prepare", "agent", "finalize"}
        /\ flow' = [flow EXCEPT ![r] = "cancelRead"]
        /\ UNCHANGED tmpSt
     \/ /\ flow[r] \notin {"agent", "finalize"}
        /\ flow' = [flow EXCEPT ![r] = "none"]
        /\ tmpSt' = [tmpSt EXCEPT ![r] = "cancelled"]
  /\ UNCHANGED <<storeVars, workerVars, reconVars, faults>>

\* An Activity attempt times out and is retried while its thread goes on.
FlowRetry(r) ==
  /\ flow[r] \in ActivityStep /\ flow[r] \notin late[r]
  /\ late' = [late EXCEPT ![r] = Abandoned(r)]
  /\ Fault
  /\ UNCHANGED <<storeVars, workerVars, reconVars, tmpSt, tmpCancel, flow>>

\* An Activity fails for good: prepare and finalize lead to the failure
\* handler, a failing handler ends the Workflow.
FlowActivityError(r) ==
  /\ flow[r] \in ActivityStep
  /\ IF flow[r] \in {"prepare", "finalize"}
       THEN FlowGoto(r, "fail")
       ELSE FlowClose(r, "failed")
  /\ Fault
  /\ UNCHANGED <<storeVars, workerVars, reconVars>>

\* Execution timeout or termination: no handler of the Workflow runs.
FlowDies(r) ==
  /\ tmpSt[r] = "open"
  /\ \E st \in {"timed_out", "terminated"} : tmpSt' = [tmpSt EXCEPT ![r] = st]
  /\ flow' = [flow EXCEPT ![r] = "none"]
  /\ late' = [late EXCEPT ![r] = Abandoned(r)]
  /\ Fault
  /\ UNCHANGED <<storeVars, workerVars, reconVars, tmpCancel>>

\* Somebody cancels the Workflow in Temporal, without a database intent.
OperatorCancel(r) ==
  /\ tmpSt[r] = "open" /\ tmpCancel[r] = "no"
  /\ CancelWorkflow(r)
  /\ Fault
  /\ UNCHANGED <<storeVars, workerVars, reconVars>>

\* An abandoned Activity execution commits its next transaction.
LateCommit(r) ==
  /\ \E k \in late[r] :
       \/ /\ k = "prepare" /\ Prepare(r)
          /\ late' = [late EXCEPT ![r] = @ \ {k}]
       \/ /\ k = "finalize" /\ Complete(r)
          /\ late' = [late EXCEPT ![r] = @ \ {k}]
       \/ /\ k \in {"fail", "cancelFail"} /\ Finish(r, "failed")
          /\ late' = [late EXCEPT ![r] = @ \ {k}]
          /\ UNCHANGED <<rowVars, evVars>>
       \/ /\ k = "cancelFinish" /\ Finish(r, "cancelled")
          /\ late' = [late EXCEPT ![r] = @ \ {k}]
          /\ UNCHANGED <<rowVars, evVars>>
       \/ /\ k = "cancelRead"
          /\ late' = [late EXCEPT ![r] = (@ \ {k}) \cup
                        CASE runSt[r] = "cancelling" -> {"cancelFinish"}
                          [] runSt[r] \in Terminal -> {}
                          [] OTHER -> {"cancelFail"}]
          /\ UNCHANGED storeVars
  /\ UNCHANGED <<workerVars, reconVars, tmpSt, tmpCancel, flow, faults>>

WorkflowStep(r) == \/ FlowPrepare(r) \/ FlowAgent(r) \/ FlowFinalize(r) \/ FlowFail(r)
                   \/ FlowCancelRead(r) \/ FlowCancelFinish(r) \/ FlowCancelled(r)
-----------------------------------------------------------------------------
(* WebRunReconciler.run_once *)

RecGoto(step) == rpc' = step /\ UNCHANGED <<rtodo, rcur>>
RecNext == /\ rpc' = IF rtodo = {} THEN "idle" ELSE "next"
           /\ rcur' = NoCandidate
           /\ UNCHANGED rtodo
RecAbort == rpc' = "idle" /\ rtodo' = {} /\ rcur' = NoCandidate

RecRead ==
  /\ rpc = "idle"
  /\ ReconcileCandidates(ReconLimit) # {}
  /\ rtodo' = {[run |-> r, st |-> runSt[r], wf |-> rowSt[r] # "none", fact |-> "not_found"] :
                 r \in ReconcileCandidates(ReconLimit)}
  /\ rpc' = "next"
  /\ rcur' = NoCandidate
  /\ UNCHANGED <<storeVars, workerVars, temporalVars, faults>>

\* Take a candidate; without a Workflow row it is skipped or failed, with one
\* its Workflow is described.
RecDescribe ==
  /\ rpc = "next"
  /\ \E c \in rtodo :
       /\ rtodo' = rtodo \ {c}
       /\ \/ /\ c.wf \/ c.st # "queued"
             /\ rcur' = [c EXCEPT !.fact = tmpSt[c.run]]
             /\ rpc' = IF c.wf THEN "record" ELSE "finFail"
          \/ /\ ~c.wf /\ c.st = "queued"
             /\ rpc' = IF rtodo = {c} THEN "idle" ELSE "next"
             /\ UNCHANGED rcur
  /\ UNCHANGED <<storeVars, workerVars, temporalVars, faults>>

\* What run_once does with a described candidate.
RecDecision(c) ==
  IF c.st \in Terminal THEN IF c.fact = "open" THEN "cancelRpc" ELSE "done"
  ELSE IF c.st = "cancelling" THEN IF c.fact = "open" THEN "cancelRpc" ELSE "finRead"
  ELSE CASE c.fact \in {"failed", "timed_out", "terminated", "completed"} -> "finFail"
         [] c.fact = "cancelled" -> "finRead"
         [] c.fact = "not_found" /\ c.st = "running" -> "finFail"
         [] OTHER -> "done"

\* Variation: whatever Temporal answered is recorded.
RecRecordAnyFact ==
  /\ rpc = "record"
  /\ RecordTemporalFact(rcur.run, rcur.fact)
  /\ IF RecDecision(rcur) = "done" THEN RecNext ELSE RecGoto(RecDecision(rcur))
  /\ UNCHANGED <<workerVars, temporalVars, faults>>

RecRecord ==
  /\ rpc = "record"
  /\ IF rcur.fact \in ClosedRow
       THEN RecordTemporalFact(rcur.run, rcur.fact)
       ELSE UNCHANGED storeVars
  /\ IF RecDecision(rcur) = "done" THEN RecNext ELSE RecGoto(RecDecision(rcur))
  /\ UNCHANGED <<workerVars, temporalVars, faults>>

\* handle.cancel() of a Workflow that closed meanwhile raises out of run_once.
RecCancelRpc ==
  /\ rpc = "cancelRpc"
  /\ CancelWorkflow(rcur.run)
  /\ IF CancelFound(rcur.run) THEN RecNext ELSE RecAbort
  /\ UNCHANGED <<storeVars, workerVars, faults>>

RecFinRead ==
  /\ rpc = "finRead"
  /\ IF runSt[rcur.run] \in Terminal THEN RecNext
     ELSE RecGoto(AfterRead(runSt[rcur.run]))
  /\ UNCHANGED <<storeVars, workerVars, temporalVars, faults>>

RecFinish ==
  /\ rpc \in {"finCancel", "finFail"}
  /\ Finish(rcur.run, IF rpc = "finCancel" THEN "cancelled" ELSE "failed")
  /\ RecNext
  /\ UNCHANGED <<rowVars, evVars, workerVars, temporalVars, faults>>

\* An exception or a crash ends the iteration; the loop starts a new one.
RecError ==
  /\ rpc # "idle"
  /\ RecAbort
  /\ Fault
  /\ UNCHANGED <<storeVars, workerVars, temporalVars>>

ReconcilerStep == \/ RecRead \/ RecDescribe \/ RecRecord \/ RecCancelRpc
                  \/ RecFinRead \/ RecFinish
-----------------------------------------------------------------------------
FaultStep == \/ \E w \in Workers : DispatchError(w) \/ DispatchCrash(w)
             \/ RecoverSlow
             \/ \E r \in Runs : \/ FlowRetry(r) \/ FlowActivityError(r) \/ FlowDies(r)
                                \/ OperatorCancel(r)
             \/ RecError

Next == \/ ClientStep
        \/ \E w \in Workers : DispatcherStep(w)
        \/ RecoverAbandoned
        \/ \E r \in Runs : WorkflowStep(r) \/ LateCommit(r)
        \/ ReconcilerStep
        \/ FaultStep

Spec == Init /\ [][Next]_vars

\* The background loops of a worker process never stop for good, Temporal
\* keeps scheduling an open Workflow, an expired lease is swept.  Clients and
\* faults are not fair.
Fairness == /\ \A w \in Workers : WF_vars(DispatcherStep(w))
            /\ WF_vars(RecoverAbandoned)
            /\ \A r \in Runs : WF_vars(WorkflowStep(r))
            /\ WF_vars(ReconcilerStep)

FairSpec == Spec /\ Fairness
-----------------------------------------------------------------------------
(* Properties *)

\* A conversation never has two active Runs, whichever of its Runs the
\* dispatchers, Workflows and the reconciler are still working on
\* (SingleActiveRunAdmission, uq_runs__one_active_per_conversation).
SingleActive ==
  \A r1, r2 \in Runs : /\ ConvOf[r1] = ConvOf[r2]
                       /\ runSt[r1] \in Active /\ runSt[r2] \in Active
                       => r1 = r2

\* The terminal event of a Run exists exactly when the Run is terminal, and
\* carries its status: late Activities, reconciler and dispatcher finalizers
\* never publish a second or a contradicting outcome (project_terminal).
TerminalEventMatches ==
  \A r \in Runs : {s \in Terminal : <<r, s>> \in termEv} = {runSt[r]} \cap Terminal

\* A Run is cancelled, or being cancelled, only if a client asked for it: a
\* Workflow cancelled in Temporal without a database intent ends as a failure
\* (the comment in WebRunLifecycleService.finalize_cancelled).
CancelledOnlyByIntent ==
  \A r \in Runs : runSt[r] \in {"cancelling", "cancelled"} => r \in intent

\* The scheduled row is committed before Temporal hears of the Run, and a Run
\* that runs or is being cancelled has one, so prepare never rejects its own
\* Workflow and the reconciler never meets a cancelling Run it cannot describe.
RowBeforeWorkflow ==
  \A r \in Runs : tmpSt[r] # "not_found" \/ runSt[r] \in {"running", "cancelling"}
                  => rowSt[r] # "none"

\* A start_run event is given up (processed or dead) only when the Run no
\* longer waits for it: a queued Run without a pending or leased start_run
\* event is known to Temporal, whatever leases expired or were taken over by
\* a process with the same worker_id.
QueuedNotStranded ==
  \A r \in Runs : runSt[r] = "queued" /\ evSt[<<"start_run", r>>] \in {"processed", "dead_letter"}
                  => tmpSt[r] # "not_found"

\* A Run that ended before any dispatcher prepared it is never handed to
\* Temporal, although its start_run event may already be claimed (the queued
\* branch of CancelRun against prepare_start).
NoStartAfterEnd ==
  [][\A r \in Runs : runSt[r] \in Terminal /\ rowSt[r] = "none"
                     => rowSt'[r] = "none" /\ tmpSt'[r] = "not_found"]_vars

\* Every accepted Run ends: lost RPC answers, crashes, exhausted events and
\* dead Workflows are all converged by somebody.
EveryRunEnds == \A r \in Runs : runSt[r] \in Active ~> runSt[r] \in Terminal

\* An active Run whose Workflow has closed reaches a terminal status: what
\* run_reconciler_loop is for ("Periodically converge active Runs and Temporal
\* execution facts").
ActiveRunsConverge ==
  \A r \in Runs : runSt[r] \in Active /\ tmpSt[r] \in ClosedRow ~> runSt[r] \in Terminal

\* The application transactions implement the contract of the schema: no
\* committed step is one the triggers and unique indexes would refuse.
Contract == INSTANCE RunContract WITH status <- runSt, published <- termEv
ImplementsContract == Contract!Spec
=============================================================================
