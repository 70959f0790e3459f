-------------------------- MODULE RunDispatchProof --------------------------
(***************************************************************************)
(* The safety properties of RunDispatch for every value of its constants.  *)
(* None of them is inductive: a finalizer acts on a status that was read in *)
(* an earlier transaction, an event or a candidate is remembered after its *)
(* lease is gone.  Strong states what those memories still guarantee.      *)
(***************************************************************************)
EXTENDS RunDispatch, TLAPS

-----------------------------------------------------------------------------
(* Types, for every number of Runs, dispatchers, attempts and faults. *)

\* A claimed event names an event type and a Run.
LEMMA ClaimedFields ==
  ASSUME NEW c \in Claimed
  PROVE  /\ c.ev \in Events /\ c.ev[1] \in EventType /\ c.ev[2] \in Runs
         /\ c.att \in Nat
  BY DEF Claimed, Events

\* Status sets of RunStore lie within each other.
LEMMA StatusSets ==
  /\ Active \subseteq RunStatus /\ Terminal \subseteq RunStatus
  /\ OpenRow \subseteq RowStatus /\ ClosedRow \subseteq RowStatus
  /\ ClosedRow \subseteq TmpStatus
  BY DEF Active, Terminal, RunStatus, OpenRow, ClosedRow, RowStatus, TmpStatus

-----------------------------------------------------------------------------
(* The transactions of RunStore preserve its types. *)

LEMMA TouchType ==
  ASSUME StoreTypeOK, NEW r \in Runs
  PROVE  Touch(r) \in [Runs -> SUBSET Runs]
  BY DEF StoreTypeOK, Touch, Existing

LEMMA SetRunType ==
  ASSUME StoreTypeOK, NEW r \in Runs, NEW s \in RunStatus, SetRun(r, s)
  PROVE  runSt' \in [Runs -> RunStatus] /\ older' \in [Runs -> SUBSET Runs]
  BY TouchType DEF StoreTypeOK, SetRun

LEMMA EnqueueType ==
  ASSUME StoreTypeOK, NEW e \in Events, Enqueue(e)
  PROVE  evSt' \in [Events -> EventStatus]
  BY DEF StoreTypeOK, Enqueue, EventStatus

LEMMA InsertType ==
  ASSUME StoreTypeOK, NEW r \in Runs, NEW src \in Runs \cup {NoRun}, InsertChatRun(r, src)
  PROVE  StoreTypeOK'
<1>1. <<"start_run", r>> \in Events
  BY DEF Events, EventType
<1>2. runSt' \in [Runs -> RunStatus] /\ older' \in [Runs -> SUBSET Runs]
  BY SetRunType DEF InsertChatRun, RunStatus, Active
<1>3. evSt' \in [Events -> EventStatus]
  BY <1>1, EnqueueType DEF InsertChatRun
<1> QED
  BY <1>2, <1>3 DEF StoreTypeOK, InsertChatRun, rowVars

LEMMA FinishType ==
  ASSUME StoreTypeOK, NEW r \in Runs, NEW s \in Terminal, Finish(r, s)
  PROVE  /\ runSt' \in [Runs -> RunStatus]
         /\ retryOf' \in [Runs -> Runs \cup {NoRun}]
         /\ older' \in [Runs -> SUBSET Runs]
         /\ intent' \in SUBSET Runs
         /\ termEv' \in SUBSET (Runs \X Terminal)
<1>1. CASE FinishIgnored(r, s)
  BY <1>1 DEF Finish, StoreTypeOK
<1>2. CASE ~FinishIgnored(r, s)
  <2>1. SetRun(r, s) /\ termEv' = termEv \cup {<<r, s>>} /\ UNCHANGED <<retryOf, intent>>
    BY <1>2 DEF Finish
  <2>2. runSt' \in [Runs -> RunStatus] /\ older' \in [Runs -> SUBSET Runs]
    BY <2>1, SetRunType, StatusSets
  <2> QED
    BY <2>1, <2>2 DEF StoreTypeOK
<1> QED
  BY <1>1, <1>2

\* The same, for an action that leaves rows and events alone.
LEMMA FinishOnlyType ==
  ASSUME StoreTypeOK, NEW r \in Runs, NEW s \in Terminal, Finish(r, s),
         UNCHANGED <<rowVars, evVars>>
  PROVE  StoreTypeOK'
  BY FinishType DEF StoreTypeOK, rowVars, evVars

LEMMA CancelRunType ==
  ASSUME StoreTypeOK, NEW r \in Runs, CancelRun(r)
  PROVE  StoreTypeOK'
<1>1. <<"cancel_run", r>> \in Events
  BY DEF Events, EventType
<1>2. "cancelling" \in RunStatus /\ "cancelled" \in RunStatus /\ "cancelled" \in Terminal
  BY DEF RunStatus, Active, Terminal
<1>3. CASE runSt[r] = "queued" /\ rowSt[r] = "none"
  <2>1. SetRun(r, "cancelled")
    BY <1>3 DEF CancelRun
  <2>2. runSt' \in [Runs -> RunStatus] /\ older' \in [Runs -> SUBSET Runs]
    BY <2>1, <1>2, SetRunType
  <2>3. termEv' \in SUBSET (Runs \X Terminal)
    BY <1>2, <1>3 DEF CancelRun, StoreTypeOK
  <2> QED
    BY <1>3, <2>2, <2>3 DEF CancelRun, StoreTypeOK, rowVars
<1>4. CASE ~(runSt[r] = "queued" /\ rowSt[r] = "none")
  <2>1. Enqueue(<<"cancel_run", r>>) /\ UNCHANGED termEv
    BY <1>4 DEF CancelRun
  <2>2. evSt' \in [Events -> EventStatus]
    BY <1>1, <2>1, EnqueueType
  <2>3. runSt' \in [Runs -> RunStatus] /\ older' \in [Runs -> SUBSET Runs]
    <3>1. CASE runSt[r] = "cancelling"
      BY <1>4, <3>1 DEF CancelRun, StoreTypeOK
    <3>2. CASE runSt[r] # "cancelling"
      BY <1>2, <1>4, <3>2, SetRunType DEF CancelRun
    <3> QED
      BY <3>1, <3>2
  <2> QED
    BY <2>1, <2>2, <2>3 DEF CancelRun, StoreTypeOK, rowVars
<1> QED
  BY <1>3, <1>4

LEMMA RowType ==
  ASSUME StoreTypeOK, NEW r \in Runs,
         \/ PrepareStart(r) \/ RecordStarted(r) \/ RecordCancelRequested(r)
         \/ \E f \in ClosedRow : RecordTemporalFact(r, f)
  PROVE  StoreTypeOK'
<1>1. CASE PrepareStart(r)
  BY <1>1 DEF PrepareStart, StoreTypeOK, runVars, evVars, RowStatus, OpenRow
<1>2. CASE RecordStarted(r)
  BY <1>2 DEF RecordStarted, StoreTypeOK, runVars, rowVars, evVars, RowStatus, OpenRow
<1>3. CASE RecordCancelRequested(r)
  BY <1>3 DEF RecordCancelRequested, StoreTypeOK, runVars, evVars, RowStatus, OpenRow
<1>4. CASE \E f \in ClosedRow : RecordTemporalFact(r, f)
  BY <1>4 DEF RecordTemporalFact, StoreTypeOK, runVars, evVars, RowStatus
<1> QED
  BY <1>1, <1>2, <1>3, <1>4

LEMMA PrepareType ==
  ASSUME StoreTypeOK, NEW r \in Runs, Prepare(r)
  PROVE  StoreTypeOK'
<1>1. runSt' \in [Runs -> RunStatus] /\ older' \in [Runs -> SUBSET Runs]
  <2>1. CASE runSt[r] = "queued"
    BY <2>1, SetRunType DEF Prepare, RunStatus, Active
  <2>2. CASE runSt[r] # "queued"
    BY <2>2 DEF Prepare, StoreTypeOK
  <2> QED
    BY <2>1, <2>2
<1>2. rowSt' \in [Runs -> RowStatus] /\ rowTid' \in [Runs -> BOOLEAN]
  BY DEF Prepare, StoreTypeOK, rowVars, RowStatus, OpenRow
<1> QED
  BY <1>1, <1>2 DEF Prepare, StoreTypeOK, evVars

LEMMA ReleaseType ==
  ASSUME StoreTypeOK, NEW e \in Events, NEW p \in Pids,
         NEW s \in EventStatus, Release(e, p, s)
  PROVE  /\ evSt' \in [Events -> EventStatus]
         /\ evBy' \in [Events -> Pids \cup {NoPid}]
         /\ evAtt' \in [Events -> Nat]
  BY DEF Release, StoreTypeOK, evVars

LEMMA LeaseType ==
  ASSUME StoreTypeOK, NEW e \in Events, NEW p \in Pids,
         MarkProcessed(e, p) \/ MarkRetryableFailure(e, p) \/ DeadLetter(e, p)
  PROVE  StoreTypeOK'
<1>0. "processed" \in EventStatus /\ "pending" \in EventStatus /\ "dead_letter" \in EventStatus
  BY DEF EventStatus
<1>1. CASE MarkProcessed(e, p) \/ MarkRetryableFailure(e, p)
  BY <1>0, <1>1, ReleaseType DEF MarkProcessed, MarkRetryableFailure, StoreTypeOK, runVars, rowVars
<1>2. CASE DeadLetter(e, p)
  <2>1. e[2] \in Runs /\ "failed" \in Terminal
    BY DEF Events, Terminal
  <2>2. Release(e, p, "dead_letter") /\ UNCHANGED rowVars
    BY <1>2 DEF DeadLetter
  <2>3. /\ evSt' \in [Events -> EventStatus]
        /\ evBy' \in [Events -> Pids \cup {NoPid}]
        /\ evAtt' \in [Events -> Nat]
    BY <1>0, <2>2, ReleaseType
  <2>4. Finish(e[2], "failed") \/ UNCHANGED runVars
    BY <1>2 DEF DeadLetter
  <2>5. CASE Finish(e[2], "failed")
    BY <2>1, <2>2, <2>3, <2>5, FinishType DEF StoreTypeOK, rowVars
  <2>6. CASE UNCHANGED runVars
    BY <2>2, <2>3, <2>6 DEF StoreTypeOK, rowVars, runVars
  <2> QED
    BY <2>4, <2>5, <2>6
<1> QED
  BY <1>1, <1>2

LEMMA BatchType ==
  ASSUME StoreTypeOK, NEW E \in SUBSET Events,
         RecoverExpired(E) \/ \E p \in Pids : ClaimBatch(E, p)
  PROVE  StoreTypeOK'
<1>1. CASE RecoverExpired(E)
  BY <1>1 DEF RecoverExpired, StoreTypeOK, EventStatus, runVars, rowVars
<1>2. CASE \E p \in Pids : ClaimBatch(E, p)
  BY <1>2 DEF ClaimBatch, StoreTypeOK, EventStatus, runVars, rowVars
<1> QED
  BY <1>1, <1>2

LEMMA StoreUnchanged == StoreTypeOK /\ UNCHANGED storeVars => StoreTypeOK'
  BY DEF StoreTypeOK, storeVars, runVars, rowVars, evVars
-----------------------------------------------------------------------------
(* The processes. *)

\* What TypeOK says of the dispatchers, Temporal, and the reconciler.
WorkerTypeOK ==
  /\ wpc \in [Workers -> WorkerStep]
  /\ wcur \in [Workers -> Claimed \cup {NoClaim}]
  /\ \A w \in Workers : wpc[w] # "idle" => wcur[w] \in Claimed
  /\ wbatch \in [Workers -> SUBSET Claimed]
TemporalTypeOK ==
  /\ tmpSt \in [Runs -> TmpStatus]
  /\ tmpCancel \in [Runs -> {"no", "requested", "delivered"}]
  /\ flow \in [Runs -> FlowStep]
  /\ late \in [Runs -> SUBSET ActivityStep]
ReconTypeOK ==
  /\ rpc \in ReconStep
  /\ rtodo \in SUBSET Candidate
  /\ rcur \in Candidate \cup {NoCandidate}
  /\ rpc \notin {"idle", "next"} => rcur \in Candidate
FaultsTypeOK == faults \in 0..MaxFaults

LEMMA TypeParts ==
  TypeOK <=> StoreTypeOK /\ WorkerTypeOK /\ TemporalTypeOK /\ ReconTypeOK /\ FaultsTypeOK
  BY DEF TypeOK, WorkerTypeOK, TemporalTypeOK, ReconTypeOK, FaultsTypeOK

LEMMA TypePartsPrime ==
  TypeOK' <=> StoreTypeOK' /\ WorkerTypeOK' /\ TemporalTypeOK' /\ ReconTypeOK' /\ FaultsTypeOK'
  BY DEF TypeOK, WorkerTypeOK, TemporalTypeOK, ReconTypeOK, FaultsTypeOK

LEMMA WorkerUnchanged == WorkerTypeOK /\ UNCHANGED workerVars => WorkerTypeOK'
  BY DEF WorkerTypeOK, workerVars

LEMMA TemporalUnchanged == TemporalTypeOK /\ UNCHANGED temporalVars => TemporalTypeOK'
  BY DEF TemporalTypeOK, temporalVars

LEMMA ReconUnchanged == ReconTypeOK /\ UNCHANGED reconVars => ReconTypeOK'
  BY DEF ReconTypeOK, reconVars

LEMMA FaultsType == FaultsTypeOK /\ (Fault \/ UNCHANGED faults) => FaultsTypeOK'
  BY DispatchAssumption DEF FaultsTypeOK, Fault

\* A dispatcher that handles an event handles a claimed one.
LEMMA WorkingType ==
  ASSUME WorkerTypeOK, NEW w \in Workers, wpc[w] # "idle"
  PROVE  /\ wcur[w] \in Claimed /\ wcur[w].ev \in Events
         /\ EvRun(w) \in Runs /\ wcur[w].att \in Nat
  BY ClaimedFields DEF WorkerTypeOK, EvRun

LEMMA GotoType ==
  ASSUME WorkerTypeOK, NEW w \in Workers, NEW s \in WorkerStep, wpc[w] # "idle", Goto(w, s)
  PROVE  WorkerTypeOK'
  BY DEF WorkerTypeOK, Goto

LEMMA GoIdleType ==
  ASSUME WorkerTypeOK, NEW w \in Workers, GoIdle(w)
  PROVE  WorkerTypeOK'
  BY DEF WorkerTypeOK, GoIdle, WorkerStep

LEMMA TakeFromType ==
  ASSUME WorkerTypeOK, NEW w \in Workers, NEW B \in SUBSET Claimed, TakeFrom(w, B)
  PROVE  WorkerTypeOK'
<1>1. PICK c \in B : /\ wcur' = [wcur EXCEPT ![w] = c]
                     /\ wbatch' = [wbatch EXCEPT ![w] = B \ {c}]
                     /\ wpc' = [wpc EXCEPT ![w] = FirstStep(c)]
  BY DEF TakeFrom
<1>2. FirstStep(c) \in WorkerStep
  BY DEF FirstStep, WorkerStep, StartStep, CancelStep
<1> QED
  BY <1>1, <1>2 DEF WorkerTypeOK

LEMMA NextEventType ==
  ASSUME WorkerTypeOK, NEW w \in Workers, NextEvent(w)
  PROVE  WorkerTypeOK'
<1>1. wbatch[w] \in SUBSET Claimed
  BY DEF WorkerTypeOK
<1> QED
  BY <1>1, GoIdleType, TakeFromType DEF NextEvent

LEMMA DispatcherType ==
  ASSUME TypeOK, NEW w \in Workers, DispatcherStep(w)
  PROVE  TypeOK'
<1> USE TypeParts, TypePartsPrime
<1>0. PidOf[w] \in Pids
  BY DispatchAssumption
<1>s. \A s \in {"idle", "recordCancel", "mark", "raised", "prepareStart", "startRpc",
                "recordStarted", "needsCancel", "lateCancel", "lookup", "cancelRpc",
                "finRead", "finCancel", "finFail"} : s \in WorkerStep
  BY DEF WorkerStep, StartStep, CancelStep
<1>1. CASE Claim(w)
  <2>1. PICK E \in SUBSET {e \in Events : evSt[e] = "pending"} :
               /\ ClaimBatch(E, PidOf[w])
               /\ TakeFrom(w, {[ev |-> e, att |-> evAtt[e] + 1] : e \in E})
    BY <1>1 DEF Claim
  <2>2. {[ev |-> e, att |-> evAtt[e] + 1] : e \in E} \in SUBSET Claimed
    BY DEF StoreTypeOK, Claimed
  <2>3. StoreTypeOK'
    BY <1>0, <2>1, BatchType
  <2>4. WorkerTypeOK'
    BY <2>1, <2>2, TakeFromType
  <2> QED
    BY <1>1, <2>3, <2>4, TemporalUnchanged, ReconUnchanged, FaultsType DEF Claim
<1>2. CASE DispatchPrepareStart(w)
  <2>1. EvRun(w) \in Runs /\ wpc[w] # "idle"
    BY <1>2, WorkingType DEF DispatchPrepareStart, At
  <2> QED
    BY <1>2, <1>s, <2>1, RowType, GotoType, TemporalUnchanged, ReconUnchanged, FaultsType
       DEF DispatchPrepareStart
<1>3. CASE DispatchStartRpc(w)
  <2>1. EvRun(w) \in Runs /\ wpc[w] # "idle"
    BY <1>3, WorkingType DEF DispatchStartRpc, At
  <2>2. TemporalTypeOK'
    BY <1>3, <2>1 DEF DispatchStartRpc, StartWorkflow, TemporalTypeOK, temporalVars,
                      TmpStatus, FlowStep, ActivityStep
  <2> QED
    BY <1>3, <1>s, <2>1, <2>2, GotoType, StoreUnchanged, ReconUnchanged, FaultsType
       DEF DispatchStartRpc
<1>4. CASE DispatchRecordStarted(w)
  <2>1. EvRun(w) \in Runs /\ wpc[w] # "idle"
    BY <1>4, WorkingType DEF DispatchRecordStarted, At
  <2> QED
    BY <1>4, <1>s, <2>1, RowType, GotoType, TemporalUnchanged, ReconUnchanged, FaultsType
       DEF DispatchRecordStarted
<1>5. CASE DispatchNeedsCancel(w)
  BY <1>5, <1>s, GotoType, StoreUnchanged, TemporalUnchanged, ReconUnchanged, FaultsType
     DEF DispatchNeedsCancel, At
<1>6. CASE DispatchLookup(w)
  BY <1>6, <1>s, GotoType, StoreUnchanged, TemporalUnchanged, ReconUnchanged, FaultsType
     DEF DispatchLookup, At
<1>7. CASE DispatchCancelRpc(w)
  <2>1. EvRun(w) \in Runs /\ wpc[w] # "idle"
    BY <1>7, WorkingType DEF DispatchCancelRpc
  <2>2. TemporalTypeOK'
    BY <1>7, <2>1 DEF DispatchCancelRpc, CancelWorkflow, TemporalTypeOK
  <2> QED
    BY <1>7, <1>s, <2>1, <2>2, GotoType, StoreUnchanged, ReconUnchanged, FaultsType
       DEF DispatchCancelRpc
<1>8. CASE DispatchRecordCancel(w)
  <2>1. EvRun(w) \in Runs /\ wpc[w] # "idle"
    BY <1>8, WorkingType DEF DispatchRecordCancel, At
  <2> QED
    BY <1>8, <1>s, <2>1, RowType, GotoType, TemporalUnchanged, ReconUnchanged, FaultsType
       DEF DispatchRecordCancel
<1>9. CASE DispatchFinRead(w)
  BY <1>9, <1>s, GotoType, StoreUnchanged, TemporalUnchanged, ReconUnchanged, FaultsType
     DEF DispatchFinRead, AfterRead, At
<1>10. CASE DispatchFinish(w)
  <2>1. EvRun(w) \in Runs /\ wpc[w] # "idle"
    BY <1>10, WorkingType DEF DispatchFinish
  <2>2. "cancelled" \in Terminal /\ "failed" \in Terminal
    BY DEF Terminal
  <2>3. StoreTypeOK'
    BY <1>10, <2>1, <2>2, FinishOnlyType DEF DispatchFinish
  <2> QED
    BY <1>10, <1>s, <2>1, <2>3, GotoType, TemporalUnchanged, ReconUnchanged, FaultsType
       DEF DispatchFinish
<1>11. CASE DispatchMark(w)
  <2>1. wcur[w].ev \in Events
    BY <1>11, WorkingType DEF DispatchMark, At
  <2> QED
    BY <1>11, <1>0, <2>1, LeaseType, NextEventType, TemporalUnchanged, ReconUnchanged,
       FaultsType DEF DispatchMark
<1>12. CASE DispatchRaised(w)
  <2>1. wcur[w].ev \in Events
    BY <1>12, WorkingType DEF DispatchRaised, At
  <2>2. StoreTypeOK' /\ WorkerTypeOK'
    BY <1>12, <1>0, <2>1, LeaseType, StoreUnchanged, NextEventType, GoIdleType
       DEF DispatchRaised
  <2> QED
    BY <1>12, <2>2, TemporalUnchanged, ReconUnchanged, FaultsType DEF DispatchRaised
<1> QED
  BY <1>1, <1>2, <1>3, <1>4, <1>5, <1>6, <1>7, <1>8, <1>9, <1>10, <1>11, <1>12
     DEF DispatcherStep
-----------------------------------------------------------------------------
LEMMA CompleteType ==
  ASSUME StoreTypeOK, NEW r \in Runs, Complete(r)
  PROVE  StoreTypeOK'
<1>1. "succeeded" \in Terminal
  BY DEF Terminal
<1>2. CASE runSt[r] \in {"queued", "running"}
  BY <1>1, <1>2, FinishOnlyType DEF Complete
<1>3. CASE runSt[r] \notin {"queued", "running"}
  BY <1>3, StoreUnchanged DEF Complete, storeVars
<1> QED
  BY <1>2, <1>3

LEMMA FlowMoveType ==
  ASSUME TemporalTypeOK, NEW r \in Runs,
         \/ \E s \in FlowStep : FlowGoto(r, s)
         \/ \E st \in TmpStatus : FlowClose(r, st)
  PROVE  TemporalTypeOK'
  BY DEF TemporalTypeOK, FlowGoto, FlowClose, FlowStep

LEMMA AbandonedType ==
  ASSUME TemporalTypeOK, NEW r \in Runs
  PROVE  Abandoned(r) \in SUBSET ActivityStep
  BY DEF TemporalTypeOK, Abandoned

LEMMA WorkflowType ==
  ASSUME TypeOK, NEW r \in Runs, WorkflowStep(r)
  PROVE  TypeOK'
<1> USE TypeParts, TypePartsPrime
<1>f. \A s \in {"none", "agent", "prepare", "finalize", "fail", "cancelRead", "cancelFinish",
                "cancelFail"} : s \in FlowStep
  BY DEF FlowStep, ActivityStep
<1>t. \A s \in {"completed", "failed", "cancelled"} : s \in TmpStatus
  BY DEF TmpStatus, ClosedRow
<1>c. \A s : CancelOutcome(s) \in TmpStatus /\ FailOutcome(s) \in TmpStatus
  BY <1>t DEF CancelOutcome, FailOutcome
<1>u. "failed" \in Terminal /\ "cancelled" \in Terminal
  BY DEF Terminal
<1>1. CASE FlowPrepare(r)
  <2>1. \/ \E s \in FlowStep : FlowGoto(r, s)
        \/ \E st \in TmpStatus : FlowClose(r, st)
    BY <1>1, <1>f, <1>t DEF FlowPrepare
  <2> QED
    BY <1>1, <2>1, PrepareType, FlowMoveType, WorkerUnchanged, ReconUnchanged, FaultsType
       DEF FlowPrepare
<1>2. CASE FlowAgent(r)
  <2>1. \E s \in FlowStep : FlowGoto(r, s)
    BY <1>2, <1>f DEF FlowAgent
  <2> QED
    BY <1>2, <2>1, FlowMoveType, StoreUnchanged, WorkerUnchanged, ReconUnchanged, FaultsType
       DEF FlowAgent
<1>3. CASE FlowFinalize(r)
  <2>1. \/ \E s \in FlowStep : FlowGoto(r, s)
        \/ \E st \in TmpStatus : FlowClose(r, st)
    BY <1>3, <1>f, <1>t DEF FlowFinalize
  <2> QED
    BY <1>3, <2>1, CompleteType, FlowMoveType, WorkerUnchanged, ReconUnchanged, FaultsType
       DEF FlowFinalize
<1>4. CASE FlowFail(r)
  BY <1>4, <1>c, <1>u, FinishOnlyType, FlowMoveType, WorkerUnchanged, ReconUnchanged,
     FaultsType DEF FlowFail
<1>5. CASE FlowCancelRead(r)
  <2>1. \/ \E s \in FlowStep : FlowGoto(r, s)
        \/ \E st \in TmpStatus : FlowClose(r, st)
    BY <1>5, <1>f, <1>c DEF FlowCancelRead
  <2> QED
    BY <1>5, <2>1, FlowMoveType, StoreUnchanged, WorkerUnchanged, ReconUnchanged, FaultsType
       DEF FlowCancelRead
<1>6. CASE FlowCancelFinish(r)
  BY <1>6, <1>c, <1>u, FinishOnlyType, FlowMoveType, WorkerUnchanged, ReconUnchanged,
     FaultsType DEF FlowCancelFinish
<1>7. CASE FlowCancelled(r)
  <2>1. TemporalTypeOK'
    BY <1>7, <1>f, <1>t, AbandonedType DEF FlowCancelled, TemporalTypeOK
  <2> QED
    BY <1>7, <2>1, StoreUnchanged, WorkerUnchanged, ReconUnchanged, FaultsType
       DEF FlowCancelled
<1> QED
  BY <1>1, <1>2, <1>3, <1>4, <1>5, <1>6, <1>7 DEF WorkflowStep

LEMMA LateType ==
  ASSUME TypeOK, NEW r \in Runs, LateCommit(r)
  PROVE  TypeOK'
<1> USE TypeParts, TypePartsPrime
<1>u. "failed" \in Terminal /\ "cancelled" \in Terminal
  BY DEF Terminal
<1>1. StoreTypeOK'
  BY <1>u, PrepareType, CompleteType, FinishOnlyType, StoreUnchanged DEF LateCommit
<1>2. late' \in [Runs -> SUBSET ActivityStep]
  BY DEF LateCommit, TemporalTypeOK, ActivityStep
<1> QED
  BY <1>1, <1>2, WorkerUnchanged, ReconUnchanged, FaultsType DEF LateCommit, TemporalTypeOK

-----------------------------------------------------------------------------
LEMMA CandidateFields ==
  ASSUME NEW c \in Candidate
  PROVE  c.run \in Runs /\ c.st \in RunStatus /\ c.wf \in BOOLEAN /\ c.fact \in TmpStatus
  BY DEF Candidate

LEMMA RecMoveType ==
  ASSUME ReconTypeOK,
         \/ RecNext \/ RecAbort
         \/ rcur \in Candidate /\ \E s \in ReconStep : RecGoto(s)
  PROVE  ReconTypeOK'
<1>1. "idle" \in ReconStep /\ "next" \in ReconStep
  BY DEF ReconStep
<1>2. CASE RecNext
  BY <1>1, <1>2 DEF ReconTypeOK, RecNext
<1>3. CASE RecAbort
  BY <1>1, <1>3 DEF ReconTypeOK, RecAbort
<1>4. CASE rcur \in Candidate /\ \E s \in ReconStep : RecGoto(s)
  BY <1>4 DEF ReconTypeOK, RecGoto
<1> QED
  BY <1>2, <1>3, <1>4

LEMMA ReconcilerType ==
  ASSUME TypeOK, ReconcilerStep
  PROVE  TypeOK'
<1> USE TypeParts, TypePartsPrime
<1>r. \A s \in {"idle", "next", "record", "cancelRpc", "finRead", "finCancel", "finFail"} :
        s \in ReconStep
  BY DEF ReconStep
<1>u. "failed" \in Terminal /\ "cancelled" \in Terminal
  BY DEF Terminal
<1>w. rpc \notin {"idle", "next"} => rcur \in Candidate
  BY DEF ReconTypeOK
<1>1. CASE RecRead
  <2>1. ReconcileCandidates(ReconLimit) \in SUBSET Runs
    BY DEF ReconcileCandidates, Candidates
  <2>2. \A r \in Runs :
          [run |-> r, st |-> runSt[r], wf |-> rowSt[r] # "none", fact |-> "not_found"] \in Candidate
    BY DEF Candidate, StoreTypeOK, TmpStatus
  <2>3. rtodo' \in SUBSET Candidate
    BY <1>1, <2>1, <2>2 DEF RecRead
  <2>4. ReconTypeOK'
    BY <1>1, <1>r, <2>3 DEF RecRead, ReconTypeOK
  <2> QED
    BY <1>1, <2>4, StoreUnchanged, WorkerUnchanged, TemporalUnchanged, FaultsType DEF RecRead
<1>2. CASE RecDescribe
  <2>1. PICK c \in rtodo :
          /\ rtodo' = rtodo \ {c}
          /\ \/ /\ rcur' = [c EXCEPT !.fact = tmpSt[c.run]]
                /\ rpc' = IF c.wf THEN "record" ELSE "finFail"
             \/ /\ rpc' = IF rtodo = {c} THEN "idle" ELSE "next"
                /\ UNCHANGED rcur
    BY <1>2 DEF RecDescribe
  <2>2. c \in Candidate
    BY DEF ReconTypeOK
  <2>3. tmpSt[c.run] \in TmpStatus
    BY <2>2, CandidateFields DEF TemporalTypeOK
  <2>4. [c EXCEPT !.fact = tmpSt[c.run]] \in Candidate
    BY <2>2, <2>3 DEF Candidate
  <2>5. ReconTypeOK'
    BY <1>r, <2>1, <2>4 DEF ReconTypeOK
  <2> QED
    BY <1>2, <2>5, StoreUnchanged, WorkerUnchanged, TemporalUnchanged, FaultsType DEF RecDescribe
<1>3. CASE RecRecord
  <2>1. rcur \in Candidate /\ rcur.run \in Runs
    BY <1>3, <1>w, CandidateFields DEF RecRecord
  <2>2. StoreTypeOK'
    BY <1>3, <2>1, RowType, StoreUnchanged DEF RecRecord
  <2>3. RecDecision(rcur) = "done" \/ RecDecision(rcur) \in ReconStep
    BY <1>r DEF RecDecision
  <2>4. ReconTypeOK'
    BY <1>3, <2>1, <2>3, RecMoveType DEF RecRecord
  <2> QED
    BY <1>3, <2>2, <2>4, WorkerUnchanged, TemporalUnchanged, FaultsType DEF RecRecord
<1>4. CASE RecCancelRpc
  <2>1. rcur.run \in Runs
    BY <1>4, <1>w, CandidateFields DEF RecCancelRpc
  <2>2. TemporalTypeOK'
    BY <1>4, <2>1 DEF RecCancelRpc, CancelWorkflow, TemporalTypeOK
  <2> QED
    BY <1>4, <2>2, RecMoveType, StoreUnchanged, WorkerUnchanged, FaultsType DEF RecCancelRpc
<1>5. CASE RecFinRead
  <2>1. rcur \in Candidate
    BY <1>5, <1>w DEF RecFinRead
  <2>2. runSt[rcur.run] \notin Terminal => AfterRead(runSt[rcur.run]) \in ReconStep
    BY <1>r DEF AfterRead
  <2>3. ReconTypeOK'
    BY <1>5, <2>1, <2>2, RecMoveType DEF RecFinRead
  <2> QED
    BY <1>5, <2>3, StoreUnchanged, WorkerUnchanged, TemporalUnchanged, FaultsType DEF RecFinRead
<1>6. CASE RecFinish
  <2>1. rcur.run \in Runs
    BY <1>6, <1>w, CandidateFields DEF RecFinish
  <2>2. StoreTypeOK'
    BY <1>6, <1>u, <2>1, FinishOnlyType DEF RecFinish
  <2> QED
    BY <1>6, <2>2, RecMoveType, WorkerUnchanged, TemporalUnchanged, FaultsType DEF RecFinish
<1> QED
  BY <1>1, <1>2, <1>3, <1>4, <1>5, <1>6 DEF ReconcilerStep

LEMMA FaultStepType ==
  ASSUME TypeOK, FaultStep
  PROVE  TypeOK'
<1> USE TypeParts, TypePartsPrime
<1>1. ASSUME NEW w \in Workers, DispatchError(w) PROVE TypeOK'
  BY <1>1, GotoType, StoreUnchanged, TemporalUnchanged, ReconUnchanged, FaultsType
     DEF DispatchError, WorkerStep
<1>2. ASSUME NEW w \in Workers, DispatchCrash(w) PROVE TypeOK'
  BY <1>2, GoIdleType, StoreUnchanged, TemporalUnchanged, ReconUnchanged, FaultsType
     DEF DispatchCrash
<1>3. CASE RecoverSlow
  BY <1>3, BatchType, WorkerUnchanged, TemporalUnchanged, ReconUnchanged, FaultsType
     DEF RecoverSlow
<1>4. ASSUME NEW r \in Runs, FlowRetry(r) PROVE TypeOK'
  <2>1. TemporalTypeOK'
    BY <1>4, AbandonedType DEF FlowRetry, TemporalTypeOK
  <2> QED
    BY <1>4, <2>1, StoreUnchanged, WorkerUnchanged, ReconUnchanged, FaultsType DEF FlowRetry
<1>5. ASSUME NEW r \in Runs, FlowActivityError(r) PROVE TypeOK'
  <2>1. "fail" \in FlowStep /\ "failed" \in TmpStatus
    BY DEF FlowStep, ActivityStep, TmpStatus, ClosedRow
  <2> QED
    BY <1>5, <2>1, FlowMoveType, StoreUnchanged, WorkerUnchanged, ReconUnchanged, FaultsType
       DEF FlowActivityError
<1>6. ASSUME NEW r \in Runs, FlowDies(r) PROVE TypeOK'
  <2>1. TemporalTypeOK'
    BY <1>6, AbandonedType DEF FlowDies, TemporalTypeOK, TmpStatus, ClosedRow, FlowStep
  <2> QED
    BY <1>6, <2>1, StoreUnchanged, WorkerUnchanged, ReconUnchanged, FaultsType DEF FlowDies
<1>7. ASSUME NEW r \in Runs, OperatorCancel(r) PROVE TypeOK'
  <2>1. TemporalTypeOK'
    BY <1>7 DEF OperatorCancel, CancelWorkflow, TemporalTypeOK
  <2> QED
    BY <1>7, <2>1, StoreUnchanged, WorkerUnchanged, ReconUnchanged, FaultsType DEF OperatorCancel
<1>8. CASE RecError
  BY <1>8, RecMoveType, StoreUnchanged, WorkerUnchanged, TemporalUnchanged, FaultsType
     DEF RecError
<1> QED
  BY <1>1, <1>2, <1>3, <1>4, <1>5, <1>6, <1>7, <1>8 DEF FaultStep
-----------------------------------------------------------------------------
LEMMA InitType == Init => TypeOK
  BY DispatchAssumption
     DEF Init, TypeOK, StoreInit, StoreTypeOK, RunStatus, RowStatus, EventStatus, WorkerStep,
         TmpStatus, FlowStep, ReconStep

LEMMA NextType == TypeOK /\ [Next]_vars => TypeOK'
<1> SUFFICES ASSUME TypeOK, [Next]_vars PROVE TypeOK'
  OBVIOUS
<1> USE TypeParts, TypePartsPrime
<1>1. CASE ClientStep
  <2>1. StoreTypeOK'
    BY <1>1, InsertType, CancelRunType DEF ClientStep, SendMessage, RetryRun
  <2> QED
    BY <1>1, <2>1, WorkerUnchanged, TemporalUnchanged, ReconUnchanged, FaultsType DEF ClientStep
<1>2. CASE RecoverAbandoned
  <2>1. StoreTypeOK'
    BY <1>2, BatchType DEF RecoverAbandoned
  <2> QED
    BY <1>2, <2>1, WorkerUnchanged, TemporalUnchanged, ReconUnchanged, FaultsType
       DEF RecoverAbandoned
<1>3. CASE UNCHANGED vars
  BY <1>3, StoreUnchanged, WorkerUnchanged, TemporalUnchanged, ReconUnchanged, FaultsType DEF vars
<1> QED
  BY <1>1, <1>2, <1>3, DispatcherType, WorkflowType, LateType, ReconcilerType, FaultStepType
     DEF Next

\* Every variable keeps its type, and a process that works on an event or on a
\* candidate has one, for all numbers of Runs, dispatchers, attempts and faults.
THEOREM TypeCorrect == Spec => []TypeOK
  BY InitType, NextType, PTL DEF Spec

-----------------------------------------------------------------------------
(* The safety properties and what they lack to be inductive. *)

\* Cancellation, once committed, is left only for a terminal status.
Settling == {"cancelling"} \cup Terminal

\* Dispatcher w works for existing Runs.  About to finish a Run as cancelled,
\* it has read "cancelling"; past prepare_start it left a row, past
\* start_workflow a Workflow; a start_run event it is about to acknowledge
\* needs no start any more.
DispatcherInv(w) ==
  /\ wpc[w] # "idle" => runSt[EvRun(w)] # "none"
  /\ \A c \in wbatch[w] : runSt[c.ev[2]] # "none"
  /\ wpc[w] = "finCancel" => runSt[EvRun(w)] \in Settling
  /\ wpc[w] = "startRpc" => rowSt[EvRun(w)] # "none"
  /\ wpc[w] \in {"recordStarted", "needsCancel", "lateCancel"} => tmpSt[EvRun(w)] # "not_found"
  /\ wpc[w] \in CancelStep => wcur[w].ev[1] = "cancel_run"
  /\ wpc[w] \in {"mark", "recordCancel"} /\ wcur[w].ev[1] = "start_run"
     => tmpSt[EvRun(w)] # "not_found" \/ runSt[EvRun(w)] # "queued"

\* A Workflow, with its awaited and its abandoned Activities, belongs to an
\* existing Run and was started; the same holds of a row with a Temporal id.
WorkflowInv(r) ==
  /\ tmpSt[r] # "not_found" => runSt[r] # "none"
  /\ flow[r] # "none" \/ late[r] # {} \/ rowTid[r] => tmpSt[r] # "not_found"
  /\ flow[r] = "cancelFinish" \/ "cancelFinish" \in late[r] => runSt[r] \in Settling

ReconcilerInv ==
  /\ \A c \in rtodo : runSt[c.run] # "none"
  /\ rpc \notin {"idle", "next"} => runSt[rcur.run] # "none"
  /\ rpc = "finCancel" => runSt[rcur.run] \in Settling

EventInv == \A e \in Events : evSt[e] # "none" => runSt[e[2]] # "none"

Safe == /\ SingleActive /\ TerminalEventMatches /\ CancelledOnlyByIntent
        /\ RowBeforeWorkflow /\ QueuedNotStranded

Strong == /\ TypeOK /\ Safe
          /\ \A w \in Workers : DispatcherInv(w)
          /\ \A r \in Runs : WorkflowInv(r)
          /\ ReconcilerInv
          /\ EventInv
-----------------------------------------------------------------------------
(* How a step may change Runs. *)

\* Run r goes to s: what the columns that describe Runs look like afterwards.
Accepts(r) == /\ runSt[r] = "none" /\ ~HasActive(ConvOf[r])
              /\ runSt' = [runSt EXCEPT ![r] = "queued"]
              /\ UNCHANGED <<intent, termEv>>

Starts(r) == /\ runSt[r] = "queued" /\ rowSt[r] # "none"
             /\ runSt' = [runSt EXCEPT ![r] = "running"]
             /\ UNCHANGED <<intent, termEv>>

Cancels(r) == /\ runSt[r] \in Active
              /\ intent' = intent \cup {r}
              /\ UNCHANGED termEv
              /\ rowSt[r] # "none"
              /\ runSt' = [runSt EXCEPT ![r] = "cancelling"]

Ends(r, s) == /\ \/ runSt[r] = "queued" /\ s \in {"failed", "cancelled"}
                 \/ runSt[r] = "running" /\ s \in {"succeeded", "failed"}
                 \/ runSt[r] = "cancelling" /\ s = "cancelled"
              /\ runSt' = [runSt EXCEPT ![r] = s]
              /\ termEv' = termEv \cup {<<r, s>>}
              /\ intent' \in {intent, intent \cup {r}}
              /\ s = "cancelled" => r \in intent'

RunsStay == UNCHANGED <<runSt, intent, termEv>>

RunMove == \/ RunsStay
           \/ \E r \in Runs : \/ Accepts(r) \/ Starts(r) \/ Cancels(r)
                              \/ \E s \in Terminal : Ends(r, s)

LEMMA FinishMove ==
  ASSUME Strong, NEW r \in Runs, NEW s \in Terminal, Finish(r, s), runSt[r] # "none",
         s = "cancelled" => runSt[r] \in Settling
  PROVE  RunMove
<1>1. CASE FinishIgnored(r, s)
  BY <1>1 DEF Finish, RunMove, RunsStay
<1>2. CASE ~FinishIgnored(r, s)
  <2>1. /\ ~FinishRaises(r, s)
        /\ runSt' = [runSt EXCEPT ![r] = s]
        /\ termEv' = termEv \cup {<<r, s>>}
        /\ intent' = intent
    BY <1>2 DEF Finish, SetRun
  <2>2. runSt[r] \in RunStatus /\ (runSt[r] = "cancelling" => r \in intent)
    BY DEF Strong, TypeOK, StoreTypeOK, Safe, CancelledOnlyByIntent
  <2>3. Ends(r, s)
    BY <1>2, <2>1, <2>2
       DEF Ends, FinishRaises, FinishIgnored, Settling, RunStatus, Active, Terminal
  <2> QED
    BY <2>3 DEF RunMove
<1> QED
  BY <1>1, <1>2

LEMMA PrepareMove ==
  ASSUME Strong, NEW r \in Runs, Prepare(r)
  PROVE  RunMove
  BY DEF Prepare, SetRun, RunMove, RunsStay, Starts

LEMMA CompleteMove ==
  ASSUME Strong, NEW r \in Runs, Complete(r)
  PROVE  RunMove
<1>1. CASE runSt[r] \in {"queued", "running"}
  <2>1. Finish(r, "succeeded") /\ "succeeded" \in Terminal
    BY <1>1 DEF Complete, Terminal
  <2> QED
    BY <1>1, <2>1, FinishMove
<1>2. CASE runSt[r] \notin {"queued", "running"}
  BY <1>2 DEF Complete, runVars, RunMove, RunsStay
<1> QED
  BY <1>1, <1>2

LEMMA ClientMove ==
  ASSUME Strong, ClientStep
  PROVE  RunMove
<1>1. ASSUME NEW r \in Runs, NEW src, InsertChatRun(r, src) PROVE RunMove
  BY <1>1 DEF InsertChatRun, Admitted, SetRun, RunMove, Accepts
<1>2. ASSUME NEW r \in Runs, CancelRun(r) PROVE RunMove
  <2>1. CASE runSt[r] = "queued" /\ rowSt[r] = "none"
    BY <1>2, <2>1 DEF CancelRun, SetRun, RunMove, Ends, Terminal
  <2>2. CASE ~(runSt[r] = "queued" /\ rowSt[r] = "none")
    <3>1. rowSt[r] # "none"
      BY <1>2, <2>2 DEF CancelRun, Active, Strong, Safe, RowBeforeWorkflow
    <3>2. runSt' = [runSt EXCEPT ![r] = "cancelling"]
      <4>1. runSt \in [Runs -> RunStatus]
        BY DEF Strong, TypeOK, StoreTypeOK
      <4> QED
        BY <1>2, <2>2, <4>1 DEF CancelRun, SetRun
    <3>3. Cancels(r)
      BY <1>2, <2>2, <3>1, <3>2 DEF CancelRun, Cancels
    <3> QED
      BY <3>3 DEF RunMove
  <2> QED
    BY <2>1, <2>2
<1> QED
  BY <1>1, <1>2 DEF ClientStep, SendMessage, RetryRun

LEMMA DispatcherMove ==
  ASSUME Strong, NEW w \in Workers, DispatcherStep(w)
  PROVE  RunMove
<1>t. WorkerTypeOK /\ "failed" \in Terminal /\ "cancelled" \in Terminal
  BY TypeParts DEF Strong, Terminal
<1>1. CASE DispatchFinish(w)
  <2>1. EvRun(w) \in Runs /\ runSt[EvRun(w)] # "none"
    BY <1>1, <1>t, WorkingType DEF DispatchFinish, Strong, DispatcherInv
  <2>2. wpc[w] = "finCancel" => runSt[EvRun(w)] \in Settling
    BY DEF Strong, DispatcherInv
  <2> QED
    BY <1>1, <1>t, <2>1, <2>2, FinishMove DEF DispatchFinish, At
<1>2. CASE DispatchRaised(w)
  <2>1. wcur[w].ev \in Events /\ EvRun(w) \in Runs /\ runSt[EvRun(w)] # "none"
    BY <1>2, <1>t, WorkingType DEF DispatchRaised, At, Strong, DispatcherInv
  <2>2. CASE DeadLetter(wcur[w].ev, PidOf[w])
    BY <1>t, <2>1, <2>2, FinishMove DEF DeadLetter, EvRun, runVars, RunMove, RunsStay
  <2> QED
    BY <1>2, <2>2 DEF DispatchRaised, MarkRetryableFailure, storeVars, runVars, RunMove, RunsStay
<1>3. CASE \/ Claim(w) \/ DispatchPrepareStart(w) \/ DispatchStartRpc(w)
           \/ DispatchRecordStarted(w) \/ DispatchNeedsCancel(w) \/ DispatchLookup(w)
           \/ DispatchCancelRpc(w) \/ DispatchRecordCancel(w) \/ DispatchFinRead(w)
           \/ DispatchMark(w)
  BY <1>3 DEF Claim, ClaimBatch, DispatchPrepareStart, PrepareStart, DispatchStartRpc,
       DispatchRecordStarted, RecordStarted, DispatchNeedsCancel, DispatchLookup,
       DispatchCancelRpc, DispatchRecordCancel, RecordCancelRequested, DispatchFinRead,
       DispatchMark, MarkProcessed, storeVars, runVars, RunMove, RunsStay
<1> QED
  BY <1>1, <1>2, <1>3 DEF DispatcherStep

LEMMA WorkflowMove ==
  ASSUME Strong, NEW r \in Runs, WorkflowStep(r) \/ LateCommit(r)
  PROVE  RunMove
<1>t. "failed" \in Terminal /\ "cancelled" \in Terminal
  BY DEF Terminal
<1>k. flow[r] # "none" \/ late[r] # {} => runSt[r] # "none"
  BY DEF Strong, WorkflowInv
<1>c. flow[r] = "cancelFinish" \/ "cancelFinish" \in late[r] => runSt[r] \in Settling
  BY DEF Strong, WorkflowInv
<1>1. CASE FlowPrepare(r)
  BY <1>1, PrepareMove DEF FlowPrepare
<1>2. CASE FlowFinalize(r)
  BY <1>2, CompleteMove DEF FlowFinalize
<1>3. CASE FlowFail(r)
  BY <1>3, <1>t, <1>k, FinishMove DEF FlowFail
<1>4. CASE FlowCancelFinish(r)
  BY <1>4, <1>t, <1>k, <1>c, FinishMove DEF FlowCancelFinish
<1>5. CASE FlowAgent(r) \/ FlowCancelRead(r) \/ FlowCancelled(r)
  BY <1>5 DEF FlowAgent, FlowCancelRead, FlowCancelled, storeVars, runVars, RunMove, RunsStay
<1>6. CASE LateCommit(r)
  <2>1. PICK k \in late[r] :
          \/ k = "prepare" /\ Prepare(r)
          \/ k = "finalize" /\ Complete(r)
          \/ Finish(r, "failed")
          \/ k = "cancelFinish" /\ Finish(r, "cancelled")
          \/ UNCHANGED storeVars
    BY <1>6 DEF LateCommit
  <2> QED
    BY <1>t, <1>k, <1>c, <2>1, PrepareMove, CompleteMove, FinishMove
       DEF storeVars, runVars, RunMove, RunsStay
<1> QED
  BY <1>1, <1>2, <1>3, <1>4, <1>5, <1>6 DEF WorkflowStep

LEMMA ReconcilerMove ==
  ASSUME Strong, ReconcilerStep
  PROVE  RunMove
<1>1. CASE RecFinish
  <2>1. rcur \in Candidate /\ rcur.run \in Runs /\ runSt[rcur.run] # "none"
    BY <1>1, TypeParts, CandidateFields DEF RecFinish, ReconTypeOK, Strong, ReconcilerInv
  <2>2. "failed" \in Terminal /\ "cancelled" \in Terminal
    BY DEF Terminal
  <2>3. rpc = "finCancel" => runSt[rcur.run] \in Settling
    BY DEF Strong, ReconcilerInv
  <2> QED
    BY <1>1, <2>1, <2>2, <2>3, FinishMove DEF RecFinish
<1>2. CASE \/ RecRead \/ RecDescribe \/ RecRecord \/ RecCancelRpc \/ RecFinRead
  BY <1>2 DEF RecRead, RecDescribe, RecRecord, RecordTemporalFact, RecCancelRpc, RecFinRead,
              storeVars, runVars, RunMove, RunsStay
<1> QED
  BY <1>1, <1>2 DEF ReconcilerStep

\* Every step of the system accepts, starts, cancels or ends at most one Run,
\* along the transitions the schema allows.
LEMMA Moves == Strong /\ [Next]_vars => RunMove
<1> SUFFICES ASSUME Strong, [Next]_vars PROVE RunMove
  OBVIOUS
<1>1. CASE RecoverAbandoned
  BY <1>1 DEF RecoverAbandoned, RecoverExpired, runVars, RunMove, RunsStay
<1>2. CASE FaultStep
  BY <1>2 DEF FaultStep, DispatchError, DispatchCrash, RecoverSlow, RecoverExpired, FlowRetry,
     FlowActivityError, FlowDies, OperatorCancel, RecError, storeVars, runVars, RunMove, RunsStay
<1>3. CASE UNCHANGED vars
  BY <1>3 DEF vars, storeVars, runVars, RunMove, RunsStay
<1> QED
  BY <1>1, <1>2, <1>3, ClientMove, DispatcherMove, WorkflowMove, ReconcilerMove DEF Next

-----------------------------------------------------------------------------
(* What never goes back. *)

Forward ==
  \A r \in Runs : /\ runSt[r] # "none" => runSt'[r] # "none"
                  /\ runSt[r] \in Settling => runSt'[r] \in Settling
                  /\ runSt[r] \notin {"none", "queued"} => runSt'[r] # "queued"
                  /\ rowSt[r] # "none" => rowSt'[r] # "none"
                  /\ tmpSt[r] # "not_found" => tmpSt'[r] # "not_found"

LEMMA RunsForward ==
  ASSUME Strong, RunMove, NEW r \in Runs
  PROVE  /\ runSt[r] # "none" => runSt'[r] # "none"
         /\ runSt[r] \in Settling => runSt'[r] \in Settling
         /\ runSt[r] \notin {"none", "queued"} => runSt'[r] # "queued"
<1>1. runSt \in [Runs -> RunStatus]
  BY DEF Strong, TypeOK, StoreTypeOK
<1> QED
  BY <1>1 DEF RunMove, RunsStay, Accepts, Starts, Cancels, Ends, Settling, Active, Terminal, RunStatus

\* One active Run per conversation, matching terminal events and explained
\* cancellations are preserved by every change a step can make to Runs.
LEMMA MovesSafe ==
  ASSUME Strong, RunMove
  PROVE  SingleActive' /\ TerminalEventMatches' /\ CancelledOnlyByIntent'
<1>1. runSt \in [Runs -> RunStatus] /\ termEv \in SUBSET (Runs \X Terminal)
  BY DEF Strong, TypeOK, StoreTypeOK
<1>2. SingleActive'
  BY <1>1 DEF Strong, Safe, SingleActive, HasActive, RunMove, RunsStay, Accepts, Starts,
              Cancels, Ends, Active, Terminal
<1>3. TerminalEventMatches'
  BY <1>1 DEF Strong, Safe, TerminalEventMatches, RunMove, RunsStay, Accepts, Starts,
              Cancels, Ends, Active, Terminal
<1>4. CancelledOnlyByIntent'
  BY <1>1 DEF Strong, Safe, CancelledOnlyByIntent, RunMove, RunsStay, Accepts, Starts,
              Cancels, Ends, Active, Terminal
<1> QED
  BY <1>2, <1>3, <1>4

\* A row once written stays, and Temporal never forgets a Workflow.
LEMMA RowsForward ==
  ASSUME Strong, [Next]_vars, NEW r \in Runs
  PROVE  /\ rowSt[r] # "none" => rowSt'[r] # "none"
         /\ tmpSt[r] # "not_found" => tmpSt'[r] # "not_found"
<1>t. StoreTypeOK /\ WorkerTypeOK /\ TemporalTypeOK /\ ReconTypeOK
  BY TypeParts DEF Strong
<1>r. rowSt \in [Runs -> RowStatus]
  BY <1>t DEF StoreTypeOK
<1>m. tmpSt \in [Runs -> TmpStatus]
  BY <1>t DEF TemporalTypeOK
<1>p. ASSUME NEW x \in Runs, Prepare(x) PROVE rowSt[r] # "none" => rowSt'[r] # "none"
  BY <1>r, <1>p DEF Prepare, rowVars
<1>c. ASSUME NEW x \in Runs, NEW st \in TmpStatus \ {"not_found"}, FlowClose(x, st)
      PROVE  tmpSt[r] # "not_found" => tmpSt'[r] # "not_found"
  BY <1>c, <1>m DEF FlowClose
<1>o. \A s : /\ CancelOutcome(s) \in TmpStatus \ {"not_found"}
             /\ FailOutcome(s) \in TmpStatus \ {"not_found"}
  BY DEF CancelOutcome, FailOutcome, TmpStatus, ClosedRow
<1>d. "completed" \in TmpStatus \ {"not_found"} /\ "failed" \in TmpStatus \ {"not_found"}
  BY DEF TmpStatus, ClosedRow
<1>1. CASE ClientStep
  BY <1>1 DEF ClientStep, SendMessage, RetryRun, InsertChatRun, CancelRun, rowVars, temporalVars
<1>2. ASSUME NEW w \in Workers, DispatcherStep(w)
      PROVE  /\ rowSt[r] # "none" => rowSt'[r] # "none"
             /\ tmpSt[r] # "not_found" => tmpSt'[r] # "not_found"
  <2>1. CASE \/ Claim(w) \/ DispatchNeedsCancel(w) \/ DispatchLookup(w) \/ DispatchCancelRpc(w)
             \/ DispatchFinRead(w) \/ DispatchFinish(w) \/ DispatchMark(w) \/ DispatchRaised(w)
    BY <2>1 DEF Claim, ClaimBatch, DispatchNeedsCancel, DispatchLookup, DispatchCancelRpc,
       CancelWorkflow, DispatchFinRead, DispatchFinish, DispatchMark, MarkProcessed, DispatchRaised,
       MarkRetryableFailure, DeadLetter, storeVars, rowVars, temporalVars
  <2>2. CASE DispatchPrepareStart(w) \/ DispatchRecordStarted(w) \/ DispatchRecordCancel(w)
    BY <1>r, <2>2 DEF DispatchPrepareStart, PrepareStart, DispatchRecordStarted, RecordStarted,
       DispatchRecordCancel, RecordCancelRequested, rowVars, temporalVars
  <2>3. CASE DispatchStartRpc(w)
    BY <1>m, <2>3 DEF DispatchStartRpc, StartWorkflow, storeVars, rowVars, temporalVars
  <2> QED
    BY <1>2, <2>1, <2>2, <2>3 DEF DispatcherStep
<1>3. CASE RecoverAbandoned
  BY <1>3 DEF RecoverAbandoned, RecoverExpired, rowVars, temporalVars
<1>4. ASSUME NEW x \in Runs, WorkflowStep(x)
      PROVE  /\ rowSt[r] # "none" => rowSt'[r] # "none"
             /\ tmpSt[r] # "not_found" => tmpSt'[r] # "not_found"
  <2>1. CASE FlowPrepare(x)
    BY <1>p, <1>c, <1>d, <2>1 DEF FlowPrepare, FlowGoto
  <2>2. CASE FlowAgent(x) \/ FlowCancelRead(x)
    BY <1>c, <1>o, <2>2 DEF FlowAgent, FlowCancelRead, FlowGoto, storeVars, rowVars
  <2>3. CASE FlowFinalize(x)
    BY <1>c, <1>d, <2>3 DEF FlowFinalize, FlowGoto, Complete, rowVars
  <2>4. CASE FlowFail(x) \/ FlowCancelFinish(x)
    BY <1>c, <1>o, <2>4 DEF FlowFail, FlowCancelFinish, rowVars
  <2>5. CASE FlowCancelled(x)
    BY <1>m, <2>5 DEF FlowCancelled, storeVars, rowVars
  <2> QED
    BY <1>4, <2>1, <2>2, <2>3, <2>4, <2>5 DEF WorkflowStep
<1>5. ASSUME NEW x \in Runs, LateCommit(x)
      PROVE  /\ rowSt[r] # "none" => rowSt'[r] # "none"
             /\ tmpSt[r] # "not_found" => tmpSt'[r] # "not_found"
  BY <1>p, <1>5 DEF LateCommit, Complete, storeVars, rowVars
<1>6. CASE ReconcilerStep
  <2>1. CASE RecRecord
    <3>1. rcur.fact # "none"
      BY <1>t, <2>1, CandidateFields DEF RecRecord, ReconTypeOK, TmpStatus, ClosedRow
    <3> QED
      BY <1>r, <2>1, <3>1 DEF RecRecord, RecordTemporalFact, storeVars, rowVars, temporalVars
  <2>2. CASE RecRead \/ RecDescribe \/ RecCancelRpc \/ RecFinRead \/ RecFinish
    BY <2>2 DEF RecRead, RecDescribe, RecCancelRpc, CancelWorkflow, RecFinRead, RecFinish,
       storeVars, rowVars, temporalVars
  <2> QED
    BY <1>6, <2>1, <2>2 DEF ReconcilerStep
<1>7. CASE FaultStep
  <2>1. CASE \E x \in Runs : FlowActivityError(x) \/ FlowDies(x)
    BY <1>c, <1>d, <1>m, <2>1 DEF FlowActivityError, FlowDies, FlowGoto, storeVars, rowVars
  <2>2. CASE ~ \E x \in Runs : FlowActivityError(x) \/ FlowDies(x)
    BY <1>7, <2>2 DEF FaultStep, DispatchError, DispatchCrash, RecoverSlow, RecoverExpired, FlowRetry,
       OperatorCancel, CancelWorkflow, RecError, storeVars, rowVars, temporalVars
  <2> QED
    BY <2>1, <2>2
<1>8. CASE UNCHANGED vars
  BY <1>8 DEF vars, storeVars, rowVars, temporalVars
<1> QED
  BY <1>1, <1>2, <1>3, <1>4, <1>5, <1>6, <1>7, <1>8 DEF Next

LEMMA GoesForward == Strong /\ [Next]_vars => Forward
  BY Moves, RunsForward, RowsForward DEF Forward
-----------------------------------------------------------------------------
(* Each process keeps its part of Strong. *)

\* A dispatcher that does not move keeps its guarantees.
LEMMA DispatcherRests ==
  ASSUME Strong, Forward, NEW w \in Workers,
         wpc'[w] = wpc[w], wcur'[w] = wcur[w], wbatch'[w] = wbatch[w]
  PROVE  DispatcherInv(w)'
<1>t. WorkerTypeOK /\ DispatcherInv(w)
  BY TypeParts DEF Strong
<1>1. \A c \in wbatch[w] : c.ev[2] \in Runs
  BY <1>t, ClaimedFields DEF WorkerTypeOK
<1>2. CASE wpc[w] = "idle"
  BY <1>t, <1>1, <1>2 DEF DispatcherInv, Forward, CancelStep
<1>3. CASE wpc[w] # "idle"
  <2>1. EvRun(w) \in Runs
    BY <1>t, <1>3, WorkingType
  <2> QED
    BY <1>t, <1>1, <1>3, <2>1 DEF DispatcherInv, Forward, EvRun
<1> QED
  BY <1>2, <1>3

LEMMA GoIdleInv ==
  ASSUME Strong, NEW w \in Workers, GoIdle(w)
  PROVE  DispatcherInv(w)'
<1>t. WorkerTypeOK
  BY TypeParts DEF Strong
<1> QED
  BY <1>t DEF WorkerTypeOK, GoIdle, DispatcherInv, CancelStep

LEMMA TakeFromInv ==
  ASSUME Strong, Forward, NEW w \in Workers, NEW B \in SUBSET Claimed, TakeFrom(w, B),
         \A c \in B : runSt[c.ev[2]] # "none"
  PROVE  DispatcherInv(w)'
<1>t. WorkerTypeOK
  BY TypeParts DEF Strong
<1>1. PICK c \in B : /\ wcur' = [wcur EXCEPT ![w] = c]
                     /\ wbatch' = [wbatch EXCEPT ![w] = B \ {c}]
                     /\ wpc' = [wpc EXCEPT ![w] = FirstStep(c)]
  BY DEF TakeFrom
<1>2. wcur'[w] = c /\ wbatch'[w] = B \ {c} /\ wpc'[w] = FirstStep(c)
  BY <1>t, <1>1 DEF WorkerTypeOK
<1>3. \A d \in B : d.ev[2] \in Runs /\ d.ev[1] \in EventType
  BY ClaimedFields
<1>4. \A d \in B : runSt'[d.ev[2]] # "none"
  BY <1>3 DEF Forward
<1> QED
  BY <1>2, <1>3, <1>4 DEF DispatcherInv, EvRun, FirstStep, EventType, CancelStep

LEMMA NextEventInv ==
  ASSUME Strong, Forward, NEW w \in Workers, NextEvent(w)
  PROVE  DispatcherInv(w)'
<1>1. wbatch[w] \in SUBSET Claimed
  BY TypeParts DEF Strong, WorkerTypeOK
<1>2. \A c \in wbatch[w] : runSt[c.ev[2]] # "none"
  BY DEF Strong, DispatcherInv
<1> QED
  BY <1>1, <1>2, GoIdleInv, TakeFromInv DEF NextEvent

\* Moving within one event: only what the new position promises is to be shown.
LEMMA GotoInv ==
  ASSUME Strong, Forward, NEW w \in Workers, NEW s, wpc[w] # "idle", Goto(w, s),
         s = "finCancel" => runSt'[EvRun(w)] \in Settling,
         s = "startRpc" => rowSt'[EvRun(w)] # "none",
         s \in {"recordStarted", "needsCancel", "lateCancel"} => tmpSt'[EvRun(w)] # "not_found",
         s \in CancelStep => wcur[w].ev[1] = "cancel_run",
         s \in {"mark", "recordCancel"} /\ wcur[w].ev[1] = "start_run"
         => tmpSt'[EvRun(w)] # "not_found" \/ runSt'[EvRun(w)] # "queued"
  PROVE  DispatcherInv(w)'
<1>t. WorkerTypeOK /\ DispatcherInv(w)
  BY TypeParts DEF Strong
<1>1. wcur'[w] = wcur[w] /\ wbatch'[w] = wbatch[w] /\ wpc'[w] = s
  BY <1>t DEF WorkerTypeOK, Goto
<1>2. EvRun(w) \in Runs /\ EvRun(w)' = EvRun(w)
  BY <1>t, <1>1, WorkingType DEF EvRun
<1>3. \A c \in wbatch[w] : c.ev[2] \in Runs
  BY <1>t, ClaimedFields DEF WorkerTypeOK
<1> QED
  BY <1>t, <1>1, <1>2, <1>3 DEF DispatcherInv, Forward

LEMMA DispatcherOwnInv ==
  ASSUME Strong, Forward, NEW w \in Workers, DispatcherStep(w)
  PROVE  DispatcherInv(w)'
<1>t. StoreTypeOK /\ WorkerTypeOK /\ TemporalTypeOK /\ DispatcherInv(w)
  BY TypeParts DEF Strong
<1>e. wpc[w] # "idle" => EvRun(w) \in Runs /\ runSt[EvRun(w)] # "none"
  BY <1>t, WorkingType DEF DispatcherInv
<1>1. CASE Claim(w)
  <2>1. PICK E \in SUBSET {e \in Events : evSt[e] = "pending"} :
               TakeFrom(w, {[ev |-> e, att |-> evAtt[e] + 1] : e \in E})
    BY <1>1 DEF Claim
  <2>2. {[ev |-> e, att |-> evAtt[e] + 1] : e \in E} \in SUBSET Claimed
    BY <1>t DEF StoreTypeOK, Claimed
  <2>3. \A c \in {[ev |-> e, att |-> evAtt[e] + 1] : e \in E} : runSt[c.ev[2]] # "none"
    BY DEF Strong, EventInv
  <2> QED
    BY <2>1, <2>2, <2>3, TakeFromInv
<1>2. CASE DispatchPrepareStart(w)
  <2>1. ShouldStart(EvRun(w)) => rowSt'[EvRun(w)] # "none"
    BY <1>2, <1>t, <1>e DEF DispatchPrepareStart, At, PrepareStart, ShouldStart, StoreTypeOK
  <2>2. ~ShouldStart(EvRun(w)) => tmpSt'[EvRun(w)] # "not_found" \/ runSt'[EvRun(w)] # "queued"
    <3>1. CASE runSt[EvRun(w)] = "queued"
      <4>1. ~ShouldStart(EvRun(w)) => rowTid[EvRun(w)]
        BY <3>1, <1>2, <1>t, <1>e DEF DispatchPrepareStart, At, ShouldStart, StoreTypeOK
      <4> QED
        BY <4>1, <1>2, <1>e DEF DispatchPrepareStart, At, Strong, WorkflowInv, Forward
    <3>2. CASE runSt[EvRun(w)] # "queued"
      BY <3>2, <1>2, <1>e DEF DispatchPrepareStart, At, Forward
    <3> QED
      BY <3>1, <3>2
  <2> QED
    BY <1>2, <2>1, <2>2, GotoInv DEF DispatchPrepareStart, At, CancelStep
<1>3. CASE DispatchStartRpc(w)
  <2>1. tmpSt'[EvRun(w)] # "not_found"
    BY <1>3, <1>t, <1>e
       DEF DispatchStartRpc, At, StartWorkflow, TemporalTypeOK, temporalVars
  <2> QED
    BY <1>3, <2>1, GotoInv DEF DispatchStartRpc, At, CancelStep
<1>4. CASE DispatchRecordStarted(w)
  BY <1>4, <1>t, <1>e, GotoInv
     DEF DispatchRecordStarted, At, DispatcherInv, temporalVars, CancelStep
<1>5. CASE DispatchNeedsCancel(w)
  BY <1>5, <1>t, <1>e, GotoInv
     DEF DispatchNeedsCancel, At, DispatcherInv, temporalVars, CancelStep
<1>6. CASE DispatchLookup(w)
  BY <1>6, <1>t, GotoInv DEF DispatchLookup, At, DispatcherInv, CancelStep
<1>7. CASE DispatchCancelRpc(w)
  BY <1>7, <1>t, GotoInv DEF DispatchCancelRpc, At, DispatcherInv, CancelWorkflow, CancelStep
<1>8. CASE DispatchRecordCancel(w)
  BY <1>8, <1>t, GotoInv
     DEF DispatchRecordCancel, RecordCancelRequested, At, DispatcherInv, temporalVars, runVars, CancelStep
<1>9. CASE DispatchFinRead(w)
  BY <1>9, <1>t, GotoInv
     DEF DispatchFinRead, At, AfterRead, DispatcherInv, storeVars, runVars, CancelStep, Settling, Terminal
<1>10. CASE DispatchFinish(w)
  BY <1>10, <1>t, GotoInv DEF DispatchFinish, At, DispatcherInv, CancelStep
<1>11. CASE DispatchMark(w)
  BY <1>11, NextEventInv DEF DispatchMark
<1>12. CASE DispatchRaised(w)
  BY <1>12, NextEventInv, GoIdleInv DEF DispatchRaised
<1> QED
  BY <1>1, <1>2, <1>3, <1>4, <1>5, <1>6, <1>7, <1>8, <1>9, <1>10, <1>11, <1>12
     DEF DispatcherStep

\* Who writes the variables of a dispatcher.
LEMMA DispatcherStepWrites ==
  ASSUME WorkerTypeOK, NEW w \in Workers, NEW v \in Workers, v # w,
         DispatcherStep(w) \/ DispatchError(w) \/ DispatchCrash(w)
  PROVE  wpc'[v] = wpc[v] /\ wcur'[v] = wcur[v] /\ wbatch'[v] = wbatch[v]
<1>1. CASE Claim(w) \/ DispatchMark(w) \/ DispatchRaised(w) \/ DispatchCrash(w)
  BY <1>1 DEF WorkerTypeOK, Claim, DispatchMark, DispatchRaised, DispatchCrash, NextEvent, TakeFrom, GoIdle
<1>2. CASE ~(Claim(w) \/ DispatchMark(w) \/ DispatchRaised(w) \/ DispatchCrash(w))
  <2>1. \E s : Goto(w, s)
    BY <1>2 DEF DispatcherStep, DispatchError, DispatchPrepareStart, DispatchStartRpc,
       DispatchRecordStarted, DispatchNeedsCancel, DispatchLookup, DispatchCancelRpc,
       DispatchRecordCancel, DispatchFinRead, DispatchFinish
  <2> QED
    BY <2>1 DEF WorkerTypeOK, Goto
<1> QED
  BY <1>1, <1>2

LEMMA DispatchersKeep ==
  ASSUME Strong, Forward, [Next]_vars, NEW v \in Workers
  PROVE  DispatcherInv(v)'
<1>t. WorkerTypeOK
  BY TypeParts DEF Strong
<1>1. ASSUME NEW w \in Workers, DispatcherStep(w) PROVE DispatcherInv(v)'
  BY <1>1, <1>t, DispatcherOwnInv, DispatcherStepWrites, DispatcherRests
<1>2. ASSUME NEW w \in Workers, DispatchError(w) PROVE DispatcherInv(v)'
  <2>1. CASE v = w
    BY <1>2, <2>1, GotoInv DEF DispatchError, CancelStep
  <2> QED
    BY <1>2, <2>1, <1>t, DispatcherStepWrites, DispatcherRests
<1>3. ASSUME NEW w \in Workers, DispatchCrash(w) PROVE DispatcherInv(v)'
  <2>1. CASE v = w
    BY <1>3, <2>1, GoIdleInv DEF DispatchCrash
  <2> QED
    BY <1>3, <2>1, <1>t, DispatcherStepWrites, DispatcherRests
<1>4. CASE UNCHANGED workerVars
  BY <1>4, DispatcherRests DEF workerVars
<1>5. \/ \E w \in Workers : DispatcherStep(w) \/ DispatchError(w) \/ DispatchCrash(w)
      \/ UNCHANGED workerVars
  BY DEF Next, ClientStep, RecoverAbandoned, WorkflowStep, FlowPrepare, FlowAgent, FlowFinalize,
     FlowFail, FlowCancelRead, FlowCancelFinish, FlowCancelled, LateCommit, ReconcilerStep, RecRead,
     RecDescribe, RecRecord, RecCancelRpc, RecFinRead, RecFinish, FaultStep, RecoverSlow,
     FlowRetry, FlowActivityError, FlowDies, OperatorCancel, RecError, vars
<1> QED
  BY <1>1, <1>2, <1>3, <1>4, <1>5

LEMMA ReconcilerKeeps ==
  ASSUME Strong, Forward, [Next]_vars
  PROVE  ReconcilerInv'
<1>t. StoreTypeOK /\ ReconTypeOK /\ ReconcilerInv
  BY TypeParts DEF Strong
<1>1. \A c \in rtodo : c.run \in Runs /\ runSt'[c.run] # "none"
  BY <1>t, CandidateFields DEF ReconTypeOK, ReconcilerInv, Forward
<1>2. rpc \notin {"idle", "next"} => rcur.run \in Runs /\ runSt'[rcur.run] # "none"
  BY <1>t, CandidateFields DEF ReconTypeOK, ReconcilerInv, Forward
<1>3. CASE UNCHANGED reconVars
  BY <1>t, <1>1, <1>2, <1>3 DEF reconVars, ReconcilerInv, Forward
<1>4. CASE RecRead
  <2>1. \A r \in ReconcileCandidates(ReconLimit) : r \in Runs /\ runSt[r] # "none"
    BY DEF ReconcileCandidates, Candidates, Active, Terminal
  <2>2. \A r \in ReconcileCandidates(ReconLimit) : runSt'[r] # "none"
    BY <2>1 DEF Forward
  <2>3. \A c \in rtodo' : runSt'[c.run] # "none"
    BY <1>4, <2>2 DEF RecRead
  <2> QED
    BY <1>4, <2>3 DEF RecRead, ReconcilerInv
<1>5. CASE RecDescribe
  <2>1. PICK c \in rtodo :
          /\ rtodo' = rtodo \ {c}
          /\ \/ /\ rcur' = [c EXCEPT !.fact = tmpSt[c.run]]
                /\ rpc' = IF c.wf THEN "record" ELSE "finFail"
             \/ rpc' = IF rtodo = {c} THEN "idle" ELSE "next"
    BY <1>5 DEF RecDescribe
  <2>2. [c EXCEPT !.fact = tmpSt[c.run]].run = c.run
    BY <1>t DEF ReconTypeOK, Candidate
  <2> QED
    BY <1>1, <2>1, <2>2 DEF ReconcilerInv
<1>6. CASE RecRecord
  <2>1. RecDecision(rcur) # "finCancel"
    BY DEF RecDecision
  <2> QED
    BY <1>6, <1>1, <1>2, <2>1 DEF RecRecord, RecNext, RecGoto, ReconcilerInv
<1>7. CASE RecCancelRpc
  BY <1>7, <1>1 DEF RecCancelRpc, RecNext, RecAbort, ReconcilerInv
<1>8. CASE RecFinRead
  <2>1. AfterRead(runSt[rcur.run]) = "finCancel" => runSt'[rcur.run] \in Settling
    BY <1>8, <1>2 DEF RecFinRead, AfterRead, Forward, Settling
  <2> QED
    BY <1>8, <1>1, <1>2, <2>1 DEF RecFinRead, RecNext, RecGoto, ReconcilerInv
<1>9. CASE RecFinish
  BY <1>9, <1>1 DEF RecFinish, RecNext, ReconcilerInv
<1>10. CASE RecError
  BY <1>10 DEF RecError, RecAbort, ReconcilerInv
<1>11. ReconcilerStep \/ RecError \/ UNCHANGED reconVars
  BY DEF Next, ClientStep, DispatcherStep, Claim, DispatchPrepareStart, DispatchStartRpc,
     DispatchRecordStarted, DispatchNeedsCancel, DispatchLookup, DispatchCancelRpc,
     DispatchRecordCancel, DispatchFinRead, DispatchFinish, DispatchMark, DispatchRaised,
     RecoverAbandoned, WorkflowStep, FlowPrepare, FlowAgent, FlowFinalize,
     FlowFail, FlowCancelRead, FlowCancelFinish, FlowCancelled, LateCommit, FaultStep, DispatchError,
     DispatchCrash, RecoverSlow, FlowRetry, FlowActivityError, FlowDies, OperatorCancel, vars
<1> QED
  BY <1>3, <1>4, <1>5, <1>6, <1>7, <1>8, <1>9, <1>10, <1>11 DEF ReconcilerStep

\* What a step may do to the outbox: an event appears with its Run, and a
\* start_run event is given up when it is not needed any more.
EventsAppear ==
  \A e \in Events : evSt'[e] # "none" => evSt[e] # "none" \/ runSt'[e[2]] # "none"
StartsGivenUp ==
  \A r \in Runs : evSt'[<<"start_run", r>>] \in {"processed", "dead_letter"}
     => \/ evSt[<<"start_run", r>>] \in {"processed", "dead_letter"}
        \/ tmpSt'[r] # "not_found" \/ runSt'[r] # "queued"

LEMMA EventRules ==
  ASSUME Strong, Forward, EventsAppear, StartsGivenUp
  PROVE  EventInv' /\ QueuedNotStranded'
<1>t. EventInv /\ QueuedNotStranded
  BY DEF Strong, Safe
<1>r. \A e \in Events : e[2] \in Runs
  BY DEF Events
<1>s. \A r \in Runs : <<"start_run", r>> \in Events
  BY DEF Events, EventType
<1>1. EventInv'
  BY <1>t, <1>r DEF EventInv, Forward, EventsAppear
<1>2. ASSUME NEW r \in Runs, runSt'[r] = "queued",
             evSt'[<<"start_run", r>>] \in {"processed", "dead_letter"}
      PROVE  tmpSt'[r] # "not_found"
  <2>1. CASE evSt[<<"start_run", r>>] \in {"processed", "dead_letter"}
    <3>1. runSt[r] # "none"
      BY <2>1, <1>s, <1>t DEF EventInv
    <3>2. runSt[r] = "queued"
      BY <1>2, <3>1 DEF Forward
    <3>3. tmpSt[r] # "not_found"
      BY <1>t, <2>1, <3>2 DEF QueuedNotStranded
    <3> QED
      BY <3>3 DEF Forward
  <2> QED
    BY <1>2, <2>1 DEF StartsGivenUp
<1> QED
  BY <1>1, <1>2 DEF QueuedNotStranded

\* An event appears with its Run, and a start_run event leaves the queue only
\* when its dispatcher may acknowledge it or fails the Run with it.
LEMMA EventsKeep ==
  ASSUME Strong, Forward, [Next]_vars
  PROVE  EventInv' /\ QueuedNotStranded'
<1>t. StoreTypeOK /\ WorkerTypeOK /\ TemporalTypeOK
  BY TypeParts DEF Strong
<1>s. \A r \in Runs : <<"start_run", r>> \in Events /\ <<"cancel_run", r>> \in Events
  BY DEF Events, EventType
<1>2. CASE UNCHANGED evSt
  BY <1>2, EventRules DEF EventsAppear, StartsGivenUp
<1>3. ASSUME NEW r \in Runs, NEW src, InsertChatRun(r, src) PROVE EventInv' /\ QueuedNotStranded'
  <2>1. runSt'[r] # "none"
    BY <1>3, <1>t DEF InsertChatRun, SetRun, StoreTypeOK
  <2>2. \A e \in Events :
          evSt'[e] = evSt[e] \/ (e = <<"start_run", r>> /\ evSt'[e] = "pending")
    BY <1>3, <1>t, <1>s DEF InsertChatRun, Enqueue, StoreTypeOK
  <2> QED
    <3>1. EventsAppear
      BY <1>s, <2>1, <2>2 DEF EventsAppear
    <3>2. StartsGivenUp
      BY <1>s, <2>1, <2>2 DEF StartsGivenUp
    <3> QED
      BY <3>1, <3>2, EventRules
<1>4. ASSUME NEW r \in Runs, CancelRun(r) PROVE EventInv' /\ QueuedNotStranded'
  <2>1. runSt'[r] # "none"
    BY <1>4 DEF CancelRun, Active, Forward
  <2>2. \A e \in Events :
          evSt'[e] = evSt[e] \/ (e = <<"cancel_run", r>> /\ evSt'[e] = "pending")
    BY <1>4, <1>t, <1>s DEF CancelRun, Enqueue, StoreTypeOK
  <2> QED
    <3>1. EventsAppear
      BY <1>s, <2>1, <2>2 DEF EventsAppear
    <3>2. StartsGivenUp
      BY <1>s, <2>1, <2>2 DEF StartsGivenUp
    <3> QED
      BY <3>1, <3>2, EventRules
<1>5. ASSUME NEW E \in SUBSET Events, RecoverExpired(E) PROVE EventInv' /\ QueuedNotStranded'
  <2>1. \A e \in Events : evSt'[e] = evSt[e] \/ (evSt[e] # "none" /\ evSt'[e] = "pending")
    BY <1>5 DEF RecoverExpired
  <2> QED
    <3>1. EventsAppear
      BY <1>s, <2>1 DEF EventsAppear
    <3>2. StartsGivenUp
      BY <1>s, <2>1 DEF StartsGivenUp
    <3> QED
      BY <3>1, <3>2, EventRules
<1>6. ASSUME NEW w \in Workers, DispatcherStep(w) PROVE EventInv' /\ QueuedNotStranded'
  <2>d. DispatcherInv(w)
    BY DEF Strong
  <2>1. CASE Claim(w)
    <3>1. PICK E \in SUBSET {e \in Events : evSt[e] = "pending"} : ClaimBatch(E, PidOf[w])
      BY <2>1 DEF Claim
    <3>2. \A e \in Events : evSt'[e] = evSt[e] \/ (evSt[e] # "none" /\ evSt'[e] = "processing")
      BY <3>1 DEF ClaimBatch
    <3> QED
      <4>1. EventsAppear
        BY <1>s, <3>2 DEF EventsAppear
      <4>2. StartsGivenUp
        BY <1>s, <3>2 DEF StartsGivenUp
      <4> QED
        BY <4>1, <4>2, EventRules
  <2>2. CASE DispatchMark(w)
    <3>1. wcur[w] \in Claimed /\ wcur[w].ev \in Events /\ EvRun(w) \in Runs
      BY <1>t, <2>2, WorkingType DEF DispatchMark, At
    <3>2. \A e \in Events : \/ evSt'[e] = evSt[e]
                            \/ e = wcur[w].ev /\ evSt[e] = "processing"
      BY <2>2, <1>t DEF DispatchMark, MarkProcessed, Release, Owns, evVars, StoreTypeOK
    <3>3. \A r \in Runs : <<"start_run", r>> = wcur[w].ev
            => tmpSt'[r] # "not_found" \/ runSt'[r] # "queued"
      BY <2>2, <2>d, <3>1 DEF DispatchMark, At, MarkProcessed, DispatcherInv, EvRun, runVars, temporalVars
    <3> QED
      <4>1. EventsAppear
        BY <1>s, <3>2, <3>3 DEF EventsAppear
      <4>2. StartsGivenUp
        BY <1>s, <3>2, <3>3 DEF StartsGivenUp
      <4> QED
        BY <4>1, <4>2, EventRules
  <2>3. CASE DispatchRaised(w)
    <3>1. wcur[w] \in Claimed /\ wcur[w].ev \in Events /\ EvRun(w) \in Runs
      BY <1>t, <2>3, WorkingType DEF DispatchRaised, At
    <3>2. CASE UNCHANGED storeVars
      BY <1>2, <3>2 DEF storeVars, evVars
    <3>3. CASE MarkRetryableFailure(wcur[w].ev, PidOf[w])
      <4>1. \A e \in Events : \/ evSt'[e] = evSt[e]
                              \/ evSt[e] = "processing" /\ evSt'[e] = "pending"
        BY <3>3, <1>t DEF MarkRetryableFailure, Release, Owns, evVars, StoreTypeOK
      <4> QED
        <5>1. EventsAppear
          BY <1>s, <4>1 DEF EventsAppear
        <5>2. StartsGivenUp
          BY <1>s, <4>1 DEF StartsGivenUp
        <5> QED
          BY <5>1, <5>2, EventRules
    <3>4. CASE DeadLetter(wcur[w].ev, PidOf[w])
      <4>1. \A e \in Events : \/ evSt'[e] = evSt[e]
                              \/ e = wcur[w].ev /\ evSt[e] = "processing"
        BY <3>4, <1>t DEF DeadLetter, Release, Owns, evVars, StoreTypeOK
      <4>2. wcur[w].ev[1] = "start_run" => runSt'[EvRun(w)] # "queued"
        <5>1. CASE runSt[EvRun(w)] = "queued" /\ wcur[w].ev[1] = "start_run"
          BY <3>1, <3>4, <5>1, <1>t
             DEF DeadLetter, EvRun, Finish, FinishIgnored, SetRun, Terminal, StoreTypeOK
        <5>2. CASE runSt[EvRun(w)] # "queued"
          BY <2>3, <2>d, <3>1, <5>2 DEF DispatchRaised, At, DispatcherInv, Forward
        <5> QED
          BY <5>1, <5>2
      <4> QED
        <5>1. EventsAppear
          BY <1>s, <3>1, <4>1, <4>2 DEF EvRun, EventsAppear
        <5>2. \A r \in Runs : <<"start_run", r>> = wcur[w].ev => runSt'[r] # "queued"
          BY <4>2 DEF EvRun
        <5>3. StartsGivenUp
          BY <1>s, <4>1, <5>2 DEF StartsGivenUp
        <5> QED
          BY <5>1, <5>3, EventRules
    <3> QED
      BY <2>3, <3>2, <3>3, <3>4 DEF DispatchRaised
  <2>4. CASE ~(Claim(w) \/ DispatchMark(w) \/ DispatchRaised(w))
    BY <1>2, <1>6, <2>4 DEF DispatcherStep, DispatchPrepareStart, PrepareStart, DispatchStartRpc,
       DispatchRecordStarted, RecordStarted, DispatchNeedsCancel, DispatchLookup, DispatchCancelRpc,
       DispatchRecordCancel, RecordCancelRequested, DispatchFinRead, DispatchFinish, storeVars, evVars
  <2> QED
    BY <2>1, <2>2, <2>3, <2>4
<1>7. CASE ClientStep
  BY <1>3, <1>4, <1>7 DEF ClientStep, SendMessage, RetryRun
<1>8. CASE RecoverAbandoned \/ RecoverSlow
  BY <1>5, <1>8 DEF RecoverAbandoned, RecoverSlow
<1>9. CASE \E r \in Runs : WorkflowStep(r) \/ LateCommit(r)
  BY <1>2, <1>9 DEF WorkflowStep, FlowPrepare, Prepare, FlowAgent, FlowFinalize, Complete,
     FlowFail, FlowCancelRead, FlowCancelFinish, FlowCancelled, LateCommit, storeVars, evVars
<1>10. CASE ReconcilerStep
  BY <1>2, <1>10 DEF ReconcilerStep, RecRead, RecDescribe, RecRecord, RecordTemporalFact,
     RecCancelRpc, RecFinRead, RecFinish, storeVars, evVars
<1>11. CASE FaultStep /\ ~RecoverSlow
  BY <1>2, <1>11 DEF FaultStep, DispatchError, DispatchCrash, FlowRetry, FlowActivityError, FlowDies,
     OperatorCancel, RecError, storeVars, evVars
<1>12. CASE UNCHANGED vars
  BY <1>2, <1>12 DEF vars, storeVars, evVars
<1> QED
  BY <1>6, <1>7, <1>8, <1>9, <1>10, <1>11, <1>12 DEF Next

\* Temporal learns only of Runs that exist and have a row.
LEMMA StartedHasRow ==
  ASSUME Strong, [Next]_vars, NEW r \in Runs, tmpSt'[r] # "not_found"
  PROVE  rowSt[r] # "none" /\ runSt[r] # "none"
<1>t. WorkerTypeOK /\ TemporalTypeOK
  BY TypeParts DEF Strong
<1>1. tmpSt[r] # "not_found" => rowSt[r] # "none" /\ runSt[r] # "none"
  BY DEF Strong, Safe, RowBeforeWorkflow, WorkflowInv
<1>2. ASSUME NEW w \in Workers, DispatchStartRpc(w), r = EvRun(w)
      PROVE  rowSt[r] # "none" /\ runSt[r] # "none"
  BY <1>2 DEF DispatchStartRpc, At, Strong, DispatcherInv
<1>3. \/ tmpSt[r] # "not_found"
      \/ \E w \in Workers : DispatchStartRpc(w) /\ r = EvRun(w)
  <2>k. \A x \in Runs : flow[x] # "none" => tmpSt[x] # "not_found"
    BY DEF Strong, WorkflowInv
  <2>1. ASSUME NEW w \in Workers, DispatcherStep(w), ~DispatchStartRpc(w)
        PROVE  tmpSt'[r] = tmpSt[r]
    BY <2>1 DEF DispatcherStep, Claim, DispatchPrepareStart, DispatchRecordStarted,
       DispatchNeedsCancel, DispatchLookup, DispatchCancelRpc, CancelWorkflow, DispatchRecordCancel,
       DispatchFinRead, DispatchFinish, DispatchMark, DispatchRaised, temporalVars
  <2>2. ASSUME NEW w \in Workers, DispatchStartRpc(w), r # EvRun(w)
        PROVE  tmpSt'[r] = tmpSt[r]
    BY <2>2, <1>t DEF DispatchStartRpc, StartWorkflow, temporalVars, TemporalTypeOK
  <2>3. ASSUME NEW x \in Runs, WorkflowStep(x) \/ FlowActivityError(x)
        PROVE  tmpSt[r] # "not_found" \/ tmpSt'[r] = tmpSt[r]
    <3>1. flow[x] # "none" \/ tmpSt[x] = "open"
      BY <2>3 DEF WorkflowStep, FlowPrepare, FlowAgent, FlowFinalize, FlowFail, FlowCancelRead,
         FlowCancelFinish, FlowCancelled, FlowActivityError, ActivityStep
    <3>2. UNCHANGED tmpSt \/ \E st : tmpSt' = [tmpSt EXCEPT ![x] = st]
      <4>1. CASE FlowPrepare(x)
        BY <4>1 DEF FlowPrepare, FlowGoto, FlowClose
      <4>2. CASE FlowFinalize(x)
        BY <4>2 DEF FlowFinalize, FlowGoto, FlowClose
      <4>3. CASE FlowCancelRead(x)
        BY <4>3 DEF FlowCancelRead, FlowGoto, FlowClose
      <4> QED
        BY <2>3, <4>1, <4>2, <4>3
           DEF WorkflowStep, FlowAgent, FlowFail, FlowCancelFinish, FlowCancelled,
               FlowActivityError, FlowGoto, FlowClose
    <3> QED
      BY <1>t, <2>k, <3>1, <3>2 DEF TemporalTypeOK
  <2>4. CASE ReconcilerStep
    BY <2>4 DEF ReconcilerStep, RecRead, RecDescribe, RecRecord, RecCancelRpc, CancelWorkflow,
       RecFinRead, RecFinish, temporalVars
  <2>5. CASE ClientStep \/ RecoverAbandoned \/ UNCHANGED vars \/ \E x \in Runs : LateCommit(x)
    BY <2>5 DEF ClientStep, RecoverAbandoned, LateCommit, vars, temporalVars
  <2>6. CASE FaultStep
    BY <1>t, <2>3, <2>6 DEF FaultStep, DispatchError, DispatchCrash, RecoverSlow, FlowRetry, FlowDies,
       OperatorCancel, CancelWorkflow, RecError, temporalVars, TemporalTypeOK
  <2> QED
    BY <2>1, <2>2, <2>3, <2>4, <2>5, <2>6 DEF Next
<1> QED
  BY <1>1, <1>2, <1>3

LEMMA RowsKeep ==
  ASSUME Strong, Forward, [Next]_vars
  PROVE  RowBeforeWorkflow'
<1> SUFFICES ASSUME NEW r \in Runs,
                    tmpSt'[r] # "not_found" \/ runSt'[r] \in {"running", "cancelling"}
             PROVE  rowSt'[r] # "none"
  BY DEF RowBeforeWorkflow
<1>1. CASE tmpSt'[r] # "not_found"
  BY <1>1, StartedHasRow DEF Forward
<1>2. CASE runSt'[r] \in {"running", "cancelling"}
  <2>1. runSt \in [Runs -> RunStatus] /\ RowBeforeWorkflow
    BY DEF Strong, Safe, TypeOK, StoreTypeOK
  <2>2. rowSt[r] # "none"
    BY <1>2, <2>1, Moves DEF RunMove, RunsStay, Accepts, Starts, Cancels, Ends, Terminal,
       RowBeforeWorkflow
  <2> QED
    BY <2>2 DEF Forward
<1> QED
  BY <1>1, <1>2

\* WorkflowInv of r survives a step that leaves its Activities and its row's
\* Temporal id alone, or clears them.
LEMMA WorkflowRests ==
  ASSUME Strong, Forward, [Next]_vars, NEW r \in Runs,
         flow'[r] = "none" \/ flow'[r] = flow[r],
         late'[r] \subseteq late[r],
         rowTid'[r] => rowTid[r]
  PROVE  WorkflowInv(r)'
<1>1. WorkflowInv(r)
  BY DEF Strong
<1>2. tmpSt'[r] # "not_found" => runSt'[r] # "none"
  BY StartedHasRow DEF Forward
<1> QED
  BY <1>1, <1>2 DEF WorkflowInv, Forward

\* A Workflow that Temporal runs may move its Activities freely, as long as
\* finishing as cancelled follows a read of "cancelling".
LEMMA WorkflowMoves ==
  ASSUME Strong, Forward, [Next]_vars, NEW r \in Runs, tmpSt'[r] # "not_found",
         flow'[r] = "cancelFinish" \/ "cancelFinish" \in late'[r] => runSt'[r] \in Settling
  PROVE  WorkflowInv(r)'
  BY StartedHasRow DEF WorkflowInv, Forward

LEMMA WorkflowsKeep ==
  ASSUME Strong, Forward, [Next]_vars, NEW r \in Runs
  PROVE  WorkflowInv(r)'
<1>t. StoreTypeOK /\ WorkerTypeOK /\ TemporalTypeOK /\ WorkflowInv(r)
  BY TypeParts DEF Strong
<1>k. \A x \in Runs : flow[x] # "none" \/ late[x] # {} => tmpSt'[x] # "not_found"
  BY DEF Strong, WorkflowInv, Forward
<1>c. flow[r] = "cancelFinish" \/ "cancelFinish" \in late[r] => runSt'[r] \in Settling
  BY <1>t DEF WorkflowInv, Forward
<1>1. CASE UNCHANGED temporalVars /\ UNCHANGED rowTid
  BY <1>1, WorkflowRests DEF temporalVars
<1>2. ASSUME NEW x \in Runs, WorkflowStep(x) \/ LateCommit(x) PROVE WorkflowInv(r)'
  <2>1. CASE x # r
    <3>1. flow'[r] = flow[r] /\ late'[r] = late[r]
      <4>1. CASE FlowPrepare(x)
        BY <2>1, <1>t, <4>1 DEF FlowPrepare, FlowGoto, FlowClose, TemporalTypeOK
      <4>2. CASE FlowFinalize(x)
        BY <2>1, <1>t, <4>2 DEF FlowFinalize, FlowGoto, FlowClose, TemporalTypeOK
      <4>3. CASE FlowCancelRead(x)
        BY <2>1, <1>t, <4>3 DEF FlowCancelRead, FlowGoto, FlowClose, TemporalTypeOK
      <4>4. CASE LateCommit(x)
        BY <2>1, <1>t, <4>4 DEF LateCommit, TemporalTypeOK
      <4> QED
        BY <1>2, <2>1, <1>t, <4>1, <4>2, <4>3, <4>4
           DEF WorkflowStep, FlowAgent, FlowFail, FlowCancelFinish, FlowCancelled, FlowGoto,
               FlowClose, TemporalTypeOK
    <3>2. rowTid'[r] = rowTid[r]
      BY <1>2, <2>1, <1>t
         DEF WorkflowStep, FlowPrepare, Prepare, FlowAgent, FlowFinalize, Complete, FlowFail,
             FlowCancelRead, FlowCancelFinish, FlowCancelled, LateCommit, storeVars, rowVars,
             StoreTypeOK
    <3> QED
      BY <3>1, <3>2, WorkflowRests
  <2>2. CASE x = r
    <3>1. tmpSt'[r] # "not_found"
      <4>1. flow[r] # "none" \/ late[r] # {} \/ tmpSt[r] = "open"
        BY <1>2, <2>2 DEF WorkflowStep, FlowPrepare, FlowAgent, FlowFinalize, FlowFail,
           FlowCancelRead, FlowCancelFinish, FlowCancelled, LateCommit
      <4> QED
        BY <1>k, <4>1 DEF Forward
    <3>2. flow'[r] = "cancelFinish" \/ "cancelFinish" \in late'[r] => runSt'[r] \in Settling
      <4>1. CASE FlowPrepare(r)
        BY <1>c, <1>t, <4>1 DEF FlowPrepare, FlowGoto, FlowClose, TemporalTypeOK
      <4>2. CASE FlowFinalize(r)
        BY <1>c, <1>t, <4>2 DEF FlowFinalize, FlowGoto, FlowClose, TemporalTypeOK
      <4>3. CASE FlowCancelRead(r)
        BY <1>c, <1>t, <4>3
           DEF FlowCancelRead, FlowGoto, FlowClose, TemporalTypeOK, storeVars, runVars, Settling
      <4>4. CASE FlowAgent(r) \/ FlowFail(r) \/ FlowCancelFinish(r)
        BY <1>c, <1>t, <4>4
           DEF FlowAgent, FlowFail, FlowCancelFinish, FlowGoto, FlowClose, TemporalTypeOK
      <4>5. CASE FlowCancelled(r)
        BY <1>c, <1>t, <4>5 DEF FlowCancelled, Abandoned, TemporalTypeOK
      <4>6. CASE LateCommit(r)
        <5>1. flow' = flow
          BY <4>6 DEF LateCommit
        <5>2. \/ late'[r] \subseteq late[r]
              \/ runSt[r] = "cancelling"
              \/ late'[r] \subseteq late[r] \cup {"cancelFail"}
          BY <1>t, <4>6 DEF LateCommit, TemporalTypeOK
        <5> QED
          BY <1>c, <5>1, <5>2 DEF Forward, Settling
      <4> QED
        BY <1>2, <2>2, <4>1, <4>2, <4>3, <4>4, <4>5, <4>6 DEF WorkflowStep
    <3> QED
      BY <3>1, <3>2, WorkflowMoves
  <2> QED
    BY <2>1, <2>2
<1>3. ASSUME NEW w \in Workers, DispatcherStep(w) PROVE WorkflowInv(r)'
  <2>w. wpc[w] # "idle" => EvRun(w) \in Runs
    BY <1>t, WorkingType
  <2>1. CASE DispatchStartRpc(w)
    <3>1. rowTid' = rowTid /\ late' = late
      BY <2>1 DEF DispatchStartRpc, StartWorkflow, storeVars, rowVars, temporalVars
    <3>2. CASE flow'[r] = flow[r]
      BY <3>1, <3>2, WorkflowRests
    <3>3. CASE flow'[r] # flow[r]
      <4>1. tmpSt'[r] # "not_found" /\ flow'[r] = "prepare"
        BY <2>1, <2>w, <3>3, <1>t DEF DispatchStartRpc, At, StartWorkflow, temporalVars, TemporalTypeOK
      <4> QED
        BY <1>c, <3>1, <4>1, WorkflowMoves
    <3> QED
      BY <3>2, <3>3
  <2>2. CASE DispatchRecordStarted(w)
    <3>1. UNCHANGED temporalVars
      BY <2>2 DEF DispatchRecordStarted
    <3>2. CASE rowTid'[r] = rowTid[r]
      BY <3>1, <3>2, WorkflowRests DEF temporalVars
    <3>3. CASE rowTid'[r] # rowTid[r]
      <4>1. r = EvRun(w)
        BY <2>2, <2>w, <3>3, <1>t DEF DispatchRecordStarted, At, RecordStarted, rowVars, StoreTypeOK
      <4>2. tmpSt[r] # "not_found"
        BY <2>2, <4>1 DEF DispatchRecordStarted, At, Strong, DispatcherInv
      <4> QED
        BY <1>c, <3>1, <4>2, WorkflowMoves DEF temporalVars
    <3> QED
      BY <3>2, <3>3
  <2>3. CASE DispatchCancelRpc(w)
    BY <2>3, WorkflowRests DEF DispatchCancelRpc, CancelWorkflow, storeVars, rowVars
  <2>4. CASE ~(DispatchStartRpc(w) \/ DispatchRecordStarted(w) \/ DispatchCancelRpc(w))
    BY <1>1, <1>3, <2>4 DEF DispatcherStep, Claim, ClaimBatch, DispatchPrepareStart, PrepareStart,
       DispatchNeedsCancel, DispatchLookup, DispatchRecordCancel, RecordCancelRequested,
       DispatchFinRead, DispatchFinish, DispatchMark, MarkProcessed, DispatchRaised,
       MarkRetryableFailure, DeadLetter, storeVars, rowVars
  <2> QED
    BY <2>1, <2>2, <2>3, <2>4
<1>4. CASE ReconcilerStep
  <2>1. rowTid' = rowTid /\ flow' = flow /\ late' = late
    BY <1>4 DEF ReconcilerStep, RecRead, RecDescribe, RecRecord, RecordTemporalFact, RecCancelRpc,
       CancelWorkflow, RecFinRead, RecFinish, storeVars, rowVars, temporalVars
  <2> QED
    BY <2>1, WorkflowRests
<1>5. CASE ClientStep \/ RecoverAbandoned \/ UNCHANGED vars
  BY <1>1, <1>5 DEF ClientStep, SendMessage, RetryRun, InsertChatRun, CancelRun, RecoverAbandoned,
     RecoverExpired, rowVars, vars, storeVars
<1>6. CASE FaultStep
  <2>1. CASE \/ \E w \in Workers : DispatchError(w) \/ DispatchCrash(w)
             \/ RecoverSlow \/ RecError
    BY <1>1, <2>1 DEF DispatchError, DispatchCrash, RecoverSlow, RecoverExpired, RecError,
       storeVars, rowVars
  <2>2. ASSUME NEW x \in Runs, OperatorCancel(x) PROVE WorkflowInv(r)'
    BY <2>2, WorkflowRests DEF OperatorCancel, CancelWorkflow, storeVars, rowVars
  <2>3. ASSUME NEW x \in Runs, FlowRetry(x) \/ FlowActivityError(x) \/ FlowDies(x)
        PROVE  WorkflowInv(r)'
    <3>1. rowTid' = rowTid
      BY <2>3 DEF FlowRetry, FlowActivityError, FlowDies, storeVars, rowVars
    <3>2. CASE x # r
      <4>1. flow'[r] = flow[r] /\ late'[r] = late[r]
        BY <2>3, <3>2, <1>t
           DEF FlowRetry, FlowActivityError, FlowDies, FlowGoto, FlowClose, TemporalTypeOK
      <4> QED
        BY <3>1, <4>1, WorkflowRests
    <3>3. CASE x = r
      <4>1. flow[r] # "none" \/ tmpSt[r] = "open"
        BY <2>3, <3>3 DEF FlowRetry, FlowActivityError, FlowDies, ActivityStep
      <4>2. tmpSt'[r] # "not_found"
        BY <1>k, <4>1 DEF Forward
      <4>3. /\ flow'[r] \in {flow[r], "none", "fail"}
            /\ late'[r] \in {late[r], Abandoned(r)}
        BY <2>3, <3>3, <1>t
           DEF FlowRetry, FlowActivityError, FlowDies, FlowGoto, FlowClose, TemporalTypeOK
      <4> QED
        BY <1>c, <4>2, <4>3, WorkflowMoves DEF Abandoned
    <3> QED
      BY <3>2, <3>3
  <2> QED
    BY <1>6, <2>1, <2>2, <2>3 DEF FaultStep
<1> QED
  BY <1>2, <1>3, <1>4, <1>5, <1>6 DEF Next
-----------------------------------------------------------------------------
LEMMA StrongInit == Init => Strong
<1> SUFFICES ASSUME Init PROVE Strong
  OBVIOUS
<1>1. TypeOK
  BY InitType
<1>2. Safe
  BY DEF Init, StoreInit, Safe, SingleActive, TerminalEventMatches, CancelledOnlyByIntent,
     RowBeforeWorkflow, QueuedNotStranded, Active, Terminal
<1>3. \A w \in Workers : DispatcherInv(w)
  BY DEF Init, DispatcherInv, CancelStep
<1>4. /\ \A r \in Runs : WorkflowInv(r)
      /\ ReconcilerInv
      /\ EventInv
  BY DEF Init, StoreInit, WorkflowInv, ReconcilerInv, EventInv
<1> QED
  BY <1>1, <1>2, <1>3, <1>4 DEF Strong

LEMMA StrongNext == Strong /\ [Next]_vars => Strong'
<1> SUFFICES ASSUME Strong, [Next]_vars PROVE Strong'
  OBVIOUS
<1>1. TypeOK'
  BY NextType DEF Strong
<1>2. Forward /\ RunMove
  BY GoesForward, Moves
<1>3. Safe'
  BY <1>2, MovesSafe, RowsKeep, EventsKeep DEF Safe
<1>4. /\ \A w \in Workers : DispatcherInv(w)'
      /\ \A r \in Runs : WorkflowInv(r)'
      /\ ReconcilerInv' /\ EventInv'
  BY <1>2, DispatchersKeep, WorkflowsKeep, ReconcilerKeeps, EventsKeep
<1> QED
  BY <1>1, <1>3, <1>4 DEF Strong

\* The inductive invariant holds in every reachable state.
LEMMA StrongAlways == Spec => []Strong
  BY StrongInit, StrongNext, PTL DEF Spec

\* No interleaving of commands, dispatchers, Workflows and reconciler gives a
\* conversation two active Runs.
THEOREM OneActiveRun == Spec => []SingleActive
<1>1. Strong => SingleActive
  BY DEF Strong, Safe
<1> QED
  BY <1>1, StrongAlways, PTL

\* A Run and its published terminal event never disagree, whoever finalizes.
THEOREM TerminalEventsAgree == Spec => []TerminalEventMatches
<1>1. Strong => TerminalEventMatches
  BY DEF Strong, Safe
<1> QED
  BY <1>1, StrongAlways, PTL

\* No Run is cancelled that no client cancelled, although finalize_cancelled
\* reads the status in one transaction and finishes in another.
THEOREM CancellationIsIntended == Spec => []CancelledOnlyByIntent
<1>1. Strong => CancelledOnlyByIntent
  BY DEF Strong, Safe
<1> QED
  BY <1>1, StrongAlways, PTL

\* The workflow_executions row precedes the Workflow and the running Run.
THEOREM RowComesFirst == Spec => []RowBeforeWorkflow
<1>1. Strong => RowBeforeWorkflow
  BY DEF Strong, Safe
<1> QED
  BY <1>1, StrongAlways, PTL

\* However leases expire and worker ids collide, a start_run event is only
\* given up for a Run that does not wait for it.
THEOREM NoStrandedRun == Spec => []QueuedNotStranded
<1>1. Strong => QueuedNotStranded
  BY DEF Strong, Safe
<1> QED
  BY <1>1, StrongAlways, PTL
-----------------------------------------------------------------------------
\* Only prepare_start writes the first row of a Run, and only of a queued one.
LEMMA FirstRow ==
  ASSUME Strong, [Next]_vars, NEW r \in Runs, rowSt[r] = "none", runSt[r] # "queued"
  PROVE  rowSt'[r] = "none"
<1>t. StoreTypeOK
  BY TypeParts DEF Strong
<1>r. rowSt \in [Runs -> RowStatus]
  BY <1>t DEF StoreTypeOK
<1>p. ASSUME NEW x \in Runs, Prepare(x) PROVE rowSt'[r] = "none"
  BY <1>r, <1>p DEF Prepare, rowVars
<1>1. ASSUME NEW w \in Workers, DispatcherStep(w) PROVE rowSt'[r] = "none"
  <2>1. CASE DispatchPrepareStart(w) \/ DispatchRecordStarted(w) \/ DispatchRecordCancel(w)
    BY <1>r, <2>1 DEF DispatchPrepareStart, PrepareStart, DispatchRecordStarted, RecordStarted,
       DispatchRecordCancel, RecordCancelRequested, rowVars
  <2>2. CASE ~(DispatchPrepareStart(w) \/ DispatchRecordStarted(w) \/ DispatchRecordCancel(w))
    BY <1>1, <2>2 DEF DispatcherStep, Claim, ClaimBatch, DispatchStartRpc, DispatchNeedsCancel,
       DispatchLookup, DispatchCancelRpc, DispatchFinRead, DispatchFinish, DispatchMark,
       MarkProcessed, DispatchRaised, MarkRetryableFailure, DeadLetter, storeVars, rowVars
  <2> QED
    BY <2>1, <2>2
<1>2. ASSUME NEW x \in Runs, WorkflowStep(x) \/ LateCommit(x) PROVE rowSt'[r] = "none"
  BY <1>p, <1>2 DEF WorkflowStep, FlowPrepare, FlowAgent, FlowFinalize, Complete, FlowFail,
     FlowCancelRead, FlowCancelFinish, FlowCancelled, LateCommit, storeVars, rowVars
<1>3. CASE ReconcilerStep
  BY <1>r, <1>3 DEF ReconcilerStep, RecRead, RecDescribe, RecRecord, RecordTemporalFact, OpenRow,
     RecCancelRpc, RecFinRead, RecFinish, storeVars, rowVars
<1>4. CASE ClientStep \/ RecoverAbandoned \/ UNCHANGED vars \/ FaultStep
  BY <1>4 DEF ClientStep, SendMessage, RetryRun, InsertChatRun, CancelRun, RecoverAbandoned,
     RecoverExpired, FaultStep, DispatchError, DispatchCrash, RecoverSlow, FlowRetry,
     FlowActivityError, FlowDies, OperatorCancel, RecError, vars, storeVars, rowVars
<1> QED
  BY <1>1, <1>2, <1>3, <1>4 DEF Next

\* A Run that ended before it was prepared is never handed to Temporal.
THEOREM EndedRunsStayUnstarted == Spec => NoStartAfterEnd
<1>1. Strong /\ [Next]_vars
      => [\A r \in Runs : runSt[r] \in Terminal /\ rowSt[r] = "none"
                          => rowSt'[r] = "none" /\ tmpSt'[r] = "not_found"]_vars
  <2> SUFFICES ASSUME Strong, [Next]_vars, NEW r \in Runs, runSt[r] \in Terminal, rowSt[r] = "none"
               PROVE  rowSt'[r] = "none" /\ tmpSt'[r] = "not_found"
    OBVIOUS
  <2>1. rowSt'[r] = "none"
    BY FirstRow DEF Terminal
  <2>2. tmpSt'[r] = "not_found"
    BY StartedHasRow
  <2> QED
    BY <2>1, <2>2
<1> QED
  BY <1>1, StrongAlways, PTL DEF Spec, NoStartAfterEnd

\* Every step of the application is a transition the schema allows: the
\* enforce_run_status_transition trigger and the unique index of active Runs
\* never reject a transaction, and a terminal status comes with its event.
THEOREM RefinesContract == Spec => ImplementsContract
<1>1. Init => Contract!Init
  BY DEF Init, StoreInit, Contract!Init
<1>2. Strong /\ [Next]_vars => [Contract!Next]_<<runSt, termEv>>
  <2> SUFFICES ASSUME Strong, [Next]_vars PROVE [Contract!Next]_<<runSt, termEv>>
    OBVIOUS
  <2>t. runSt \in [Runs -> RunStatus]
    BY DEF Strong, TypeOK, StoreTypeOK
  <2>1. RunMove
    BY Moves
  <2>2. CASE RunsStay
    BY <2>2 DEF RunsStay
  <2>3. ASSUME NEW r \in Runs, Accepts(r) PROVE Contract!Accept(r)
    BY <2>3 DEF Accepts, HasActive, Active, Contract!Accept, Contract!ActiveStatus
  <2>4. ASSUME NEW r \in Runs, Starts(r) PROVE Contract!Move(r, "running")
    BY <2>4 DEF Starts, Contract!Move, Contract!Transition, Contract!TerminalStatus
  <2>5. ASSUME NEW r \in Runs, Cancels(r)
        PROVE  Contract!Move(r, "cancelling") \/ UNCHANGED <<runSt, termEv>>
    BY <2>5, <2>t DEF Cancels, Active, Contract!Move, Contract!Transition, Contract!TerminalStatus
  <2>6. ASSUME NEW r \in Runs, NEW s \in Terminal, Ends(r, s) PROVE Contract!Move(r, s)
    BY <2>6 DEF Ends, Terminal, Contract!Move, Contract!Transition, Contract!TerminalStatus
  <2>7. /\ "running" \in Contract!ActiveStatus /\ "cancelling" \in Contract!ActiveStatus
        /\ Terminal = Contract!TerminalStatus
    BY DEF Contract!ActiveStatus, Contract!TerminalStatus, Terminal
  <2> QED
    BY <2>1, <2>2, <2>3, <2>4, <2>5, <2>6, <2>7 DEF RunMove, Contract!Next
<1> QED
  BY <1>1, <1>2, StrongAlways, PTL DEF Spec, ImplementsContract, Contract!Spec
=============================================================================
