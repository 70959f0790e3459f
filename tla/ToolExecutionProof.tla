-------------------------- MODULE ToolExecutionProof --------------------------
(***************************************************************************)
(* Safety of ToolExecution for every number of segments and faults.  The   *)
(* inductive invariant comes in four layers, each preserved given the ones *)
(* before it: Typed (types, and every Activity past begin is registered),  *)
(* LeaseInv (who may own the lease, and which tokens were handed out),     *)
(* OperationInv (attempts, receipts and results) and EffectInv (who may    *)
(* still make the tool take effect).                                       *)
(***************************************************************************)
EXTENDS ToolExecution, TLAPS

\* Steps at which an Activity, or what it left running, has a registered attempt.
Past(s) == apc[s] \in BodyStep \cup Handler \/ orphan[s] \in {"complete", "receive"}

Typed == TypeOK /\ \A s \in Segments : Past(s) => Registered(tok[s])

-----------------------------------------------------------------------------
(* Layer 1: types *)

LEMMA SegmentIsNat == Segments \subseteq Nat /\ 1 \in Segments
  BY SegmentAssumption DEF Segments

OpTyped ==
  /\ opSt \in OpState /\ opAtt \in Nat
  /\ attempts \in SUBSET (Nat \X Nat)
  /\ receipts \in SUBSET (Nat \X Disposition)
  /\ opRes \in Nat /\ event \in Nat

\* What AttemptOf chooses for a registered token.
LEMMA AttemptOfRegistered ==
  ASSUME NEW t, Registered(t)
  PROVE  AttemptOf(t) \in 0..opAtt /\ <<t, AttemptOf(t)>> \in attempts
  BY DEF Registered, AttemptOf

LEMMA AttemptOfNat ==
  ASSUME OpTyped, NEW t, Registered(t)
  PROVE  AttemptOf(t) \in Nat
<1>1. AttemptOf(t) \in 0..opAtt
  BY AttemptOfRegistered
<1> QED
  BY <1>1 DEF OpTyped

\* The transactions on the Operation, each run with a token t.
OpTx(t) ==
  \/ BeginOperation(t) \/ RecordIntent(t) \/ MarkUncertain(t) \/ FailOperation(t)
  \/ Registered(t) /\ (CompleteWithEvent(t) \/ Receive(t))
  \/ UNCHANGED opVars

LEMMA OpTxTyped ==
  ASSUME OpTyped, run \in RunState, NEW t \in Nat, OpTx(t)
  PROVE  OpTyped'
<1>1. CASE BeginOperation(t)
  BY <1>1 DEF OpTyped, BeginOperation, opVars, OpState
<1>2. CASE RecordIntent(t) \/ MarkUncertain(t) \/ FailOperation(t) \/ UNCHANGED opVars
  BY <1>2 DEF OpTyped, RecordIntent, MarkUncertain, FailOperation, SetOpStatus, opVars, OpState
<1>3. CASE Registered(t) /\ CompleteWithEvent(t)
  <2>1. AttemptOf(t) \in Nat
    BY <1>3, AttemptOfNat
  <2> QED
    BY <1>3, <2>1 DEF OpTyped, CompleteWithEvent, opVars, OpState, Disposition
<1>4. CASE Registered(t) /\ Receive(t)
  <2>1. AttemptOf(t) \in Nat
    BY <1>4, AttemptOfNat
  <2>2. ReceiptDisposition(t) \in Disposition
    BY DEF ReceiptDisposition, Disposition
  <2> QED
    BY <1>4, <2>1, <2>2 DEF OpTyped, Receive, opVars, OpState
<1> QED
  BY <1>1, <1>2, <1>3, <1>4 DEF OpTx

\* A registered token stays registered.
LEMMA OpTxRegistered ==
  ASSUME OpTyped, NEW t \in Nat, NEW u \in Nat, OpTx(t), Registered(u)
  PROVE  Registered(u)'
<1>1. attempts \subseteq attempts' /\ opAtt' \in Nat /\ opAtt <= opAtt'
  BY DEF OpTyped, OpTx, BeginOperation, RecordIntent, MarkUncertain, FailOperation,
         SetOpStatus, CompleteWithEvent, Receive, opVars
<1> QED
  BY <1>1 DEF Registered, OpTyped

\* Beginning under the fence registers, unless the Operation is completed.
LEMMA BeginRegisters ==
  ASSUME OpTyped, NEW t \in Nat, BeginOperation(t), Fenced(t), opSt # "completed"
  PROVE  Registered(t)'
<1>1. CASE Registered(t)
  BY <1>1, OpTxRegistered DEF OpTx
<1>2. CASE ~Registered(t)
  BY <1>2 DEF BeginOperation, Registered, OpTyped
<1> QED
  BY <1>1, <1>2

\* Every step of an Activity on the Operation is one of its transactions.
OpStep(s) == \/ Begin(s) \/ Intent(s) \/ Complete(s) \/ ReceiveLate(s) \/ Handle(s) \/ Orphan(s)

LEMMA OpStepTx ==
  ASSUME Typed, NEW s \in Segments, OpStep(s)
  PROVE  OpTx(tok[s]) /\ UNCHANGED <<run, leaseVars, cls, driverVars, tok, lateCtl, faults>>
<1>1. CASE Complete(s) \/ ReceiveLate(s)
  BY <1>1 DEF Typed, Past, OpTx, Complete, ReceiveLate, BodyStep
<1>2. CASE Orphan(s)
  BY <1>2 DEF Typed, Past, OpTx, Orphan
<1> QED
  BY <1>1, <1>2 DEF OpStep, OpTx, Begin, Intent, Handle

LEMMA TypedInit == Init => Typed
<1> SUFFICES ASSUME Init PROVE Typed
  OBVIOUS
<1>1. FenceTypeOK
  <2>1. owner \in 0..MaxSegments /\ segSt \in [Segments -> SegmentState]
    BY SegmentAssumption DEF Init, FenceInit, SegmentState
  <2> QED
    BY <2>1 DEF Init, FenceInit, FenceTypeOK, RunState, OpState
<1>2. TypeOK
  BY <1>1, SegmentIsNat, FaultAssumption
     DEF Init, TypeOK, Outcome, ActivityPc, OrphanStep
<1> QED
  BY <1>2 DEF Init, Typed, Past, BodyStep, Handler

LEMMA TypedOpStep ==
  ASSUME Typed, NEW s \in Segments, OpStep(s)
  PROVE  Typed'
<1>1. tok[s] \in Nat /\ OpTyped /\ run \in RunState
  BY DEF Typed, TypeOK, FenceTypeOK, OpTyped
<1>2. OpTyped'
  BY <1>1, OpStepTx, OpTxTyped
<1>3. /\ apc' \in [Segments -> ActivityPc] /\ aout' \in [Segments -> Outcome]
      /\ prior' \in [Segments -> BOOLEAN] /\ may' \in [Segments -> BOOLEAN]
      /\ orphan' \in [Segments -> OrphanStep] /\ effects' \in Nat
  <2> USE DEF Typed, TypeOK, ActivityTo, ActivityEnds
  <2>1. CASE Begin(s)
    BY <2>1 DEF Begin, ActivityPc, Outcome, BodyStep
  <2>2. CASE Intent(s) \/ Complete(s) \/ ReceiveLate(s)
    BY <2>2 DEF Intent, Complete, ReceiveLate, ActivityPc, Outcome, BodyStep, Handler
  <2>3. CASE Handle(s)
    <3>1. HandlerOutcome(s) \in Outcome
      BY DEF HandlerOutcome, Outcome
    <3> QED
      BY <2>3, <3>1 DEF Handle, ActivityPc, Outcome
  <2>4. CASE Orphan(s)
    BY <2>4 DEF Orphan, OrphanStep
  <2> QED
    BY <2>1, <2>2, <2>3, <2>4 DEF OpStep
<1>4. TypeOK'
  BY <1>2, <1>3, OpStepTx DEF Typed, TypeOK, FenceTypeOK, OpTyped, leaseVars, driverVars
<1>5. \A u \in Segments : Registered(tok[u]) => Registered(tok[u])'
  BY <1>1, OpStepTx, OpTxRegistered DEF Typed, TypeOK
<1>6. CASE Begin(s)
  <2>1. \A u \in Segments : u # s => (Past(u)' <=> Past(u))
    BY <1>6 DEF Past, Begin, ActivityTo, ActivityEnds, Typed, TypeOK
  <2>2. Past(s)' => Registered(tok[s])'
    <3>1. CASE Fenced(tok[s]) /\ opSt # "completed"
      BY <1>1, <1>6, <3>1, BeginRegisters, OpStepTx DEF Begin
    <3>2. CASE ~(Fenced(tok[s]) /\ opSt # "completed")
      BY <1>5, <1>6, <3>2 DEF Past, Begin, ActivityEnds, Typed, TypeOK, BodyStep, Handler
    <3> QED BY <3>1, <3>2
  <2> QED BY <1>4, <1>5, <2>1, <2>2 DEF Typed
<1>7. CASE Intent(s) \/ Complete(s) \/ ReceiveLate(s) \/ Handle(s) \/ Orphan(s)
  <2>1. \A u \in Segments : Past(u)' => Past(u)
    BY <1>7 DEF Past, Intent, Complete, ReceiveLate, Handle, Orphan, ActivityTo, ActivityEnds,
                Typed, TypeOK, BodyStep, Handler
  <2> QED BY <1>4, <1>5, <2>1 DEF Typed
<1> QED
  BY <1>6, <1>7 DEF OpStep

\* The remaining steps leave the Operation alone.  Only AcquireAnswered hands
\* out a token, to an Activity that is about to begin.
LEMMA TypedQuiet ==
  ASSUME Typed, TypeOK', UNCHANGED opVars, \A s \in Segments : Past(s)' => Past(s) /\ tok'[s] = tok[s]
  PROVE  Typed'
  BY DEF Typed, Registered, opVars

LEMMA FenceUnchanged == FenceTypeOK /\ UNCHANGED fenceVars => FenceTypeOK'
  BY DEF FenceTypeOK, fenceVars, leaseVars, opVars

DriverAction ==
  DriverStep \/ ActivityTimesOut \/ (\E k \in {"acquire", "release"} : ControlTimesOut(k))

LEMMA TypedDriver ==
  ASSUME Typed, DriverAction,
         dpc = "backoff" => seg < MaxSegments,
         dpc = "acquire" => apc[seg] = "none" /\ orphan[seg] = "none"
  PROVE  Typed' /\ UNCHANGED <<cls, opVars>>
<1> USE DEF Typed, TypeOK, driverVars, activityVars, DriverTo
<1>1. CASE AcquireAnswered
  <2>1. FenceTypeOK' /\ UNCHANGED <<cls, opVars>>
    BY <1>1, SegmentAssumption
       DEF FenceTypeOK, AcquireAnswered, AcquireSegment, AcquireToken, Segments, SegmentState, opVars
  <2>2. AcquireToken(seg) \in Nat
    BY DEF AcquireToken, FenceTypeOK
  <2>3. TypeOK'
    BY <1>1, <2>1, <2>2 DEF AcquireAnswered, ActivityPc, Outcome
  <2>4. \A s \in Segments : Past(s)' => Past(s) /\ tok'[s] = tok[s]
    BY <1>1 DEF AcquireAnswered, Past, BodyStep, Handler
  <2> QED
    BY <2>1, <2>3, <2>4, TypedQuiet
<1>2. CASE AcquireCancelled \/ ActivityAnswered \/ WorkerLost \/ ActivityTimesOut
  <2>1. UNCHANGED fenceVars /\ UNCHANGED activityVars /\ UNCHANGED <<seg, dres, lateCtl, effects>>
    BY <1>2 DEF AcquireCancelled, ActivityAnswered, WorkerLost, ActivityTimesOut
  <2>2. dpc' = "release" /\ dout' \in Outcome /\ faults' \in 0..MaxFaults
    BY <1>2, FaultAssumption
       DEF AcquireCancelled, ActivityAnswered, WorkerLost, ActivityTimesOut, Outcome, Fault
  <2>3. TypeOK'
    BY <2>1, <2>2, FenceUnchanged
  <2> QED
    BY <2>1, <2>3, TypedQuiet DEF Past, fenceVars
<1>3. CASE Release
  <2>1. FenceTypeOK' /\ UNCHANGED <<cls, opVars>>
    BY <1>3, SegmentAssumption
       DEF FenceTypeOK, Release, ReleaseSegment, Segments, SegmentState, opVars
  <2>2. TypeOK'
    BY <1>3, <2>1 DEF Release, Verdict
  <2> QED
    BY <1>3, <2>1, <2>2, TypedQuiet DEF Release, Past
<1>4. CASE Backoff \/ BackoffCancelled
  <2>1. UNCHANGED fenceVars /\ UNCHANGED activityVars
    BY <1>4 DEF Backoff, BackoffCancelled
  <2>2. seg' \in Segments
    BY <1>4, SegmentAssumption DEF Backoff, BackoffCancelled, Segments
  <2>3. TypeOK'
    BY <1>4, <2>1, <2>2, FenceUnchanged DEF Backoff, BackoffCancelled, Outcome
  <2> QED
    BY <2>1, <2>3, TypedQuiet DEF Past, fenceVars
<1>6. CASE \E k \in {"acquire", "release"} : ControlTimesOut(k)
  BY <1>6, FaultAssumption DEF ControlTimesOut, Fault, FenceTypeOK, fenceVars, leaseVars, opVars,
     Past, Registered
<1> QED
  BY <1>1, <1>2, <1>3, <1>4, <1>6 DEF DriverStep, DriverAction

\* Steps of an Activity that touch neither the lease nor the Operation.
LocalStep(s) ==
  \/ Renew(s) \/ Reconcile(s) \/ Dispatch(s) \/ Effect(s) \/ Raises(s) \/ Cancel(s) \/ Crash(s)

\* Steps of others on the lease.
LeaseStep == RunChanges \/ Expire \/ (\E s \in Segments : LateAcquire(s) \/ LateRelease(s))

LEMMA TypedLocal ==
  ASSUME Typed, NEW s \in Segments, LocalStep(s)
  PROVE  Typed' /\ UNCHANGED <<fenceVars, driverVars, tok, lateCtl>>
<1> USE DEF Typed, TypeOK
<1>1. UNCHANGED <<fenceVars, driverVars, tok, lateCtl>>
  BY DEF LocalStep, Renew, Reconcile, Dispatch, Effect, Raises, Cancel, Crash
<1>2. FenceTypeOK' /\ UNCHANGED opVars
  BY <1>1 DEF FenceTypeOK, fenceVars, leaseVars, opVars
<1>3. faults' \in 0..MaxFaults /\ effects' \in Nat
  BY FaultAssumption
     DEF LocalStep, Renew, Reconcile, Dispatch, Effect, Raises, Cancel, Crash, Fault
<1>4. /\ apc' \in [Segments -> ActivityPc] /\ aout' \in [Segments -> Outcome]
      /\ prior' \in [Segments -> BOOLEAN] /\ may' \in [Segments -> BOOLEAN]
      /\ orphan' \in [Segments -> OrphanStep]
  <2> USE DEF ActivityTo, ActivityEnds
  <2>1. CASE Renew(s) \/ Reconcile(s) \/ Dispatch(s) \/ Effect(s) \/ Raises(s)
    <3>1. CASE Dispatch(s)
      BY <3>1 DEF Dispatch, NonIdempotent, ActivityPc, BodyStep, Handler
    <3>2. CASE Renew(s) \/ Reconcile(s)
      BY <3>2 DEF Renew, Reconcile, ActivityPc, BodyStep, Handler
    <3>3. CASE Effect(s) \/ Raises(s)
      BY <3>3 DEF Effect, Raises, ActivityPc, BodyStep, Handler
    <3> QED
      BY <2>1, <3>1, <3>2, <3>3
  <2>2. CASE Cancel(s)
    <3>1. Awaited(s) \in OrphanStep
      BY <2>2 DEF Cancel, Awaited, OrphanStep, BodyStep
    <3> QED
      BY <2>2, <3>1 DEF Cancel, ActivityPc, Handler, Outcome
  <2>3. CASE Crash(s)
    BY <2>3 DEF Crash, ActivityPc, OrphanStep
  <2> QED
    BY <2>1, <2>2, <2>3 DEF LocalStep
<1>5. \A u \in Segments : Past(u)' => Past(u)
  <2> USE DEF Past, ActivityTo, ActivityEnds, BodyStep, Handler
  <2>1. CASE Renew(s) \/ Reconcile(s) \/ Dispatch(s) \/ Effect(s) \/ Raises(s)
    BY <2>1 DEF Renew, Reconcile, Dispatch, Effect, Raises
  <2>2. CASE Cancel(s)
    BY <2>2 DEF Cancel, Awaited
  <2>3. CASE Crash(s)
    BY <2>3 DEF Crash
  <2> QED
    BY <2>1, <2>2, <2>3 DEF LocalStep
<1>6. TypeOK'
  BY <1>1, <1>2, <1>3, <1>4 DEF driverVars
<1> QED
  BY <1>1, <1>2, <1>5, <1>6, TypedQuiet

LEMMA TypedLease ==
  ASSUME Typed, LeaseStep
  PROVE  Typed' /\ UNCHANGED <<cls, opVars, driverVars, activityVars, effects>>
<1>1. UNCHANGED <<cls, opVars, driverVars, activityVars, effects>>
  BY DEF LeaseStep, RunChanges, Expire, LateAcquire, LateRelease, SetRunStatus, LeaseExpires,
         AcquireSegment, ReleaseSegment, fenceVars
<1>2. FenceTypeOK'
  <2> USE DEF Typed, TypeOK, FenceTypeOK
  <2>1. CASE RunChanges
    <3>1. PICK st \in RunState : SetRunStatus(st)
      BY <2>1 DEF RunChanges, RunState
    <3>2. owner' \in 0..MaxSegments /\ token' \in Nat
      BY <3>1, SegmentAssumption DEF SetRunStatus
    <3> QED
      BY <1>1, <3>1, <3>2 DEF SetRunStatus, opVars
  <2>2. CASE Expire
    BY <1>1, <2>2 DEF Expire, LeaseExpires, opVars
  <2>3. ASSUME NEW s \in Segments, AcquireSegment(s)
        PROVE  FenceTypeOK'
    BY <1>1, <2>3, SegmentAssumption
       DEF AcquireSegment, AcquireToken, SegmentState, Segments, opVars
  <2>4. ASSUME NEW s \in Segments, ReleaseSegment(s)
        PROVE  FenceTypeOK'
    BY <1>1, <2>4, SegmentAssumption DEF ReleaseSegment, SegmentState, opVars
  <2> QED
    BY <2>1, <2>2, <2>3, <2>4, FenceUnchanged DEF LeaseStep, LateAcquire, LateRelease
<1>3. lateCtl' \in SUBSET ({"acquire", "release"} \X Segments) /\ faults' \in 0..MaxFaults
  <2>1. CASE RunChanges \/ Expire
    BY <2>1, FaultAssumption DEF Typed, TypeOK, RunChanges, Expire, Fault
  <2>2. ASSUME NEW s \in Segments, LateAcquire(s) \/ LateRelease(s)
        PROVE  lateCtl' \subseteq lateCtl /\ faults' = faults
    BY <2>2 DEF LateAcquire, LateRelease
  <2> QED
    BY <2>1, <2>2 DEF LeaseStep, Typed, TypeOK
<1>4. TypeOK'
  BY <1>1, <1>2, <1>3 DEF Typed, TypeOK, driverVars, activityVars
<1> QED
  BY <1>1, <1>4, TypedQuiet DEF Past, activityVars

\* The steps, by what they touch.
LEMMA NextCases ==
  ASSUME Next
  PROVE  DriverAction \/ LeaseStep \/ (\E s \in Segments : OpStep(s) \/ LocalStep(s))
  BY DEF Next, DriverAction, LeaseStep, OpStep, LocalStep, ActivityStep
-----------------------------------------------------------------------------
(* Layer 2: the lease *)

\* Segments up to `seg` were requested, those before it are closed; only an
\* open segment owns the lease, and only while the Run is active.
SegmentInv ==
  /\ live => RunActive /\ owner # 0 /\ token >= 1
  /\ owner # 0 => owner <= seg /\ segSt[owner] = "active"
  /\ \A s \in Segments : s < seg => segSt[s] = "released"
  /\ dpc \in {"backoff", "done"} => segSt[seg] = "released"
  /\ dpc = "backoff" => seg < MaxSegments
  /\ \A c \in lateCtl : c[2] <= seg

\* Which Activities exist.
StartedInv ==
  /\ \A s \in Segments : s > seg => apc[s] = "none"
  /\ dpc = "acquire" => apc[seg] = "none"
  /\ \A s \in Segments : apc[s] \in BodyStep \cup {"none", "begin"} => orphan[s] = "none"

\* Tokens handed out are distinct and not above the current one, and a segment
\* that took the lease over holds a token above all others.
TokenInv ==
  /\ \A s \in Segments : apc[s] # "none" => tok[s] >= 1 /\ tok[s] <= token
  /\ \A s \in Segments : apc[s] # "none" /\ owner \notin {0, s} => tok[s] < token
  /\ OneFencedActivity

LeaseInv == SegmentInv /\ StartedInv /\ TokenInv

LEMMA LeaseInit == Init => LeaseInv
<1> SUFFICES ASSUME Init PROVE LeaseInv
  OBVIOUS
<1>1. SegmentInv
  BY SegmentAssumption DEF Init, FenceInit, SegmentInv, Segments
<1>2. StartedInv
  BY SegmentIsNat DEF Init, StartedInv
<1>3. TokenInv
  BY DEF Init, TokenInv, OneFencedActivity
<1> QED
  BY <1>1, <1>2, <1>3 DEF LeaseInv

\* Which steps reach a Run status, token, owner or segment.
LeaseMove ==
  \/ UNCHANGED <<run, leaseVars>>
  \/ \E st \in RunState \ {"running"} : SetRunStatus(st)
  \/ LeaseExpires
  \/ \E s \in Segments : AcquireSegment(s) \/ ReleaseSegment(s)

LEMMA NextLeaseMove ==
  ASSUME Typed, Next
  PROVE  LeaseMove
<1>1. CASE DriverAction
  BY <1>1 DEF DriverAction, DriverStep, LeaseMove, AcquireAnswered, AcquireCancelled, ActivityAnswered,
     WorkerLost, Release, Backoff, BackoffCancelled, ActivityTimesOut, ControlTimesOut, Typed, TypeOK,
     fenceVars
<1>2. CASE LeaseStep
  BY <1>2 DEF LeaseStep, LeaseMove, RunChanges, Expire, LateAcquire, LateRelease, RunState, fenceVars
<1>3. ASSUME NEW s \in Segments, OpStep(s) \/ LocalStep(s)
      PROVE  LeaseMove
  BY <1>3, OpStepTx, TypedLocal DEF LeaseMove, fenceVars
<1> QED
  BY <1>1, <1>2, <1>3, NextCases

\* The token grows, and one that lost its authority never regains it.
LEMMA NoRevival ==
  ASSUME Typed, LeaseInv, LeaseMove, NEW t \in Nat, t <= token, ~Fenced(t)
  PROVE  token' \in Nat /\ token <= token' /\ ~Fenced(t)'
  BY DEF Typed, TypeOK, FenceTypeOK, LeaseMove, SetRunStatus, LeaseExpires, AcquireSegment,
         AcquireToken, ReleaseSegment, CanAcquire, Fenced, RunActive, leaseVars

LEMMA LeaseDriver ==
  ASSUME Typed, LeaseInv, DriverAction
  PROVE  LeaseInv'
<1> USE DEF LeaseInv, Typed, TypeOK, FenceTypeOK
<1>1. CASE AcquireAnswered
  <2>1. token' \in Nat /\ token <= token' /\ owner' = seg /\ live' = TRUE /\ run' = run /\ RunActive
    BY <1>1 DEF AcquireAnswered, AcquireSegment, AcquireToken, CanAcquire
  <2>2. \A s \in Segments : apc[s] # "none" /\ s # seg => tok[s] < token'
    BY <1>1 DEF AcquireAnswered, AcquireSegment, AcquireToken, CanAcquire, LeaseConflict, TokenInv,
       SegmentInv, Segments
  <2>3. token' >= 1
    BY <1>1 DEF AcquireAnswered, AcquireSegment, AcquireToken, SegmentInv
  <2>4. SegmentInv'
    BY <1>1, <2>1, <2>3 DEF SegmentInv, AcquireAnswered, AcquireSegment, DriverTo, RunActive, Segments
  <2>5. StartedInv'
    <3>1. dpc' = "activity" /\ seg' = seg /\ orphan' = orphan /\ apc' = [apc EXCEPT ![seg] = "begin"]
      BY <1>1 DEF AcquireAnswered, DriverTo
    <3>2. orphan[seg] = "none"
      BY <1>1 DEF AcquireAnswered, StartedInv
    <3>3. \A s \in Segments : s > seg => apc'[s] = "none"
      BY <3>1, SegmentIsNat DEF StartedInv
    <3> QED
      BY <3>1, <3>2, <3>3 DEF StartedInv
  <2>6. TokenInv'
    BY <1>1, <2>1, <2>2, <2>3 DEF TokenInv, OneFencedActivity, AcquireAnswered, AcquireSegment, StartedInv
  <2> QED
    BY <2>4, <2>5, <2>6
<1>2. CASE AcquireCancelled \/ ActivityAnswered \/ WorkerLost \/ ActivityTimesOut \/ BackoffCancelled
  BY <1>2 DEF AcquireCancelled, ActivityAnswered, WorkerLost, ActivityTimesOut, BackoffCancelled, DriverTo,
     SegmentInv, StartedInv, TokenInv, OneFencedActivity, RunActive, fenceVars, leaseVars, activityVars
<1>3. CASE Release
  <2>1. SegmentInv'
    <3>1. /\ segSt' = [segSt EXCEPT ![seg] = "released"] /\ seg' = seg
          /\ owner' = (IF owner = seg THEN 0 ELSE owner) /\ live' = (live /\ owner # seg)
          /\ run' = run /\ token' = token /\ lateCtl' = lateCtl
      BY <1>3 DEF Release, ReleaseSegment
    <3>2. dpc' = "backoff" => seg < MaxSegments
      BY <1>3 DEF Release, Retried
    <3>3. owner' # 0 => owner' <= seg /\ segSt'[owner'] = "active"
      BY <3>1 DEF SegmentInv, Segments
    <3>4. live' => RunActive' /\ owner' # 0 /\ token' >= 1
      BY <3>1 DEF SegmentInv, RunActive
    <3> QED
      BY <3>1, <3>2, <3>3, <3>4 DEF SegmentInv
  <2>2. StartedInv' /\ TokenInv'
    BY <1>3 DEF Release, ReleaseSegment, StartedInv, TokenInv, OneFencedActivity, activityVars
  <2> QED
    BY <2>1, <2>2
<1>4. CASE Backoff
  <2>1. SegmentInv'
    BY <1>4 DEF Backoff, SegmentInv, RunActive, Segments, fenceVars, leaseVars
  <2>2. seg' = seg + 1 /\ seg + 1 \in Segments /\ UNCHANGED <<apc, tok, orphan, token, owner>>
    BY <1>4, SegmentAssumption DEF Backoff, SegmentInv, Segments, activityVars, fenceVars, leaseVars
  <2>3. StartedInv'
    <3>1. \A s \in Segments : s >= seg + 1 => apc[s] = "none"
      BY DEF StartedInv, Segments
    <3> QED
      BY <2>2, <3>1, SegmentIsNat DEF StartedInv
  <2>4. TokenInv'
    BY <2>2 DEF TokenInv, OneFencedActivity
  <2> QED
    BY <2>1, <2>3, <2>4
<1>5. CASE \E k \in {"acquire", "release"} : ControlTimesOut(k)
  BY <1>5, SegmentIsNat DEF ControlTimesOut, SegmentInv, StartedInv, TokenInv, OneFencedActivity, RunActive,
     fenceVars, leaseVars, activityVars, driverVars
<1> QED
  BY <1>1, <1>2, <1>3, <1>4, <1>5 DEF DriverAction, DriverStep

LEMMA LeaseOther ==
  ASSUME Typed, LeaseInv, LeaseStep
  PROVE  LeaseInv'
<1> USE DEF LeaseInv, Typed, TypeOK, FenceTypeOK
<1>1. UNCHANGED <<driverVars, activityVars>>
  BY TypedLease
<1>2. StartedInv'
  BY <1>1 DEF StartedInv, driverVars, activityVars
<1>3. CASE RunChanges
  <2>1. PICK st \in RunState : SetRunStatus(st)
    BY <1>3 DEF RunChanges, RunState
  <2>2. lateCtl' = lateCtl
    BY <1>3 DEF RunChanges
  <2> QED
    BY <1>1, <1>2, <2>1, <2>2 DEF SetRunStatus, SegmentInv, TokenInv, OneFencedActivity, driverVars,
       activityVars
<1>4. CASE Expire
  BY <1>1, <1>2, <1>4 DEF Expire, LeaseExpires, SegmentInv, TokenInv, OneFencedActivity, driverVars,
     activityVars
<1>5. ASSUME NEW s \in Segments, LateAcquire(s)
      PROVE  LeaseInv'
  <2>1. s <= seg /\ lateCtl' \subseteq lateCtl
    BY <1>5 DEF LateAcquire, SegmentInv
  <2>2. CASE AcquireSegment(s)
    <3>1. token' \in Nat /\ token <= token' /\ owner' = s /\ live' = TRUE /\ run' = run /\ RunActive
      BY <2>2 DEF AcquireSegment, AcquireToken, CanAcquire
    <3>0. token' >= 1
      BY <2>2 DEF AcquireSegment, AcquireToken, SegmentInv
    <3>2. SegmentInv'
      BY <1>1, <2>1, <2>2, <3>0, <3>1 DEF SegmentInv, AcquireSegment, CanAcquire, SegmentClosed, RunActive,
         driverVars, Segments
    <3>3. TokenInv'
      BY <1>1, <2>2, <3>1 DEF TokenInv, OneFencedActivity, AcquireSegment, AcquireToken, activityVars
    <3> QED
      BY <1>2, <3>2, <3>3
  <2>3. CASE UNCHANGED fenceVars
    BY <1>1, <1>2, <2>1, <2>3 DEF SegmentInv, TokenInv, OneFencedActivity, driverVars, activityVars,
       RunActive, fenceVars, leaseVars
  <2> QED
    BY <1>5, <2>2, <2>3 DEF LateAcquire
<1>6. ASSUME NEW s \in Segments, LateRelease(s)
      PROVE  LeaseInv'
  <2>1. /\ segSt' = [segSt EXCEPT ![s] = "released"]
        /\ owner' = (IF owner = s THEN 0 ELSE owner) /\ live' = (live /\ owner # s)
        /\ run' = run /\ token' = token /\ lateCtl' \subseteq lateCtl
    BY <1>6 DEF LateRelease, ReleaseSegment
  <2>2. owner' # 0 => owner' <= seg /\ segSt'[owner'] = "active"
    BY <2>1 DEF SegmentInv, Segments
  <2>3. live' => RunActive' /\ owner' # 0 /\ token' >= 1
    BY <2>1 DEF SegmentInv, RunActive
  <2>4. SegmentInv'
    BY <1>1, <2>1, <2>2, <2>3 DEF SegmentInv, driverVars
  <2>5. TokenInv'
    BY <1>1, <2>1 DEF TokenInv, OneFencedActivity, activityVars
  <2> QED
    BY <1>2, <2>4, <2>5
<1> QED
  BY <1>3, <1>4, <1>5, <1>6 DEF LeaseStep

LEMMA LeaseActivity ==
  ASSUME Typed, LeaseInv, NEW s \in Segments, OpStep(s) \/ LocalStep(s)
  PROVE  LeaseInv'
<1> USE DEF LeaseInv, Typed, TypeOK
<1>1. UNCHANGED <<run, leaseVars, driverVars, tok, lateCtl>>
  BY OpStepTx, TypedLocal DEF fenceVars
<1>2. /\ apc[s] # "none" /\ apc'[s] # "none"
      /\ \A u \in Segments \ {s} : apc'[u] = apc[u] /\ orphan'[u] = orphan[u]
      /\ apc'[s] \in BodyStep => apc[s] \in BodyStep \cup {"begin"} /\ orphan'[s] = orphan[s]
      /\ apc'[s] # "begin" \/ orphan'[s] = "none"
  <2> USE DEF ActivityTo, ActivityEnds, BodyStep, Handler, StartedInv
  <2>1. CASE Orphan(s)
    BY <2>1 DEF Orphan
  <2>2. CASE Begin(s) \/ Intent(s) \/ Complete(s) \/ ReceiveLate(s) \/ Handle(s)
    BY <2>2 DEF Begin, Intent, Complete, ReceiveLate, Handle
  <2>3. CASE Renew(s) \/ Reconcile(s) \/ Dispatch(s) \/ Effect(s) \/ Raises(s)
    BY <2>3 DEF Renew, Reconcile, Dispatch, Effect, Raises
  <2>4. CASE Cancel(s) \/ Crash(s)
    BY <2>4 DEF Cancel, Crash
  <2> QED
    BY <2>1, <2>2, <2>3, <2>4 DEF OpStep, LocalStep
<1>3. SegmentInv'
  BY <1>1 DEF SegmentInv, RunActive, leaseVars, driverVars
<1>4. StartedInv'
  BY <1>1, <1>2 DEF StartedInv, driverVars, BodyStep
<1>5. TokenInv'
  BY <1>1, <1>2 DEF TokenInv, OneFencedActivity, leaseVars
<1> QED
  BY <1>3, <1>4, <1>5

LEMMA TypedLeaseNext ==
  ASSUME Typed, LeaseInv, [Next]_vars
  PROVE  Typed' /\ LeaseInv'
<1>1. CASE Next
  <2>1. CASE DriverAction
    <3>1. dpc = "acquire" => apc[seg] = "none" /\ orphan[seg] = "none"
      BY DEF LeaseInv, StartedInv, Typed, TypeOK, BodyStep
    <3>2. dpc = "backoff" => seg < MaxSegments
      BY DEF LeaseInv, SegmentInv
    <3> QED
      BY <2>1, <3>1, <3>2, TypedDriver, LeaseDriver
  <2>2. CASE LeaseStep
    BY <2>2, TypedLease, LeaseOther
  <2>3. ASSUME NEW s \in Segments, OpStep(s) \/ LocalStep(s)
        PROVE  Typed' /\ LeaseInv'
    BY <2>3, TypedOpStep, TypedLocal, LeaseActivity
  <2> QED
    BY <1>1, <2>1, <2>2, <2>3, NextCases
<1>2. CASE UNCHANGED vars
  BY <1>2, FenceUnchanged DEF vars, Typed, TypeOK, Past, Registered, LeaseInv, SegmentInv, StartedInv, TokenInv,
     OneFencedActivity, RunActive, fenceVars, leaseVars, opVars, driverVars, activityVars
<1> QED
  BY <1>1, <1>2
-----------------------------------------------------------------------------
(* Layer 3: attempts, receipts and results *)

\* Attempts are numbered in the order of their tokens; the last is opAtt.
AttemptInv ==
  /\ \A a \in attempts : a[1] <= token /\ a[2] >= 1 /\ a[2] <= opAtt
  /\ \A a, b \in attempts : a[1] < b[1] <=> a[2] < b[2]
  /\ opAtt # 0 => \E a \in attempts : a[2] = opAtt
  /\ \A r \in receipts : r[1] <= opAtt

\* A receipt without an event belongs to an attempt without authority.
ReceiptInv ==
  \A r \in receipts, a \in attempts : r[1] = a[2] /\ event = 0 => ~Fenced(a[1])

ResultInv ==
  /\ event # 0 => opSt = "completed"
  /\ EvidenceIsCurrent
  /\ ResultFromLatestAttempt

\* Late results are received without the fence.
LateInv ==
  \A s \in Segments : "receive" \in {apc[s], orphan[s]} => ~Fenced(tok[s])

Durable == opSt = "completed" /\ event # 0

ReportInv ==
  /\ \A s \in Segments : aout[s] = "ok" => Durable
  /\ dout = "ok" => Durable
  /\ dres = "result" => Durable

OperationInv == AttemptInv /\ ReceiptInv /\ ResultInv /\ LateInv /\ ReportInv

\* OpTx, with what LateInv adds.
Tx(t) ==
  \/ BeginOperation(t) \/ RecordIntent(t) \/ MarkUncertain(t) \/ FailOperation(t)
  \/ Registered(t) /\ CompleteWithEvent(t)
  \/ Registered(t) /\ ~Fenced(t) /\ Receive(t)
  \/ UNCHANGED opVars

LEMMA OpStepIsTx ==
  ASSUME Typed, LateInv, NEW s \in Segments, OpStep(s)
  PROVE  Tx(tok[s]) /\ UNCHANGED <<run, leaseVars, cls, driverVars, tok, lateCtl, faults>>
<1>1. CASE Complete(s) \/ ReceiveLate(s)
  BY <1>1 DEF Typed, Past, Tx, Complete, ReceiveLate, BodyStep, LateInv
<1>2. CASE Orphan(s)
  BY <1>2 DEF Typed, Past, Tx, Orphan, LateInv
<1> QED
  BY <1>1, <1>2 DEF OpStep, Tx, Begin, Intent, Handle

\* The attempt of the token in force is the latest.
LEMMA FencedIsLatest ==
  ASSUME OpTyped, AttemptInv, token \in Nat, NEW t \in Nat, Fenced(t), Registered(t)
  PROVE  AttemptOf(t) = opAtt /\ opAtt >= 1
<1>1. AttemptOf(t) \in Nat /\ <<t, AttemptOf(t)>> \in attempts
  BY AttemptOfNat, AttemptOfRegistered
<1>2. AttemptOf(t) >= 1 /\ AttemptOf(t) <= opAtt
  BY <1>1 DEF AttemptInv
<1>3. PICK a \in attempts : a[2] = opAtt
  BY <1>1, <1>2 DEF AttemptInv, OpTyped
<1>4. a[1] <= t /\ a[1] \in Nat
  BY DEF AttemptInv, Fenced, OpTyped
<1>5. ~(t < a[1])
  BY <1>4
<1>6. ~(AttemptOf(t) < a[2])
  BY <1>1, <1>5 DEF AttemptInv
<1> QED
  BY <1>1, <1>2, <1>3, <1>6 DEF OpTyped

LEMMA TxAttempts ==
  ASSUME OpTyped, AttemptInv, token \in Nat, NEW t \in Nat, Tx(t), token' = token
  PROVE  AttemptInv'
<1>1. CASE BeginOperation(t) /\ Fenced(t) /\ opSt # "completed" /\ ~Registered(t)
  <2>1. /\ opAtt' = opAtt + 1 /\ attempts' = attempts \cup {<<t, opAtt + 1>>}
        /\ receipts' = receipts
    BY <1>1 DEF BeginOperation
  <2>2. \A a \in attempts : a[1] \in Nat /\ a[2] \in Nat /\ a = <<a[1], a[2]>>
    BY DEF OpTyped
  <2>3. \A a \in attempts : a[1] < t
    BY <1>1, <2>2 DEF Registered, AttemptInv, Fenced, OpTyped
  <2>4. \A a, b \in attempts' : a[1] < b[1] <=> a[2] < b[2]
    BY <2>1, <2>2, <2>3 DEF AttemptInv, OpTyped
  <2>5. \A a \in attempts' : a[1] <= token /\ a[2] >= 1 /\ a[2] <= opAtt'
    BY <1>1, <2>1, <2>2 DEF AttemptInv, OpTyped, Fenced
  <2>6. \A r \in receipts' : r[1] <= opAtt'
    BY <2>1 DEF AttemptInv, OpTyped
  <2>7. \E a \in attempts' : a[2] = opAtt'
    <3>1. <<t, opAtt + 1>> \in attempts' /\ <<t, opAtt + 1>>[2] = opAtt'
      BY <2>1
    <3> QED
      BY <3>1
  <2> QED
    BY <2>4, <2>5, <2>6, <2>7 DEF AttemptInv
<1>2. CASE Registered(t) /\ (CompleteWithEvent(t) \/ Receive(t))
  <2>1. AttemptOf(t) \in Nat /\ AttemptOf(t) <= opAtt
    <3>1. AttemptOf(t) \in 0..opAtt
      BY <1>2, AttemptOfRegistered
    <3> QED
      BY <3>1 DEF OpTyped
  <2>2. /\ opAtt' = opAtt /\ attempts' = attempts
        /\ \A r \in receipts' : r \in receipts \/ r[1] = AttemptOf(t)
    BY <1>2 DEF CompleteWithEvent, Receive, opVars
  <2> QED
    BY <2>1, <2>2 DEF AttemptInv
<1>3. CASE UNCHANGED <<opAtt, attempts, receipts>>
  BY <1>3 DEF AttemptInv
<1> QED
  BY <1>1, <1>2, <1>3 DEF Tx, BeginOperation, RecordIntent, MarkUncertain, FailOperation, SetOpStatus, opVars

LEMMA TxResults ==
  ASSUME OpTyped, AttemptInv, ReceiptInv, ResultInv, token \in Nat, NEW t \in Nat, Tx(t),
         UNCHANGED <<run, token, live>>
  PROVE  ReceiptInv' /\ ResultInv'
<1> USE DEF EvidenceIsCurrent, ResultFromLatestAttempt
<1>0. \A u \in Nat : Fenced(u)' <=> Fenced(u)
  BY DEF Fenced, RunActive
<1>1. \A a \in attempts : a[1] \in Nat /\ a[2] \in Nat
  BY DEF OpTyped
<1>2. CASE BeginOperation(t) /\ Fenced(t) /\ opSt # "completed"
  <2>1. /\ opSt' # "completed" /\ UNCHANGED <<receipts, opRes, event>>
        /\ attempts' \subseteq attempts \cup {<<t, opAtt + 1>>}
    BY <1>2 DEF BeginOperation, OpUnresolved
  <2>2. event = 0
    BY <1>2 DEF ResultInv
  <2>3. ReceiptInv'
    BY <1>0, <1>1, <2>1, <2>2 DEF ReceiptInv, AttemptInv, OpTyped
  <2> QED
    BY <2>1, <2>2, <2>3 DEF ResultInv
<1>3. CASE Registered(t) /\ Fenced(t) /\ event = 0 /\ opSt # "completed"
           /\ ~HasReceipt(AttemptOf(t)) /\ CompleteWithEvent(t)
  <2>1. AttemptOf(t) = opAtt /\ opAtt >= 1 /\ opAtt \in Nat
    BY <1>3, FencedIsLatest DEF OpTyped
  <2>2. /\ opSt' = "completed" /\ opRes' = opAtt /\ event' = opAtt /\ opAtt' = opAtt
        /\ receipts' = receipts \cup {<<opAtt, "current">>}
    BY <1>3, <2>1 DEF CompleteWithEvent
  <2>3. \A r \in receipts : r[1] # opAtt
    BY <1>3, <2>1 DEF HasReceipt, OpTyped
  <2>4. \A r1, r2 \in receipts' : r1[1] = r2[1] => r1 = r2
    BY <2>2, <2>3 DEF ResultInv
  <2> QED
    BY <2>1, <2>2, <2>4 DEF ReceiptInv, ResultInv
<1>4. CASE Registered(t) /\ ~Fenced(t) /\ ~HasReceipt(AttemptOf(t)) /\ Receive(t)
  <2>1. AttemptOf(t) \in Nat /\ <<t, AttemptOf(t)>> \in attempts
    BY <1>4, AttemptOfNat, AttemptOfRegistered
  <2>2. /\ receipts' = receipts \cup {<<AttemptOf(t), ReceiptDisposition(t)>>}
        /\ UNCHANGED <<opAtt, attempts, event>>
    BY <1>4 DEF Receive
  <2>3. \A a \in attempts : a[2] = AttemptOf(t) => a[1] = t
    BY <1>1, <2>1 DEF AttemptInv
  <2>4. ReceiptInv'
    BY <1>0, <1>1, <1>4, <2>1, <2>2, <2>3 DEF ReceiptInv
  <2>5. ReceiptDisposition(t) \in Disposition
    BY DEF ReceiptDisposition, Disposition
  <2>6. \A r \in receipts : r[1] # AttemptOf(t)
    BY <1>4, <2>1 DEF HasReceipt, OpTyped
  <2>7. \A r1, r2 \in receipts' : r1[1] = r2[1] => r1 = r2
    BY <2>2, <2>6 DEF ResultInv
  <2>8. \/ UNCHANGED <<opSt, opRes>>
        \/ opSt' = "completed" /\ opRes' = opAtt /\ ~RunActive /\ opSt # "completed"
    BY <1>4 DEF Receive, KeepsLateResult
  <2>9. (event # 0 => opRes = event /\ <<event, "current">> \in receipts')
    BY <2>2 DEF ResultInv
  <2> QED
    BY <2>2, <2>4, <2>7, <2>8, <2>9 DEF ResultInv, RunActive
<1>5. CASE UNCHANGED <<opAtt, attempts, receipts, opRes, event>> /\ opSt' # "completed" /\ opSt # "completed"
  BY <1>0, <1>1, <1>5 DEF ReceiptInv, ResultInv
<1>6. CASE UNCHANGED opVars
  BY <1>0, <1>1, <1>6 DEF ReceiptInv, ResultInv, opVars, RunActive
<1> QED
  BY <1>2, <1>3, <1>4, <1>5, <1>6 DEF Tx, BeginOperation, RecordIntent, CanRecordIntent, MarkUncertain,
     FailOperation, SetOpStatus, CompleteWithEvent, Receive, OpUnresolved

\* Every other step leaves the Operation alone and cannot revive a token.
LEMMA OtherResults ==
  ASSUME Typed, LeaseInv, OperationInv, LeaseMove, UNCHANGED opVars
  PROVE  AttemptInv' /\ ReceiptInv' /\ ResultInv'
<1> USE DEF OperationInv
<1>1. token \in Nat /\ token' \in Nat /\ token <= token'
  BY DEF Typed, TypeOK, FenceTypeOK, LeaseMove, SetRunStatus, LeaseExpires, AcquireSegment,
         AcquireToken, ReleaseSegment, leaseVars
<1>2. \A a \in attempts : a[1] \in Nat /\ a[1] <= token
  BY DEF Typed, TypeOK, FenceTypeOK, AttemptInv
<1>3. \A a \in attempts : ~Fenced(a[1]) => ~Fenced(a[1])'
  BY <1>2, NoRevival
<1>4. RunActive' => RunActive
  BY DEF RunActive, LeaseMove, SetRunStatus, LeaseExpires, AcquireSegment, ReleaseSegment
<1>5. AttemptInv'
  BY <1>1, <1>2 DEF AttemptInv, opVars
<1>6. ReceiptInv'
  BY <1>3 DEF ReceiptInv, opVars, Fenced, RunActive
<1>7. ResultInv'
  BY <1>4 DEF ResultInv, EvidenceIsCurrent, ResultFromLatestAttempt, opVars
<1> QED
  BY <1>5, <1>6, <1>7

LEMMA OperationOpStep ==
  ASSUME Typed, LeaseInv, OperationInv, NEW s \in Segments, OpStep(s)
  PROVE  OperationInv'
<1> USE DEF OperationInv
<1>1. /\ Tx(tok[s]) /\ UNCHANGED <<run, token, owner, live, tok, dpc, dout, dres>>
      /\ tok[s] \in Nat /\ token \in Nat /\ OpTyped
  BY OpStepIsTx DEF leaseVars, driverVars, Typed, TypeOK, FenceTypeOK, OpTyped
<1>2. AttemptInv' /\ ReceiptInv' /\ ResultInv'
  BY <1>1, TxAttempts, TxResults
<1>3. \A u \in Segments : Fenced(tok[u])' <=> Fenced(tok[u])
  BY <1>1 DEF Fenced, RunActive
<1>4. LateInv'
  <2> USE <1>3 DEF LateInv, ActivityTo, ActivityEnds, Typed, TypeOK
  <2>1. CASE Begin(s) \/ Intent(s) \/ ReceiveLate(s) \/ Handle(s)
    BY <2>1 DEF Begin, Intent, ReceiveLate, Handle
  <2>2. CASE Complete(s)
    BY <2>2 DEF Complete
  <2>3. CASE Orphan(s)
    BY <2>3 DEF Orphan
  <2> QED
    BY <2>1, <2>2, <2>3 DEF OpStep
<1>5. Durable => Durable'
  BY <1>1 DEF Durable, Tx, BeginOperation, RecordIntent, CanRecordIntent, MarkUncertain, OpUnresolved,
     FailOperation, SetOpStatus, CompleteWithEvent, Receive, opVars
<1>6. \A u \in Segments : aout'[u] = "ok" => aout[u] = "ok" \/ Durable'
  <2> USE DEF ActivityTo, ActivityEnds, Typed, TypeOK
  <2>1. CASE Begin(s)
    <3>1. Fenced(tok[s]) /\ opSt = "completed" => Durable
      BY DEF ResultInv, EvidenceIsCurrent, Durable, Fenced
    <3> QED
      BY <1>5, <2>1, <3>1 DEF Begin
  <2>2. CASE Complete(s)
    <3>1. Registered(tok[s])
      BY <2>2 DEF Complete, Past, BodyStep
    <3>2. ASSUME Fenced(tok[s]) PROVE Durable'
      <4>1. AttemptOf(tok[s]) = opAtt /\ opAtt >= 1
        BY <1>1, <3>1, <3>2, FencedIsLatest
      <4>2. <<tok[s], AttemptOf(tok[s])>> \in attempts
        BY <3>1, AttemptOfRegistered
      <4>3. CASE event # 0
        BY <1>5, <4>3 DEF ResultInv, Durable
      <4>4. CASE event = 0
        <5>1. opSt # "completed"
          BY <3>2, <4>4 DEF ResultInv, EvidenceIsCurrent, Fenced
        <5>2. ~HasReceipt(AttemptOf(tok[s]))
          BY <3>2, <4>2, <4>4 DEF HasReceipt, ReceiptInv
        <5> QED
          BY <1>1, <2>2, <3>2, <4>1, <4>4, <5>1, <5>2 DEF Complete, CompleteWithEvent, Durable, OpTyped
      <4> QED BY <4>3, <4>4
    <3> QED
      BY <2>2, <3>2 DEF Complete
  <2>3. CASE Handle(s)
    <3>1. HandlerOutcome(s) # "ok"
      BY DEF HandlerOutcome
    <3> QED
      BY <2>3, <3>1 DEF Handle
  <2>4. CASE Intent(s) \/ ReceiveLate(s) \/ Orphan(s)
    BY <2>4 DEF Intent, ReceiveLate, Orphan
  <2> QED
    BY <2>1, <2>2, <2>3, <2>4 DEF OpStep
<1>7. ReportInv'
  BY <1>1, <1>5, <1>6 DEF ReportInv
<1> QED
  BY <1>2, <1>4, <1>7

LEMMA OperationOther ==
  ASSUME Typed, LeaseInv, OperationInv, LeaseMove,
         DriverAction \/ LeaseStep \/ (\E s \in Segments : LocalStep(s))
  PROVE  OperationInv'
<1> USE DEF OperationInv
<1>0. /\ dpc = "acquire" => apc[seg] = "none" /\ orphan[seg] = "none"
      /\ dpc = "backoff" => seg < MaxSegments
  BY DEF LeaseInv, StartedInv, SegmentInv, Typed, TypeOK, BodyStep
<1>1. UNCHANGED opVars
  BY <1>0, TypedDriver, TypedLease, TypedLocal DEF fenceVars
<1>2. AttemptInv' /\ ReceiptInv' /\ ResultInv'
  BY <1>1, OtherResults
<1>3. Durable' <=> Durable
  BY <1>1 DEF Durable, opVars
<1>4. \A s \in Segments : apc[s] # "none" /\ tok'[s] = tok[s] /\ ~Fenced(tok[s]) => ~Fenced(tok[s])'
  <2>1. \A s \in Segments : apc[s] # "none" => tok[s] \in Nat /\ tok[s] <= token
    BY DEF LeaseInv, TokenInv, Typed, TypeOK
  <2>2. \A t \in Nat : t <= token /\ ~Fenced(t) => ~(RunActive' /\ live' /\ token' = t)
    BY NoRevival DEF Fenced
  <2> QED
    BY <2>1, <2>2 DEF Fenced
<1>5. /\ \A s \in Segments : "receive" \in {apc'[s], orphan'[s]} =>
                               "receive" \in {apc[s], orphan[s]} /\ tok'[s] = tok[s]
      /\ \A s \in Segments : aout'[s] = "ok" => aout[s] = "ok"
  <2> USE DEF Typed, TypeOK
  <2>1. CASE DriverAction
    <3>1. CASE AcquireAnswered
      BY <1>0, <3>1 DEF AcquireAnswered
    <3>2. CASE ~AcquireAnswered
      BY <2>1, <3>2 DEF DriverAction, DriverStep, AcquireCancelled, ActivityAnswered, WorkerLost, Release,
         Backoff, BackoffCancelled, ActivityTimesOut, ControlTimesOut, activityVars
    <3> QED BY <3>1, <3>2
  <2>2. CASE LeaseStep
    BY <2>2, TypedLease DEF activityVars
  <2>3. ASSUME NEW s \in Segments, LocalStep(s)
        PROVE  /\ \A u \in Segments : "receive" \in {apc'[u], orphan'[u]} =>
                                     "receive" \in {apc[u], orphan[u]} /\ tok'[u] = tok[u]
               /\ \A u \in Segments : aout'[u] = "ok" => aout[u] = "ok"
    <3> USE DEF ActivityTo, ActivityEnds
    <3>1. CASE Renew(s) \/ Reconcile(s) \/ Dispatch(s) \/ Effect(s) \/ Raises(s)
      BY <3>1 DEF Renew, Reconcile, Dispatch, Effect, Raises
    <3>2. CASE Cancel(s)
      BY <3>2 DEF Cancel, Awaited
    <3>3. CASE Crash(s)
      BY <3>3 DEF Crash
    <3> QED
      BY <2>3, <3>1, <3>2, <3>3 DEF LocalStep
  <2> QED
    BY <2>1, <2>2, <2>3
<1>6. LateInv'
  <2>1. \A s \in Segments : "receive" \in {apc[s], orphan[s]} => apc[s] # "none"
    BY DEF LeaseInv, StartedInv
  <2> QED
    BY <1>4, <1>5, <2>1 DEF LateInv
<1>7. /\ dout' = "ok" => dout = "ok" \/ \E s \in Segments : aout[s] = "ok"
      /\ dres' = "result" => dres = "result" \/ dout = "ok"
  <2>1. CASE DriverAction
    BY <2>1 DEF DriverAction, DriverStep, AcquireAnswered, AcquireCancelled, ActivityAnswered, WorkerLost,
       Release, Verdict, Backoff, BackoffCancelled, ActivityTimesOut, ControlTimesOut, DriverTo, driverVars,
       Typed, TypeOK
  <2>2. CASE ~DriverAction
    BY <2>2, TypedLease, TypedLocal DEF driverVars
  <2> QED BY <2>1, <2>2
<1>8. ReportInv'
  BY <1>3, <1>5, <1>7 DEF ReportInv
<1> QED
  BY <1>2, <1>6, <1>8
-----------------------------------------------------------------------------
(* Layer 4: the external effect *)

\* The call of segment s may still take effect.
Window(s) == "effect" \in {apc[s], orphan[s]}

\* It has not happened, and nobody is about to make it happen.
Quiet == effects = 0 /\ \A s \in Segments : ~Window(s)

Recorded == opSt \in {"intent_recorded", "uncertain", "completed"}

\* One window at a time, and none once the tool took effect; an Activity that
\* holds the fence without the flag knows that nothing has happened.
EffectInv ==
  /\ effects <= 1
  /\ \A s \in Segments : Window(s) => effects = 0
  /\ \A s, u \in Segments : Window(s) /\ Window(u) => s = u
  /\ Quiet \/ Recorded
  /\ \A s \in Segments : apc[s] \in BodyStep \cup Handler /\ ~may[s] /\ Fenced(tok[s]) => Quiet
  /\ \A s \in Segments : apc[s] \in {"renew", "intent", "dispatch"} => may[s] = prior[s]
  /\ \A s \in Segments : apc[s] = "dispatch" =>
                           ~prior[s] /\ (Fenced(tok[s]) => opSt = "intent_recorded")

LEMMA EffectInit == Init => EffectInv
  BY DEF Init, EffectInv, Quiet, Window, BodyStep, Handler

\* Two Activities are never both fenced.
LEMMA OneFence ==
  ASSUME Typed, LeaseInv, NEW s \in Segments, NEW u \in Segments,
         apc[s] # "none", apc[u] # "none", Fenced(tok[s]), Fenced(tok[u])
  PROVE  s = u
  BY DEF LeaseInv, TokenInv, OneFencedActivity, Fenced

LEMMA EffectDriverLease ==
  ASSUME Typed, LeaseInv, EffectInv, LeaseMove, DriverAction \/ LeaseStep
  PROVE  EffectInv'
<1>0. /\ dpc = "acquire" => apc[seg] = "none" /\ orphan[seg] = "none"
      /\ dpc = "backoff" => seg < MaxSegments
  BY DEF LeaseInv, StartedInv, SegmentInv, Typed, TypeOK, BodyStep
<1>1. opSt' = opSt
  BY <1>0, TypedDriver, TypedLease DEF opVars
<1>2. effects' = effects /\ orphan' = orphan /\ may' = may /\ prior' = prior
  BY TypedLease DEF DriverAction, DriverStep, AcquireAnswered, AcquireCancelled, ActivityAnswered, WorkerLost,
     Release, Backoff, BackoffCancelled, ActivityTimesOut, ControlTimesOut, activityVars
<1>3. \A s \in Segments : \/ apc'[s] = apc[s] /\ tok'[s] = tok[s]
                          \/ apc'[s] = "begin" /\ apc[s] = "none" /\ orphan[s] = "none"
  <2>1. CASE AcquireAnswered
    <3>1. /\ apc' = [apc EXCEPT ![seg] = "begin"]
          /\ tok' = [tok EXCEPT ![seg] = AcquireToken(seg)]
          /\ dpc = "acquire"
      BY <2>1 DEF AcquireAnswered
    <3>2. apc \in [Segments -> ActivityPc] /\ tok \in [Segments -> Nat] /\ seg \in Segments
      BY DEF Typed, TypeOK
    <3>3. \A s \in Segments : s # seg => apc'[s] = apc[s] /\ tok'[s] = tok[s]
      BY <3>1, <3>2
    <3>4. apc'[seg] = "begin"
      BY <3>1, <3>2
    <3> QED BY <1>0, <3>1, <3>3, <3>4
  <2>2. CASE ~AcquireAnswered
    <3>1. CASE DriverAction
      BY <2>2, <3>1 DEF DriverAction, DriverStep, AcquireCancelled, ActivityAnswered, WorkerLost, Release,
         Backoff, BackoffCancelled, ActivityTimesOut, ControlTimesOut, activityVars
    <3>2. CASE LeaseStep
      BY <3>2, TypedLease DEF activityVars
    <3> QED BY <3>1, <3>2
  <2> QED BY <2>1, <2>2
<1>4. \A s \in Segments : Window(s)' <=> Window(s)
  BY <1>2, <1>3 DEF Window
<1>5. \A s \in Segments : apc[s] # "none" /\ tok'[s] = tok[s] /\ ~Fenced(tok[s]) => ~Fenced(tok[s])'
  <2>1. \A s \in Segments : apc[s] # "none" => tok[s] \in Nat /\ tok[s] <= token
    BY DEF LeaseInv, TokenInv, Typed, TypeOK
  <2>2. \A t \in Nat : t <= token /\ ~Fenced(t) => ~(RunActive' /\ live' /\ token' = t)
    BY NoRevival DEF Fenced
  <2> QED
    BY <2>1, <2>2 DEF Fenced
<1>6. Quiet' <=> Quiet
  BY <1>2, <1>4 DEF Quiet
<1>7. Recorded' <=> Recorded
  BY <1>1 DEF Recorded
<1>8. \A s \in Segments : apc'[s] # "begin" => apc'[s] = apc[s] /\ tok'[s] = tok[s]
  BY <1>3
<1>9. \A s \in Segments :
        apc'[s] \in BodyStep \cup Handler /\ ~may'[s] /\ Fenced(tok[s])' => Quiet'
  BY <1>2, <1>5, <1>6, <1>8 DEF EffectInv, BodyStep, Handler
<1>10. \A s \in Segments : apc'[s] = "dispatch" =>
                            ~prior'[s] /\ (Fenced(tok[s])' => opSt' = "intent_recorded")
  BY <1>1, <1>2, <1>5, <1>8 DEF EffectInv
<1>11. \A s \in Segments : apc'[s] \in {"renew", "intent", "dispatch"} => may'[s] = prior'[s]
  BY <1>2, <1>8 DEF EffectInv
<1> QED
  BY <1>2, <1>4, <1>6, <1>7, <1>9, <1>10, <1>11 DEF EffectInv

\* What a transaction does to the recorded status, and who may change it.
LEMMA TxStatus ==
  ASSUME NEW t, Tx(t)
  PROVE  /\ Recorded => Recorded' \/ (FailOperation(t) /\ Fenced(t))
         /\ opSt' # opSt => Fenced(t) \/ ~RunActive
  BY DEF Tx, BeginOperation, RecordIntent, CanRecordIntent, MarkUncertain, OpUnresolved, FailOperation,
     SetOpStatus, CompleteWithEvent, Receive, KeepsLateResult, opVars, Recorded

\* A step of the Activity of s, when it keeps what EffectInv says of s.
LEMMA EffectFrame ==
  ASSUME Typed, LeaseInv, EffectInv, NEW s \in Segments, apc[s] # "none",
         UNCHANGED <<run, token, live, tok>>,
         \A u \in Segments \ {s} : UNCHANGED <<apc[u], orphan[u], may[u], prior[u]>>,
         Window(s)' => Window(s),
         effects' = effects \/ (Window(s) /\ effects' = effects + 1 /\ ~Window(s)'),
         Recorded => Recorded' \/ Quiet,
         opSt' # opSt => Fenced(tok[s]) \/ ~RunActive,
         apc'[s] \in BodyStep \cup Handler /\ ~may'[s] /\ Fenced(tok[s]) =>
            Quiet \/ (apc[s] \in BodyStep \cup Handler /\ ~may[s]),
         apc'[s] \in {"renew", "intent", "dispatch"} => may'[s] = prior'[s],
         apc'[s] = "dispatch" => ~prior'[s] /\ (Fenced(tok[s]) => opSt' = "intent_recorded")
  PROVE  EffectInv'
<1>1. \A u \in Segments : Fenced(tok[u])' <=> Fenced(tok[u])
  BY DEF Fenced, RunActive
<1>2. \A u \in Segments : Window(u)' => Window(u)
  BY DEF Window
<1>3. effects \in Nat
  BY DEF Typed, TypeOK
<1>4. Quiet => Quiet'
  BY <1>2 DEF Quiet
<1>5. Quiet' \/ Recorded'
  BY <1>4 DEF EffectInv
<1>6. \A u \in Segments : apc'[u] \in BodyStep \cup Handler /\ ~may'[u] /\ Fenced(tok[u])' => Quiet'
  BY <1>1, <1>4 DEF EffectInv
<1>7. \A u \in Segments \ {s} : apc[u] = "dispatch" /\ Fenced(tok[u]) => opSt' = "intent_recorded"
  BY OneFence DEF EffectInv, Fenced
<1>8. \A u \in Segments : apc'[u] = "dispatch" =>
                           ~prior'[u] /\ (Fenced(tok[u])' => opSt' = "intent_recorded")
  BY <1>1, <1>7 DEF EffectInv
<1>9. \A u \in Segments : Window(u)' => effects' = 0
  BY <1>2 DEF EffectInv
<1>10. effects' <= 1
  BY <1>3 DEF EffectInv
<1> QED
  BY <1>2, <1>5, <1>6, <1>8, <1>9, <1>10 DEF EffectInv

\* Opening the window: the fence and the missing flag say that it is the first.
LEMMA EffectDispatch ==
  ASSUME Typed, LeaseInv, EffectInv, NonIdempotent, NEW s \in Segments, Dispatch(s), Fenced(tok[s])
  PROVE  EffectInv'
<1>1. /\ apc[s] = "dispatch" /\ apc' = [apc EXCEPT ![s] = "effect"] /\ may' = [may EXCEPT ![s] = TRUE]
      /\ UNCHANGED <<orphan, prior, tok, effects, opSt, run, token, live>>
  BY DEF Dispatch, ActivityTo, fenceVars, leaseVars, opVars
<1>2. ~may[s] /\ opSt = "intent_recorded"
  BY <1>1 DEF EffectInv, Typed, TypeOK
<1>3. Quiet
  BY <1>1, <1>2 DEF EffectInv, BodyStep
<1>4. \A u \in Segments : Window(u)' => u = s
  BY <1>1, <1>3 DEF Window, Quiet, Typed, TypeOK
<1>5. \A u \in Segments \ {s} : apc[u] # "none" => ~Fenced(tok[u])
  BY <1>1, OneFence
<1>6. \A u \in Segments : Fenced(tok[u])' <=> Fenced(tok[u])
  BY <1>1 DEF Fenced, RunActive
<1>7. \A u \in Segments : apc'[u] \in BodyStep \cup Handler /\ ~may'[u] => ~Fenced(tok[u])'
  BY <1>1, <1>5, <1>6 DEF Typed, TypeOK, BodyStep, Handler
<1>8. \A u \in Segments : apc'[u] = "dispatch" => ~prior'[u] /\ ~Fenced(tok[u])'
  BY <1>1, <1>5, <1>6 DEF EffectInv, Typed, TypeOK
<1>9. \A u \in Segments : apc'[u] \in {"renew", "intent", "dispatch"} => may'[u] = prior'[u]
  BY <1>1 DEF EffectInv, Typed, TypeOK
<1>10. Recorded' /\ effects' = 0
  BY <1>1, <1>2, <1>3 DEF Recorded, Quiet
<1> QED
  BY <1>4, <1>7, <1>8, <1>9, <1>10 DEF EffectInv

LEMMA EffectLocal ==
  ASSUME Typed, LeaseInv, EffectInv, NonIdempotent, NEW s \in Segments, LocalStep(s)
  PROVE  EffectInv'
<1>1. CASE Dispatch(s) /\ Fenced(tok[s])
  BY <1>1, EffectDispatch
<1>2. CASE ~(Dispatch(s) /\ Fenced(tok[s]))
  <2>1. apc[s] # "none"
    BY DEF LocalStep, Renew, Reconcile, Dispatch, Effect, Raises, Cancel, Crash, BodyStep, LeaseInv, StartedInv
  <2>2. UNCHANGED <<run, token, live, tok, opSt>>
    BY TypedLocal DEF fenceVars, leaseVars, opVars
  <2>3. /\ \A u \in Segments \ {s} : UNCHANGED <<apc[u], orphan[u], may[u], prior[u]>>
        /\ UNCHANGED <<may, prior>>
    BY <1>2 DEF LocalStep, Renew, Reconcile, Dispatch, Effect, Raises, Cancel, Crash, ActivityTo, ActivityEnds,
       Typed, TypeOK
  <2>4. /\ Window(s)' => Window(s)
        /\ effects' = effects \/ (Window(s) /\ effects' = effects + 1 /\ ~Window(s)')
    <3> USE DEF Window, ActivityTo, ActivityEnds, Typed, TypeOK
    <3>1. CASE Renew(s) \/ Reconcile(s) \/ Dispatch(s) \/ Raises(s)
      BY <1>2, <3>1 DEF Renew, Reconcile, Dispatch, Raises
    <3>2. CASE Effect(s)
      <4>1. orphan[s] = "none"
        BY <3>2 DEF Effect, LeaseInv, StartedInv, BodyStep
      <4> QED
        BY <3>2, <4>1 DEF Effect
    <3>3. CASE Cancel(s)
      BY <3>3 DEF Cancel, Awaited
    <3>4. CASE Crash(s)
      BY <3>4 DEF Crash
    <3> QED
      BY <3>1, <3>2, <3>3, <3>4 DEF LocalStep
  <2>5. /\ apc'[s] \in BodyStep \cup Handler => apc[s] \in BodyStep \cup Handler
        /\ apc'[s] \in {"renew", "intent", "dispatch"} => apc[s] \in {"renew", "intent"}
        /\ apc'[s] # "dispatch"
    <3> USE DEF ActivityTo, ActivityEnds, BodyStep, Handler, Typed, TypeOK
    <3>1. CASE Renew(s) \/ Reconcile(s) \/ Dispatch(s)
      BY <1>2, <3>1 DEF Renew, Reconcile, Dispatch
    <3>2. CASE Effect(s) \/ Raises(s)
      BY <3>2 DEF Effect, Raises
    <3>3. CASE Cancel(s) \/ Crash(s)
      BY <3>3 DEF Cancel, Crash
    <3> QED
      BY <3>1, <3>2, <3>3 DEF LocalStep
  <2>6. /\ apc'[s] \in BodyStep \cup Handler /\ ~may'[s] /\ Fenced(tok[s]) =>
             Quiet \/ (apc[s] \in BodyStep \cup Handler /\ ~may[s])
        /\ apc'[s] \in {"renew", "intent", "dispatch"} => may'[s] = prior'[s]
    BY <2>3, <2>5 DEF EffectInv
  <2>7. Recorded => Recorded'
    BY <2>2 DEF Recorded
  <2> QED
    BY <2>1, <2>2, <2>3, <2>4, <2>5, <2>6, <2>7, EffectFrame
<1> QED
  BY <1>1, <1>2

LEMMA EffectOpStep ==
  ASSUME Typed, LeaseInv, OperationInv, EffectInv, NonIdempotent, NEW s \in Segments, OpStep(s)
  PROVE  EffectInv'
<1>1. Tx(tok[s]) /\ UNCHANGED <<run, token, live, tok>>
  BY OpStepIsTx DEF OperationInv, leaseVars
<1>2. /\ Recorded => Recorded' \/ (FailOperation(tok[s]) /\ Fenced(tok[s]))
      /\ opSt' # opSt => Fenced(tok[s]) \/ ~RunActive
  BY <1>1, TxStatus
<1>3. apc[s] # "none"
  BY DEF OpStep, Begin, Intent, Complete, ReceiveLate, Handle, Handler, Orphan, LeaseInv, StartedInv
<1>4. \A u \in Segments \ {s} : UNCHANGED <<apc[u], orphan[u], may[u], prior[u]>>
  BY DEF OpStep, Begin, Intent, Complete, ReceiveLate, Handle, Orphan, ActivityTo, ActivityEnds, Typed, TypeOK
<1>5. CASE Begin(s)
  <2>1. Window(s)' => Window(s)
    BY <1>5 DEF Begin, Window, ActivityTo, ActivityEnds, Typed, TypeOK
  <2>2. Recorded => Recorded'
    BY <1>5 DEF Begin, BeginOperation, Recorded, OpUnresolved, opVars
  <2>3. apc'[s] \in BodyStep \cup Handler /\ ~may'[s] => Quiet
    <3>1. apc'[s] \in BodyStep \cup Handler => Fenced(tok[s]) /\ opSt # "completed"
      BY <1>5 DEF Begin, ActivityTo, ActivityEnds, BodyStep, Handler, Typed, TypeOK
    <3>2. ~may'[s] /\ Fenced(tok[s]) => ~OpUnresolved
      BY <1>5 DEF Begin, Typed, TypeOK
    <3> QED
      BY <3>1, <3>2 DEF EffectInv, Recorded, OpUnresolved
  <2>4. apc'[s] \in {"renew", "intent", "dispatch"} => may'[s] = prior'[s]
    BY <1>5 DEF Begin, Typed, TypeOK
  <2>5. apc'[s] # "dispatch" /\ effects' = effects
    BY <1>5 DEF Begin, ActivityTo, ActivityEnds, Typed, TypeOK
  <2> QED
    BY <1>1, <1>2, <1>3, <1>4, <2>1, <2>2, <2>3, <2>4, <2>5, EffectFrame
<1>6. CASE Intent(s) \/ Complete(s) \/ ReceiveLate(s)
  <2> USE DEF ActivityTo, ActivityEnds, Typed, TypeOK
  <2>1. Window(s)' => Window(s)
    BY <1>6 DEF Intent, Complete, ReceiveLate, Window
  <2>2. Recorded => Recorded'
    BY <1>6 DEF Intent, Complete, ReceiveLate, RecordIntent, CanRecordIntent, SetOpStatus, CompleteWithEvent,
       Receive, Recorded, opVars
  <2>3. may' = may /\ prior' = prior /\ effects' = effects /\ apc[s] \in BodyStep
    BY <1>6 DEF Intent, Complete, ReceiveLate, BodyStep
  <2>4. apc'[s] \in {"renew", "intent", "dispatch"} =>
          apc[s] = "intent" /\ ~prior[s] /\ opSt' = "intent_recorded"
    BY <1>6 DEF Intent, Complete, ReceiveLate, RecordIntent, SetOpStatus
  <2>5. apc'[s] \in {"renew", "intent", "dispatch"} => may'[s] = prior'[s]
    BY <2>3, <2>4 DEF EffectInv
  <2> QED
    BY <1>1, <1>2, <1>3, <1>4, <2>1, <2>2, <2>3, <2>4, <2>5, EffectFrame
<1>7. CASE Handle(s)
  <2>1. /\ Window(s)' => Window(s)
        /\ effects' = effects /\ apc'[s] = "ended" /\ apc[s] \in Handler
    BY <1>7 DEF Handle, ActivityEnds, Window, Typed, TypeOK
  <2>2. Recorded => Recorded' \/ Quiet
    <3>1. CASE may[s]
      BY <1>7, <3>1 DEF Handle, MarkUncertain, SetOpStatus, Recorded, opVars
    <3>2. CASE ~may[s] /\ Fenced(tok[s])
      BY <2>1, <3>2 DEF EffectInv
    <3>3. CASE ~may[s] /\ ~Fenced(tok[s])
      BY <1>7, <3>3 DEF Handle, FailOperation, Recorded, opVars
    <3> QED BY <3>1, <3>2, <3>3
  <2>3. apc'[s] \notin BodyStep \cup Handler /\ apc'[s] \notin {"renew", "intent", "dispatch"}
    BY <2>1 DEF BodyStep, Handler
  <2> QED
    BY <1>1, <1>2, <1>3, <1>4, <2>1, <2>2, <2>3, EffectFrame
<1>8. CASE Orphan(s)
  <2>1. apc' = apc /\ may' = may /\ prior' = prior /\ orphan[s] # "none"
    BY <1>8 DEF Orphan
  <2>2. apc[s] \notin BodyStep
    BY <2>1 DEF LeaseInv, StartedInv
  <2>3. apc[s] # "effect" /\ apc[s] \notin {"renew", "intent", "dispatch"}
    BY <2>2 DEF BodyStep
  <2>4. /\ ~Window(s)'
        /\ effects' = effects \/ (Window(s) /\ effects' = effects + 1)
    BY <1>8, <2>1, <2>3 DEF Orphan, Window, Typed, TypeOK
  <2>5. Recorded => Recorded'
    BY <1>8 DEF Orphan, BeginOperation, RecordIntent, CanRecordIntent, SetOpStatus, CompleteWithEvent, Receive,
       OpUnresolved, Recorded, opVars
  <2> QED
    BY <1>1, <1>2, <1>3, <1>4, <2>1, <2>3, <2>4, <2>5, EffectFrame
<1> QED
  BY <1>5, <1>6, <1>7, <1>8 DEF OpStep
-----------------------------------------------------------------------------
(* The inductive invariant and the theorems *)

Safe == Typed /\ LeaseInv /\ OperationInv /\ (NonIdempotent => EffectInv)

LEMMA SafeInit == Init => Safe
<1> SUFFICES ASSUME Init PROVE Safe
  OBVIOUS
<1>1. AttemptInv /\ ReceiptInv /\ ResultInv
  BY DEF Init, FenceInit, AttemptInv, ReceiptInv, ResultInv, EvidenceIsCurrent, ResultFromLatestAttempt
<1>2. LateInv /\ ReportInv
  BY DEF Init, LateInv, ReportInv
<1> QED
  BY <1>1, <1>2, TypedInit, LeaseInit, EffectInit DEF Safe, OperationInv

LEMMA ClassFixed ==
  ASSUME Typed, LeaseInv, Next
  PROVE  cls' = cls
<1>1. /\ dpc = "acquire" => apc[seg] = "none" /\ orphan[seg] = "none"
      /\ dpc = "backoff" => seg < MaxSegments
  BY DEF LeaseInv, StartedInv, SegmentInv, Typed, TypeOK, BodyStep
<1> QED
  BY <1>1, NextCases, TypedDriver, TypedLease, OpStepTx, TypedLocal DEF fenceVars

LEMMA SafeNext ==
  ASSUME Safe, [Next]_vars
  PROVE  Safe'
<1> USE DEF Safe
<1>1. Typed' /\ LeaseInv'
  BY TypedLeaseNext
<1>2. CASE Next
  <2>1. LeaseMove /\ cls' = cls
    BY <1>2, NextLeaseMove, ClassFixed
  <2>2. OperationInv'
    BY <1>2, <2>1, NextCases, OperationOpStep, OperationOther
  <2>3. NonIdempotent => EffectInv'
    BY <1>2, <2>1, NextCases, EffectDriverLease, EffectLocal, EffectOpStep
  <2> QED
    BY <1>1, <2>1, <2>2, <2>3 DEF NonIdempotent
<1>3. CASE UNCHANGED vars
  <2>1. OperationInv'
    BY <1>3 DEF vars, OperationInv, AttemptInv, ReceiptInv, ResultInv, EvidenceIsCurrent,
       ResultFromLatestAttempt, LateInv, ReportInv, Durable, Fenced, RunActive, fenceVars, leaseVars, opVars,
       driverVars, activityVars
  <2>2. (NonIdempotent => EffectInv)'
    BY <1>3 DEF vars, NonIdempotent, EffectInv, Quiet, Window, Recorded, Fenced, RunActive, fenceVars, leaseVars,
       opVars, activityVars
  <2> QED
    BY <1>1, <2>1, <2>2
<1> QED
  BY <1>2, <1>3

LEMMA AlwaysSafe == Spec => []Safe
  BY SafeInit, SafeNext, PTL DEF Spec

\* The variables of the store and of the actors keep their types.
THEOREM TypeCorrect == Spec => []TypeOK
<1>1. Safe => TypeOK
  BY DEF Safe, Typed
<1> QED
  BY <1>1, AlwaysSafe, PTL

\* A tool that is not idempotent takes effect at most once, however many
\* segments, timeouts, crashes, cancellations and late executions there are.
THEOREM AtMostOneEffect == Spec => []EffectOnce
<1>1. Safe => EffectOnce
  BY DEF Safe, EffectOnce, EffectInv
<1> QED
  BY <1>1, AlwaysSafe, PTL

\* Once it took effect the Operation is never recorded as failed or restarted.
THEOREM EffectsAreAccounted == Spec => []EffectAccounted
<1>1. Safe => EffectAccounted
  BY DEF Safe, EffectAccounted, EffectInv, Quiet, Recorded, Typed, TypeOK
<1> QED
  BY <1>1, AlwaysSafe, PTL

\* A completed Operation holds the result of its latest attempt.
THEOREM ResultIsLatest == Spec => []ResultFromLatestAttempt
<1>1. Safe => ResultFromLatestAttempt
  BY DEF Safe, OperationInv, ResultInv
<1> QED
  BY <1>1, AlwaysSafe, PTL

\* Transcript, receipts and the Operation agree, and late results stay out of
\* the transcript.
THEOREM EvidenceAgrees == Spec => []EvidenceIsCurrent
<1>1. Safe => EvidenceIsCurrent
  BY DEF Safe, OperationInv, ResultInv
<1> QED
  BY <1>1, AlwaysSafe, PTL

\* A reported result is completed and in the transcript.
THEOREM ResultsAreDurable == Spec => []ReportedResultIsDurable
<1>1. Safe => ReportedResultIsDurable
  BY DEF Safe, OperationInv, ReportInv, Durable, ReportedResultIsDurable
<1> QED
  BY <1>1, AlwaysSafe, PTL

\* No lease lives on across the backoff or after the end of execute_segment.
THEOREM BackoffHoldsNoLease == Spec => []NoLeaseAcrossBackoff
<1>1. ASSUME Safe PROVE NoLeaseAcrossBackoff
  <2>1. \A s \in Segments : SegmentClosed(s) => ~(live /\ owner = s)
    BY <1>1 DEF Safe, LeaseInv, SegmentInv, SegmentClosed, Segments
  <2>2. ASSUME dpc \in {"backoff", "done"} PROVE ~live
    <3>1. ASSUME live PROVE owner \in Segments /\ owner <= seg /\ segSt[owner] = "active"
      BY <1>1, <3>1 DEF Safe, LeaseInv, SegmentInv, Typed, TypeOK, FenceTypeOK, Segments
    <3>2. segSt[seg] = "released" /\ \A s \in Segments : s < seg => segSt[s] = "released"
      BY <1>1, <2>2 DEF Safe, LeaseInv, SegmentInv
    <3>3. seg \in Segments /\ seg \in Nat
      BY <1>1, SegmentIsNat DEF Safe, Typed, TypeOK
    <3>4. ASSUME live PROVE FALSE
      <4>1. owner \in Nat /\ owner <= seg /\ segSt[owner] = "active" /\ owner \in Segments
        BY <3>1, <3>4, SegmentIsNat
      <4>2. CASE owner = seg
        BY <4>1, <4>2, <3>2
      <4>3. CASE owner < seg
        BY <4>1, <4>3, <3>2
      <4> QED BY <4>1, <4>2, <4>3, <3>3
    <3> QED BY <3>4
  <2> QED
    BY <2>1, <2>2 DEF NoLeaseAcrossBackoff
<1> QED
  BY <1>1, AlwaysSafe, PTL

\* At most one Activity passes a fence check.
THEOREM OneActivityIsFenced == Spec => []OneFencedActivity
<1>1. Safe => OneFencedActivity
  BY DEF Safe, LeaseInv, TokenInv
<1> QED
  BY <1>1, AlwaysSafe, PTL

\* A token that lost its authority stays without it.
THEOREM TokensStayRevoked == Spec => NoTokenRevival
<1>1. ASSUME Safe, [Next]_vars
      PROVE  [\A s \in Segments : apc[s] # "none" /\ ~Fenced(tok[s]) => ~Fenced(tok[s])']_vars
  <2>1. CASE Next
    <3>1. LeaseMove
      BY <1>1, <2>1, NextLeaseMove DEF Safe
    <3>2. \A t \in Nat : t <= token /\ ~Fenced(t) => ~(RunActive' /\ live' /\ token' = t)
      BY <1>1, <3>1, NoRevival DEF Safe, Fenced
    <3>3. \A s \in Segments : apc[s] # "none" => tok[s] \in Nat /\ tok[s] <= token
      BY <1>1 DEF Safe, LeaseInv, TokenInv, Typed, TypeOK
    <3>4. \A s \in Segments : apc[s] # "none" => tok'[s] = tok[s]
      <4>1. CASE AcquireAnswered
        BY <1>1, <4>1 DEF AcquireAnswered, Safe, LeaseInv, StartedInv, Typed, TypeOK
      <4>2. CASE DriverAction /\ ~AcquireAnswered
        BY <4>2 DEF DriverAction, DriverStep, AcquireCancelled, ActivityAnswered, WorkerLost, Release, Backoff,
           BackoffCancelled, ActivityTimesOut, ControlTimesOut, activityVars
      <4>3. CASE LeaseStep
        BY <1>1, <4>3, TypedLease DEF activityVars, Safe
      <4>4. ASSUME NEW s \in Segments, OpStep(s) \/ LocalStep(s)
            PROVE  tok' = tok
        BY <1>1, <4>4, OpStepTx, TypedLocal DEF Safe
      <4> QED
        BY <2>1, <4>1, <4>2, <4>3, <4>4, NextCases
    <3> QED
      BY <3>2, <3>3, <3>4 DEF Fenced
  <2>2. CASE UNCHANGED vars
    BY <2>2
  <2> QED
    BY <1>1, <2>1, <2>2
<1> QED
  BY <1>1, AlwaysSafe, PTL DEF Spec, NoTokenRevival

\* What the run of this module checks as one invariant: types, the latest result,
\* its evidence, the lease across the backoff and the fence of one Execution.
THEOREM ExecutionIsSafe == Spec => []Safety
<1> QED
  BY TypeCorrect, ResultIsLatest, EvidenceAgrees, BackoffHoldsNoLease, OneActivityIsFenced, PTL DEF Safety
===============================================================================
