----------------------------- MODULE FenceStore -----------------------------
(***************************************************************************)
(* The PostgreSQL facts that fence one Execution of a Run and the one tool *)
(* Operation it performs, and the transactions on them.  Every operator    *)
(* below is one transaction of the code: it locks the Run and Execution    *)
(* rows first, so transactions on one Run are serial.                      *)
(*                                                                         *)
(* Segments are numbered by the attempt of execute_segment that creates    *)
(* them; 0 is SQL NULL.                                                    *)
(***************************************************************************)
EXTENDS Naturals, FiniteSets

CONSTANT MaxSegments   \* retry_policy.maximum_attempts of execute_segment

ASSUME SegmentAssumption == MaxSegments \in Nat \ {0}

VARIABLES
  run,       \* status of the Run (and, by trigger, of its root Execution)
  token,     \* execution_attempt_leases.fencing_token; 0 while the row is absent
  owner,     \* owner_segment_id
  live,      \* lease_expires_at > clock_timestamp()
  segSt,     \* segSt[s]: state of agent_execution_segments row s
  cls,       \* side effect class of the tool
  opSt,      \* status of the execution_operations row
  opAtt,     \* attempt_count
  attempts,  \* execution_operation_attempts: pairs <<fencing_token, attempt_no>>
  receipts,  \* execution_result_receipts: pairs <<attempt_no, disposition>>
  opRes,     \* the attempt whose result the completed row holds
  event      \* the attempt whose tool_result the transcript holds

leaseVars == <<token, owner, live, segSt>>
opVars == <<opSt, opAtt, attempts, receipts, opRes, event>>
fenceVars == <<run, leaseVars, cls, opVars>>
-----------------------------------------------------------------------------
Segments == 1..MaxSegments

RunState == {"running", "cancelling", "cancelled", "failed"}
SegmentState == {"none", "active", "released"}
SideEffectClass == {"idempotent_write", "non_idempotent_write"}
OpState == {"none", "started", "intent_recorded", "uncertain", "failed", "completed"}
Disposition == {"current", "stale", "cancelled"}

FenceTypeOK ==
  /\ run \in RunState
  /\ token \in Nat
  /\ owner \in 0..MaxSegments
  /\ live \in BOOLEAN
  /\ segSt \in [Segments -> SegmentState]
  /\ cls \in SideEffectClass
  /\ opSt \in OpState
  /\ opAtt \in Nat
  /\ attempts \in SUBSET (Nat \X Nat)
  /\ receipts \in SUBSET (Nat \X Disposition)
  /\ opRes \in Nat
  /\ event \in Nat

\* The Workflow has prepared the Run; no segment has been requested yet.
FenceInit ==
  /\ run = "running"
  /\ token = 0
  /\ owner = 0
  /\ live = FALSE
  /\ segSt = [s \in Segments |-> "none"]
  /\ cls \in SideEffectClass
  /\ opSt = "none"
  /\ opAtt = 0
  /\ attempts = {}
  /\ receipts = {}
  /\ opRes = 0
  /\ event = 0
-----------------------------------------------------------------------------
(* Run status and the trigger that projects it *)

RunActive == run = "running"

\* project_execution_status: leaving `running` clears the lease and bumps the
\* token of an existing lease row, so every token handed out so far is void.
SetRunStatus(st) ==
  /\ run' = st
  /\ owner' = 0
  /\ live' = FALSE
  /\ token' = IF token = 0 THEN 0 ELSE token + 1
  /\ UNCHANGED <<segSt, cls, opVars>>

\* Wall clock passes lease_expires_at: the row keeps its owner.
LeaseExpires ==
  /\ live
  /\ live' = FALSE
  /\ UNCHANGED <<run, token, owner, segSt, cls, opVars>>
-----------------------------------------------------------------------------
(* Segments *)

\* acquire_segment succeeds; otherwise it raises and nothing is committed.
SegmentClosed(s) == segSt[s] = "released"
LeaseConflict(s) == live /\ owner # s

CanAcquire(s) == RunActive /\ ~SegmentClosed(s) /\ ~LeaseConflict(s)

\* Variations: an owner whose lease expired gets its old token back; a new owner
\* of a free lease gets the old token.
AcquireTokenRevived(s) == IF owner = s THEN token ELSE token + 1
AcquireTokenReused(s) == IF owner \in {0, s} THEN token ELSE token + 1

\* The live owner asking again gets its token back, anybody else a new one.
AcquireToken(s) == IF live /\ owner = s THEN token ELSE token + 1

AcquireSegment(s) ==
  /\ CanAcquire(s)
  /\ token' = AcquireToken(s)
  /\ owner' = s
  /\ live' = TRUE
  /\ segSt' = [segSt EXCEPT ![s] = "active"]
  /\ UNCHANGED <<run, cls, opVars>>

\* release_segment leaves a tombstone even when nothing was acquired.
ReleaseSegment(s) ==
  /\ segSt' = [segSt EXCEPT ![s] = "released"]
  /\ owner' = IF owner = s THEN 0 ELSE owner
  /\ live' = (live /\ owner # s)
  /\ UNCHANGED <<run, token, cls, opVars>>

\* assert_execution_fence / validate_and_renew_lease accept token t.
Fenced(t) == RunActive /\ live /\ token = t
-----------------------------------------------------------------------------
(* The tool Operation: transactions that assert the fence for token t *)

OpUnresolved == opSt \in {"intent_recorded", "uncertain"}

Registered(t) == \E n \in 0..opAtt : <<t, n>> \in attempts
AttemptOf(t) == CHOOSE n \in 0..opAtt : <<t, n>> \in attempts

\* begin_operation(allow_unresolved=True) with register_attempt.
BeginOperation(t) ==
  IF Fenced(t) /\ opSt # "completed"
    THEN /\ opAtt' = IF Registered(t) THEN opAtt ELSE opAtt + 1
         /\ attempts' = IF Registered(t) THEN attempts
                        ELSE attempts \cup {<<t, opAtt + 1>>}
         /\ opSt' = IF OpUnresolved THEN opSt ELSE "started"
         /\ UNCHANGED <<receipts, opRes, event>>
    ELSE UNCHANGED opVars

SetOpStatus(st) ==
  /\ opSt' = st
  /\ UNCHANGED <<opAtt, attempts, receipts, opRes, event>>

CanRecordIntent(t) == Fenced(t) /\ opSt = "started"
RecordIntent(t) ==
  IF CanRecordIntent(t) THEN SetOpStatus("intent_recorded") ELSE UNCHANGED opVars

MarkUncertain(t) ==
  IF Fenced(t) /\ OpUnresolved THEN SetOpStatus("uncertain") ELSE UNCHANGED opVars

FailOperation(t) ==
  IF Fenced(t) /\ opSt # "completed" THEN SetOpStatus("failed") ELSE UNCHANGED opVars

\* A receipt of attempt n, unless one is already held.
HasReceipt(n) == \E d \in Disposition : <<n, d>> \in receipts

\* complete_operation_with_event: transcript CAS, receipt and result at once.
\* An event already there, or a late receipt of this attempt, changes nothing.
CompleteWithEvent(t) ==
  IF Fenced(t) /\ event = 0 /\ opSt # "completed" /\ ~HasReceipt(AttemptOf(t))
    THEN /\ opSt' = "completed"
         /\ opRes' = AttemptOf(t)
         /\ event' = AttemptOf(t)
         /\ receipts' = receipts \cup {<<AttemptOf(t), "current">>}
         /\ UNCHANGED <<opAtt, attempts>>
    ELSE UNCHANGED opVars

\* ResultReceiptService.receive, called once complete_operation was refused.
ReceiptDisposition(t) ==
  CASE run \in {"cancelling", "cancelled"} -> "cancelled"
    [] Fenced(t)                           -> "current"
    [] OTHER                               -> "stale"

\* The late result of the latest attempt is kept once the Run has stopped.
KeepsLateResult(t) ==
  /\ ReceiptDisposition(t) # "current"
  /\ ~RunActive
  /\ AttemptOf(t) = opAtt
  /\ opSt # "completed"

Receive(t) ==
  IF ~Registered(t) \/ HasReceipt(AttemptOf(t)) THEN UNCHANGED opVars
  ELSE /\ receipts' = receipts \cup {<<AttemptOf(t), ReceiptDisposition(t)>>}
       /\ opSt' = IF KeepsLateResult(t) THEN "completed" ELSE opSt
       /\ opRes' = IF KeepsLateResult(t) THEN AttemptOf(t) ELSE opRes
       /\ UNCHANGED <<opAtt, attempts, event>>
=============================================================================
