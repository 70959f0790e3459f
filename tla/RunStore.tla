------------------------------ MODULE RunStore ------------------------------
(***************************************************************************)
(* The PostgreSQL facts about chat Runs, and the short transactions that   *)
(* change them.  A transaction of the code is one UnitOfWork under the     *)
(* account / conversation / Run locks, so it is one atomic step; the       *)
(* operators below are the bodies of those transactions.  What happens     *)
(* between transactions (RPCs, crashes, retries) is in RunDispatch.        *)
(***************************************************************************)
EXTENDS Naturals, FiniteSets

CONSTANTS Runs,     \* Run ids the instance may create
          Convs,    \* conversations
          ConvOf,   \* the conversation each Run id is created in
          Pids,     \* process ids a dispatcher names itself after
          NoPid,    \* locked_by is NULL
          NoRun     \* retry source is NULL

ASSUME StoreAssumption == /\ ConvOf \in [Runs -> Convs]
                          /\ NoPid \notin Pids
                          /\ NoRun \notin Runs

VARIABLES
  runSt,    \* runs.status, "none" before the row exists
  retryOf,  \* runs.retry_of_run_id
  older,    \* older[r]: Runs whose updated_at precedes that of r
  intent,   \* Runs with a cancel row in execution_control_events
  termEv,   \* publish_terminal_event rows, by business key <<run, status>>
  rowSt,    \* status of the current workflow_executions row
  rowTid,   \* is its temporal_run_id set
  evSt,     \* outbox_events.status, by business key <<event type, run>>
  evBy,     \* outbox_events.locked_by
  evAtt     \* outbox_events.attempt_count

runVars == <<runSt, retryOf, older, intent, termEv>>
rowVars == <<rowSt, rowTid>>
evVars  == <<evSt, evBy, evAtt>>
storeVars == <<runVars, rowVars, evVars>>
-----------------------------------------------------------------------------
Active   == {"queued", "running", "cancelling"}
Terminal == {"succeeded", "failed", "cancelled"}
RunStatus == {"none"} \cup Active \cup Terminal

OpenRow   == {"scheduled", "running", "cancel_requested"}
ClosedRow == {"completed", "failed", "cancelled", "terminated", "timed_out"}
RowStatus == {"none"} \cup OpenRow \cup ClosedRow

EventType == {"start_run", "cancel_run"}
Events == EventType \X Runs
EventStatus == {"none", "pending", "processing", "processed", "dead_letter"}

Existing == {r \in Runs : runSt[r] # "none"}

StoreTypeOK ==
  /\ runSt \in [Runs -> RunStatus]
  /\ retryOf \in [Runs -> Runs \cup {NoRun}]
  /\ older \in [Runs -> SUBSET Runs]
  /\ intent \in SUBSET Runs
  /\ termEv \in SUBSET (Runs \X Terminal)
  /\ rowSt \in [Runs -> RowStatus]
  /\ rowTid \in [Runs -> BOOLEAN]
  /\ evSt \in [Events -> EventStatus]
  /\ evBy \in [Events -> Pids \cup {NoPid}]
  /\ evAtt \in [Events -> Nat]

StoreInit ==
  /\ runSt = [r \in Runs |-> "none"]
  /\ retryOf = [r \in Runs |-> NoRun]
  /\ older = [r \in Runs |-> {}]
  /\ intent = {}
  /\ termEv = {}
  /\ rowSt = [r \in Runs |-> "none"]
  /\ rowTid = [r \in Runs |-> FALSE]
  /\ evSt = [e \in Events |-> "none"]
  /\ evBy = [e \in Events |-> NoPid]
  /\ evAtt = [e \in Events |-> 0]
-----------------------------------------------------------------------------
(* Run rows *)

\* Every UPDATE of a Run sets updated_at = now(), the reconciler's sort key.
Touch(r) == [x \in Runs |-> IF x = r THEN Existing \ {r} ELSE older[x] \ {r}]

SetRun(r, s) == /\ runSt' = [runSt EXCEPT ![r] = s]
                /\ older' = Touch(r)

\* OutboxRepository.enqueue: ON CONFLICT (business_key) DO NOTHING.
Enqueue(e) == evSt' = [evSt EXCEPT ![e] = IF @ = "none" THEN "pending" ELSE @]

HasActive(c) == \E r \in Runs : ConvOf[r] = c /\ runSt[r] \in Active

\* Variation: a cancelling Run does not occupy the slot.
AdmittedIgnoringCancelling(c) ==
  \A r \in Runs : ConvOf[r] = c => runSt[r] \notin {"queued", "running"}

\* SingleActiveRunAdmission under the conversation lock.
Admitted(c) == ~HasActive(c)

InsertChatRun(r, src) ==
  /\ runSt[r] = "none"
  /\ Admitted(ConvOf[r])
  /\ SetRun(r, "queued")
  /\ retryOf' = [retryOf EXCEPT ![r] = src]
  /\ Enqueue(<<"start_run", r>>)
  /\ UNCHANGED <<intent, termEv, rowVars, evBy, evAtt>>

\* POST message: a replay of a completed command key changes nothing.
SendMessage(r) == InsertChatRun(r, NoRun)

\* POST retry: only a failed Run, and at most one direct child of it.
RetryRun(src, r) ==
  /\ runSt[src] = "failed"
  /\ ConvOf[r] = ConvOf[src]
  /\ \A x \in Runs : retryOf[x] # src
  /\ InsertChatRun(r, src)

-----------------------------------------------------------------------------
(* RunLifecycleService.finish_in_uow for a chat Run *)

\* The call raises ConversationBusy: the caller's transaction rolls back.
FinishRaises(r, s) ==
  \/ s = "succeeded" /\ runSt[r] \notin Terminal \cup {"running"}
  \/ s = "cancelled" /\ runSt[r] = "running"

\* Variations: the terminal check, or the cancellation check, is missing.
FinishIgnoredNoTerminal(r, s) == s = "failed" /\ runSt[r] = "cancelling"
FinishIgnoredNoCancel(r, s) == runSt[r] \in Terminal

\* The call returns without writing the Run: it is terminal already, or a
\* failure lost against a committed cancellation.
FinishIgnored(r, s) == \/ runSt[r] \in Terminal
                       \/ s = "failed" /\ runSt[r] = "cancelling"

\* Run status, assistant message and terminal event change together.
Finish(r, s) ==
  /\ ~FinishRaises(r, s)
  /\ IF FinishIgnored(r, s)
       THEN UNCHANGED <<runSt, older, termEv>>
       ELSE /\ SetRun(r, s)
            /\ termEv' = termEv \cup {<<r, s>>}
  /\ UNCHANGED <<retryOf, intent>>

\* Variation: the intent is recorded only with a cancel_run event.
CancelRunSilently(r) ==
  /\ runSt[r] \in Active
  /\ intent' = IF runSt[r] = "queued" THEN intent ELSE intent \cup {r}
  /\ IF runSt[r] = "queued" /\ rowSt[r] = "none"
       THEN SetRun(r, "cancelled") /\ termEv' = termEv \cup {<<r, "cancelled">>} /\ UNCHANGED evSt
       ELSE SetRun(r, "cancelling") /\ Enqueue(<<"cancel_run", r>>) /\ UNCHANGED termEv
  /\ UNCHANGED <<retryOf, rowVars, evBy, evAtt>>

\* CancelRun.execute: a queued Run no dispatcher has prepared is finished on
\* the spot; otherwise the intent is recorded and a cancel_run event is left.
CancelRun(r) ==
  /\ runSt[r] \in Active
  /\ intent' = intent \cup {r}
  /\ IF runSt[r] = "queued" /\ rowSt[r] = "none"
       THEN /\ SetRun(r, "cancelled")
            /\ termEv' = termEv \cup {<<r, "cancelled">>}
            /\ UNCHANGED evSt
       ELSE /\ IF runSt[r] = "cancelling" THEN UNCHANGED <<runSt, older>>
                                          ELSE SetRun(r, "cancelling")
            /\ Enqueue(<<"cancel_run", r>>)
            /\ UNCHANGED termEv
  /\ UNCHANGED <<retryOf, rowVars, evBy, evAtt>>
-----------------------------------------------------------------------------
(* workflow_executions rows *)

\* PostgresWorkflowExecutionStore.prepare_start returns should_start ...
ShouldStart(r) == \/ rowSt[r] = "none" /\ runSt[r] = "queued"
                  \/ rowSt[r] # "none" /\ ~rowTid[r] /\ runSt[r] \in {"queued", "running"}

\* Variations: the row is left to record_started; the status check is missing.
PrepareStartNoRow(r) == UNCHANGED storeVars
PrepareStartAnyStatus(r) ==
  /\ rowSt' = [rowSt EXCEPT ![r] = IF @ = "none" THEN "scheduled" ELSE @]
  /\ UNCHANGED <<runVars, rowTid, evVars>>

\* ... and commits the scheduled row of a queued Run that has none.
PrepareStart(r) ==
  /\ rowSt' = [rowSt EXCEPT ![r] =
                 IF @ = "none" /\ runSt[r] = "queued" THEN "scheduled" ELSE @]
  /\ UNCHANGED <<runVars, rowTid, evVars>>

RecordStarted(r) ==
  /\ IF rowSt[r] \in {"scheduled", "running"}
       THEN /\ rowSt' = [rowSt EXCEPT ![r] = "running"]
            /\ rowTid' = [rowTid EXCEPT ![r] = TRUE]
       ELSE UNCHANGED rowVars
  /\ UNCHANGED <<runVars, evVars>>

RecordCancelRequested(r) ==
  /\ rowSt' = [rowSt EXCEPT ![r] =
                 IF @ \in {"scheduled", "running"} THEN "cancel_requested" ELSE @]
  /\ UNCHANGED <<runVars, rowTid, evVars>>

RecordTemporalFact(r, fact) ==
  /\ rowSt' = [rowSt EXCEPT ![r] = IF @ \in OpenRow THEN fact ELSE @]
  /\ UNCHANGED <<runVars, rowTid, evVars>>

\* WebRunLifecycleService.prepare, called by the Workflow's first Activity.
Prepare(r) ==
  /\ rowSt[r] # "none"
  /\ IF rowSt[r] \in {"scheduled", "running"}
       THEN /\ rowSt' = [rowSt EXCEPT ![r] = "running"]
            /\ rowTid' = [rowTid EXCEPT ![r] = TRUE]
       ELSE UNCHANGED rowVars
  /\ IF runSt[r] = "queued" THEN SetRun(r, "running") ELSE UNCHANGED <<runSt, older>>
  /\ UNCHANGED <<retryOf, intent, termEv, evVars>>

\* reconcile_candidates: LIMIT n, oldest updated_at first.
Candidates == {r \in Runs : \/ runSt[r] \in Active
                            \/ runSt[r] \in Terminal /\ rowSt[r] \in OpenRow}
ReconcileCandidates(n) ==
  {r \in Candidates : Cardinality(older[r] \cap Candidates) < n}
-----------------------------------------------------------------------------
(* outbox_events leases *)

ClaimBatch(E, pid) ==
  /\ \A e \in E : evSt[e] = "pending"
  /\ evSt' = [e \in Events |-> IF e \in E THEN "processing" ELSE evSt[e]]
  /\ evBy' = [e \in Events |-> IF e \in E THEN pid ELSE evBy[e]]
  /\ evAtt' = [e \in Events |-> IF e \in E THEN evAtt[e] + 1 ELSE evAtt[e]]
  /\ UNCHANGED <<runVars, rowVars>>

RecoverExpired(E) ==
  /\ \A e \in E : evSt[e] = "processing"
  /\ evSt' = [e \in Events |-> IF e \in E THEN "pending" ELSE evSt[e]]
  /\ evBy' = [e \in Events |-> IF e \in E THEN NoPid ELSE evBy[e]]
  /\ UNCHANGED <<runVars, rowVars, evAtt>>

\* ack, retry and dead-letter match the row by status and locked_by only.
Owns(e, pid) == evSt[e] = "processing" /\ evBy[e] = pid

Release(e, pid, s) ==
  IF Owns(e, pid)
    THEN /\ evSt' = [evSt EXCEPT ![e] = s]
         /\ evBy' = [evBy EXCEPT ![e] = NoPid]
         /\ UNCHANGED evAtt
    ELSE UNCHANGED evVars

MarkProcessed(e, pid) == Release(e, pid, "processed") /\ UNCHANGED <<runVars, rowVars>>

MarkRetryableFailure(e, pid) == Release(e, pid, "pending") /\ UNCHANGED <<runVars, rowVars>>

\* Variation: an exhausted start_run leaves its Run alone.
DeadLetterOnly(e, pid) ==
  /\ Owns(e, pid)
  /\ Release(e, pid, "dead_letter")
  /\ UNCHANGED <<runVars, rowVars>>

\* Exhausted start_run of a still queued Run fails the Run in the same
\* transaction; a lost lease raises OutboxLeaseLost and changes nothing.
DeadLetter(e, pid) ==
  /\ Owns(e, pid)
  /\ Release(e, pid, "dead_letter")
  /\ IF e[1] = "start_run" /\ runSt[e[2]] = "queued"
       THEN Finish(e[2], "failed")
       ELSE UNCHANGED runVars
  /\ UNCHANGED rowVars
=============================================================================
