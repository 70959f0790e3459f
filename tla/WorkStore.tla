------------------------------ MODULE WorkStore ------------------------------
(***************************************************************************)
(* The PostgreSQL rows of reminder Works, of their coordinator Runs and of *)
(* the deliveries these Runs (and finished chat Runs) enqueue, and the     *)
(* transactions of everyone but the senders: commands, scheduler, Run      *)
(* endings and control convergence.  Every action is one transaction; all  *)
(* of them lock the Work row first.                                        *)
(*                                                                         *)
(* A reminder Run enqueues one fulfilment, keyed by its wakeup: the Run    *)
(* names the notification, the delivery and the enqueue operation, too.    *)
(* Chats are deliveries of chat answers: facts that no Work owns.          *)
(***************************************************************************)
EXTENDS Naturals, FiniteSets

CONSTANTS
  Works,        \* accepted reminder Works
  Daily,        \* those with a daily (ongoing) mandate; the others are immediate
  Runs,         \* ids of Work Runs; a bound on admissions
  Chats,        \* deliveries of chat answers
  Inbox,        \* those that go to the web inbox
  Accounts,
  Owner,        \* Owner[x]: account of Work or chat delivery x
  None,         \* SQL NULL
  MaxCommands   \* bound on user commands

ASSUME WorkAssumption ==
  /\ Daily \subseteq Works
  /\ Inbox \subseteq Chats
  /\ Runs \cap Chats = {}
  /\ Owner \in [Works \cup Chats -> Accounts]
  /\ None \notin Works \cup Runs
  /\ MaxCommands \in Nat

Deliveries == Runs \cup Chats

VARIABLES
  wStatus,      \* works.status
  revision,     \* current_requirement_revision
  epoch,        \* control_epoch
  cont,         \* continuation: kind, receipt_ref, operation_ref
  coordinator,  \* active_coordinator_run_id
  wakeup,       \* is a wakeup of the current revision pending
  target,       \* delivery_targets.enabled of the Work's channel target
  bound,        \* bound[a]: the account's channel binding is active and verified
  runSt, runWork, runRev, runEpoch,   \* runs: status, Work, revision and epoch
  dSt,          \* deliveries.state, "none" while the row is absent
  dPart,        \* next_part
  dTok,         \* lease_token, the attempt that drew it; 0 is NULL
  attempts,     \* deliveries.attempts
  lapsed,       \* lease_until < now()
  via,          \* whose receipt made the delivery accepted
  again,        \* explicit decisions that let the delivery be sent again
  unapplied,    \* outcomes recorded while the target was not authorized
  commands      \* user commands so far

mandateVars == <<wStatus, revision, epoch, cont, coordinator, wakeup>>
runVars == <<runSt, runWork, runRev, runEpoch>>
targetVars == <<target, bound>>
leaseVars == <<dPart, dTok, attempts, lapsed>>
ghostVars == <<again, unapplied>>
deliveryVars == <<dSt, leaseVars, via, ghostVars>>
storeVars == <<mandateVars, runVars, targetVars, deliveryVars, commands>>
-----------------------------------------------------------------------------
WorkStatus == {"active", "pausing", "paused", "stopping", "stopped", "completed"}
ContKind == {"ready", "at_time", "awaiting_delivery", "blocked", "none"}
RunStatus == {"none", "queued", "running", "cancelling", "succeeded", "failed", "cancelled"}
DeliveryState == {"none", "pending", "sending", "accepted", "failed", "uncertain", "cancelled"}
Receipt == {"none", "channel", "inbox", "confirmed", "revalidated"}

StoreTypeOK ==
  /\ wStatus \in [Works -> WorkStatus]
  /\ revision \in [Works -> Nat]
  /\ epoch \in [Works -> Nat]
  /\ cont \in [Works -> [kind: ContKind, ref: Runs \cup {None}, op: Runs \cup {None}]]
  /\ coordinator \in [Works -> Runs \cup {None}]
  /\ wakeup \in [Works -> BOOLEAN]
  /\ target \in [Works -> BOOLEAN]
  /\ bound \in [Accounts -> BOOLEAN]
  /\ runSt \in [Runs -> RunStatus]
  /\ runWork \in [Runs -> Works \cup {None}]
  /\ runRev \in [Runs -> Nat]
  /\ runEpoch \in [Runs -> Nat]
  /\ dSt \in [Deliveries -> DeliveryState]
  /\ dPart \in [Deliveries -> Nat]
  /\ dTok \in [Deliveries -> Nat]
  /\ attempts \in [Deliveries -> Nat]
  /\ lapsed \in [Deliveries -> BOOLEAN]
  /\ via \in [Deliveries -> Receipt]
  /\ again \in [Deliveries -> Nat]
  /\ unapplied \in SUBSET Deliveries
  /\ commands \in 0..MaxCommands

Cont(kind, ref, op) == [kind |-> kind, ref |-> ref, op |-> op]

\* initial_continuation: a daily mandate waits for its first occurrence.
InitialCont(w) == Cont(IF w \in Daily THEN "at_time" ELSE "ready", None, None)

\* AcceptWork has committed; chat answers are enqueued later.
StoreInit ==
  /\ wStatus = [w \in Works |-> "active"]
  /\ revision = [w \in Works |-> 1]
  /\ epoch = [w \in Works |-> 0]
  /\ cont = [w \in Works |-> InitialCont(w)]
  /\ coordinator = [w \in Works |-> None]
  /\ wakeup = [w \in Works |-> w \notin Daily]
  /\ target = [w \in Works |-> TRUE]
  /\ bound = [a \in Accounts |-> TRUE]
  /\ runSt = [r \in Runs |-> "none"]
  /\ runWork = [r \in Runs |-> None]
  /\ runRev = [r \in Runs |-> 0]
  /\ runEpoch = [r \in Runs |-> 0]
  /\ dSt = [d \in Deliveries |-> "none"]
  /\ dPart = [d \in Deliveries |-> 0]
  /\ dTok = [d \in Deliveries |-> 0]
  /\ attempts = [d \in Deliveries |-> 0]
  /\ lapsed = [d \in Deliveries |-> FALSE]
  /\ via = [d \in Deliveries |-> "none"]
  /\ again = [d \in Deliveries |-> 0]
  /\ unapplied = {}
  /\ commands = 0
-----------------------------------------------------------------------------
(* What the transactions ask *)

\* Variation: what a sender still works on is not counted.
UnresolvedUncertain(w, st) == {r \in Runs : runWork[r] = w /\ st[r] = "uncertain"}

\* unresolved_delivery: fulfilments of the Work whose outcome is open.
Unresolved(w, st) == {r \in Runs : runWork[r] = w /\ st[r] \in {"sending", "uncertain"}}

\* The fulfilment of Run r still carries out the current mandate.
IsCurrent(w, r) ==
  /\ wStatus[w] = "active"
  /\ revision[w] = runRev[r]
  /\ epoch[w] = runEpoch[r]
  /\ cont[w].ref = r

Authorized(d) ==
  IF d \in Chats THEN d \in Inbox \/ bound[Owner[d]]
                 ELSE target[runWork[d]] /\ bound[Owner[runWork[d]]]

CheckWork(r) ==
  LET w == runWork[r] IN
  /\ wStatus[w] = "active"
  /\ coordinator[w] = r
  /\ revision[w] = runRev[r]
  /\ epoch[w] = runEpoch[r]

\* What an open effect leaves of continuation c.
Protected(w, c) ==
  IF Unresolved(w, dSt) = {} THEN c
  ELSE Cont("blocked", None, CHOOSE r \in Unresolved(w, dSt) : TRUE)

\* finish_in_uow: the continuation a Run that ends leaves behind.
ContAfterRun(r, c) ==
  LET w == runWork[r] IN
  Protected(w, IF cont[w].op # None \/ runRev[r] # revision[w] THEN cont[w] ELSE c)

Settled(status) == CASE status = "pausing" -> "paused"
                     [] status = "stopping" -> "stopped"
                     [] OTHER -> status

Command == commands < MaxCommands /\ commands' = commands + 1
-----------------------------------------------------------------------------
(* Pieces of transactions *)

\* cancel_pending
CancelledPending(w) ==
  [d \in Deliveries |-> IF d \in Runs /\ runWork[d] = w /\ dSt[d] \in {"pending", "failed"}
                        THEN "cancelled" ELSE dSt[d]]

\* _cancel_coordinator, without superseding the wakeup
CancelCoordinator(w) ==
  /\ dSt' = CancelledPending(w)
  /\ runSt' = [r \in Runs |-> IF r = coordinator[w] /\ runSt[r] \in {"queued", "running"}
                              THEN "cancelling" ELSE runSt[r]]

\* WorkCompletionPolicy.accept raises, and rolls its caller back, without this.
Acceptable(d) ==
  LET w == runWork[d] IN
  /\ coordinator[w] = None
  /\ cont[w].op = None
  /\ runSt[d] = "succeeded"

\* DeliveryReceiptHandler.apply: a one-shot Work is complete, a daily one waits.
ApplyReceipt(d) ==
  IF d \in Runs /\ IsCurrent(runWork[d], d)
  THEN LET w == runWork[d] IN
       Acceptable(d) /\
       IF w \in Daily
       THEN /\ cont' = [cont EXCEPT ![w] = Cont("at_time", None, None)]
            /\ UNCHANGED <<wStatus, wakeup>>
       ELSE /\ wStatus' = [wStatus EXCEPT ![w] = "completed"]
            /\ cont' = [cont EXCEPT ![w] = Cont("none", None, None)]
            /\ wakeup' = [wakeup EXCEPT ![w] = FALSE]
  ELSE UNCHANGED <<wStatus, cont, wakeup>>
-----------------------------------------------------------------------------
(* Work commands *)

\* revise: a new revision; an unresolved operation keeps its continuation.
Revise(w) ==
  LET next == IF cont[w].op # None THEN cont[w] ELSE InitialCont(w) IN
  /\ Command
  /\ wStatus[w] \in {"active", "pausing", "paused"}
  /\ CancelCoordinator(w)
  /\ revision' = [revision EXCEPT ![w] = @ + 1]
  /\ epoch' = [epoch EXCEPT ![w] = @ + 1]
  /\ cont' = [cont EXCEPT ![w] = next]
  /\ wakeup' = [wakeup EXCEPT ![w] = wStatus[w] = "active" /\ w \notin Daily]
  /\ UNCHANGED <<wStatus, coordinator, runWork, runRev, runEpoch, targetVars,
                 leaseVars, via, ghostVars>>

\* control: an open effect or coordinator holds the final status back.
Halt(w, allowed, transient, final) ==
  /\ Command
  /\ wStatus[w] \in allowed
  /\ CancelCoordinator(w)
  /\ epoch' = [epoch EXCEPT ![w] = @ + 1]
  /\ cont' = [cont EXCEPT ![w] = Protected(w, @)]
  /\ wStatus' = [wStatus EXCEPT ![w] =
       IF coordinator[w] = None /\ cont'[w].op = None THEN final ELSE transient]
  /\ wakeup' = [wakeup EXCEPT ![w] = FALSE]
  /\ UNCHANGED <<revision, coordinator, runWork, runRev, runEpoch, targetVars,
                 leaseVars, via, ghostVars>>

Pause(w) == Halt(w, {"active"}, "pausing", "paused")
Stop(w) == Halt(w, {"active", "pausing", "paused"}, "stopping", "stopped")

\* control("resume")
Resume(w) ==
  /\ Command
  /\ wStatus[w] = "paused"
  /\ CancelCoordinator(w)
  /\ wStatus' = [wStatus EXCEPT ![w] = "active"]
  /\ epoch' = [epoch EXCEPT ![w] = @ + 1]
  /\ cont' = [cont EXCEPT ![w] =
       IF Protected(w, @).op # None THEN Protected(w, @) ELSE InitialCont(w)]
  /\ wakeup' = [wakeup EXCEPT ![w] = w \notin Daily]
  /\ UNCHANGED <<revision, coordinator, runWork, runRev, runEpoch, targetVars,
                 leaseVars, via, ghostVars>>

\* integration_command("disable_target")
DisableTarget(w) ==
  /\ Command
  /\ target' = [target EXCEPT ![w] = FALSE]
  /\ dSt' = CancelledPending(w)
  /\ UNCHANGED <<mandateVars, runVars, bound, leaseVars, via, ghostVars>>

\* integration_command("resolve_delivery") on a failed or uncertain fulfilment.
\* `not_sent` and `retry_accepting_duplicate_risk` write the same states; the
\* latter is refused unless the fulfilment is current.
ResolveDelivery(w, r, outcome) ==
  LET current == Authorized(r) /\ IsCurrent(w, r)
      resolved == IF outcome = "accepted" THEN "accepted"
                  ELSE IF current THEN "pending" ELSE "cancelled"
      settles == /\ wStatus[w] \in {"pausing", "stopping"}
                 /\ coordinator[w] = None
                 /\ Unresolved(w, [dSt EXCEPT ![r] = resolved]) = {}
  IN
  /\ Command
  /\ runWork[r] = w
  /\ dSt[r] \in {"failed", "uncertain"}
  /\ dSt' = [dSt EXCEPT ![r] = resolved]
  /\ IF outcome = "accepted"
     THEN via' = [via EXCEPT ![r] = "confirmed"] /\ UNCHANGED <<dTok, again>>
     ELSE /\ dTok' = [dTok EXCEPT ![r] = 0]
          /\ again' = [again EXCEPT ![r] = IF current THEN @ + 1 ELSE @]
          /\ UNCHANGED via
  /\ IF settles
     THEN /\ wStatus' = [wStatus EXCEPT ![w] = Settled(@)]
          /\ epoch' = [epoch EXCEPT ![w] = @ + 1]
          /\ cont' = [cont EXCEPT ![w] = Cont("blocked", None, None)]
          /\ UNCHANGED wakeup
     ELSE /\ IF outcome = "accepted" /\ current
             THEN ApplyReceipt(r) ELSE UNCHANGED <<wStatus, cont, wakeup>>
          /\ UNCHANGED epoch
  /\ unapplied' = IF Authorized(r) THEN unapplied ELSE unapplied \cup {r}
  /\ UNCHANGED <<revision, coordinator, runVars, targetVars, dPart, attempts, lapsed>>
-----------------------------------------------------------------------------
(* Admission of coordinator Runs *)

\* AdmitWorkRun, or its deferral when no coordination capacity is free
Admit(w) ==
  \/ \E r \in Runs :
     /\ runSt[r] = "none"
     /\ runSt' = [runSt EXCEPT ![r] = "queued"]
     /\ runWork' = [runWork EXCEPT ![r] = w]
     /\ runRev' = [runRev EXCEPT ![r] = revision[w]]
     /\ runEpoch' = [runEpoch EXCEPT ![r] = epoch[w] + 1]
     /\ epoch' = [epoch EXCEPT ![w] = @ + 1]
     /\ coordinator' = [coordinator EXCEPT ![w] = r]
     /\ cont' = [cont EXCEPT ![w] = Cont("ready", None, None)]
     /\ wakeup' = [wakeup EXCEPT ![w] = FALSE]
     /\ UNCHANGED <<wStatus, revision>>
  \/ /\ cont' = [cont EXCEPT ![w] = Cont("ready", None, None)]
     /\ wakeup' = [wakeup EXCEPT ![w] = TRUE]
     /\ UNCHANGED <<wStatus, revision, epoch, coordinator, runVars>>

\* DispatchDueWork for one Work; the time of an at_time continuation may have come.
DispatchDueWork(w) ==
  /\ wStatus[w] = "active"
  /\ coordinator[w] = None
  /\ wakeup[w]
  /\ cont[w].kind \in {"ready", "at_time"}
  /\ Unresolved(w, dSt) = {}
  /\ Admit(w)
  /\ UNCHANGED <<targetVars, deliveryVars, commands>>

\* AdvanceWork; before the time of an at_time continuation it changes nothing.
AdvanceWork(w) ==
  /\ Command
  /\ wStatus[w] = "active"
  /\ coordinator[w] = None
  /\ cont[w].op = None
  /\ Unresolved(w, dSt) = {}
  /\ cont[w].kind # "awaiting_delivery"
  /\ Admit(w)
  /\ UNCHANGED <<targetVars, deliveryVars>>

\* ProcessWorkSchedules._occurrence: a timer never clears an awaited receipt.
Occurrence(w) ==
  /\ w \in Daily
  /\ wStatus[w] = "active"
  /\ wakeup' = [wakeup EXCEPT ![w] = TRUE]
  /\ cont' = [cont EXCEPT ![w] =
       IF @.kind \in {"ready", "at_time"} THEN Cont("ready", None, None) ELSE @]
  /\ UNCHANGED <<wStatus, revision, epoch, coordinator, runVars, targetVars, deliveryVars, commands>>
-----------------------------------------------------------------------------
(* Runs *)

StartRun(r) ==
  /\ runSt[r] = "queued"
  /\ CheckWork(r)
  /\ runSt' = [runSt EXCEPT ![r] = "running"]
  /\ UNCHANGED <<mandateVars, runWork, runRev, runEpoch, targetVars, deliveryVars, commands>>

\* CancelRun on a Work Run
CancelRun(r) ==
  /\ Command
  /\ runSt[r] \in {"queued", "running"}
  /\ runSt' = [runSt EXCEPT ![r] = "cancelling"]
  /\ UNCHANGED <<mandateVars, runWork, runRev, runEpoch, targetVars, deliveryVars>>

\* reconcile_reminder_receipt: an accepted delivery of the same revision
Prior(r) ==
  {p \in Runs : /\ p # r /\ runWork[p] = runWork[r] /\ runRev[p] = runRev[r]
                /\ dSt[p] = "accepted" /\ runWork[r] \notin Daily}

\* ReminderActivities._execute: intent, result and continuation commit together.
ExecuteReminder(r) ==
  LET w == runWork[r]
      found == Prior(r) # {}
      next == ContAfterRun(r, Cont("awaiting_delivery", r, None)) IN
  /\ runSt[r] = "running"
  /\ CheckWork(r)
  /\ Authorized(r)
  /\ runSt' = [runSt EXCEPT ![r] = "succeeded"]
  /\ coordinator' = [coordinator EXCEPT ![w] = None]
  /\ dSt' = [dSt EXCEPT ![r] = IF found THEN "accepted" ELSE "pending"]
  /\ dPart' = [dPart EXCEPT ![r] = IF found THEN 1 ELSE 0]
  /\ via' = [via EXCEPT ![r] = IF found THEN "revalidated" ELSE "none"]
  /\ IF found /\ next.ref = r
     THEN /\ wStatus' = [wStatus EXCEPT ![w] = "completed"]
          /\ cont' = [cont EXCEPT ![w] = Cont("none", None, None)]
          /\ wakeup' = [wakeup EXCEPT ![w] = FALSE]
     ELSE /\ cont' = [cont EXCEPT ![w] = next]
          /\ UNCHANGED <<wStatus, wakeup>>
  /\ UNCHANGED <<revision, epoch, runWork, runRev, runEpoch, targetVars, dTok,
                 attempts, lapsed, ghostVars, commands>>

\* finish_in_uow for a failed or cancelled Run
EndRun(r, st) ==
  LET w == runWork[r]
      next == ContAfterRun(r, Cont("blocked", None, None))
      status == IF next.op = None THEN Settled(wStatus[w]) ELSE wStatus[w] IN
  /\ runSt' = [runSt EXCEPT ![r] = st]
  /\ coordinator' = [coordinator EXCEPT ![w] = None]
  /\ wStatus' = [wStatus EXCEPT ![w] = status]
  /\ epoch' = [epoch EXCEPT ![w] = IF status \in {"paused", "stopped"} THEN @ + 1 ELSE @]
  /\ cont' = [cont EXCEPT ![w] = next]
  /\ UNCHANGED <<revision, wakeup, runWork, runRev, runEpoch, targetVars, deliveryVars, commands>>

\* The Workflow failed, or its start event went to the dead letters.
FailRun(r) ==
  /\ runSt[r] \in {"queued", "running"}
  /\ EndRun(r, "failed")

FinalizeCancelled(r) ==
  /\ runSt[r] = "cancelling"
  /\ EndRun(r, "cancelled")

\* converge_controls for one Work: the effects of a halted Work are known.
ConvergeControls(w) ==
  /\ wStatus[w] \in {"pausing", "stopping"}
  /\ coordinator[w] = None
  /\ Unresolved(w, dSt) = {}
  /\ cont[w].op # None => runSt[cont[w].op] = "succeeded"
  /\ wStatus' = [wStatus EXCEPT ![w] = Settled(@)]
  /\ epoch' = [epoch EXCEPT ![w] = @ + 1]
  /\ cont' = [cont EXCEPT ![w] = Cont("none", None, None)]
  /\ UNCHANGED <<revision, coordinator, wakeup, runVars, targetVars, deliveryVars, commands>>
-----------------------------------------------------------------------------
(* Chat answers and channel bindings *)

\* enqueue, in the transaction that completes the chat Run
EnqueueChat(d) ==
  /\ dSt[d] = "none"
  /\ Authorized(d)
  /\ dSt' = [dSt EXCEPT ![d] = "pending"]
  /\ UNCHANGED <<mandateVars, runVars, targetVars, leaseVars, via, ghostVars, commands>>

\* retry_uncertain
RetryUncertain(d) ==
  /\ Command
  /\ dSt[d] \in {"failed", "uncertain"}
  /\ dSt' = [dSt EXCEPT ![d] = "pending"]
  /\ dTok' = [dTok EXCEPT ![d] = 0]
  /\ again' = [again EXCEPT ![d] = @ + 1]
  /\ UNCHANGED <<mandateVars, runVars, targetVars, dPart, attempts, lapsed, via, unapplied>>

\* The account's channel identity is revoked or verified again.
ChangeBinding(a) ==
  /\ Command
  /\ bound' = [bound EXCEPT ![a] = ~@]
  /\ UNCHANGED <<mandateVars, runVars, target, deliveryVars>>

StoreNext ==
  \/ \E w \in Works :
     \/ Revise(w) \/ Pause(w) \/ Stop(w) \/ Resume(w) \/ DisableTarget(w)
     \/ AdvanceWork(w) \/ DispatchDueWork(w) \/ Occurrence(w) \/ ConvergeControls(w)
     \/ \E r \in Runs : \E o \in {"accepted", "again"} : ResolveDelivery(w, r, o)
  \/ \E r \in Runs :
     StartRun(r) \/ CancelRun(r) \/ ExecuteReminder(r) \/ FailRun(r) \/ FinalizeCancelled(r)
  \/ \E d \in Chats : EnqueueChat(d) \/ RetryUncertain(d)
  \/ \E a \in Accounts : ChangeBinding(a)
=============================================================================
