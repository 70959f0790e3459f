---------------------------- MODULE WorkDelivery ----------------------------
(***************************************************************************)
(* DeliveryService: senders that claim one pending delivery at a time,     *)
(* send its next part over a channel and record the outcome, while Work    *)
(* commands, Runs and other senders go on.  A sender may stall longer than *)
(* its lease or be lost at any point; an answer of the channel may be      *)
(* lost, and a request may take effect after its sender gave up.           *)
(***************************************************************************)
EXTENDS WorkStore

CONSTANTS
  Senders,       \* processes that run DeliveryService, restarted ones included
  Parts,         \* channel messages a content is split into
  GlobalLimit,   \* delivery_global_capacity
  AccountLimit   \* delivery_account_capacity

ASSUME SenderAssumption ==
  /\ Parts \in Nat \ {0}
  /\ GlobalLimit \in Nat \ {0}
  /\ AccountLimit \in Nat \ {0}

VARIABLES
  pos,     \* pos[s]: where deliver_once is
  job,     \* job[s]: delivery, lease token and next_part of the claimed row
  out,     \* out[s]: outcome it is going to record
  wire,    \* requests <<d, token, part>> the channel has not answered
  taken    \* taken[d][p]: how often the channel accepted part p

senderVars == <<pos, job, out>>
channelVars == <<wire, taken>>
vars == <<storeVars, senderVars, channelVars>>
-----------------------------------------------------------------------------
NoJob == [d |-> None, tok |-> 0, part |-> 0]
Request(s) == <<job[s].d, job[s].tok, job[s].part>>

TypeOK ==
  /\ StoreTypeOK
  /\ pos \in [Senders -> {"idle", "claimed", "waiting", "answered"}]
  /\ job \in [Senders -> [d: Deliveries \cup {None}, tok: Nat, part: Nat]]
  /\ out \in [Senders -> {"none", "accepted", "failed", "uncertain"}]
  /\ wire \in SUBSET (Deliveries \X Nat \X (0..Parts - 1))
  /\ \A d \in Deliveries : dPart[d] <= Parts
  /\ taken \in [Deliveries -> [0..Parts - 1 -> Nat]]

Init ==
  /\ StoreInit
  /\ pos = [s \in Senders |-> "idle"]
  /\ job = [s \in Senders |-> NoJob]
  /\ out = [s \in Senders |-> "none"]
  /\ wire = {}
  /\ taken = [d \in Deliveries |-> [p \in 0..Parts - 1 |-> 0]]
-----------------------------------------------------------------------------
(* claim *)

\* The sweep at the start of claim: nobody knows what a lost sender has sent.
Swept == [d \in Deliveries |-> IF dSt[d] = "sending" /\ lapsed[d] THEN "uncertain" ELSE dSt[d]]
Unlapsed == [d \in Deliveries |-> lapsed[d] /\ dSt[d] # "sending"]

OwnerOf(d) == IF d \in Chats THEN Owner[d] ELSE Owner[runWork[d]]

Held(st) == {d \in Deliveries : st[d] = "sending"}

HasCapacity(d) ==
  /\ Cardinality(Held(Swept)) < GlobalLimit
  /\ Cardinality({h \in Held(Swept) : OwnerOf(h) = OwnerOf(d)}) < AccountLimit

\* The authority a claim checks again, however long ago the row was enqueued
Deliverable(d) == Authorized(d) /\ (d \in Runs => IsCurrent(runWork[d], d))

\* No candidate, no capacity, or a candidate row locked by another transaction
ClaimNothing(s) ==
  /\ pos[s] = "idle"
  /\ dSt' = Swept
  /\ lapsed' = Unlapsed
  /\ UNCHANGED <<mandateVars, runVars, targetVars, dPart, dTok, attempts, via, ghostVars,
                 commands, senderVars, channelVars>>

\* A revoked or superseded delivery is cancelled; a Work that waits for it is blocked.
ClaimCancels(s, d) ==
  LET w == runWork[d] IN
  /\ pos[s] = "idle"
  /\ dSt[d] = "pending"
  /\ HasCapacity(d)
  /\ ~Deliverable(d)
  /\ dSt' = [Swept EXCEPT ![d] = "cancelled"]
  /\ lapsed' = Unlapsed
  /\ IF d \in Runs /\ wStatus[w] = "active" /\ cont[w].ref = d
     THEN cont' = [cont EXCEPT ![w] = Cont("blocked", d, None)]
     ELSE UNCHANGED cont
  /\ UNCHANGED <<wStatus, revision, epoch, coordinator, wakeup, runVars, targetVars,
                 dPart, dTok, attempts, via, ghostVars, commands, senderVars, channelVars>>

ClaimSends(s, d) ==
  /\ pos[s] = "idle"
  /\ dSt[d] = "pending"
  /\ HasCapacity(d)
  /\ Deliverable(d)
  /\ dSt' = [Swept EXCEPT ![d] = "sending"]
  /\ lapsed' = Unlapsed
  /\ attempts' = [attempts EXCEPT ![d] = @ + 1]
  /\ dTok' = [dTok EXCEPT ![d] = attempts[d] + 1]
  /\ pos' = [pos EXCEPT ![s] = IF d \in Inbox THEN "answered" ELSE "claimed"]
  /\ job' = [job EXCEPT ![s] = [d |-> d, tok |-> attempts[d] + 1, part |-> dPart[d]]]
  /\ out' = [out EXCEPT ![s] = IF d \in Inbox THEN "accepted" ELSE "none"]
  /\ UNCHANGED <<mandateVars, runVars, targetVars, dPart, via, ghostVars, commands, channelVars>>

Claim(s) ==
  \/ ClaimNothing(s)
  \/ \E d \in Deliveries : ClaimCancels(s, d) \/ ClaimSends(s, d)
-----------------------------------------------------------------------------
(* send *)

Send(s) ==
  /\ pos[s] = "claimed"
  /\ pos' = [pos EXCEPT ![s] = "waiting"]
  /\ wire' = wire \cup {Request(s)}
  /\ UNCHANGED <<storeVars, job, out, taken>>

\* The channel accepts a request, with or without a sender waiting for it.
ChannelAccepts(m) ==
  /\ m \in wire
  /\ wire' = wire \ {m}
  /\ taken' = [taken EXCEPT ![m[1]][m[3]] = @ + 1]
  /\ UNCHANGED <<storeVars, senderVars>>

Answer(s, result) ==
  /\ pos[s] = "waiting"
  /\ pos' = [pos EXCEPT ![s] = "answered"]
  /\ out' = [out EXCEPT ![s] = result]
  /\ UNCHANGED <<storeVars, job, taken>>

AnswerAccepted(s) == Request(s) \notin wire /\ Answer(s, "accepted") /\ UNCHANGED wire

\* ChannelSendResult "failed": the channel refused the request.
AnswerFailed(s) ==
  /\ Request(s) \in wire
  /\ wire' = wire \ {Request(s)}
  /\ Answer(s, "failed")

\* wait_for timed out, the adapter raised or could not tell.
AnswerUncertain(s) == Answer(s, "uncertain") /\ UNCHANGED wire
-----------------------------------------------------------------------------
(* finish *)

\* Variation: lease_token is not compared.
HoldsAnyLease(s) == dSt[job[s].d] = "sending"

\* The claimed row is still this sender's.
HoldsLease(s) ==
  LET d == job[s].d IN dSt[d] = "sending" /\ dTok[d] = job[s].tok

\* State and next_part after the outcome of job[s]
FinishState(s) ==
  IF out[s] # "accepted" THEN out[s]
  ELSE IF job[s].d \in Inbox \/ job[s].part + 1 = Parts THEN "accepted" ELSE "pending"

Idle(s) ==
  /\ pos' = [pos EXCEPT ![s] = "idle"]
  /\ job' = [job EXCEPT ![s] = NoJob]
  /\ out' = [out EXCEPT ![s] = "none"]

Finish(s) ==
  LET d == job[s].d
      st == FinishState(s) IN
  /\ pos[s] = "answered"
  /\ HoldsLease(s)
  /\ dSt' = [dSt EXCEPT ![d] = st]
  /\ dPart' = [dPart EXCEPT ![d] = job[s].part + (IF out[s] = "accepted" THEN 1 ELSE 0)]
  /\ lapsed' = [lapsed EXCEPT ![d] = FALSE]
  /\ via' = [via EXCEPT ![d] = IF st # "accepted" THEN "none"
                               ELSE IF d \in Inbox THEN "inbox" ELSE "channel"]
  /\ IF st = "accepted" /\ Authorized(d)
     THEN ApplyReceipt(d) ELSE UNCHANGED <<wStatus, cont, wakeup>>
  /\ unapplied' = IF Authorized(d) THEN unapplied ELSE unapplied \cup {d}
  /\ Idle(s)
  /\ UNCHANGED <<revision, epoch, coordinator, runVars, targetVars, dTok, attempts,
                 again, commands, channelVars>>

\* The row has been swept, resolved or claimed again: the answer is dropped.
FinishTooLate(s) ==
  /\ pos[s] = "answered"
  /\ ~HoldsLease(s)
  /\ Idle(s)
  /\ UNCHANGED <<storeVars, channelVars>>
-----------------------------------------------------------------------------
(* Faults *)

LeaseExpires(d) ==
  /\ dSt[d] = "sending"
  /\ lapsed' = [lapsed EXCEPT ![d] = TRUE]
  /\ UNCHANGED <<mandateVars, runVars, targetVars, dSt, dPart, dTok, attempts, via,
                 ghostVars, commands, senderVars, channelVars>>

\* The process of a sender dies; another one takes its place.
SenderLost(s) ==
  /\ pos[s] # "idle"
  /\ Idle(s)
  /\ UNCHANGED <<storeVars, channelVars>>
-----------------------------------------------------------------------------
SenderStep(s) ==
  \/ Claim(s) \/ Send(s)
  \/ AnswerAccepted(s) \/ AnswerFailed(s) \/ AnswerUncertain(s)
  \/ Finish(s) \/ FinishTooLate(s)

Next ==
  \/ StoreNext /\ UNCHANGED <<senderVars, channelVars>>
  \/ \E s \in Senders : SenderStep(s) \/ SenderLost(s)
  \/ \E m \in wire : ChannelAccepts(m)
  \/ \E d \in Deliveries : LeaseExpires(d)

Spec == Init /\ [][Next]_vars

\* The loops of senders, scheduler and reconciler go on; Temporal ends a Run
\* that is being cancelled; time passes.  Claims admit in the order of
\* capacity_turns and available_at, so a candidate is not passed over for ever.
\* No command, answer of the channel or loss of a sender is fair.
Fairness ==
  /\ \A s \in Senders :
     /\ WF_vars(Claim(s))
     /\ WF_vars(Send(s) \/ AnswerUncertain(s) \/ Finish(s) \/ FinishTooLate(s))
  /\ \A d \in Deliveries :
     /\ WF_vars(LeaseExpires(d))
     /\ SF_vars(\E s \in Senders : ClaimCancels(s, d) \/ ClaimSends(s, d))
  /\ \A w \in Works : WF_vars(ConvergeControls(w) /\ UNCHANGED <<senderVars, channelVars>>)
  /\ \A r \in Runs : WF_vars(FinalizeCancelled(r) /\ UNCHANGED <<senderVars, channelVars>>)

FairSpec == Spec /\ Fairness
-----------------------------------------------------------------------------
(* Safety *)

Open == {"pending", "sending", "uncertain", "failed"}

\* It may be at the channel, or may still be handed to it.
Live(r) ==
  \/ dSt[r] \in {"sending", "uncertain"}
  \/ dSt[r] = "pending" /\ IsCurrent(runWork[r], r)

\* A part is accepted by the channel more often than once only after as many
\* explicit decisions to send the delivery again, however late requests, answers
\* and senders are: claim declares an expired lease uncertain, never pending.
RepeatsAreDecided ==
  \A d \in Deliveries, p \in 0..Parts - 1 : taken[d][p] <= 1 + again[d]

\* A delivery whose acceptance rests on channel answers has had every part
\* accepted by the channel: finish moves next_part only for the part it claimed.
AcceptedIsComplete ==
  \A d \in Deliveries : via[d] = "channel" => \A p \in 0..Parts - 1 : taken[d][p] > 0

\* The rows counted by claim never exceed the global or the account's capacity.
CapacityIsKept ==
  /\ Cardinality(Held(dSt)) <= GlobalLimit
  /\ \A a \in Accounts : Cardinality({h \in Held(dSt) : OwnerOf(h) = a}) <= AccountLimit

\* No update runs into the trigger validate_delivery_transition: accepted and
\* cancelled rows are final, and next_part never moves back or by more than one.
TransitionsAreLegalStep ==
    \A d \in Deliveries : dSt[d] # "none" =>
      /\ dSt[d] \in {"accepted", "cancelled"} => UNCHANGED <<dSt[d], dPart[d], dTok[d]>>
      /\ dPart'[d] \in dPart[d]..dPart[d] + 1
TransitionsAreLegal == [][TransitionsAreLegalStep]_vars

\* A Work never has two fulfilments that are, or may still be put, at the channel:
\* admission waits for unresolved ones, claim cancels superseded ones.
OneLiveFulfilment ==
  \A q, r \in Runs : runWork[q] = runWork[r] /\ Live(q) /\ Live(r) => q = r

\* A revision of a one-shot Work is delivered by one fulfilment only, also when
\* its acceptance was recorded while the Work was halted: a later Run finds the
\* receipt (reconcile_reminder_receipt) instead of sending again.
RevisionIsDeliveredOnce ==
  \A q, r \in Runs :
    /\ runWork[q] = runWork[r] /\ runRev[q] = runRev[r] /\ runWork[q] \notin Daily
    /\ via[q] \in {"channel", "confirmed"} /\ via[r] \in {"channel", "confirmed"}
    => q = r

\* A Work reported as paused or stopped has no fulfilment whose outcome is open,
\* as docs/architecture/execution.md promises: control, the end of a Run, a
\* decision and converge_controls each look before they settle.
HaltIsHonest ==
  \A r \in Runs : dSt[r] \in {"sending", "uncertain"}
    => wStatus[runWork[r]] \notin {"paused", "stopped"}

\* A completed Work has an accepted delivery of a succeeded Run of its current
\* revision and epoch (what enforce_work_completion demands of the receipt).
CompletionIsBacked ==
  \A w \in Works : wStatus[w] = "completed" =>
    \E r \in Runs : /\ runWork[r] = w /\ runRev[r] = revision[w] /\ runEpoch[r] = epoch[w]
                    /\ runSt[r] = "succeeded" /\ dSt[r] = "accepted"

\* An active Work that awaits a delivery awaits one that can still be accepted,
\* unless the user disabled the target or the outcome was recorded without the
\* target's authority: both leave the Work to a new command of the user.
WaitCanEnd ==
  \A w \in Works : wStatus[w] = "active" /\ cont[w].kind = "awaiting_delivery" =>
    LET r == cont[w].ref IN dSt[r] \in Open \/ ~target[w] \/ r \in unapplied

\* An active Work that is ready and has no coordinator has a pending wakeup:
\* without one DispatchDueWork would never look at it again.
ReadyIsScheduled ==
  \A w \in Works :
    wStatus[w] = "active" /\ cont[w].kind = "ready" /\ coordinator[w] = None => wakeup[w]

\* Deliveries, Works and channel agree: repeats are decided, a halt is honest, what
\* waits can end (capacity, delivery and Work services).
Safety ==
  /\ TypeOK
  /\ RepeatsAreDecided
  /\ AcceptedIsComplete
  /\ CapacityIsKept
  /\ OneLiveFulfilment
  /\ RevisionIsDeliveredOnce
  /\ HaltIsHonest
  /\ CompletionIsBacked
  /\ WaitCanEnd
  /\ ReadyIsScheduled
-----------------------------------------------------------------------------
(* Liveness *)

\* No delivery stays pending or sending for ever: a lost or hanging sender costs
\* its slot only until the sweep of a later claim.
DeliveryEnds ==
  \A d \in Deliveries : dSt[d] \in {"pending", "sending"}
    ~> dSt[d] \in {"accepted", "failed", "uncertain", "cancelled"}

\* Pausing and stopping end, unless an uncertain outcome waits for a decision.
HaltEnds ==
  \A w \in Works : wStatus[w] \in {"pausing", "stopping"}
    ~> \/ wStatus[w] \notin {"pausing", "stopping"}
       \/ \E r \in Runs : runWork[r] = w /\ dSt[r] = "uncertain"
=============================================================================
