-------------------------- MODULE WorkDeliveryProof --------------------------
(***************************************************************************)
(* However many Works, Runs, senders and parts: what the channel gets      *)
(* twice was decided, what counts as accepted is complete, the capacity is *)
(* kept, a Work has one fulfilment under way, a halt is honest and what    *)
(* waits can end.                                                          *)
(***************************************************************************)
EXTENDS WorkDelivery, FiniteSetTheorems, TLAPS

Unfinished == {"queued", "running", "cancelling"}
AtChannel == {"sending", "uncertain"}

-----------------------------------------------------------------------------
(* The Works and their Runs *)

\* Only a succeeded Run has a fulfilment, only a coordinator is unfinished.
RunOK(r) ==
  /\ dSt[r] # "none" => runSt[r] = "succeeded"
  /\ runSt[r] # "none" =>
       /\ runWork[r] \in Works
       /\ runRev[r] <= revision[runWork[r]]
       /\ runEpoch[r] <= epoch[runWork[r]]
  /\ runSt[r] \in Unfinished => coordinator[runWork[r]] = r

\* While a Work has a coordinator it awaits nothing, and nothing is at the channel.
CoordinatorOK(w) == coordinator[w] # None =>
  /\ runWork[coordinator[w]] = w /\ runSt[coordinator[w]] \in Unfinished
  /\ cont[w].ref = None /\ cont[w].op = None
  /\ \A r \in Runs : runWork[r] = w => dSt[r] \notin AtChannel
  /\ wStatus[w] = "active" /\ runRev[coordinator[w]] # revision[w] /\ cont[w].kind = "ready"
       => wakeup[w]

\* The fulfilment a continuation refers to is the only one that may be at the channel.
ContinuationOK(w) ==
  /\ cont[w].op # None => cont[w].kind = "blocked" /\ cont[w].ref = None
  /\ cont[w].kind = "awaiting_delivery" => cont[w].ref # None
  /\ cont[w].ref # None =>
       LET f == cont[w].ref IN
       /\ f \in Runs /\ runWork[f] = w /\ runSt[f] = "succeeded" /\ dSt[f] # "none"
       /\ cont[w].kind # "awaiting_delivery" => dSt[f] = "cancelled"
       /\ \A r \in Runs : runWork[r] = w /\ dSt[r] \in AtChannel => r = f
       /\ wStatus[w] = "active" => runRev[f] = revision[w] /\ runEpoch[f] = epoch[w]

\* What is open for the current revision of an active Work is what it awaits.
OpenIsAwaited(r) ==
  runSt[r] = "succeeded" =>
    LET w == runWork[r] IN
    dSt[r] \in AtChannel \cup {"failed"} /\ runRev[r] = revision[w] /\ wStatus[w] = "active"
      => cont[w].ref = r

OneAtChannel ==
  \A q, r \in Runs :
    runWork[q] = runWork[r] /\ dSt[q] \in AtChannel /\ dSt[r] \in AtChannel => q = r

\* Delivered, or it may still be.
MayDeliver(r) ==
  \/ via[r] \in {"channel", "confirmed"}
  \/ dSt[r] \in AtChannel \cup {"failed"}
  \/ dSt[r] = "pending" /\ IsCurrent(runWork[r], r)

OneMayDeliver ==
  \A q, r \in Runs :
    /\ runWork[q] = runWork[r] /\ runRev[q] = runRev[r] /\ runWork[q] \notin Daily
    /\ MayDeliver(q) /\ MayDeliver(r)
    => q = r

WorkSound ==
  /\ \A r \in Runs : RunOK(r) /\ OpenIsAwaited(r)
  /\ \A w \in Works : CoordinatorOK(w) /\ ContinuationOK(w)
  /\ OneAtChannel /\ OneMayDeliver
  /\ HaltIsHonest /\ CompletionIsBacked /\ WaitCanEnd /\ ReadyIsScheduled

-----------------------------------------------------------------------------
(* The deliveries, their senders and the channel *)

RowOK(d) ==
  /\ dSt[d] \in Open \cup {"none"} => dPart[d] < Parts
  /\ dSt[d] = "none" => dPart[d] = 0 /\ attempts[d] = 0
  /\ via[d] # "none" => dSt[d] = "accepted"
  /\ via[d] = "channel" => dPart[d] = Parts /\ d \notin Inbox

\* A sender has a lease of its own and, while that is valid, the row's next part.
SenderOK(s) == pos[s] # "idle" =>
  LET d == job[s].d IN
  /\ d \in Deliveries /\ job[s].tok \in 1..attempts[d]
  /\ job[s].part <= dPart[d] /\ job[s].part < Parts
  /\ HoldsLease(s) => job[s].part = dPart[d]
  /\ d \in Inbox => pos[s] = "answered"
  /\ pos[s] = "claimed" => Request(s) \notin wire
  /\ pos[s] = "waiting" /\ Request(s) \notin wire => taken[d][job[s].part] > 0
  /\ pos[s] = "answered" => out[s] # "none"
  /\ out[s] = "accepted" /\ d \notin Inbox => pos[s] = "answered" /\ taken[d][job[s].part] > 0

OwnLease ==
  \A s, t \in Senders :
    pos[s] # "idle" /\ pos[t] # "idle" /\ job[s].d = job[t].d /\ job[s].tok = job[t].tok => s = t

WireOK == \A m \in wire : m[2] \in 1..attempts[m[1]] /\ m[3] <= dPart[m[1]]

\* The channel has every part before next_part, and none after it.
TakenOK(d) ==
  \A p \in 0..Parts - 1 :
    /\ taken[d][p] > 0 => p <= dPart[d] /\ attempts[d] > 0
    /\ d \notin Inbox /\ via[d] # "revalidated" /\ p < dPart[d] => taken[d][p] > 0

\* Leases under which part p of d may still reach the channel
Underway(d, p) ==
  {t \in 1..attempts[d] :
     \/ <<d, t, p>> \in wire
     \/ \E s \in Senders : pos[s] = "claimed" /\ job[s] = [d |-> d, tok |-> t, part |-> p]}

\* ... and the claim that would add one
Waiting(d, p) == IF dSt[d] = "pending" /\ dPart[d] = p THEN 1 ELSE 0

Decided(d) ==
  \A p \in 0..Parts - 1 :
    taken[d][p] + Cardinality(Underway(d, p)) + Waiting(d, p) <= 1 + again[d]

LeaseSound ==
  /\ \A d \in Deliveries : RowOK(d) /\ TakenOK(d)
  /\ \A s \in Senders : SenderOK(s)
  /\ OwnLease /\ WireOK

CapacitySound == IsFiniteSet(Held(dSt)) /\ CapacityIsKept

Sound ==
  /\ TypeOK
  /\ WorkSound
  /\ LeaseSound
  /\ \A d \in Deliveries : Decided(d)
  /\ CapacitySound
-----------------------------------------------------------------------------
(* Types *)

LEMMA ProtectedIs ==
  ASSUME NEW w, NEW c
  PROVE  \/ /\ \A r \in Runs : runWork[r] = w => dSt[r] \notin AtChannel
            /\ Protected(w, c) = c
         \/ \E r \in Runs : /\ runWork[r] = w /\ dSt[r] \in AtChannel
                            /\ Protected(w, c) = Cont("blocked", None, r)
<1>1. CASE Unresolved(w, dSt) = {}
  BY <1>1 DEF Unresolved, Protected, AtChannel
<1>2. CASE Unresolved(w, dSt) # {}
  <2> DEFINE q == CHOOSE r \in Unresolved(w, dSt) : TRUE
  <2>1. q \in Unresolved(w, dSt)
    BY <1>2
  <2>2. Protected(w, c) = Cont("blocked", None, q)
    BY <1>2 DEF Protected
  <2> QED
    BY <2>1, <2>2 DEF Unresolved, AtChannel
<1> QED
  BY <1>1, <1>2

\* Kinds, references and operations
Continuation == [kind: ContKind, ref: Runs \cup {None}, op: Runs \cup {None}]

LEMMA ContType ==
  ASSUME NEW k \in ContKind, NEW f \in Runs \cup {None}, NEW o \in Runs \cup {None}
  PROVE  Cont(k, f, o) \in Continuation
BY DEF Cont, Continuation

LEMMA ProtectedType ==
  ASSUME NEW w, NEW c \in Continuation
  PROVE  Protected(w, c) \in Continuation
<1>1. \A r \in Runs : Cont("blocked", None, r) \in Continuation
  BY DEF Cont, Continuation, ContKind
<1> QED
  BY <1>1, ProtectedIs

LEMMA InitialContType ==
  ASSUME NEW w
  PROVE  InitialCont(w) \in Continuation
BY DEF InitialCont, Cont, Continuation, ContKind

LEMMA CancelTypes ==
  ASSUME StoreTypeOK, NEW w, CancelCoordinator(w)
  PROVE  /\ dSt' \in [Deliveries -> DeliveryState]
         /\ runSt' \in [Runs -> RunStatus]
BY DEF StoreTypeOK, CancelCoordinator, CancelledPending, DeliveryState, RunStatus

LEMMA SettledType ==
  ASSUME NEW st \in WorkStatus
  PROVE  Settled(st) \in WorkStatus
BY DEF Settled, WorkStatus

LEMMA ReceiptTypes ==
  ASSUME StoreTypeOK, NEW d \in Deliveries, ApplyReceipt(d)
  PROVE  /\ wStatus' \in [Works -> WorkStatus]
         /\ cont' \in [Works -> Continuation]
         /\ wakeup' \in [Works -> BOOLEAN]
<1>1. /\ Cont("at_time", None, None) \in Continuation
      /\ Cont("none", None, None) \in Continuation
  BY DEF Cont, Continuation, ContKind
<1>2. CASE d \in Runs /\ IsCurrent(runWork[d], d)
  <2> DEFINE w == runWork[d]
  <2>1. CASE w \in Daily
    BY <1>1, <1>2, <2>1 DEF StoreTypeOK, ApplyReceipt, Continuation
  <2>2. CASE w \notin Daily
    <3>1. /\ wStatus' = [wStatus EXCEPT ![w] = "completed"]
          /\ cont' = [cont EXCEPT ![w] = Cont("none", None, None)]
          /\ wakeup' = [wakeup EXCEPT ![w] = FALSE]
      BY <1>2, <2>2 DEF ApplyReceipt
    <3>2. wStatus' \in [Works -> WorkStatus]
      BY <3>1 DEF StoreTypeOK, WorkStatus
    <3> QED
      BY <1>1, <3>1, <3>2 DEF StoreTypeOK, Continuation
  <2> QED
    BY <2>1, <2>2
<1>3. CASE ~(d \in Runs /\ IsCurrent(runWork[d], d))
  BY <1>3 DEF StoreTypeOK, ApplyReceipt, Continuation
<1> QED
  BY <1>2, <1>3

LEMMA StoreTypes ==
  ASSUME TypeOK, WorkSound, StoreNext
  PROVE  StoreTypeOK'
<1> USE DEF mandateVars, runVars, targetVars, leaseVars, deliveryVars, ghostVars
<1>0. StoreTypeOK /\ Runs \subseteq Deliveries /\ Chats \subseteq Deliveries
  BY DEF TypeOK, Deliveries
<1>1. \A n \in Nat : n + 1 \in Nat
  OBVIOUS
<1>2. Command => commands' \in 0..MaxCommands
  BY <1>0, WorkAssumption DEF Command, StoreTypeOK
<1>3. cont \in [Works -> Continuation]
  BY <1>0 DEF StoreTypeOK, Continuation
<1>4. ASSUME NEW w \in Works, Revise(w)
      PROVE  StoreTypeOK'
  <2>1. CancelCoordinator(w) /\ Command
    BY <1>4 DEF Revise
  <2>2. cont' \in [Works -> Continuation]
    BY <1>3, <1>4, InitialContType DEF Revise
  <2>3. wakeup' \in [Works -> BOOLEAN]
    BY <1>0, <1>4 DEF Revise, StoreTypeOK
  <2> QED
    BY <1>0, <1>2, <1>4, <2>1, <2>2, <2>3, CancelTypes DEF Revise, StoreTypeOK, Continuation
<1>5. ASSUME NEW w \in Works, NEW t \in WorkStatus, NEW f \in WorkStatus,
             Halt(w, {"active"}, t, f) \/ Halt(w, {"active", "pausing", "paused"}, t, f)
      PROVE  StoreTypeOK'
  <2>1. CancelCoordinator(w) /\ Command
    BY <1>5 DEF Halt
  <2>2. cont' \in [Works -> Continuation]
    BY <1>3, <1>5, ProtectedType DEF Halt
  <2>3. wStatus' \in [Works -> WorkStatus]
    <3>1. \E st \in {t, f} : wStatus' = [wStatus EXCEPT ![w] = st]
      BY <1>5 DEF Halt
    <3> QED
      BY <1>0, <3>1 DEF StoreTypeOK
  <2>4. /\ epoch' = [epoch EXCEPT ![w] = @ + 1] /\ wakeup' = [wakeup EXCEPT ![w] = FALSE]
        /\ UNCHANGED <<revision, coordinator, runWork, runRev, runEpoch, targetVars, leaseVars,
                       via, ghostVars>>
    BY <1>5 DEF Halt
  <2> QED
    BY <1>0, <1>2, <2>1, <2>2, <2>3, <2>4, CancelTypes DEF StoreTypeOK, Continuation
<1>6. ASSUME NEW w \in Works, Resume(w)
      PROVE  StoreTypeOK'
  <2>1. CancelCoordinator(w) /\ Command
    BY <1>6 DEF Resume
  <2>2. cont' \in [Works -> Continuation]
    BY <1>3, <1>6, InitialContType, ProtectedType DEF Resume
  <2>3. wStatus' \in [Works -> WorkStatus] /\ wakeup' \in [Works -> BOOLEAN]
    BY <1>0, <1>6 DEF Resume, StoreTypeOK, WorkStatus
  <2> QED
    BY <1>0, <1>2, <1>6, <2>1, <2>2, <2>3, CancelTypes DEF Resume, StoreTypeOK, Continuation
<1>7. ASSUME NEW w \in Works, DisableTarget(w)
      PROVE  StoreTypeOK'
  <2>1. dSt' \in [Deliveries -> DeliveryState]
    BY <1>0, <1>7 DEF DisableTarget, CancelledPending, StoreTypeOK, DeliveryState
  <2> QED
    BY <1>0, <1>2, <1>7, <2>1 DEF DisableTarget, StoreTypeOK
<1>8. ASSUME NEW w \in Works, AdvanceWork(w) \/ DispatchDueWork(w)
      PROVE  StoreTypeOK'
  <2>1. Admit(w) /\ UNCHANGED <<targetVars, deliveryVars>> /\ commands' \in 0..MaxCommands
    BY <1>0, <1>2, <1>8 DEF AdvanceWork, DispatchDueWork, StoreTypeOK
  <2>2. cont' \in [Works -> Continuation]
    BY <1>3, <2>1, ContType DEF Admit, ContKind
  <2>3. CASE /\ wakeup' = [wakeup EXCEPT ![w] = TRUE]
             /\ UNCHANGED <<wStatus, revision, epoch, coordinator, runVars>>
    BY <1>0, <2>1, <2>2, <2>3 DEF StoreTypeOK, Continuation
  <2>4. ASSUME NEW r \in Runs,
               /\ runSt' = [runSt EXCEPT ![r] = "queued"]
               /\ runWork' = [runWork EXCEPT ![r] = w]
               /\ runRev' = [runRev EXCEPT ![r] = revision[w]]
               /\ runEpoch' = [runEpoch EXCEPT ![r] = epoch[w] + 1]
               /\ epoch' = [epoch EXCEPT ![w] = @ + 1]
               /\ coordinator' = [coordinator EXCEPT ![w] = r]
               /\ wakeup' = [wakeup EXCEPT ![w] = FALSE]
               /\ UNCHANGED <<wStatus, revision>>
        PROVE  StoreTypeOK'
    BY <1>0, <2>1, <2>2, <2>4 DEF StoreTypeOK, Continuation, RunStatus
  <2> QED
    BY <2>1, <2>3, <2>4 DEF Admit
<1>9. ASSUME NEW w \in Works, Occurrence(w)
      PROVE  StoreTypeOK'
  <2>1. cont' \in [Works -> Continuation]
    BY <1>3, <1>9, ContType DEF Occurrence, ContKind
  <2> QED
    BY <1>0, <1>9, <2>1 DEF Occurrence, StoreTypeOK, Continuation
<1>10. ASSUME NEW w \in Works, ConvergeControls(w)
       PROVE  StoreTypeOK'
  <2>1. cont' \in [Works -> Continuation]
    BY <1>3, <1>10, ContType DEF ConvergeControls, ContKind
  <2>2. wStatus' \in [Works -> WorkStatus]
    BY <1>0, <1>10, SettledType DEF ConvergeControls, StoreTypeOK
  <2> QED
    BY <1>0, <1>10, <2>1, <2>2 DEF ConvergeControls, StoreTypeOK, Continuation
<1>11. ASSUME NEW w \in Works, NEW r \in Runs, NEW o \in {"accepted", "again"},
              ResolveDelivery(w, r, o)
       PROVE  StoreTypeOK'
  <2>1. /\ wStatus' \in [Works -> WorkStatus]
        /\ cont' \in [Works -> Continuation]
        /\ wakeup' \in [Works -> BOOLEAN]
        /\ epoch' \in [Works -> Nat]
    <3>1. CASE /\ wStatus' = [wStatus EXCEPT ![w] = Settled(@)]
               /\ epoch' = [epoch EXCEPT ![w] = @ + 1]
               /\ cont' = [cont EXCEPT ![w] = Cont("blocked", None, None)]
               /\ UNCHANGED wakeup
      <4>1. wStatus' \in [Works -> WorkStatus]
        BY <1>0, <3>1, SettledType DEF StoreTypeOK
      <4>2. cont' \in [Works -> Continuation]
        BY <1>3, <3>1, ContType DEF ContKind
      <4> QED
        BY <1>0, <3>1, <4>1, <4>2 DEF StoreTypeOK
    <3>2. CASE ApplyReceipt(r) /\ UNCHANGED epoch
      BY <1>0, <3>2, ReceiptTypes DEF StoreTypeOK
    <3>3. CASE UNCHANGED <<wStatus, cont, wakeup, epoch>>
      BY <1>0, <1>3, <3>3 DEF StoreTypeOK
    <3> QED
      BY <1>11, <3>1, <3>2, <3>3 DEF ResolveDelivery
  <2>2. /\ dSt' \in [Deliveries -> DeliveryState]
        /\ via' \in [Deliveries -> Receipt]
        /\ dTok' \in [Deliveries -> Nat]
        /\ again' \in [Deliveries -> Nat]
        /\ unapplied' \in SUBSET Deliveries
    <3>1. /\ \E st \in DeliveryState : dSt' = [dSt EXCEPT ![r] = st]
          /\ UNCHANGED via \/ via' = [via EXCEPT ![r] = "confirmed"]
          /\ UNCHANGED dTok \/ dTok' = [dTok EXCEPT ![r] = 0]
          /\ UNCHANGED again \/ again' = [again EXCEPT ![r] = @ + 1]
          /\ UNCHANGED unapplied \/ unapplied' = unapplied \cup {r}
      BY <1>0, <1>11 DEF ResolveDelivery, StoreTypeOK, DeliveryState
    <3> QED
      BY <1>0, <3>1 DEF StoreTypeOK, Receipt
  <2> QED
    BY <1>0, <1>2, <1>11, <2>1, <2>2 DEF ResolveDelivery, StoreTypeOK, Continuation
<1>12. ASSUME NEW r \in Runs, StartRun(r) \/ CancelRun(r)
       PROVE  StoreTypeOK'
  <2>1. runSt' \in [Runs -> RunStatus] /\ commands' \in 0..MaxCommands
    BY <1>0, <1>2, <1>12 DEF StartRun, CancelRun, StoreTypeOK, RunStatus
  <2> QED
    BY <1>0, <1>12, <2>1 DEF StartRun, CancelRun, StoreTypeOK
<1>13. ASSUME NEW r \in Runs, ExecuteReminder(r)
       PROVE  StoreTypeOK'
  <2>1. runWork[r] \in Works
    BY <1>0, <1>13 DEF ExecuteReminder, WorkSound, RunOK
  <2>2. cont' \in [Works -> Continuation]
    <3>1. /\ Cont("none", None, None) \in Continuation
          /\ Cont("awaiting_delivery", r, None) \in Continuation
      BY ContType DEF ContKind
    <3>2. ContAfterRun(r, Cont("awaiting_delivery", r, None)) \in Continuation
      BY <1>3, <2>1, <3>1, ProtectedType DEF ContAfterRun
    <3>3. \E c \in Continuation : cont' = [cont EXCEPT ![runWork[r]] = c]
      BY <1>13, <3>1, <3>2 DEF ExecuteReminder
    <3> QED
      BY <1>3, <3>3
  <2>3. wStatus' \in [Works -> WorkStatus] /\ wakeup' \in [Works -> BOOLEAN]
    BY <1>0, <1>13, <2>1 DEF ExecuteReminder, StoreTypeOK, WorkStatus
  <2>4. /\ runSt' \in [Runs -> RunStatus]
        /\ coordinator' \in [Works -> Runs \cup {None}]
        /\ dSt' \in [Deliveries -> DeliveryState]
        /\ dPart' \in [Deliveries -> Nat]
        /\ via' \in [Deliveries -> Receipt]
    BY <1>0, <1>13, <2>1 DEF ExecuteReminder, StoreTypeOK, RunStatus, DeliveryState, Receipt
  <2> QED
    BY <1>0, <1>13, <2>2, <2>3, <2>4 DEF ExecuteReminder, StoreTypeOK, Continuation
<1>14. ASSUME NEW r \in Runs, FailRun(r) \/ FinalizeCancelled(r)
       PROVE  StoreTypeOK'
  <2>1. PICK st \in RunStatus : EndRun(r, st)
    BY <1>14 DEF FailRun, FinalizeCancelled, RunStatus
  <2>2. runWork[r] \in Works
    BY <1>0, <1>14 DEF FailRun, FinalizeCancelled, WorkSound, RunOK
  <2>3. cont' \in [Works -> Continuation]
    BY <1>3, <2>1, <2>2, ContType, ProtectedType DEF EndRun, ContAfterRun, ContKind
  <2>4. wStatus' \in [Works -> WorkStatus]
    BY <1>0, <2>1, <2>2, SettledType DEF EndRun, StoreTypeOK
  <2>5. /\ runSt' \in [Runs -> RunStatus]
        /\ coordinator' \in [Works -> Runs \cup {None}]
        /\ epoch' \in [Works -> Nat]
    BY <1>0, <2>1, <2>2 DEF EndRun, StoreTypeOK
  <2> QED
    BY <1>0, <2>1, <2>3, <2>4, <2>5 DEF EndRun, StoreTypeOK, Continuation
<1>15. ASSUME NEW d \in Chats, EnqueueChat(d) \/ RetryUncertain(d)
       PROVE  StoreTypeOK'
  <2>1. dSt' \in [Deliveries -> DeliveryState] /\ commands' \in 0..MaxCommands
    <3>1. dSt' = [dSt EXCEPT ![d] = "pending"] /\ (Command \/ UNCHANGED commands)
      BY <1>15 DEF EnqueueChat, RetryUncertain
    <3> QED
      BY <1>0, <1>2, <3>1 DEF StoreTypeOK, DeliveryState
  <2>2. dTok' \in [Deliveries -> Nat] /\ again' \in [Deliveries -> Nat]
    <3>1. /\ dTok' = [dTok EXCEPT ![d] = 0] \/ UNCHANGED dTok
          /\ again' = [again EXCEPT ![d] = @ + 1] \/ UNCHANGED again
      BY <1>15 DEF EnqueueChat, RetryUncertain
    <3>2. dTok' \in [Deliveries -> Nat]
      BY <1>0, <3>1 DEF StoreTypeOK
    <3>3. again' \in [Deliveries -> Nat]
      BY <1>0, <3>1 DEF StoreTypeOK
    <3> QED
      BY <3>2, <3>3
  <2> QED
    BY <1>0, <1>15, <2>1, <2>2 DEF EnqueueChat, RetryUncertain, StoreTypeOK
<1>16. ASSUME NEW a \in Accounts, ChangeBinding(a)
       PROVE  StoreTypeOK'
  BY <1>0, <1>2, <1>16 DEF ChangeBinding, StoreTypeOK
<1>17. \A w \in Works : Pause(w) \/ Stop(w) => StoreTypeOK'
  BY <1>5 DEF Pause, Stop, WorkStatus
<1> QED
  BY <1>4, <1>17, <1>6, <1>7, <1>8, <1>9, <1>10, <1>11, <1>12, <1>13, <1>14, <1>15, <1>16
     DEF StoreNext

-----------------------------------------------------------------------------
(* What everyone but the senders does to a delivery *)

RowKept(d) == UNCHANGED <<dPart[d], dTok[d], via[d], again[d]>>

StoreRow(d) ==
  \/ RowKept(d) /\ UNCHANGED dSt[d]
  \/ RowKept(d) /\ dSt[d] \in {"pending", "failed"} /\ dSt'[d] = "cancelled"
  \/ RowKept(d) /\ dSt[d] = "none" /\ dSt'[d] = "pending"
  \/ /\ dSt[d] = "none" /\ dSt'[d] = "accepted"
     /\ dPart'[d] = 1 /\ via'[d] = "revalidated" /\ UNCHANGED <<dTok[d], again[d]>>
  \/ /\ dSt[d] \in {"failed", "uncertain"} /\ UNCHANGED dPart[d]
     /\ \/ dSt'[d] = "accepted" /\ via'[d] = "confirmed" /\ UNCHANGED <<dTok[d], again[d]>>
        \/ /\ dSt'[d] = "pending" /\ dTok'[d] = 0 /\ again'[d] = again[d] + 1
           /\ UNCHANGED via[d]
        \/ dSt'[d] = "cancelled" /\ dTok'[d] = 0 /\ UNCHANGED <<again[d], via[d]>>

LEMMA CancelRows ==
  ASSUME StoreTypeOK, NEW w, dSt' = CancelledPending(w), UNCHANGED <<dPart, dTok, via, again>>,
         NEW d \in Deliveries
  PROVE  StoreRow(d)
BY DEF StoreTypeOK, CancelledPending, StoreRow, RowKept

LEMMA StoreRows ==
  ASSUME TypeOK, WorkSound, LeaseSound, StoreNext
  PROVE  UNCHANGED attempts /\ \A d \in Deliveries : StoreRow(d)
<1> USE DEF targetVars, leaseVars, deliveryVars, ghostVars
<1>0. StoreTypeOK /\ Runs \subseteq Deliveries /\ Chats \subseteq Deliveries
  BY DEF TypeOK, Deliveries
<1> DEFINE Goal == UNCHANGED attempts /\ \A d \in Deliveries : StoreRow(d)
<1>1. (UNCHANGED deliveryVars) => Goal
  BY DEF StoreRow, RowKept
<1>2. ASSUME NEW w \in Works, \/ Revise(w) \/ Pause(w) \/ Stop(w) \/ Resume(w)
                              \/ DisableTarget(w)
      PROVE  Goal
  <2>1. dSt' = CancelledPending(w) /\ UNCHANGED <<dPart, dTok, via, again, attempts>>
    BY <1>2 DEF Revise, Pause, Stop, Halt, Resume, DisableTarget, CancelCoordinator
  <2> QED
    BY <1>0, <2>1, CancelRows
<1>3. ASSUME NEW w \in Works, NEW r \in Runs, NEW o \in {"accepted", "again"},
             ResolveDelivery(w, r, o)
      PROVE  Goal
  <2>1. dSt[r] \in {"failed", "uncertain"} /\ UNCHANGED <<dPart, attempts>>
    BY <1>3 DEF ResolveDelivery
  <2>2. CASE o = "accepted"
    <3>1. /\ dSt' = [dSt EXCEPT ![r] = "accepted"] /\ via' = [via EXCEPT ![r] = "confirmed"]
          /\ UNCHANGED <<dTok, again>>
      BY <1>3, <2>2 DEF ResolveDelivery
    <3> QED
      BY <1>0, <2>1, <3>1 DEF StoreTypeOK, StoreRow, RowKept
  <2>3. CASE o = "again" /\ Authorized(r) /\ IsCurrent(w, r)
    <3>1. /\ dSt' = [dSt EXCEPT ![r] = "pending"] /\ dTok' = [dTok EXCEPT ![r] = 0]
          /\ again' = [again EXCEPT ![r] = @ + 1] /\ UNCHANGED via
      BY <1>3, <2>3 DEF ResolveDelivery
    <3> QED
      BY <1>0, <2>1, <3>1 DEF StoreTypeOK, StoreRow, RowKept
  <2>4. CASE o = "again" /\ ~(Authorized(r) /\ IsCurrent(w, r))
    <3>1. /\ dSt' = [dSt EXCEPT ![r] = "cancelled"] /\ dTok' = [dTok EXCEPT ![r] = 0]
          /\ again' = [again EXCEPT ![r] = @] /\ UNCHANGED via
      BY <1>3, <2>4 DEF ResolveDelivery
    <3> QED
      BY <1>0, <2>1, <3>1 DEF StoreTypeOK, StoreRow, RowKept
  <2> QED
    BY <2>2, <2>3, <2>4
<1>4. ASSUME NEW r \in Runs, ExecuteReminder(r)
      PROVE  Goal
  <2>1. /\ UNCHANGED <<dTok, attempts, again>>
        /\ \/ /\ dSt' = [dSt EXCEPT ![r] = "accepted"] /\ dPart' = [dPart EXCEPT ![r] = 1]
              /\ via' = [via EXCEPT ![r] = "revalidated"]
           \/ /\ dSt' = [dSt EXCEPT ![r] = "pending"] /\ dPart' = [dPart EXCEPT ![r] = 0]
              /\ via' = [via EXCEPT ![r] = "none"]
    BY <1>4 DEF ExecuteReminder
  <2>2. dSt[r] = "none" /\ dPart[r] = 0 /\ via[r] = "none"
    <3>1. dSt[r] = "none"
      BY <1>4 DEF ExecuteReminder, WorkSound, RunOK
    <3> QED
      BY <1>0, <3>1 DEF LeaseSound, RowOK
  <2> QED
    BY <1>0, <2>1, <2>2 DEF StoreTypeOK, StoreRow, RowKept
<1>5. ASSUME NEW d \in Chats, EnqueueChat(d) \/ RetryUncertain(d)
      PROVE  Goal
  <2>1. CASE EnqueueChat(d)
    BY <1>0, <2>1 DEF EnqueueChat, StoreTypeOK, StoreRow, RowKept
  <2>2. CASE RetryUncertain(d)
    BY <1>0, <2>2 DEF RetryUncertain, StoreTypeOK, StoreRow, RowKept
  <2> QED
    BY <1>5, <2>1, <2>2
<1>6. ASSUME NEW w \in Works, \/ AdvanceWork(w) \/ DispatchDueWork(w) \/ Occurrence(w)
                              \/ ConvergeControls(w)
      PROVE  UNCHANGED deliveryVars
  BY <1>6 DEF AdvanceWork, DispatchDueWork, Occurrence, ConvergeControls
<1>7. ASSUME NEW r \in Runs, StartRun(r) \/ CancelRun(r) \/ FailRun(r) \/ FinalizeCancelled(r)
      PROVE  UNCHANGED deliveryVars
  BY <1>7 DEF StartRun, CancelRun, FailRun, FinalizeCancelled, EndRun
<1>8. \A a \in Accounts : ChangeBinding(a) => UNCHANGED deliveryVars
  BY DEF ChangeBinding
<1> QED
  BY <1>1, <1>2, <1>3, <1>4, <1>5, <1>6, <1>7, <1>8 DEF StoreNext

-----------------------------------------------------------------------------
(* Leases, parts and requests *)

LEMMA RowTypes ==
  ASSUME TypeOK
  PROVE  /\ \A d \in Deliveries :
              /\ dSt[d] \in DeliveryState /\ via[d] \in Receipt
              /\ dPart[d] \in 0..Parts /\ dTok[d] \in Nat /\ attempts[d] \in Nat
              /\ again[d] \in Nat
              /\ \A p \in 0..Parts - 1 : taken[d][p] \in Nat
         /\ \A s \in Senders :
              /\ pos[s] \in {"idle", "claimed", "waiting", "answered"}
              /\ out[s] \in {"none", "accepted", "failed", "uncertain"}
              /\ job[s] \in [d: Deliveries \cup {None}, tok: Nat, part: Nat]
              /\ job[s].part \in Nat /\ job[s].tok \in Nat
         /\ \A m \in wire : m[1] \in Deliveries /\ m[2] \in Nat /\ m[3] \in 0..Parts - 1
         /\ Parts \in Nat \ {0}
BY SenderAssumption DEF TypeOK, StoreTypeOK

LEMMA StoreLeases ==
  ASSUME TypeOK, WorkSound, LeaseSound, StoreNext, UNCHANGED <<senderVars, channelVars>>
  PROVE  LeaseSound'
<1>1. UNCHANGED <<pos, job, out, wire, taken, attempts>>
  BY StoreRows DEF senderVars, channelVars
<1>2. ASSUME NEW d \in Deliveries
      PROVE  /\ RowOK(d)' /\ dPart[d] <= dPart'[d]
             /\ dSt'[d] = "sending" => UNCHANGED <<dSt[d], dPart[d], dTok[d]>>
             /\ d \notin Inbox /\ via'[d] # "revalidated" =>
                  via[d] # "revalidated" /\ UNCHANGED dPart[d]
  <2>1. StoreRow(d) /\ RowOK(d)
    BY StoreRows DEF LeaseSound
  <2> QED
    BY <1>1, <2>1, RowTypes DEF StoreRow, RowKept, RowOK, Open
<1>3. ASSUME NEW d \in Deliveries
      PROVE  TakenOK(d)'
  <2>1. TakenOK(d)
    BY DEF LeaseSound
  <2>2. dPart'[d] \in Nat
    BY StoreTypes DEF StoreTypeOK
  <2> QED
    BY <1>1, <1>2, <2>1, <2>2, RowTypes DEF TakenOK
<1>4. ASSUME NEW s \in Senders
      PROVE  SenderOK(s)'
  <2>1. SenderOK(s)
    BY DEF LeaseSound
  <2>2. CASE pos[s] # "idle"
    <3>1. job[s].d \in Deliveries /\ dPart'[job[s].d] \in Nat
      BY <2>1, <2>2, StoreTypes DEF SenderOK, StoreTypeOK
    <3> QED
      BY <1>1, <1>2, <2>1, <2>2, <3>1, RowTypes DEF SenderOK, HoldsLease, Request
  <2> QED
    BY <1>1, <2>2 DEF SenderOK
<1>5. OwnLease'
  BY <1>1 DEF LeaseSound, OwnLease
<1>6. WireOK'
  <2>1. \A d \in Deliveries : dPart'[d] \in Nat
    BY StoreTypes DEF StoreTypeOK
  <2> QED
    BY <1>1, <1>2, <2>1, RowTypes DEF LeaseSound, WireOK
<1> QED
  BY <1>2, <1>3, <1>4, <1>5, <1>6 DEF LeaseSound

\* The sweep of a claim leaves every row as it is, or declares it uncertain.
LEMMA SweepIs ==
  ASSUME TypeOK
  PROVE  /\ Swept \in [Deliveries -> DeliveryState]
         /\ Unlapsed \in [Deliveries -> BOOLEAN]
         /\ \A d \in Deliveries : Swept[d] = dSt[d] \/ (dSt[d] = "sending" /\ Swept[d] = "uncertain")
BY DEF Swept, Unlapsed, TypeOK, StoreTypeOK, DeliveryState

\* A claim that sends nothing
LEMMA IdleClaim ==
  ASSUME TypeOK, LeaseSound, NEW s \in Senders,
         ClaimNothing(s) \/ \E d \in Deliveries : ClaimCancels(s, d)
  PROVE  /\ LeaseSound'
         /\ UNCHANGED <<dPart, dTok, attempts, via, again, pos, job, out, wire, taken>>
         /\ \A d \in Deliveries : \/ dSt'[d] = dSt[d]
                                  \/ dSt[d] = "sending" /\ dSt'[d] = "uncertain"
                                  \/ dSt[d] = "pending" /\ dSt'[d] = "cancelled"
<1>1. UNCHANGED <<dPart, dTok, attempts, via, again, pos, job, out, wire, taken>>
  BY DEF ClaimNothing, ClaimCancels, senderVars, channelVars, ghostVars
<1>2. \A d \in Deliveries : \/ dSt'[d] = dSt[d]
                            \/ dSt[d] = "sending" /\ dSt'[d] = "uncertain"
                            \/ dSt[d] = "pending" /\ dSt'[d] = "cancelled"
  <2>1. CASE ClaimNothing(s)
    BY <2>1, SweepIs DEF ClaimNothing
  <2>2. ASSUME NEW d \in Deliveries, ClaimCancels(s, d)
        PROVE  dSt[d] = "pending" /\ dSt' = [Swept EXCEPT ![d] = "cancelled"]
    BY <2>2 DEF ClaimCancels
  <2> QED
    BY <2>1, <2>2, SweepIs
<1>3. \A d \in Deliveries : RowOK(d)' /\ TakenOK(d)'
  BY <1>1, <1>2, RowTypes DEF LeaseSound, RowOK, TakenOK, Open
<1>4. ASSUME NEW t \in Senders
      PROVE  SenderOK(t)'
  <2>1. SenderOK(t)
    BY DEF LeaseSound
  <2> QED
    BY <1>1, <1>2, <2>1 DEF SenderOK, HoldsLease, Request
<1>5. OwnLease' /\ WireOK'
  BY <1>1 DEF LeaseSound, OwnLease, WireOK
<1> QED
  BY <1>1, <1>2, <1>3, <1>4, <1>5 DEF LeaseSound

LEMMA SendingClaim ==
  ASSUME TypeOK, LeaseSound, NEW s \in Senders, NEW d \in Deliveries, ClaimSends(s, d)
  PROVE  LeaseSound'
<1>1. /\ pos[s] = "idle" /\ dSt[d] = "pending" /\ dSt'[d] = "sending"
      /\ \A e \in Deliveries \ {d} : \/ dSt'[e] = dSt[e]
                                     \/ dSt[e] = "sending" /\ dSt'[e] = "uncertain"
      /\ attempts' = [attempts EXCEPT ![d] = @ + 1]
      /\ dTok' = [dTok EXCEPT ![d] = attempts[d] + 1]
      /\ UNCHANGED <<dPart, via, again, wire, taken>>
  <2>1. /\ pos[s] = "idle" /\ dSt[d] = "pending" /\ dSt' = [Swept EXCEPT ![d] = "sending"]
        /\ attempts' = [attempts EXCEPT ![d] = @ + 1]
        /\ dTok' = [dTok EXCEPT ![d] = attempts[d] + 1]
        /\ UNCHANGED <<dPart, via, again, wire, taken>>
    BY DEF ClaimSends, channelVars, ghostVars
  <2> QED
    BY <2>1, SweepIs
<1>2. /\ pos' = [pos EXCEPT ![s] = IF d \in Inbox THEN "answered" ELSE "claimed"]
      /\ job' = [job EXCEPT ![s] = [d |-> d, tok |-> attempts[d] + 1, part |-> dPart[d]]]
      /\ out' = [out EXCEPT ![s] = IF d \in Inbox THEN "accepted" ELSE "none"]
  BY DEF ClaimSends
<1>3. ASSUME NEW e \in Deliveries
      PROVE  attempts'[e] \in Nat /\ attempts[e] <= attempts'[e]
  <2>1. attempts[e] \in Nat /\ attempts'[e] = IF e = d THEN attempts[e] + 1 ELSE attempts[e]
    BY <1>1 DEF TypeOK, StoreTypeOK
  <2> QED
    BY <2>1
<1>4. \A e \in Deliveries : RowOK(e)' /\ TakenOK(e)'
  BY <1>1, RowTypes DEF LeaseSound, RowOK, TakenOK, Open
<1>5. WireOK'
  BY <1>1, <1>3, RowTypes DEF LeaseSound, WireOK
<1>6. /\ job'[s].d = d /\ job'[s].tok = attempts[d] + 1 /\ job'[s].part = dPart[d]
      /\ pos'[s] = (IF d \in Inbox THEN "answered" ELSE "claimed")
      /\ out'[s] = (IF d \in Inbox THEN "accepted" ELSE "none")
      /\ attempts'[d] = attempts[d] + 1 /\ dPart[d] < Parts
  BY <1>1, <1>2 DEF TypeOK, StoreTypeOK, LeaseSound, RowOK, Open
<1>7. SenderOK(s)'
  <2>1. job'[s].tok \in 1..attempts'[d]
    BY <1>6, RowTypes
  <2>2. <<d, attempts[d] + 1, dPart[d]>> \notin wire
    BY RowTypes DEF LeaseSound, WireOK
  <2> QED
    BY <1>1, <1>6, <2>1, <2>2, RowTypes DEF SenderOK, HoldsLease, Request
<1>8. ASSUME NEW t \in Senders \ {s}
      PROVE  SenderOK(t)' /\ UNCHANGED <<pos[t], job[t], out[t]>>
  <2>1. SenderOK(t)
    BY DEF LeaseSound
  <2>2. UNCHANGED <<pos[t], job[t], out[t]>>
    BY <1>2 DEF TypeOK
  <2>3. CASE pos[t] # "idle"
    <3>1. job[t].d \in Deliveries /\ job[t].tok \in 1..attempts[job[t].d]
      BY <2>1, <2>3 DEF SenderOK
    <3>2. HoldsLease(t)' => HoldsLease(t)
      <4>1. CASE job[t].d = d
        BY <1>1, <2>2, <3>1, <4>1, RowTypes DEF HoldsLease, TypeOK, StoreTypeOK
      <4>2. CASE job[t].d # d
        BY <1>1, <2>2, <3>1, <4>2, RowTypes DEF HoldsLease, TypeOK, StoreTypeOK
      <4> QED
        BY <4>1, <4>2
    <3>3. job[t].tok \in 1..attempts'[job[t].d]
      BY <1>3, <3>1, RowTypes
    <3> QED
      BY <1>1, <2>1, <2>2, <2>3, <3>1, <3>2, <3>3 DEF SenderOK, Request
  <2> QED
    BY <2>2, <2>3 DEF SenderOK
<1>9. OwnLease'
  <2>1. \A t \in Senders \ {s} : pos[t] # "idle" => job[t].d # d \/ job[t].tok # attempts[d] + 1
    BY RowTypes DEF LeaseSound, SenderOK
  <2> QED
    BY <1>6, <1>8, <2>1 DEF LeaseSound, OwnLease
<1> QED
  BY <1>4, <1>5, <1>7, <1>8, <1>9 DEF LeaseSound

LEMMA ChannelLeases ==
  ASSUME TypeOK, LeaseSound,
         \/ \E s \in Senders : Send(s) \/ AnswerAccepted(s) \/ AnswerFailed(s) \/ AnswerUncertain(s)
         \/ \E m \in wire : ChannelAccepts(m)
  PROVE  LeaseSound'
<1> USE DEF storeVars, deliveryVars, leaseVars, ghostVars, senderVars
<1>1. UNCHANGED <<dSt, dPart, dTok, attempts, via, again, job>>
  BY DEF Send, AnswerAccepted, AnswerFailed, AnswerUncertain, Answer, ChannelAccepts
<1>2. \A d \in Deliveries : RowOK(d)'
  BY <1>1 DEF LeaseSound, RowOK
<1>3. ASSUME NEW s \in Senders, Send(s)
      PROVE  LeaseSound'
  <2>1. /\ pos[s] = "claimed" /\ pos' = [pos EXCEPT ![s] = "waiting"]
        /\ wire' = wire \cup {Request(s)} /\ UNCHANGED <<out, taken>>
    BY <1>3 DEF Send
  <2>2. \A d \in Deliveries : TakenOK(d)'
    BY <1>1, <2>1 DEF LeaseSound, TakenOK
  <2>3. SenderOK(s)
    BY DEF LeaseSound
  <2>4. SenderOK(s)'
    BY <1>1, <2>1, <2>3 DEF SenderOK, HoldsLease, Request, TypeOK
  <2>5. ASSUME NEW t \in Senders \ {s}
        PROVE  SenderOK(t)'
    <3>1. SenderOK(t) /\ UNCHANGED pos[t]
      BY <2>1 DEF LeaseSound, TypeOK
    <3>2. pos[t] # "idle" => Request(t) # Request(s)
      BY <2>1 DEF LeaseSound, OwnLease, Request
    <3> QED
      BY <1>1, <2>1, <3>1, <3>2 DEF SenderOK, HoldsLease, Request
  <2>6. OwnLease'
    BY <1>1, <2>1 DEF LeaseSound, OwnLease, TypeOK
  <2>7. WireOK'
    BY <1>1, <2>1, <2>3 DEF LeaseSound, WireOK, SenderOK, Request
  <2> QED
    BY <1>2, <2>2, <2>4, <2>5, <2>6, <2>7 DEF LeaseSound
<1>4. ASSUME NEW s \in Senders, NEW result \in {"accepted", "failed", "uncertain"},
             Answer(s, result), wire' \in {wire, wire \ {Request(s)}},
             result = "accepted" => Request(s) \notin wire
      PROVE  LeaseSound'
  <2>1. /\ pos[s] = "waiting" /\ pos' = [pos EXCEPT ![s] = "answered"]
        /\ out' = [out EXCEPT ![s] = result] /\ UNCHANGED taken
    BY <1>4 DEF Answer
  <2>2. \A d \in Deliveries : TakenOK(d)'
    BY <1>1, <2>1 DEF LeaseSound, TakenOK
  <2>3. SenderOK(s)'
    <3>1. SenderOK(s)
      BY DEF LeaseSound
    <3> QED
      BY <1>1, <1>4, <2>1, <3>1 DEF SenderOK, HoldsLease, Request, TypeOK
  <2>4. ASSUME NEW t \in Senders \ {s}
        PROVE  SenderOK(t)'
    <3>1. SenderOK(t) /\ UNCHANGED <<pos[t], out[t]>>
      BY <2>1 DEF LeaseSound, TypeOK
    <3>2. pos[t] # "idle" => Request(t) # Request(s)
      BY <2>1 DEF LeaseSound, OwnLease, Request
    <3>3. pos[t] # "idle" => (Request(t) \in wire' <=> Request(t) \in wire)
      BY <1>4, <3>2
    <3> QED
      BY <1>1, <2>1, <3>1, <3>3 DEF SenderOK, HoldsLease, Request
  <2>5. OwnLease' /\ WireOK'
    BY <1>1, <1>4, <2>1 DEF LeaseSound, OwnLease, WireOK, TypeOK
  <2> QED
    BY <1>2, <2>2, <2>3, <2>4, <2>5 DEF LeaseSound
<1>5. ASSUME NEW m \in wire, ChannelAccepts(m)
      PROVE  LeaseSound'
  <2>1. wire' = wire \ {m} /\ taken' = [taken EXCEPT ![m[1]][m[3]] = @ + 1] /\ UNCHANGED <<pos, out>>
    BY <1>5 DEF ChannelAccepts
  <2>2. /\ m[1] \in Deliveries /\ m[3] \in 0..Parts - 1 /\ m[3] <= dPart[m[1]]
        /\ attempts[m[1]] > 0
    BY RowTypes DEF LeaseSound, WireOK
  <2>3. \A d \in Deliveries, p \in 0..Parts - 1 :
          taken'[d][p] = IF d = m[1] /\ p = m[3] THEN taken[d][p] + 1 ELSE taken[d][p]
    BY <2>1, <2>2 DEF TypeOK
  <2>4. \A d \in Deliveries : TakenOK(d)'
    BY <1>1, <2>2, <2>3, RowTypes DEF LeaseSound, TakenOK
  <2>5. ASSUME NEW s \in Senders
        PROVE  SenderOK(s)'
    <3>1. SenderOK(s)
      BY DEF LeaseSound
    <3>2. CASE pos[s] # "idle"
      <4>1. job[s].d \in Deliveries /\ job[s].part \in 0..Parts - 1
        BY <3>1, <3>2, RowTypes DEF SenderOK
      <4>2. /\ taken[job[s].d][job[s].part] > 0 => taken'[job[s].d][job[s].part] > 0
            /\ Request(s) = m => taken'[job[s].d][job[s].part] > 0
        BY <2>3, <4>1, RowTypes DEF Request
      <4> QED
        BY <1>1, <2>1, <3>1, <3>2, <4>2 DEF SenderOK, HoldsLease, Request
    <3> QED
      BY <2>1, <3>2 DEF SenderOK
  <2>6. OwnLease' /\ WireOK'
    BY <1>1, <2>1 DEF LeaseSound, OwnLease, WireOK
  <2> QED
    BY <1>2, <2>4, <2>5, <2>6 DEF LeaseSound
<1> QED
  BY <1>3, <1>4, <1>5 DEF AnswerAccepted, AnswerFailed, AnswerUncertain

\* What finish writes for the sender's delivery d
FinishedRow(s, d) ==
  /\ d = job[s].d /\ dSt[d] = "sending" /\ dPart[d] = job[s].part /\ pos[s] = "answered"
  /\ \E st \in {"accepted", "pending", "failed", "uncertain"}, p \in 0..Parts :
       /\ dSt' = [dSt EXCEPT ![d] = st] /\ dPart' = [dPart EXCEPT ![d] = p]
       /\ via' = [via EXCEPT ![d] = IF st # "accepted" THEN "none"
                                    ELSE IF d \in Inbox THEN "inbox" ELSE "channel"]
       /\ \/ /\ p = dPart[d] /\ st \in {"failed", "uncertain"}
          \/ /\ p = dPart[d] + 1 /\ out[s] = "accepted"
             /\ \/ st = "accepted" /\ (d \in Inbox \/ p = Parts)
                \/ st = "pending" /\ p < Parts
  /\ UNCHANGED <<dTok, attempts, again, wire, taken>>

LEMMA FinishWrites ==
  ASSUME TypeOK, LeaseSound, NEW s \in Senders, Finish(s)
  PROVE  job[s].d \in Deliveries /\ FinishedRow(s, job[s].d) /\ Idle(s)
<1> DEFINE d == job[s].d
           st == FinishState(s)
           p == job[s].part + (IF out[s] = "accepted" THEN 1 ELSE 0)
<1>1. /\ pos[s] = "answered" /\ HoldsLease(s) /\ Idle(s)
      /\ dSt' = [dSt EXCEPT ![d] = st] /\ dPart' = [dPart EXCEPT ![d] = p]
      /\ via' = [via EXCEPT ![d] = IF st # "accepted" THEN "none"
                                   ELSE IF d \in Inbox THEN "inbox" ELSE "channel"]
      /\ UNCHANGED <<dTok, attempts, again, wire, taken>>
  BY DEF Finish, channelVars
<1>2. /\ d \in Deliveries /\ dSt[d] = "sending" /\ dPart[d] = job[s].part
      /\ job[s].part < Parts /\ out[s] # "none"
  BY <1>1 DEF LeaseSound, SenderOK, HoldsLease
<1>3. /\ st \in {"accepted", "pending", "failed", "uncertain"} /\ p \in 0..Parts
      /\ \/ /\ p = dPart[d] /\ st \in {"failed", "uncertain"}
         \/ /\ p = dPart[d] + 1 /\ out[s] = "accepted"
            /\ \/ st = "accepted" /\ (d \in Inbox \/ p = Parts)
               \/ st = "pending" /\ p < Parts
  BY <1>2, RowTypes DEF FinishState
<1> QED
  BY <1>1, <1>2, <1>3 DEF FinishedRow

LEMMA FinishLeases ==
  ASSUME TypeOK, LeaseSound, NEW s \in Senders, Finish(s)
  PROVE  LeaseSound'
<1> DEFINE d == job[s].d
<1>1. d \in Deliveries /\ FinishedRow(s, d) /\ Idle(s)
  BY FinishWrites
<1>2. UNCHANGED <<dTok, attempts, again, wire, taken>> /\ dSt[d] = "sending" /\ dSt'[d] # "sending"
  BY <1>1 DEF FinishedRow, TypeOK, StoreTypeOK
<1>3. ASSUME NEW e \in Deliveries
      PROVE  /\ dPart'[e] \in dPart[e]..dPart[e] + 1
             /\ e # d => UNCHANGED <<dSt[e], dPart[e], via[e]>>
  BY <1>1, RowTypes DEF FinishedRow, TypeOK, StoreTypeOK
<1>4. ASSUME NEW e \in Deliveries
      PROVE  RowOK(e)' /\ TakenOK(e)'
  <2>1. RowOK(e) /\ TakenOK(e)
    BY DEF LeaseSound
  <2>2. CASE e # d
    BY <1>2, <1>3, <2>1, <2>2 DEF RowOK, TakenOK
  <2>3. CASE e = d
    <3>1. PICK st \in {"accepted", "pending", "failed", "uncertain"}, p \in 0..Parts :
            /\ dSt'[d] = st /\ dPart'[d] = p
            /\ via'[d] = (IF st # "accepted" THEN "none"
                          ELSE IF d \in Inbox THEN "inbox" ELSE "channel")
            /\ \/ /\ p = dPart[d] /\ st \in {"failed", "uncertain"}
               \/ /\ p = dPart[d] + 1 /\ out[s] = "accepted"
                  /\ \/ st = "accepted" /\ (d \in Inbox \/ p = Parts)
                     \/ st = "pending" /\ p < Parts
      BY <1>1 DEF FinishedRow, TypeOK, StoreTypeOK
    <3>2. dPart[d] < Parts /\ via[d] = "none"
      BY <1>2, <2>1, <2>3 DEF RowOK, Open
    <3>3. RowOK(e)'
      BY <2>3, <3>1, <3>2, RowTypes DEF RowOK, Open
    <3>4. out[s] = "accepted" /\ d \notin Inbox => taken[d][dPart[d]] > 0
      BY <1>1 DEF LeaseSound, SenderOK, FinishedRow
    <3>5. ASSUME NEW q \in 0..Parts - 1
          PROVE  /\ taken[d][q] > 0 => q <= dPart'[d] /\ attempts[d] > 0
                 /\ d \notin Inbox /\ q < dPart'[d] => taken[d][q] > 0
      <4>1. /\ taken[d][q] > 0 => q <= dPart[d] /\ attempts[d] > 0
            /\ d \notin Inbox /\ q < dPart[d] => taken[d][q] > 0
        BY <2>1, <2>3, <3>2 DEF TakenOK
      <4>2. dPart[d] \in Nat /\ dPart'[d] \in {dPart[d], dPart[d] + 1}
        BY <1>1, <3>1, RowTypes
      <4>3. dPart'[d] = dPart[d] + 1 => out[s] = "accepted"
        BY <3>1, <4>2
      <4>4. q \in Nat
        BY RowTypes
      <4>5. q < dPart'[d] => q < dPart[d] \/ (q = dPart[d] /\ dPart'[d] = dPart[d] + 1)
        BY <4>2, <4>4
      <4> QED
        BY <3>4, <4>1, <4>2, <4>3, <4>4, <4>5
    <3>6. TakenOK(e)'
      BY <1>2, <2>3, <3>5 DEF TakenOK
    <3> QED
      BY <3>3, <3>6
  <2> QED
    BY <2>2, <2>3
<1>5. ASSUME NEW t \in Senders
      PROVE  SenderOK(t)'
  <2>1. CASE t = s
    BY <1>1, <2>1 DEF SenderOK, Idle, TypeOK
  <2>2. CASE t # s
    <3>1. SenderOK(t) /\ UNCHANGED <<pos[t], job[t], out[t]>>
      BY <1>1, <2>2 DEF LeaseSound, Idle, TypeOK
    <3>2. CASE pos[t] # "idle"
      <4> DEFINE e == job[t].d
      <4>1. e \in Deliveries /\ job'[t].d = e
        BY <3>1, <3>2 DEF SenderOK
      <4>2. dPart[e] <= dPart'[e] /\ dPart'[e] \in Nat /\ dPart[e] \in Nat
        BY <1>3, <4>1, RowTypes
      <4>3. HoldsLease(t)' => HoldsLease(t) /\ dPart'[e] = dPart[e]
        <5>1. CASE e = d
          BY <1>2, <4>1, <5>1 DEF HoldsLease
        <5>2. CASE e # d
          BY <1>2, <1>3, <3>1, <4>1, <5>2 DEF HoldsLease
        <5> QED
          BY <5>1, <5>2
      <4>4. Request(t)' = Request(t)
        BY <3>1 DEF Request
      <4> QED
        BY <1>2, <3>1, <3>2, <4>1, <4>2, <4>3, <4>4, RowTypes DEF SenderOK
    <3> QED
      BY <3>1, <3>2 DEF SenderOK
  <2> QED
    BY <2>1, <2>2
<1>6. OwnLease'
  BY <1>1 DEF LeaseSound, OwnLease, Idle, TypeOK
<1>7. WireOK'
  BY <1>2, <1>3, RowTypes DEF LeaseSound, WireOK
<1> QED
  BY <1>4, <1>5, <1>6, <1>7 DEF LeaseSound

\* A sender that forgets its job, or whose lease expires
LEMMA LossLeases ==
  ASSUME TypeOK, LeaseSound,
         \/ \E s \in Senders : FinishTooLate(s) \/ SenderLost(s)
         \/ \E d \in Deliveries : LeaseExpires(d)
         \/ UNCHANGED vars
  PROVE  LeaseSound'
<1>1. UNCHANGED <<dSt, dPart, dTok, attempts, via, wire, taken>>
  BY DEF FinishTooLate, SenderLost, LeaseExpires, storeVars, deliveryVars, leaseVars, channelVars, vars
<1>2. ASSUME NEW t \in Senders
      PROVE  pos'[t] = "idle" \/ UNCHANGED <<pos[t], job[t], out[t]>>
  BY DEF FinishTooLate, SenderLost, LeaseExpires, Idle, senderVars, vars, TypeOK
<1>3. \A d \in Deliveries : RowOK(d)' /\ TakenOK(d)'
  BY <1>1 DEF LeaseSound, RowOK, TakenOK
<1>4. ASSUME NEW t \in Senders
      PROVE  SenderOK(t)'
  <2>1. SenderOK(t)
    BY DEF LeaseSound
  <2> QED
    BY <1>1, <1>2, <2>1 DEF SenderOK, HoldsLease, Request
<1>5. OwnLease' /\ WireOK'
  BY <1>1, <1>2 DEF LeaseSound, OwnLease, WireOK
<1> QED
  BY <1>3, <1>4, <1>5 DEF LeaseSound

-----------------------------------------------------------------------------
(* Repeats *)

LEMMA UnderwayCount ==
  ASSUME TypeOK, NEW d \in Deliveries, NEW p
  PROVE  IsFiniteSet(Underway(d, p)) /\ Cardinality(Underway(d, p)) \in Nat
<1>1. Underway(d, p) \subseteq 1..attempts[d] /\ attempts[d] \in Nat
  BY RowTypes DEF Underway
<1>2. IsFiniteSet(1..attempts[d])
  BY <1>1, FS_Interval
<1> QED
  BY <1>1, <1>2, FS_Subset, FS_CardinalityType

LEMMA WaitingIs ==
  ASSUME NEW d, NEW p
  PROVE  Waiting(d, p) \in {0, 1}
BY DEF Waiting

\* Nothing is added: no acceptance, no request, no claim.
LEMMA DecidedKept ==
  ASSUME TypeOK, NEW d \in Deliveries, Decided(d), again'[d] \in Nat, again[d] <= again'[d],
         NEW p \in 0..Parts - 1, taken'[d][p] = taken[d][p],
         Underway(d, p)' \subseteq Underway(d, p),
         Waiting(d, p)' - again'[d] <= Waiting(d, p) - again[d]
  PROVE  taken'[d][p] + Cardinality(Underway(d, p)') + Waiting(d, p)' <= 1 + again'[d]
<1>1. IsFiniteSet(Underway(d, p)) /\ Cardinality(Underway(d, p)) \in Nat
  BY UnderwayCount
<1>2. /\ Cardinality(Underway(d, p)') \in Nat
      /\ Cardinality(Underway(d, p)') <= Cardinality(Underway(d, p))
  BY <1>1, FS_Subset, FS_CardinalityType
<1>3. taken[d][p] + Cardinality(Underway(d, p)) + Waiting(d, p) <= 1 + again[d]
  BY DEF Decided
<1>4. taken[d][p] \in Nat /\ again[d] \in Nat /\ Waiting(d, p) \in {0, 1} /\ Waiting(d, p)' \in {0, 1}
  BY RowTypes, WaitingIs DEF Waiting
<1> HIDE DEF Waiting, Underway
<1> QED
  BY <1>1, <1>2, <1>3, <1>4

\* Before its first claim, and for the parts after next_part, nothing has happened.
LEMMA NothingYet ==
  ASSUME TypeOK, LeaseSound, NEW d \in Deliveries, NEW p \in 0..Parts - 1,
         dPart[d] < p \/ attempts[d] = 0
  PROVE  taken[d][p] = 0 /\ Underway(d, p) = {}
<1>1. taken[d][p] = 0
  BY RowTypes DEF LeaseSound, TakenOK
<1>2. ASSUME NEW t \in 1..attempts[d]
      PROVE  /\ <<d, t, p>> \notin wire
             /\ \A s \in Senders : pos[s] = "claimed" => job[s] # [d |-> d, tok |-> t, part |-> p]
  <2>1. dPart[d] < p
    BY <1>2, RowTypes
  <2> QED
    BY <2>1, RowTypes DEF LeaseSound, WireOK, SenderOK
<1> QED
  BY <1>1, <1>2 DEF Underway

LEMMA StoreDecided ==
  ASSUME TypeOK, WorkSound, LeaseSound, StoreNext, UNCHANGED <<senderVars, channelVars>>,
         NEW d \in Deliveries, Decided(d)
  PROVE  Decided(d)'
<1>1. UNCHANGED <<pos, job, out, wire, taken, attempts>> /\ StoreRow(d)
  BY StoreRows DEF senderVars, channelVars
<1>2. ASSUME NEW p \in 0..Parts - 1
      PROVE  taken'[d][p] + Cardinality(Underway(d, p)') + Waiting(d, p)' <= 1 + again'[d]
  <2>1. Underway(d, p)' = Underway(d, p) /\ taken'[d][p] = taken[d][p]
    BY <1>1 DEF Underway
  <2>2. again[d] \in Nat /\ again'[d] \in Nat /\ again[d] <= again'[d]
    BY <1>1, RowTypes DEF StoreRow, RowKept
  <2>3. CASE dSt[d] = "none" /\ dSt'[d] = "pending"
    <3>1. attempts[d] = 0
      BY <2>3 DEF LeaseSound, RowOK
    <3>2. taken[d][p] = 0 /\ Underway(d, p) = {}
      BY <3>1, NothingYet
    <3>3. Waiting(d, p)' \in {0, 1}
      BY DEF Waiting
    <3> QED
      BY <2>1, <2>2, <3>2, <3>3, FS_EmptySet
  <2>4. CASE ~(dSt[d] = "none" /\ dSt'[d] = "pending")
    <3>1. Waiting(d, p)' - again'[d] <= Waiting(d, p) - again[d]
      BY <1>1, <2>2, <2>4, RowTypes DEF StoreRow, RowKept, Waiting
    <3> QED
      BY <2>1, <2>2, <3>1, DecidedKept
  <2> QED
    BY <2>3, <2>4
<1> QED
  BY <1>2 DEF Decided

\* Steps of senders that neither claim nor finish, and the answers of the channel
LEMMA QuietDecided ==
  ASSUME TypeOK, LeaseSound, NEW d \in Deliveries, Decided(d),
         \/ \E s \in Senders : \/ ClaimNothing(s) \/ (\E e \in Deliveries : ClaimCancels(s, e))
                               \/ Send(s) \/ AnswerAccepted(s) \/ AnswerFailed(s)
                               \/ AnswerUncertain(s) \/ FinishTooLate(s) \/ SenderLost(s)
         \/ \E e \in Deliveries : LeaseExpires(e)
         \/ UNCHANGED vars
  PROVE  Decided(d)'
<1> USE DEF storeVars, deliveryVars, leaseVars, ghostVars, senderVars, channelVars
<1> DEFINE Quiet == /\ UNCHANGED <<dPart, attempts, again, taken>>
                    /\ dSt'[d] = "pending" => dSt[d] = "pending"
                    /\ \A p : Underway(d, p)' \subseteq Underway(d, p)
<1>1. ASSUME NEW s \in Senders, ClaimNothing(s) \/ \E e \in Deliveries : ClaimCancels(s, e)
      PROVE  Quiet
  <2>1. /\ UNCHANGED <<dPart, attempts, again, pos, job, wire, taken>>
        /\ dSt'[d] = "pending" => dSt[d] = "pending"
    BY <1>1, IdleClaim
  <2> QED
    BY <2>1 DEF Underway
<1>2. ASSUME NEW s \in Senders, Send(s)
      PROVE  Quiet
  <2>1. /\ pos[s] = "claimed" /\ pos' = [pos EXCEPT ![s] = "waiting"]
        /\ wire' = wire \cup {Request(s)}
        /\ UNCHANGED <<dSt, dPart, attempts, again, taken, job>>
    BY <1>2 DEF Send
  <2>2. job[s] = [d |-> job[s].d, tok |-> job[s].tok, part |-> job[s].part]
    BY DEF TypeOK
  <2>3. \A t \in Senders : pos'[t] = "claimed" => pos[t] = "claimed"
    BY <2>1 DEF TypeOK
  <2> QED
    BY <2>1, <2>2, <2>3 DEF Underway, Request
<1>3. ASSUME NEW s \in Senders, \/ AnswerAccepted(s) \/ AnswerFailed(s) \/ AnswerUncertain(s)
                                \/ FinishTooLate(s) \/ SenderLost(s)
      PROVE  Quiet
  <2>1. /\ wire' \subseteq wire /\ UNCHANGED <<dSt, dPart, attempts, again, taken>>
        /\ \A t \in Senders : pos'[t] = "claimed" => pos[t] = "claimed" /\ job'[t] = job[t]
    BY <1>3 DEF AnswerAccepted, AnswerFailed, AnswerUncertain, Answer, FinishTooLate, SenderLost,
                Idle, TypeOK
  <2> QED
    BY <2>1 DEF Underway
<1>4. ASSUME (\E e \in Deliveries : LeaseExpires(e)) \/ UNCHANGED vars
      PROVE  Quiet
  <2>1. UNCHANGED <<dSt, dPart, attempts, again, pos, job, wire, taken>>
    BY <1>4 DEF LeaseExpires, vars
  <2> QED
    BY <2>1 DEF Underway
<1>5. Quiet
  BY <1>1, <1>2, <1>3, <1>4
<1>6. ASSUME NEW p \in 0..Parts - 1
      PROVE  taken'[d][p] + Cardinality(Underway(d, p)') + Waiting(d, p)' <= 1 + again'[d]
  <2>1. again'[d] = again[d] /\ again[d] \in Nat
    BY <1>5, RowTypes
  <2>2. Waiting(d, p)' - again'[d] <= Waiting(d, p) - again[d]
    BY <1>5, <2>1 DEF Waiting
  <2> QED
    BY <1>5, <2>1, <2>2, DecidedKept
<1> QED
  BY <1>6 DEF Decided

LEMMA ChannelDecided ==
  ASSUME TypeOK, LeaseSound, NEW m \in wire, ChannelAccepts(m), NEW d \in Deliveries, Decided(d)
  PROVE  Decided(d)'
<1>1. /\ wire' = wire \ {m} /\ taken' = [taken EXCEPT ![m[1]][m[3]] = @ + 1]
      /\ UNCHANGED <<dSt, dPart, attempts, again, pos, job>>
  BY DEF ChannelAccepts, storeVars, deliveryVars, leaseVars, ghostVars, senderVars
<1>2. m[1] \in Deliveries /\ m[2] \in 1..attempts[m[1]] /\ m[3] \in 0..Parts - 1
  BY RowTypes DEF LeaseSound, WireOK
<1>3. \A p : Underway(d, p)' \subseteq Underway(d, p)
  BY <1>1 DEF Underway
<1>4. ASSUME NEW p \in 0..Parts - 1
      PROVE  taken'[d][p] + Cardinality(Underway(d, p)') + Waiting(d, p)' <= 1 + again'[d]
  <2>1. Waiting(d, p)' = Waiting(d, p) /\ again'[d] = again[d] /\ again[d] \in Nat
    BY <1>1, RowTypes DEF Waiting
  <2>2. CASE d = m[1] /\ p = m[3]
    <3>1. m = <<d, m[2], p>> /\ taken'[d][p] = taken[d][p] + 1
      <4>1. m \in Deliveries \X Nat \X (0..Parts - 1)
        BY DEF TypeOK
      <4>2. m = <<m[1], m[2], m[3]>>
        BY <4>1
      <4> QED
        BY <1>1, <1>2, <2>2, <4>2 DEF TypeOK
    <3>2. m[2] \in Underway(d, p)
      BY <1>2, <2>2, <3>1 DEF Underway
    <3>3. ASSUME NEW s \in Senders, pos[s] = "claimed", job[s] = [d |-> d, tok |-> m[2], part |-> p]
          PROVE  FALSE
      <4>1. Request(s) = m
        BY <3>1, <3>3 DEF Request
      <4> QED
        BY <3>3, <4>1 DEF LeaseSound, SenderOK
    <3>4. m[2] \notin Underway(d, p)'
      BY <1>1, <3>1, <3>3 DEF Underway
    <3>5. Underway(d, p)' \subseteq Underway(d, p) \ {m[2]}
      BY <1>3, <3>4
    <3>6. /\ Cardinality(Underway(d, p)') \in Nat
          /\ Cardinality(Underway(d, p)') <= Cardinality(Underway(d, p)) - 1
      <4>1. IsFiniteSet(Underway(d, p))
        BY UnderwayCount
      <4>2. /\ IsFiniteSet(Underway(d, p) \ {m[2]})
            /\ Cardinality(Underway(d, p) \ {m[2]}) = Cardinality(Underway(d, p)) - 1
        BY <3>2, <4>1, FS_RemoveElement
      <4> QED
        BY <3>5, <4>2, FS_Subset, FS_CardinalityType
    <3>7. /\ taken[d][p] + Cardinality(Underway(d, p)) + Waiting(d, p) <= 1 + again[d]
          /\ Cardinality(Underway(d, p)) \in Nat /\ taken[d][p] \in Nat /\ Waiting(d, p) \in {0, 1}
      BY UnderwayCount, RowTypes, WaitingIs DEF Decided
    <3> QED
      BY <2>1, <3>1, <3>6, <3>7
  <2>3. CASE ~(d = m[1] /\ p = m[3])
    <3>1. taken'[d][p] = taken[d][p]
      BY <1>1, <1>2, <2>3 DEF TypeOK
    <3> QED
      BY <1>3, <2>1, <3>1, WaitingIs, DecidedKept
  <2> QED
    BY <2>2, <2>3
<1> QED
  BY <1>4 DEF Decided

LEMMA ClaimDecided ==
  ASSUME TypeOK, LeaseSound, NEW s \in Senders, NEW e \in Deliveries, ClaimSends(s, e),
         NEW d \in Deliveries, Decided(d)
  PROVE  Decided(d)'
<1>1. /\ dSt[e] = "pending" /\ dSt' = [Swept EXCEPT ![e] = "sending"]
      /\ attempts' = [attempts EXCEPT ![e] = @ + 1]
      /\ job' = [job EXCEPT ![s] = [d |-> e, tok |-> attempts[e] + 1, part |-> dPart[e]]]
      /\ \E p \in {"answered", "claimed"} : pos' = [pos EXCEPT ![s] = p]
      /\ UNCHANGED <<dPart, again, wire, taken>>
  BY DEF ClaimSends, channelVars, ghostVars
<1>2. again'[d] = again[d] /\ again[d] \in Nat /\ attempts[d] \in Nat /\ attempts[e] \in Nat
  BY <1>1, RowTypes
<1>3. \A t \in Senders \ {s} : pos'[t] = pos[t] /\ job'[t] = job[t]
  BY <1>1 DEF TypeOK
<1>4. job'[s] = [d |-> e, tok |-> attempts[e] + 1, part |-> dPart[e]]
  BY <1>1 DEF TypeOK
<1>5. WireOK /\ \A t \in Senders : SenderOK(t)
  BY DEF LeaseSound
<1>6. ASSUME NEW p \in 0..Parts - 1
      PROVE  taken'[d][p] + Cardinality(Underway(d, p)') + Waiting(d, p)' <= 1 + again'[d]
  <2>1. taken'[d][p] = taken[d][p] /\ taken[d][p] \in Nat
    BY <1>1, RowTypes
  <2>2. CASE d = e /\ p = dPart[e]
    <3>1. Underway(d, p)' \subseteq Underway(d, p) \cup {attempts[d] + 1}
      <4>1. attempts'[d] = attempts[d] + 1
        BY <1>1, <2>2 DEF TypeOK, StoreTypeOK
      <4>2. 1..attempts'[d] \subseteq 1..attempts[d] \cup {attempts[d] + 1}
        BY <1>2, <4>1
      <4>3. ASSUME NEW t \in 1..attempts[d], t \in Underway(d, p)'
            PROVE  t \in Underway(d, p)
        <5>1. t # attempts[d] + 1
          BY <1>2
        <5>2. job'[s] # [d |-> d, tok |-> t, part |-> p]
          BY <1>4, <2>2, <5>1
        <5> QED
          BY <1>1, <1>3, <4>3, <5>2 DEF Underway
      <4>4. Underway(d, p)' \subseteq 1..attempts'[d]
        BY DEF Underway
      <4> QED
        BY <4>2, <4>3, <4>4
    <3>2. /\ Cardinality(Underway(d, p)') \in Nat
          /\ Cardinality(Underway(d, p)') <= Cardinality(Underway(d, p)) + 1
      <4>1. IsFiniteSet(Underway(d, p)) /\ Cardinality(Underway(d, p)) \in Nat
        BY UnderwayCount
      <4>2. /\ IsFiniteSet(Underway(d, p) \cup {attempts[d] + 1})
            /\ Cardinality(Underway(d, p) \cup {attempts[d] + 1}) <= Cardinality(Underway(d, p)) + 1
        BY <4>1, FS_AddElement
      <4>3. /\ IsFiniteSet(Underway(d, p)')
            /\ Cardinality(Underway(d, p)') <= Cardinality(Underway(d, p) \cup {attempts[d] + 1})
        BY <3>1, <4>2, FS_Subset
      <4>4. /\ Cardinality(Underway(d, p)') \in Nat
            /\ Cardinality(Underway(d, p) \cup {attempts[d] + 1}) \in Nat
        BY <4>2, <4>3, FS_CardinalityType
      <4> QED
        BY <4>1, <4>2, <4>3, <4>4
    <3>3. Waiting(d, p) = 1 /\ Waiting(d, p)' = 0
      BY <1>1, <2>2, SweepIs DEF Waiting
    <3>4. /\ taken[d][p] + Cardinality(Underway(d, p)) + Waiting(d, p) <= 1 + again[d]
          /\ Cardinality(Underway(d, p)) \in Nat
      BY UnderwayCount DEF Decided
    <3> QED
      BY <1>2, <2>1, <3>2, <3>3, <3>4
  <2>3. CASE ~(d = e /\ p = dPart[e])
    <3>1. ASSUME NEW t \in Underway(d, p)'
          PROVE  t \in Underway(d, p)
      <4>1. CASE \E x \in Senders : pos'[x] = "claimed" /\ job'[x] = [d |-> d, tok |-> t, part |-> p]
        <5>1. PICK x \in Senders : pos'[x] = "claimed" /\ job'[x] = [d |-> d, tok |-> t, part |-> p]
          BY <4>1
        <5>2. x # s
          BY <1>4, <2>3, <5>1
        <5>3. pos[x] = "claimed" /\ job[x] = [d |-> d, tok |-> t, part |-> p]
          BY <1>3, <5>1, <5>2
        <5>4. t \in 1..attempts[d]
          BY <1>5, <5>3 DEF SenderOK
        <5> QED
          BY <5>3, <5>4 DEF Underway
      <4>2. CASE <<d, t, p>> \in wire
        BY <1>5, <4>2 DEF WireOK, Underway
      <4> QED
        BY <1>1, <3>1, <4>1, <4>2 DEF Underway
    <3>2. Waiting(d, p)' - again'[d] <= Waiting(d, p) - again[d]
      <4>1. dSt'[d] = "pending" => dSt[d] = "pending"
        BY <1>1, SweepIs
      <4> QED
        BY <1>1, <1>2, <4>1 DEF Waiting
    <3> QED
      BY <1>2, <2>1, <3>1, <3>2, DecidedKept
  <2> QED
    BY <2>2, <2>3
<1> QED
  BY <1>6 DEF Decided

LEMMA FinishDecided ==
  ASSUME TypeOK, LeaseSound, NEW s \in Senders, Finish(s), NEW d \in Deliveries, Decided(d)
  PROVE  Decided(d)'
<1> DEFINE e == job[s].d
<1>1. e \in Deliveries /\ FinishedRow(s, e) /\ Idle(s)
  BY FinishWrites
<1>2. /\ UNCHANGED <<attempts, again, wire, taken>> /\ dSt[e] = "sending"
      /\ \A t \in Senders : pos'[t] = "claimed" => pos[t] = "claimed" /\ job'[t] = job[t]
  BY <1>1 DEF FinishedRow, Idle, TypeOK
<1>3. again'[d] = again[d] /\ again[d] \in Nat
  BY <1>2, RowTypes
<1>4. ASSUME NEW p \in 0..Parts - 1
      PROVE  taken'[d][p] + Cardinality(Underway(d, p)') + Waiting(d, p)' <= 1 + again'[d]
  <2>1. /\ taken'[d][p] = taken[d][p] /\ Underway(d, p)' \subseteq Underway(d, p)
        /\ 1 <= 1 + again[d]
    BY <1>2, <1>3 DEF Underway
  <2>2. CASE Waiting(d, p)' <= Waiting(d, p)
    <3>1. Waiting(d, p)' - again'[d] <= Waiting(d, p) - again[d]
      BY <1>3, <2>2 DEF Waiting
    <3> QED
      BY <1>3, <2>1, <3>1, DecidedKept
  <2>3. CASE ~(Waiting(d, p)' <= Waiting(d, p))
    <3>1. dSt'[d] = "pending" /\ dPart'[d] = p /\ Waiting(d, p)' = 1
      BY <2>3 DEF Waiting
    <3>2. d = e
      BY <1>1, <2>3, <3>1 DEF FinishedRow, TypeOK, StoreTypeOK, Waiting
    <3>3. dPart[d] < p
      <4>1. dPart'[d] = dPart[d] + 1
        <5>1. PICK st \in {"accepted", "pending", "failed", "uncertain"}, x \in 0..Parts :
                /\ dSt' = [dSt EXCEPT ![d] = st] /\ dPart' = [dPart EXCEPT ![d] = x]
                /\ st \in {"failed", "uncertain"} \/ x = dPart[d] + 1
          BY <1>1, <3>2 DEF FinishedRow
        <5>2. dSt'[d] = st /\ dPart'[d] = x
          BY <5>1 DEF TypeOK, StoreTypeOK
        <5> QED
          BY <3>1, <5>1, <5>2
      <4> QED
        BY <3>1, <4>1, RowTypes
    <3>4. taken[d][p] = 0 /\ Underway(d, p) = {}
      BY <3>3, NothingYet
    <3>5. Cardinality(Underway(d, p)') = 0
      BY <2>1, <3>4, FS_EmptySet
    <3> QED
      BY <1>3, <2>1, <3>1, <3>4, <3>5
  <2> QED
    BY <2>2, <2>3
<1> QED
  BY <1>4 DEF Decided

-----------------------------------------------------------------------------
(* Capacity *)

\* The origin of a Run that exists never changes.
LEMMA OriginKept ==
  ASSUME TypeOK, StoreNext, NEW r \in Runs, runSt[r] # "none"
  PROVE  runWork'[r] = runWork[r] /\ runRev'[r] = runRev[r] /\ runEpoch'[r] = runEpoch[r]
<1> DEFINE Goal == runWork'[r] = runWork[r] /\ runRev'[r] = runRev[r] /\ runEpoch'[r] = runEpoch[r]
<1> USE DEF runVars
<1>1. ASSUME NEW w \in Works, \/ Revise(w) \/ Pause(w) \/ Stop(w) \/ Resume(w) \/ DisableTarget(w)
                              \/ Occurrence(w) \/ ConvergeControls(w)
                              \/ \E q \in Runs : \E o \in {"accepted", "again"} : ResolveDelivery(w, q, o)
      PROVE  Goal
  BY <1>1 DEF Revise, Pause, Stop, Halt, Resume, DisableTarget, Occurrence, ConvergeControls,
              ResolveDelivery
<1>2. ASSUME NEW w \in Works, AdvanceWork(w) \/ DispatchDueWork(w)
      PROVE  Goal
  <2>1. Admit(w)
    BY <1>2 DEF AdvanceWork, DispatchDueWork
  <2> QED
    BY <2>1 DEF Admit, TypeOK, StoreTypeOK
<1>3. ASSUME NEW q \in Runs,
             \/ StartRun(q) \/ CancelRun(q) \/ ExecuteReminder(q) \/ FailRun(q) \/ FinalizeCancelled(q)
      PROVE  Goal
  BY <1>3 DEF StartRun, CancelRun, ExecuteReminder, FailRun, FinalizeCancelled, EndRun
<1>4. ASSUME \/ \E d \in Chats : EnqueueChat(d) \/ RetryUncertain(d)
             \/ \E a \in Accounts : ChangeBinding(a)
      PROVE  Goal
  BY <1>4 DEF EnqueueChat, RetryUncertain, ChangeBinding
<1> QED
  BY <1>1, <1>2, <1>3, <1>4 DEF StoreNext

\* Fewer rows are sending, and those keep their owner.
LEMMA CapacityShrinks ==
  ASSUME CapacitySound, Held(dSt') \subseteq Held(dSt),
         \A h \in Held(dSt') : OwnerOf(h)' = OwnerOf(h)
  PROVE  CapacitySound'
<1>1. /\ IsFiniteSet(Held(dSt')) /\ Cardinality(Held(dSt')) <= Cardinality(Held(dSt))
      /\ Cardinality(Held(dSt')) \in Nat /\ Cardinality(Held(dSt)) \in Nat
  BY FS_Subset, FS_CardinalityType DEF CapacitySound
<1>2. ASSUME NEW a \in Accounts
      PROVE  Cardinality({h \in Held(dSt') : OwnerOf(h)' = a}) <= AccountLimit
  <2> DEFINE new == {h \in Held(dSt') : OwnerOf(h)' = a}
             old == {h \in Held(dSt) : OwnerOf(h) = a}
  <2>1. new \subseteq old /\ old \subseteq Held(dSt)
    OBVIOUS
  <2>2. IsFiniteSet(old)
    BY <2>1, FS_Subset DEF CapacitySound
  <2>3. IsFiniteSet(new) /\ Cardinality(new) <= Cardinality(old)
    BY <2>1, <2>2, FS_Subset
  <2>4. Cardinality(new) \in Nat /\ Cardinality(old) \in Nat
    BY <2>2, <2>3, FS_CardinalityType
  <2>5. Cardinality(old) <= AccountLimit
    BY DEF CapacitySound, CapacityIsKept
  <2> HIDE DEF new, old
  <2>6. Cardinality(new) <= AccountLimit
    BY <2>3, <2>4, <2>5, SenderAssumption
  <2> QED
    BY <2>6 DEF new
<1>3. Cardinality(Held(dSt')) <= GlobalLimit
  BY <1>1, SenderAssumption DEF CapacitySound, CapacityIsKept
<1> QED
  BY <1>1, <1>2, <1>3 DEF CapacitySound, CapacityIsKept, Held

LEMMA StoreCapacity ==
  ASSUME TypeOK, WorkSound, LeaseSound, StoreNext, CapacitySound
  PROVE  CapacitySound'
<1>1. ASSUME NEW d \in Deliveries, dSt'[d] = "sending"
      PROVE  dSt[d] = "sending"
  BY <1>1, StoreRows DEF StoreRow, RowKept
<1>2. ASSUME NEW d \in Deliveries, dSt'[d] = "sending"
      PROVE  OwnerOf(d)' = OwnerOf(d)
  <2>1. CASE d \in Chats
    BY <2>1 DEF OwnerOf
  <2>2. CASE d \in Runs
    <3>1. runSt[d] # "none"
      BY <1>1, <1>2, <2>2 DEF WorkSound, RunOK
    <3> QED
      BY <2>2, <3>1, OriginKept DEF OwnerOf
  <2> QED
    BY <2>1, <2>2 DEF Deliveries
<1>3. Held(dSt') \subseteq Held(dSt) /\ \A h \in Held(dSt') : OwnerOf(h)' = OwnerOf(h)
  BY <1>1, <1>2 DEF Held
<1> QED
  BY <1>3, CapacityShrinks

LEMMA SenderCapacity ==
  ASSUME TypeOK, LeaseSound, CapacitySound,
         \/ \E s \in Senders : \/ ClaimNothing(s) \/ (\E e \in Deliveries : ClaimCancels(s, e))
                               \/ Send(s) \/ AnswerAccepted(s) \/ AnswerFailed(s)
                               \/ AnswerUncertain(s) \/ Finish(s) \/ FinishTooLate(s)
                               \/ SenderLost(s)
         \/ \E m \in wire : ChannelAccepts(m)
         \/ \E e \in Deliveries : LeaseExpires(e)
         \/ UNCHANGED vars
  PROVE  CapacitySound'
<1> USE DEF storeVars, deliveryVars, runVars
<1> DEFINE Goal == /\ runWork' = runWork
                   /\ \A d \in Deliveries : dSt'[d] = "sending" => dSt[d] = "sending"
<1>1. ASSUME NEW s \in Senders, ClaimNothing(s) \/ \E e \in Deliveries : ClaimCancels(s, e)
      PROVE  Goal
  <2>1. runWork' = runWork
    BY <1>1 DEF ClaimNothing, ClaimCancels
  <2> QED
    BY <1>1, <2>1, IdleClaim
<1>2. ASSUME NEW s \in Senders, \/ Send(s) \/ AnswerAccepted(s) \/ AnswerFailed(s)
                                \/ AnswerUncertain(s) \/ FinishTooLate(s) \/ SenderLost(s)
      PROVE  Goal
  BY <1>2 DEF Send, AnswerAccepted, AnswerFailed, AnswerUncertain, Answer, FinishTooLate, SenderLost
<1>3. ASSUME NEW s \in Senders, Finish(s)
      PROVE  Goal
  <2>1. runWork' = runWork
    BY <1>3 DEF Finish
  <2>2. job[s].d \in Deliveries /\ FinishedRow(s, job[s].d)
    BY <1>3, FinishWrites
  <2> QED
    BY <2>1, <2>2 DEF FinishedRow, TypeOK, StoreTypeOK
<1>4. ASSUME \/ \E m \in wire : ChannelAccepts(m)
             \/ \E e \in Deliveries : LeaseExpires(e)
             \/ UNCHANGED vars
      PROVE  Goal
  BY <1>4 DEF ChannelAccepts, LeaseExpires, vars
<1>5. Goal
  BY <1>1, <1>2, <1>3, <1>4
<1>6. Held(dSt') \subseteq Held(dSt) /\ \A h \in Held(dSt') : OwnerOf(h)' = OwnerOf(h)
  BY <1>5 DEF Held, OwnerOf
<1> QED
  BY <1>6, CapacityShrinks

LEMMA RoomForOne ==
  ASSUME NEW S, NEW x, IsFiniteSet(S), NEW n \in Nat, Cardinality(S) < n
  PROVE  IsFiniteSet(S \cup {x}) /\ Cardinality(S \cup {x}) <= n
<1>1. Cardinality(S) \in Nat
  BY FS_CardinalityType
<1>2. /\ IsFiniteSet(S \cup {x})
      /\ Cardinality(S \cup {x}) = IF x \in S THEN Cardinality(S) ELSE Cardinality(S) + 1
  BY FS_AddElement
<1> QED
  BY <1>1, <1>2

LEMMA ClaimCapacity ==
  ASSUME TypeOK, CapacitySound, NEW s \in Senders, NEW d \in Deliveries, ClaimSends(s, d)
  PROVE  CapacitySound'
<1>1. /\ dSt' = [Swept EXCEPT ![d] = "sending"] /\ runWork' = runWork /\ HasCapacity(d)
  BY DEF ClaimSends, runVars
<1>2. Held(dSt') = Held(Swept) \cup {d} /\ Held(Swept) \subseteq Held(dSt)
  BY <1>1, SweepIs DEF Held
<1>3. IsFiniteSet(Held(Swept))
  BY <1>2, FS_Subset DEF CapacitySound
<1>4. /\ Cardinality(Held(Swept)) \in Nat /\ Cardinality(Held(Swept)) < GlobalLimit
  BY <1>1, <1>3, FS_CardinalityType DEF HasCapacity
<1>5. IsFiniteSet(Held(dSt')) /\ Cardinality(Held(dSt')) <= GlobalLimit
  BY <1>2, <1>3, <1>4, RoomForOne, SenderAssumption
<1>6. ASSUME NEW a \in Accounts
      PROVE  Cardinality({h \in Held(dSt') : OwnerOf(h)' = a}) <= AccountLimit
  <2> DEFINE new == {h \in Held(dSt') : OwnerOf(h)' = a}
             mid == {h \in Held(Swept) : OwnerOf(h) = a}
             old == {h \in Held(dSt) : OwnerOf(h) = a}
  <2>1. \A h : OwnerOf(h)' = OwnerOf(h)
    BY <1>1 DEF OwnerOf
  <2>2. /\ IsFiniteSet(mid) /\ IsFiniteSet(old) /\ mid \subseteq old
    <3>1. mid \subseteq Held(Swept) /\ old \subseteq Held(dSt) /\ mid \subseteq old
      BY <1>2
    <3> QED
      BY <1>3, <3>1, FS_Subset DEF CapacitySound
  <2>3. /\ Cardinality(mid) \in Nat /\ Cardinality(old) \in Nat /\ Cardinality(mid) <= Cardinality(old)
    BY <2>2, FS_Subset, FS_CardinalityType
  <2>4. CASE OwnerOf(d) = a
    <3>1. new = mid \cup {d}
      BY <1>2, <2>1, <2>4
    <3>2. Cardinality(mid) < AccountLimit
      BY <1>1, <2>4 DEF HasCapacity
    <3> HIDE DEF new, mid
    <3>3. Cardinality(new) <= AccountLimit
      BY <2>2, <3>1, <3>2, RoomForOne, SenderAssumption
    <3> QED
      BY <3>3 DEF new
  <2>5. CASE OwnerOf(d) # a
    <3>1. new = mid
      BY <1>2, <2>1, <2>5
    <3>2. Cardinality(old) <= AccountLimit
      BY DEF CapacitySound, CapacityIsKept
    <3> HIDE DEF new, mid, old
    <3>3. Cardinality(new) <= AccountLimit
      BY <2>3, <3>1, <3>2, SenderAssumption
    <3> QED
      BY <3>3 DEF new
  <2> QED
    BY <2>4, <2>5
<1> QED
  BY <1>5, <1>6 DEF CapacitySound, CapacityIsKept, Held

-----------------------------------------------------------------------------
(* Works, Runs and fulfilments *)

LEMMA WorkTypes ==
  ASSUME TypeOK
  PROVE  /\ \A w \in Works :
              /\ wStatus[w] \in WorkStatus /\ revision[w] \in Nat /\ epoch[w] \in Nat
              /\ cont[w] \in Continuation /\ coordinator[w] \in Runs \cup {None}
              /\ cont[w].kind \in ContKind
              /\ cont[w].ref \in Runs \cup {None} /\ cont[w].op \in Runs \cup {None}
              /\ wakeup[w] \in BOOLEAN /\ target[w] \in BOOLEAN
         /\ \A r \in Runs :
              /\ runSt[r] \in RunStatus /\ runWork[r] \in Works \cup {None}
              /\ runRev[r] \in Nat /\ runEpoch[r] \in Nat
              /\ dSt[r] \in DeliveryState /\ r # None
         /\ None \notin Works
BY WorkAssumption DEF TypeOK, StoreTypeOK, Continuation, Deliveries

LEMMA ReviseSound ==
  ASSUME TypeOK, WorkSound, NEW w \in Works, Revise(w)
  PROVE  WorkSound'
<1> DEFINE next == IF cont[w].op # None THEN cont[w] ELSE InitialCont(w)
<1>1. /\ wStatus[w] \in {"active", "pausing", "paused"}
      /\ \A v \in Works :
           IF v = w
           THEN /\ revision'[v] = revision[v] + 1 /\ epoch'[v] = epoch[v] + 1
                /\ cont'[v] = next
                /\ wakeup'[v] = (wStatus[v] = "active" /\ v \notin Daily)
           ELSE /\ revision'[v] = revision[v] /\ epoch'[v] = epoch[v]
                /\ cont'[v] = cont[v] /\ wakeup'[v] = wakeup[v]
      /\ UNCHANGED <<wStatus, coordinator, target, runWork, runRev, runEpoch, via, unapplied>>
  BY DEF Revise, TypeOK, StoreTypeOK, targetVars, ghostVars
<1>2. \A r \in Runs :
        /\ dSt'[r] = IF runWork[r] = w /\ dSt[r] \in {"pending", "failed"} THEN "cancelled" ELSE dSt[r]
        /\ runSt'[r] = IF r = coordinator[w] /\ runSt[r] \in {"queued", "running"}
                       THEN "cancelling" ELSE runSt[r]
  BY DEF Revise, CancelCoordinator, CancelledPending, Deliveries
<1>3. /\ cont[w].op # None => next.kind = "blocked" /\ next.ref = None /\ next.op # None
      /\ cont[w].op = None => /\ next.kind = (IF w \in Daily THEN "at_time" ELSE "ready")
                              /\ next.ref = None /\ next.op = None
  BY DEF WorkSound, ContinuationOK, InitialCont, Cont
<1> HIDE DEF next
<1>4. \A r \in Runs : RunOK(r)'
  BY <1>1, <1>2, WorkTypes DEF WorkSound, RunOK, Unfinished
<1>5. \A r \in Runs : OpenIsAwaited(r)'
  BY <1>1, <1>2, WorkTypes DEF WorkSound, OpenIsAwaited, RunOK, AtChannel
<1>6. ASSUME NEW v \in Works
      PROVE  CoordinatorOK(v)'
  <2>1. CoordinatorOK(v)
    BY DEF WorkSound
  <2>2. CASE coordinator[v] # None
    <3> DEFINE c == coordinator[v]
    <3>1. c \in Runs /\ runWork[c] = v /\ runSt'[c] \in Unfinished
      BY <1>2, <2>1, <2>2, WorkTypes DEF CoordinatorOK, Unfinished
    <3>2. \A r \in Runs : runWork[r] = v => dSt'[r] \notin AtChannel
      BY <1>2, <2>1, <2>2 DEF CoordinatorOK, AtChannel
    <3>3. CASE v = w
      BY <1>1, <1>3, <2>1, <2>2, <3>1, <3>2, <3>3 DEF CoordinatorOK
    <3>4. CASE v # w
      BY <1>1, <2>1, <2>2, <3>1, <3>2, <3>4 DEF CoordinatorOK
    <3> QED
      BY <3>3, <3>4
  <2> QED
    BY <1>1, <2>2 DEF CoordinatorOK
<1>7. \A v \in Works : ContinuationOK(v)'
  BY <1>1, <1>2, <1>3, WorkTypes DEF WorkSound, ContinuationOK, AtChannel
<1>8. OneAtChannel'
  BY <1>1, <1>2, WorkTypes DEF WorkSound, OneAtChannel, AtChannel
<1>9. OneMayDeliver'
  <2>1. \A r \in Runs : MayDeliver(r)' => MayDeliver(r)
    BY <1>1, <1>2, <1>3, WorkTypes DEF WorkSound, RunOK, MayDeliver, IsCurrent, AtChannel
  <2> QED
    BY <1>1, <2>1 DEF WorkSound, OneMayDeliver
<1>10. HaltIsHonest'
  BY <1>1, <1>2 DEF WorkSound, HaltIsHonest
<1>11. CompletionIsBacked'
  BY <1>1, <1>2, WorkTypes DEF WorkSound, CompletionIsBacked
<1>12. WaitCanEnd'
  BY <1>1, <1>2, <1>3, WorkTypes DEF WorkSound, WaitCanEnd, Open, ContinuationOK
<1>13. ReadyIsScheduled'
  BY <1>1, <1>3 DEF WorkSound, ReadyIsScheduled
<1> QED
  BY <1>4, <1>5, <1>6, <1>7, <1>8, <1>9, <1>10, <1>11, <1>12, <1>13 DEF WorkSound

LEMMA HaltSound ==
  ASSUME TypeOK, WorkSound, NEW w \in Works, NEW transient \in {"pausing", "stopping"},
         NEW final \in {"paused", "stopped"},
         \/ Halt(w, {"active"}, transient, final)
         \/ Halt(w, {"active", "pausing", "paused"}, transient, final)
  PROVE  WorkSound'
<1> DEFINE next == Protected(w, cont[w])
<1>1. /\ wStatus[w] \in {"active", "pausing", "paused"}
      /\ wStatus'[w] \in {transient, final}
      /\ wStatus'[w] = final => coordinator[w] = None /\ next.op = None
      /\ epoch'[w] = epoch[w] + 1 /\ cont'[w] = next /\ wakeup'[w] = FALSE
      /\ \A v \in Works \ {w} : /\ wStatus'[v] = wStatus[v] /\ epoch'[v] = epoch[v]
                                /\ cont'[v] = cont[v] /\ wakeup'[v] = wakeup[v]
      /\ UNCHANGED <<revision, coordinator, target, runWork, runRev, runEpoch, via, unapplied>>
  BY DEF Halt, TypeOK, StoreTypeOK, targetVars, ghostVars
<1>2. \A r \in Runs :
        /\ dSt'[r] = IF runWork[r] = w /\ dSt[r] \in {"pending", "failed"} THEN "cancelled" ELSE dSt[r]
        /\ runSt'[r] = IF r = coordinator[w] /\ runSt[r] \in {"queued", "running"}
                       THEN "cancelling" ELSE runSt[r]
  BY DEF Halt, CancelCoordinator, CancelledPending, Deliveries
<1>3. \/ next = cont[w] /\ \A r \in Runs : runWork[r] = w => dSt[r] \notin AtChannel
      \/ /\ \E r \in Runs : next.op = r /\ runWork[r] = w /\ dSt[r] \in AtChannel
         /\ next.kind = "blocked" /\ next.ref = None /\ next.op # None
  BY ProtectedIs, WorkTypes DEF Cont
<1> HIDE DEF next
<1>4. \A r \in Runs : RunOK(r)'
  BY <1>1, <1>2, WorkTypes DEF WorkSound, RunOK, Unfinished
<1>5. \A r \in Runs : OpenIsAwaited(r)'
  BY <1>1, <1>2, WorkTypes DEF WorkSound, OpenIsAwaited, RunOK, AtChannel
<1>6. ASSUME NEW v \in Works
      PROVE  CoordinatorOK(v)'
  <2>1. CoordinatorOK(v)
    BY DEF WorkSound
  <2>2. CASE coordinator[v] # None
    <3> DEFINE c == coordinator[v]
    <3>1. c \in Runs /\ runWork[c] = v /\ runSt'[c] \in Unfinished
      BY <1>2, <2>1, <2>2, WorkTypes DEF CoordinatorOK, Unfinished
    <3>2. \A r \in Runs : runWork[r] = v => dSt[r] \notin AtChannel /\ dSt'[r] \notin AtChannel
      BY <1>2, <2>1, <2>2 DEF CoordinatorOK, AtChannel
    <3>3. CASE v = w
      BY <1>1, <1>3, <2>1, <2>2, <3>1, <3>2, <3>3 DEF CoordinatorOK
    <3>4. CASE v # w
      BY <1>1, <2>1, <2>2, <3>1, <3>2, <3>4 DEF CoordinatorOK
    <3> QED
      BY <3>3, <3>4
  <2> QED
    BY <1>1, <2>2 DEF CoordinatorOK
<1>7. \A v \in Works : ContinuationOK(v)'
  BY <1>1, <1>2, <1>3, WorkTypes DEF WorkSound, ContinuationOK, AtChannel
<1>8. OneAtChannel'
  BY <1>1, <1>2, WorkTypes DEF WorkSound, OneAtChannel, AtChannel
<1>9. OneMayDeliver'
  <2>1. \A r \in Runs : MayDeliver(r)' => MayDeliver(r)
    BY <1>1, <1>2, <1>3, WorkTypes DEF WorkSound, RunOK, MayDeliver, IsCurrent, AtChannel
  <2> QED
    BY <1>1, <2>1 DEF WorkSound, OneMayDeliver
<1>10. HaltIsHonest'
  BY <1>1, <1>2, <1>3, WorkTypes DEF WorkSound, HaltIsHonest, RunOK, AtChannel
<1>11. CompletionIsBacked'
  BY <1>1, <1>2, WorkTypes DEF WorkSound, CompletionIsBacked
<1>12. WaitCanEnd'
  BY <1>1, <1>2, <1>3, WorkTypes DEF WorkSound, WaitCanEnd, Open, ContinuationOK
<1>13. ReadyIsScheduled'
  BY <1>1, <1>3 DEF WorkSound, ReadyIsScheduled
<1> QED
  BY <1>4, <1>5, <1>6, <1>7, <1>8, <1>9, <1>10, <1>11, <1>12, <1>13 DEF WorkSound

LEMMA ResumeSound ==
  ASSUME TypeOK, WorkSound, NEW w \in Works, Resume(w)
  PROVE  WorkSound'
<1> DEFINE next == IF Protected(w, cont[w]).op # None THEN Protected(w, cont[w]) ELSE InitialCont(w)
<1>1. /\ wStatus[w] = "paused" /\ wStatus'[w] = "active"
      /\ epoch'[w] = epoch[w] + 1 /\ cont'[w] = next /\ wakeup'[w] = (w \notin Daily)
      /\ \A v \in Works \ {w} : /\ wStatus'[v] = wStatus[v] /\ epoch'[v] = epoch[v]
                                /\ cont'[v] = cont[v] /\ wakeup'[v] = wakeup[v]
      /\ UNCHANGED <<revision, coordinator, target, runWork, runRev, runEpoch, via, unapplied>>
  BY DEF Resume, TypeOK, StoreTypeOK, targetVars, ghostVars
<1>2. \A r \in Runs :
        /\ dSt'[r] = IF runWork[r] = w /\ dSt[r] \in {"pending", "failed"} THEN "cancelled" ELSE dSt[r]
        /\ runSt'[r] = IF r = coordinator[w] /\ runSt[r] \in {"queued", "running"}
                       THEN "cancelling" ELSE runSt[r]
  BY DEF Resume, CancelCoordinator, CancelledPending, Deliveries
<1>3. \A r \in Runs : runWork[r] = w => dSt[r] \notin AtChannel
  BY <1>1 DEF WorkSound, HaltIsHonest, AtChannel
<1>4. /\ next.ref = None /\ next.kind # "awaiting_delivery"
      /\ next.op # None => next.kind = "blocked" /\ next = cont[w]
      /\ next.op = None => next.kind = (IF w \in Daily THEN "at_time" ELSE "ready")
  <2>1. Protected(w, cont[w]) = cont[w]
    BY <1>3, ProtectedIs
  <2> QED
    BY <2>1 DEF WorkSound, ContinuationOK, InitialCont, Cont
<1> HIDE DEF next
<1>5. \A r \in Runs : RunOK(r)'
  BY <1>1, <1>2, WorkTypes DEF WorkSound, RunOK, Unfinished
<1>6. \A r \in Runs : OpenIsAwaited(r)'
  BY <1>1, <1>2, <1>3, WorkTypes DEF WorkSound, OpenIsAwaited, RunOK, AtChannel
<1>7. ASSUME NEW v \in Works
      PROVE  CoordinatorOK(v)'
  <2>1. CoordinatorOK(v)
    BY DEF WorkSound
  <2>2. CASE coordinator[v] # None
    <3> DEFINE c == coordinator[v]
    <3>1. c \in Runs /\ runWork[c] = v /\ runSt'[c] \in Unfinished
      BY <1>2, <2>1, <2>2, WorkTypes DEF CoordinatorOK, Unfinished
    <3>2. \A r \in Runs : runWork[r] = v => dSt'[r] \notin AtChannel
      BY <1>2, <2>1, <2>2 DEF CoordinatorOK, AtChannel
    <3>3. CASE v = w
      BY <1>1, <1>4, <2>1, <2>2, <3>1, <3>2, <3>3 DEF CoordinatorOK
    <3>4. CASE v # w
      BY <1>1, <2>1, <2>2, <3>1, <3>2, <3>4 DEF CoordinatorOK
    <3> QED
      BY <3>3, <3>4
  <2> QED
    BY <1>1, <2>2 DEF CoordinatorOK
<1>8. \A v \in Works : ContinuationOK(v)'
  BY <1>1, <1>2, <1>4, WorkTypes DEF WorkSound, ContinuationOK, AtChannel
<1>9. OneAtChannel'
  BY <1>1, <1>2, WorkTypes DEF WorkSound, OneAtChannel, AtChannel
<1>10. OneMayDeliver'
  <2>1. \A r \in Runs : MayDeliver(r)' => MayDeliver(r)
    BY <1>1, <1>2, <1>4, WorkTypes DEF WorkSound, RunOK, MayDeliver, IsCurrent, AtChannel
  <2> QED
    BY <1>1, <2>1 DEF WorkSound, OneMayDeliver
<1>11. HaltIsHonest'
  BY <1>1, <1>2, <1>3, WorkTypes DEF WorkSound, HaltIsHonest, RunOK, AtChannel
<1>12. CompletionIsBacked'
  BY <1>1, <1>2, WorkTypes DEF WorkSound, CompletionIsBacked
<1>13. WaitCanEnd'
  BY <1>1, <1>2, <1>4, WorkTypes DEF WorkSound, WaitCanEnd, Open, ContinuationOK
<1>14. ReadyIsScheduled'
  BY <1>1, <1>4 DEF WorkSound, ReadyIsScheduled
<1> QED
  BY <1>5, <1>6, <1>7, <1>8, <1>9, <1>10, <1>11, <1>12, <1>13, <1>14 DEF WorkSound

LEMMA DisableSound ==
  ASSUME TypeOK, WorkSound, NEW w \in Works, DisableTarget(w)
  PROVE  WorkSound'
<1>1. /\ UNCHANGED <<wStatus, revision, epoch, cont, coordinator, wakeup, runSt, runWork, runRev,
                     runEpoch, via, unapplied>>
      /\ \A v \in Works : target'[v] = IF v = w THEN FALSE ELSE target[v]
  BY DEF DisableTarget, TypeOK, StoreTypeOK, mandateVars, runVars, ghostVars
<1>2. \A r \in Runs :
        dSt'[r] = IF runWork[r] = w /\ dSt[r] \in {"pending", "failed"} THEN "cancelled" ELSE dSt[r]
  BY DEF DisableTarget, CancelledPending, Deliveries
<1>3. \A r \in Runs : RunOK(r)' /\ OpenIsAwaited(r)'
  BY <1>1, <1>2 DEF WorkSound, RunOK, OpenIsAwaited, AtChannel
<1>4. ASSUME NEW v \in Works
      PROVE  CoordinatorOK(v)' /\ ContinuationOK(v)'
  <2>1. CoordinatorOK(v)'
    BY <1>1, <1>2, WorkTypes DEF WorkSound, CoordinatorOK, AtChannel
  <2>2. ContinuationOK(v)'
    BY <1>1, <1>2, WorkTypes DEF WorkSound, ContinuationOK, AtChannel
  <2> QED
    BY <2>1, <2>2
<1>5. OneAtChannel'
  BY <1>1, <1>2 DEF WorkSound, OneAtChannel, AtChannel
<1>6. OneMayDeliver'
  <2>1. \A r \in Runs : MayDeliver(r)' => MayDeliver(r)
    BY <1>1, <1>2 DEF MayDeliver, IsCurrent, AtChannel
  <2> QED
    BY <1>1, <2>1 DEF WorkSound, OneMayDeliver
<1>7. HaltIsHonest' /\ CompletionIsBacked' /\ ReadyIsScheduled'
  BY <1>1, <1>2 DEF WorkSound, HaltIsHonest, CompletionIsBacked, ReadyIsScheduled
<1>8. WaitCanEnd'
  <2>1. ASSUME NEW v \in Works, wStatus[v] = "active", cont[v].kind = "awaiting_delivery"
        PROVE  dSt'[cont[v].ref] \in Open \/ ~target'[v] \/ cont[v].ref \in unapplied
    <3> DEFINE f == cont[v].ref
    <3>1. f \in Runs /\ runWork[f] = v
      BY <2>1 DEF WorkSound, ContinuationOK
    <3>2. dSt[f] \in Open \/ ~target[v] \/ f \in unapplied
      BY <2>1 DEF WorkSound, WaitCanEnd
    <3> QED
      BY <1>1, <1>2, <3>1, <3>2 DEF Open
  <2> QED
    BY <1>1, <2>1 DEF WaitCanEnd, Open
<1> QED
  BY <1>3, <1>4, <1>5, <1>6, <1>7, <1>8 DEF WorkSound

\* Nothing of a Work changes but what is not known to have arrived.
LEMMA FrameSound ==
  ASSUME TypeOK, WorkSound, UNCHANGED <<mandateVars, runVars, target>>, unapplied \subseteq unapplied',
         \A r \in Runs : /\ via'[r] = via[r]
                         /\ dSt'[r] = dSt[r] \/ (dSt[r] = "sending" /\ dSt'[r] = "uncertain")
  PROVE  WorkSound'
<1>1. UNCHANGED <<wStatus, revision, epoch, cont, coordinator, wakeup, runSt, runWork, runRev,
                  runEpoch, target>>
  BY DEF mandateVars, runVars
<1>2. \A r \in Runs : RunOK(r)' /\ OpenIsAwaited(r)'
  BY <1>1 DEF WorkSound, RunOK, OpenIsAwaited, AtChannel
<1>3. ASSUME NEW v \in Works
      PROVE  CoordinatorOK(v)' /\ ContinuationOK(v)'
  <2>1. CoordinatorOK(v)'
    BY <1>1, WorkTypes DEF WorkSound, CoordinatorOK, AtChannel
  <2>2. ContinuationOK(v)'
    BY <1>1, WorkTypes DEF WorkSound, ContinuationOK, AtChannel
  <2> QED
    BY <2>1, <2>2
<1>4. OneAtChannel'
  BY <1>1 DEF WorkSound, OneAtChannel, AtChannel
<1>5. OneMayDeliver'
  <2>1. \A r \in Runs : MayDeliver(r)' => MayDeliver(r)
    BY <1>1 DEF MayDeliver, IsCurrent, AtChannel
  <2> QED
    BY <1>1, <2>1 DEF WorkSound, OneMayDeliver
<1>6. HaltIsHonest' /\ CompletionIsBacked' /\ ReadyIsScheduled'
  BY <1>1 DEF WorkSound, HaltIsHonest, CompletionIsBacked, ReadyIsScheduled
<1>7. WaitCanEnd'
  BY <1>1 DEF WorkSound, WaitCanEnd, Open, ContinuationOK
<1> QED
  BY <1>2, <1>3, <1>4, <1>5, <1>6, <1>7 DEF WorkSound

\* The outcome of a fulfilment is recorded, or it is let out again, and the
\* mandate stays: then it is not the current one, or its target is not authorized.
LEMMA OutcomeSound ==
  ASSUME TypeOK, WorkSound, UNCHANGED <<mandateVars, runVars, target>>, unapplied \subseteq unapplied',
         NEW r \in Runs,
         \A q \in Runs \ {r} : dSt'[q] = dSt[q] /\ via'[q] = via[q],
         dSt[r] \in AtChannel \cup {"failed"},
         dSt'[r] \in {"pending", "failed", "uncertain", "accepted", "cancelled"},
         dSt'[r] \in {"failed", "uncertain"} => dSt[r] = "sending",
         dSt'[r] \in {"accepted", "cancelled"} => ~IsCurrent(runWork[r], r) \/ r \in unapplied'
  PROVE  WorkSound'
<1>1. UNCHANGED <<wStatus, revision, epoch, cont, coordinator, wakeup, runSt, runWork, runRev,
                  runEpoch, target>>
  BY DEF mandateVars, runVars
<1>2. \A q \in Runs : dSt'[q] \in AtChannel => dSt[q] \in AtChannel
  BY DEF AtChannel
<1>3. \A q \in Runs : RunOK(q)' /\ OpenIsAwaited(q)'
  BY <1>1, <1>2 DEF WorkSound, RunOK, OpenIsAwaited, AtChannel
<1>4. ASSUME NEW v \in Works
      PROVE  CoordinatorOK(v)' /\ ContinuationOK(v)'
  <2>1. CoordinatorOK(v)'
    BY <1>1, <1>2, WorkTypes DEF WorkSound, CoordinatorOK
  <2>2. ContinuationOK(v)'
    BY <1>1, <1>2, WorkTypes DEF WorkSound, ContinuationOK, AtChannel
  <2> QED
    BY <2>1, <2>2
<1>5. OneAtChannel'
  BY <1>1, <1>2 DEF WorkSound, OneAtChannel
<1>6. OneMayDeliver'
  <2>1. \A q \in Runs : MayDeliver(q)' => MayDeliver(q)
    BY <1>1 DEF MayDeliver, IsCurrent, AtChannel
  <2> QED
    BY <1>1, <2>1 DEF WorkSound, OneMayDeliver
<1>7. HaltIsHonest'
  BY <1>1, <1>2 DEF WorkSound, HaltIsHonest, AtChannel
<1>8. CompletionIsBacked' /\ ReadyIsScheduled'
  BY <1>1 DEF WorkSound, CompletionIsBacked, ReadyIsScheduled, AtChannel
<1>9. WaitCanEnd'
  <2>1. ASSUME NEW v \in Works, wStatus[v] = "active", cont[v].kind = "awaiting_delivery"
        PROVE  dSt'[cont[v].ref] \in Open \/ ~target[v] \/ cont[v].ref \in unapplied'
    <3> DEFINE f == cont[v].ref
    <3>1. f \in Runs /\ IsCurrent(v, f) /\ runWork[f] = v
      BY <2>1 DEF WorkSound, ContinuationOK, IsCurrent
    <3>2. dSt[f] \in Open \/ ~target[v] \/ f \in unapplied
      BY <2>1 DEF WorkSound, WaitCanEnd
    <3> QED
      BY <1>1, <3>1, <3>2 DEF Open
  <2> QED
    BY <1>1, <2>1 DEF WaitCanEnd, Open
<1> QED
  BY <1>3, <1>4, <1>5, <1>6, <1>7, <1>8, <1>9 DEF WorkSound

\* The accepted delivery of the current fulfilment is applied.
LEMMA ReceiptSound ==
  ASSUME TypeOK, WorkSound, NEW r \in Runs, IsCurrent(runWork[r], r), ApplyReceipt(r),
         UNCHANGED <<revision, epoch, coordinator, runVars, target>>, unapplied \subseteq unapplied',
         \A q \in Runs \ {r} : dSt'[q] = dSt[q] /\ via'[q] = via[q],
         dSt[r] \in AtChannel \cup {"failed"}, dSt'[r] = "accepted"
  PROVE  WorkSound'
<1> DEFINE w == runWork[r]
<1>1. UNCHANGED <<revision, epoch, coordinator, runSt, runWork, runRev, runEpoch, target>>
  BY DEF runVars
<1>2. /\ w \in Works /\ runSt[r] = "succeeded" /\ wStatus[w] = "active" /\ cont[w].ref = r
      /\ coordinator[w] = None /\ runRev[r] = revision[w] /\ runEpoch[r] = epoch[w]
  BY DEF WorkSound, RunOK, ApplyReceipt, Acceptable, IsCurrent, AtChannel
<1>3. PICK v \in Works : v = w
  BY <1>2
<1>4. /\ \A u \in Works \ {v} : /\ wStatus'[u] = wStatus[u] /\ cont'[u] = cont[u]
                                /\ wakeup'[u] = wakeup[u]
      /\ cont'[v].ref = None /\ cont'[v].op = None /\ cont'[v].kind \in {"at_time", "none"}
      /\ wStatus'[v] = IF v \in Daily THEN "active" ELSE "completed"
  BY <1>2, <1>3 DEF ApplyReceipt, Cont, TypeOK, StoreTypeOK
<1>5. \A q \in Runs : dSt'[q] \in AtChannel => dSt[q] \in AtChannel /\ q # r
  BY DEF AtChannel
<1> HIDE DEF w
<1>6. \A q \in Runs : RunOK(q)'
  BY <1>1, <1>2, <1>3 DEF WorkSound, RunOK, AtChannel
<1>7. \A q \in Runs : OpenIsAwaited(q)'
  BY <1>1, <1>2, <1>3, <1>4, WorkTypes DEF WorkSound, RunOK, OpenIsAwaited, AtChannel, w
<1>8. ASSUME NEW u \in Works
      PROVE  CoordinatorOK(u)' /\ ContinuationOK(u)'
  <2>1. CoordinatorOK(u)'
    BY <1>1, <1>2, <1>3, <1>4, <1>5, WorkTypes DEF WorkSound, CoordinatorOK
  <2>2. ContinuationOK(u)'
    <3>1. CASE u = v
      BY <1>4, <3>1 DEF ContinuationOK
    <3>2. CASE u # v
      BY <1>1, <1>2, <1>3, <1>4, <1>5, <3>2, WorkTypes DEF WorkSound, ContinuationOK, w
    <3> QED
      BY <3>1, <3>2
  <2> QED
    BY <2>1, <2>2
<1>9. OneAtChannel'
  BY <1>1, <1>5 DEF WorkSound, OneAtChannel
<1>10. OneMayDeliver'
  <2>1. \A q \in Runs : MayDeliver(q)' => MayDeliver(q)
    BY <1>1, <1>2, <1>3, <1>4, WorkTypes DEF WorkSound, RunOK, MayDeliver, IsCurrent, AtChannel
  <2> QED
    BY <1>1, <2>1 DEF WorkSound, OneMayDeliver
<1>11. HaltIsHonest'
  BY <1>1, <1>2, <1>3, <1>4, <1>5, WorkTypes DEF WorkSound, RunOK, HaltIsHonest, AtChannel
<1>12. CompletionIsBacked'
  <2>1. ASSUME NEW u \in Works, wStatus'[u] = "completed"
        PROVE  \E q \in Runs : /\ runWork[q] = u /\ runRev[q] = revision[u] /\ runEpoch[q] = epoch[u]
                               /\ runSt[q] = "succeeded" /\ dSt'[q] = "accepted"
    <3>1. CASE u = v
      BY <1>2, <1>3, <3>1 DEF w
    <3>2. CASE u # v
      BY <1>4, <2>1, <3>2 DEF WorkSound, CompletionIsBacked, AtChannel
    <3> QED
      BY <3>1, <3>2
  <2> QED
    BY <1>1, <2>1 DEF CompletionIsBacked
<1>13. WaitCanEnd'
  <2>1. ASSUME NEW u \in Works, wStatus'[u] = "active", cont'[u].kind = "awaiting_delivery"
        PROVE  dSt'[cont'[u].ref] \in Open \/ ~target[u] \/ cont'[u].ref \in unapplied'
    <3>1. u # v
      BY <1>4, <2>1
    <3>2. cont'[u] = cont[u] /\ wStatus'[u] = wStatus[u]
      BY <1>4, <3>1
    <3>3. cont[u].ref \in Runs /\ runWork[cont[u].ref] = u
      BY <2>1, <3>2 DEF WorkSound, ContinuationOK
    <3>4. dSt[cont[u].ref] \in Open \/ ~target[u] \/ cont[u].ref \in unapplied
      BY <2>1, <3>2 DEF WorkSound, WaitCanEnd
    <3> QED
      BY <1>3, <3>1, <3>2, <3>3, <3>4 DEF w
  <2> QED
    BY <1>1, <2>1 DEF WaitCanEnd, Open
<1>14. ReadyIsScheduled'
  BY <1>1, <1>4 DEF WorkSound, ReadyIsScheduled
<1> QED
  BY <1>6, <1>7, <1>8, <1>9, <1>10, <1>11, <1>12, <1>13, <1>14 DEF WorkSound

\* A decision that ends a halt
LEMMA SettleSound ==
  ASSUME TypeOK, WorkSound, NEW w \in Works, NEW r \in Runs, runWork[r] = w,
         wStatus[w] \in {"pausing", "stopping"}, coordinator[w] = None,
         wStatus' = [wStatus EXCEPT ![w] = Settled(@)],
         epoch' = [epoch EXCEPT ![w] = @ + 1],
         cont' = [cont EXCEPT ![w] = Cont("blocked", None, None)],
         UNCHANGED <<revision, coordinator, wakeup, runVars, target>>,
         unapplied \subseteq unapplied',
         \A q \in Runs \ {r} : dSt'[q] = dSt[q] /\ via'[q] = via[q],
         dSt[r] \in AtChannel \cup {"failed"}, dSt'[r] \in {"accepted", "cancelled"},
         \A q \in Runs : runWork[q] = w => dSt'[q] \notin AtChannel
  PROVE  WorkSound'
<1>1. /\ UNCHANGED <<revision, coordinator, wakeup, runSt, runWork, runRev, runEpoch, target>>
      /\ \A u \in Works \ {w} : /\ wStatus'[u] = wStatus[u] /\ epoch'[u] = epoch[u]
                                /\ cont'[u] = cont[u]
      /\ wStatus'[w] \in {"paused", "stopped"} /\ epoch'[w] = epoch[w] + 1
      /\ cont'[w].ref = None /\ cont'[w].op = None /\ cont'[w].kind = "blocked"
  BY DEF runVars, Settled, Cont, TypeOK, StoreTypeOK
<1>2. \A q \in Runs : dSt'[q] \in AtChannel => dSt[q] \in AtChannel
  BY DEF AtChannel
<1>3. \A q \in Runs : RunOK(q)' /\ OpenIsAwaited(q)'
  BY <1>1, <1>2, WorkTypes DEF WorkSound, RunOK, OpenIsAwaited, AtChannel
<1>4. ASSUME NEW u \in Works
      PROVE  CoordinatorOK(u)' /\ ContinuationOK(u)'
  <2>1. CASE u = w
    BY <1>1, <2>1 DEF CoordinatorOK, ContinuationOK
  <2>2. CASE u # w
    <3>1. CoordinatorOK(u)'
      BY <1>1, <1>2, <2>2, WorkTypes DEF WorkSound, CoordinatorOK
    <3>2. ContinuationOK(u)'
      BY <1>1, <1>2, <2>2, WorkTypes DEF WorkSound, ContinuationOK
    <3> QED
      BY <3>1, <3>2
  <2> QED
    BY <2>1, <2>2
<1>5. OneAtChannel'
  BY <1>1, <1>2 DEF WorkSound, OneAtChannel
<1>6. OneMayDeliver'
  <2>1. \A q \in Runs : MayDeliver(q)' => MayDeliver(q)
    BY <1>1, WorkTypes DEF WorkSound, RunOK, MayDeliver, IsCurrent, AtChannel
  <2> QED
    BY <1>1, <2>1 DEF WorkSound, OneMayDeliver
<1>7. HaltIsHonest'
  BY <1>1, <1>2, WorkTypes DEF WorkSound, RunOK, HaltIsHonest, AtChannel
<1>8. CompletionIsBacked' /\ ReadyIsScheduled'
  BY <1>1 DEF WorkSound, CompletionIsBacked, ReadyIsScheduled, AtChannel
<1>9. WaitCanEnd'
  <2>1. ASSUME NEW u \in Works, wStatus'[u] = "active", cont'[u].kind = "awaiting_delivery"
        PROVE  dSt'[cont'[u].ref] \in Open \/ ~target[u] \/ cont'[u].ref \in unapplied'
    <3>1. u # w /\ cont'[u] = cont[u] /\ wStatus'[u] = wStatus[u]
      BY <1>1, <2>1
    <3>2. cont[u].ref \in Runs /\ runWork[cont[u].ref] = u
      BY <2>1, <3>1 DEF WorkSound, ContinuationOK
    <3>3. dSt[cont[u].ref] \in Open \/ ~target[u] \/ cont[u].ref \in unapplied
      BY <2>1, <3>1 DEF WorkSound, WaitCanEnd
    <3> QED
      BY <3>1, <3>2, <3>3
  <2> QED
    BY <1>1, <2>1 DEF WaitCanEnd, Open
<1> QED
  BY <1>3, <1>4, <1>5, <1>6, <1>7, <1>8, <1>9 DEF WorkSound

LEMMA ResolveSound ==
  ASSUME TypeOK, WorkSound, NEW w \in Works, NEW r \in Runs, NEW o \in {"accepted", "again"},
         ResolveDelivery(w, r, o)
  PROVE  WorkSound'
<1> DEFINE current == Authorized(r) /\ IsCurrent(w, r)
           resolved == IF o = "accepted" THEN "accepted"
                       ELSE IF current THEN "pending" ELSE "cancelled"
           settles == /\ wStatus[w] \in {"pausing", "stopping"}
                      /\ coordinator[w] = None
                      /\ Unresolved(w, [dSt EXCEPT ![r] = resolved]) = {}
<1>1. /\ runWork[r] = w /\ dSt[r] \in {"failed", "uncertain"}
      /\ dSt' = [dSt EXCEPT ![r] = resolved]
      /\ via' = [via EXCEPT ![r] = "confirmed"] \/ UNCHANGED via
      /\ unapplied' = (IF Authorized(r) THEN unapplied ELSE unapplied \cup {r})
      /\ UNCHANGED <<revision, coordinator, runVars, target>>
  BY DEF ResolveDelivery, targetVars
<1>2. /\ \A q \in Runs \ {r} : dSt'[q] = dSt[q] /\ via'[q] = via[q]
      /\ dSt'[r] = resolved /\ unapplied \subseteq unapplied'
  BY <1>1 DEF TypeOK, StoreTypeOK, Deliveries
<1>3. dSt[r] \in AtChannel \cup {"failed"}
  BY <1>1 DEF AtChannel
<1>4. CASE settles
  <2>1. /\ wStatus' = [wStatus EXCEPT ![w] = Settled(@)]
        /\ epoch' = [epoch EXCEPT ![w] = @ + 1]
        /\ cont' = [cont EXCEPT ![w] = Cont("blocked", None, None)]
        /\ UNCHANGED wakeup
    BY <1>4 DEF ResolveDelivery
  <2>2. \A q \in Runs : runWork[q] = w => dSt'[q] \notin AtChannel
    BY <1>1, <1>4 DEF Unresolved, AtChannel
  <2>3. resolved \in {"accepted", "cancelled"}
    BY <1>4 DEF IsCurrent
  <2>4. wStatus[w] \in {"pausing", "stopping"} /\ coordinator[w] = None
    BY <1>4
  <2>5. dSt'[r] \in {"accepted", "cancelled"}
    BY <1>2, <2>3
  <2>6. /\ runWork[r] = w /\ unapplied \subseteq unapplied'
        /\ UNCHANGED <<revision, coordinator, wakeup, runVars, target>>
        /\ \A q \in Runs \ {r} : dSt'[q] = dSt[q] /\ via'[q] = via[q]
    BY <1>1, <1>2, <2>1
  <2> HIDE DEF settles, resolved, current
  <2> QED
    BY <1>3, <2>1, <2>2, <2>4, <2>5, <2>6, SettleSound
<1>5. CASE ~settles /\ o = "accepted" /\ current
  <2>1. ApplyReceipt(r) /\ UNCHANGED epoch
    BY <1>5 DEF ResolveDelivery
  <2> QED
    BY <1>1, <1>2, <1>3, <1>5, <2>1, ReceiptSound
<1>6. CASE ~settles /\ ~(o = "accepted" /\ current)
  <2>1. UNCHANGED <<wStatus, cont, wakeup, epoch>>
    BY <1>6 DEF ResolveDelivery
  <2>2. UNCHANGED mandateVars
    BY <1>1, <2>1 DEF mandateVars
  <2>3. dSt'[r] \in {"accepted", "cancelled"} => ~IsCurrent(runWork[r], r) \/ r \in unapplied'
    BY <1>1, <1>2, <1>6
  <2> QED
    BY <1>1, <1>2, <1>3, <2>2, <2>3, OutcomeSound
<1> QED
  BY <1>4, <1>5, <1>6

LEMMA AdmitSound ==
  ASSUME TypeOK, WorkSound, LeaseSound, NEW w \in Works, AdvanceWork(w) \/ DispatchDueWork(w)
  PROVE  WorkSound'
<1>1. /\ wStatus[w] = "active" /\ coordinator[w] = None /\ cont[w].kind # "awaiting_delivery"
      /\ \A r \in Runs : runWork[r] = w => dSt[r] \notin AtChannel
      /\ Admit(w) /\ UNCHANGED <<target, dSt, via, unapplied>>
  BY DEF AdvanceWork, DispatchDueWork, Unresolved, AtChannel, targetVars, deliveryVars, ghostVars
<1>2. /\ \A u \in Works \ {w} : cont'[u] = cont[u] /\ wakeup'[u] = wakeup[u]
      /\ cont'[w].kind = "ready" /\ cont'[w].ref = None /\ cont'[w].op = None
      /\ UNCHANGED <<wStatus, revision>>
  BY <1>1 DEF Admit, Cont, TypeOK, StoreTypeOK
<1>3. \A r \in Runs : runWork[r] = w /\ runRev[r] = revision[w] => dSt[r] # "failed"
  BY <1>1, WorkTypes DEF WorkSound, OpenIsAwaited, ContinuationOK, RunOK
<1>4. CASE /\ wakeup' = [wakeup EXCEPT ![w] = TRUE]
           /\ UNCHANGED <<epoch, coordinator, runVars>>
  <2>1. UNCHANGED <<epoch, coordinator, runSt, runWork, runRev, runEpoch>> /\ wakeup'[w] = TRUE
    BY <1>4 DEF runVars, TypeOK, StoreTypeOK
  <2>2. \A r \in Runs : RunOK(r)' /\ OpenIsAwaited(r)'
    BY <1>1, <1>2, <1>3, <2>1, WorkTypes DEF WorkSound, RunOK, OpenIsAwaited, AtChannel
  <2>3. \A u \in Works : CoordinatorOK(u)' /\ ContinuationOK(u)'
    BY <1>1, <1>2, <2>1 DEF WorkSound, CoordinatorOK, ContinuationOK
  <2>4. OneAtChannel' /\ HaltIsHonest' /\ CompletionIsBacked'
    BY <1>1, <1>2, <2>1 DEF WorkSound, OneAtChannel, HaltIsHonest, CompletionIsBacked
  <2>5. OneMayDeliver'
    <3>1. \A q \in Runs : MayDeliver(q)' => MayDeliver(q)
      BY <1>1, <1>2, <2>1, WorkTypes DEF WorkSound, RunOK, MayDeliver, IsCurrent
    <3> QED
      BY <2>1, <3>1 DEF WorkSound, OneMayDeliver
  <2>6. WaitCanEnd' /\ ReadyIsScheduled'
    BY <1>1, <1>2, <2>1 DEF WorkSound, WaitCanEnd, ReadyIsScheduled, Open
  <2> QED
    BY <2>2, <2>3, <2>4, <2>5, <2>6 DEF WorkSound
<1>5. ASSUME NEW n \in Runs,
             /\ runSt[n] = "none"
             /\ runSt' = [runSt EXCEPT ![n] = "queued"]
             /\ runWork' = [runWork EXCEPT ![n] = w]
             /\ runRev' = [runRev EXCEPT ![n] = revision[w]]
             /\ runEpoch' = [runEpoch EXCEPT ![n] = epoch[w] + 1]
             /\ epoch' = [epoch EXCEPT ![w] = @ + 1]
             /\ coordinator' = [coordinator EXCEPT ![w] = n]
             /\ wakeup' = [wakeup EXCEPT ![w] = FALSE]
      PROVE  WorkSound'
  <2>1. /\ runSt'[n] = "queued" /\ runWork'[n] = w /\ runRev'[n] = revision[w]
        /\ runEpoch'[n] = epoch[w] + 1 /\ epoch'[w] = epoch[w] + 1 /\ coordinator'[w] = n
        /\ \A q \in Runs \ {n} : /\ runSt'[q] = runSt[q] /\ runWork'[q] = runWork[q]
                                 /\ runRev'[q] = runRev[q] /\ runEpoch'[q] = runEpoch[q]
        /\ \A u \in Works \ {w} : epoch'[u] = epoch[u] /\ coordinator'[u] = coordinator[u]
    BY <1>5 DEF TypeOK, StoreTypeOK
  <2>2. dSt[n] = "none" /\ dSt'[n] = "none" /\ UNCHANGED <<dSt, via, unapplied, target>>
    BY <1>1, <1>5 DEF WorkSound, RunOK
  <2>3. \A r \in Runs : RunOK(r)'
    BY <1>1, <1>2, <2>1, <2>2, WorkTypes DEF WorkSound, RunOK, Unfinished
  <2>4. \A r \in Runs : OpenIsAwaited(r)'
    BY <1>1, <1>2, <1>3, <2>1, <2>2, WorkTypes DEF WorkSound, RunOK, OpenIsAwaited, AtChannel
  <2>5. ASSUME NEW u \in Works
        PROVE  CoordinatorOK(u)'
    <3>1. CASE u = w
      BY <1>1, <1>2, <2>1, <2>2, <3>1 DEF CoordinatorOK, AtChannel, Unfinished
    <3>2. CASE u # w
      BY <1>2, <1>5, <2>1, <2>2, <3>2, WorkTypes DEF WorkSound, CoordinatorOK, AtChannel, Unfinished
    <3> QED
      BY <3>1, <3>2
  <2>6. ASSUME NEW u \in Works
        PROVE  ContinuationOK(u)'
    <3>1. CASE u = w
      BY <1>2, <3>1 DEF ContinuationOK
    <3>2. CASE u # w
      BY <1>2, <1>5, <2>1, <2>2, <3>2, WorkTypes DEF WorkSound, ContinuationOK, AtChannel
    <3> QED
      BY <3>1, <3>2
  <2>7. OneAtChannel'
    BY <2>1, <2>2 DEF WorkSound, OneAtChannel, AtChannel
  <2>8. OneMayDeliver'
    <3>1. \A q \in Runs \ {n} : MayDeliver(q)' => MayDeliver(q)
      BY <1>1, <1>2, <2>1, <2>2, WorkTypes DEF WorkSound, RunOK, MayDeliver, IsCurrent, AtChannel
    <3>2. ~MayDeliver(n)'
      <4>1. via[n] = "none"
        BY <2>2 DEF LeaseSound, RowOK, Deliveries
      <4> QED
        BY <2>2, <4>1 DEF MayDeliver, AtChannel
    <3> QED
      BY <2>1, <3>1, <3>2 DEF WorkSound, OneMayDeliver
  <2>9. HaltIsHonest'
    BY <1>2, <2>1, <2>2 DEF WorkSound, HaltIsHonest
  <2>10. CompletionIsBacked'
    <3>1. ASSUME NEW u \in Works, wStatus[u] = "completed"
          PROVE  \E q \in Runs : /\ runWork'[q] = u /\ runRev'[q] = revision[u]
                                 /\ runEpoch'[q] = epoch'[u]
                                 /\ runSt'[q] = "succeeded" /\ dSt'[q] = "accepted"
      <4>1. u # w
        BY <1>1, <3>1
      <4>2. PICK q \in Runs : /\ runWork[q] = u /\ runRev[q] = revision[u] /\ runEpoch[q] = epoch[u]
                              /\ runSt[q] = "succeeded" /\ dSt[q] = "accepted"
        BY <3>1 DEF WorkSound, CompletionIsBacked
      <4>3. q # n
        BY <1>5, <4>2
      <4> QED
        BY <2>1, <2>2, <4>1, <4>2, <4>3
    <3> QED
      BY <1>2, <3>1 DEF CompletionIsBacked
  <2>11. WaitCanEnd'
    BY <1>2, <2>2 DEF WorkSound, WaitCanEnd, Open
  <2>12. ReadyIsScheduled'
    BY <1>2, <2>1, WorkTypes DEF WorkSound, ReadyIsScheduled
  <2> QED
    BY <2>3, <2>4, <2>5, <2>6, <2>7, <2>8, <2>9, <2>10, <2>11, <2>12 DEF WorkSound
<1> QED
  BY <1>1, <1>4, <1>5 DEF Admit

LEMMA OccurrenceSound ==
  ASSUME TypeOK, WorkSound, NEW w \in Works, Occurrence(w)
  PROVE  WorkSound'
<1>1. /\ wStatus[w] = "active" /\ wakeup'[w] = TRUE
      /\ IF cont[w].kind \in {"ready", "at_time"}
         THEN cont'[w].kind = "ready" /\ cont'[w].ref = None /\ cont'[w].op = None
         ELSE cont'[w] = cont[w]
      /\ \A u \in Works \ {w} : cont'[u] = cont[u] /\ wakeup'[u] = wakeup[u]
      /\ UNCHANGED <<wStatus, revision, epoch, coordinator, runSt, runWork, runRev, runEpoch,
                     target, dSt, via, unapplied>>
  BY DEF Occurrence, Cont, TypeOK, StoreTypeOK, runVars, targetVars, deliveryVars, ghostVars
<1>2. cont[w].kind \in {"ready", "at_time"} =>
        \A r \in Runs : runWork[r] = w /\ runRev[r] = revision[w] => dSt[r] \notin AtChannel \cup {"failed"}
  BY <1>1, WorkTypes DEF WorkSound, RunOK, OpenIsAwaited, ContinuationOK, AtChannel
<1>3. \A r \in Runs : RunOK(r)'
  BY <1>1 DEF WorkSound, RunOK
<1>4. \A r \in Runs : OpenIsAwaited(r)'
  BY <1>1, <1>2, WorkTypes DEF WorkSound, RunOK, OpenIsAwaited
<1>5. \A u \in Works : CoordinatorOK(u)'
  BY <1>1 DEF WorkSound, CoordinatorOK
<1>6. \A u \in Works : ContinuationOK(u)'
  BY <1>1 DEF WorkSound, ContinuationOK
<1>7. OneAtChannel' /\ HaltIsHonest' /\ CompletionIsBacked'
  BY <1>1 DEF WorkSound, OneAtChannel, HaltIsHonest, CompletionIsBacked
<1>8. OneMayDeliver'
  <2>1. \A r \in Runs : MayDeliver(r)' => MayDeliver(r)
    BY <1>1, WorkTypes DEF WorkSound, RunOK, MayDeliver, IsCurrent
  <2> QED
    BY <1>1, <2>1 DEF WorkSound, OneMayDeliver
<1>9. WaitCanEnd' /\ ReadyIsScheduled'
  BY <1>1 DEF WorkSound, WaitCanEnd, ReadyIsScheduled, Open
<1> QED
  BY <1>3, <1>4, <1>5, <1>6, <1>7, <1>8, <1>9 DEF WorkSound

LEMMA ConvergeSound ==
  ASSUME TypeOK, WorkSound, NEW w \in Works, ConvergeControls(w)
  PROVE  WorkSound'
<1>1. /\ wStatus[w] \in {"pausing", "stopping"} /\ coordinator[w] = None
      /\ wStatus'[w] \in {"paused", "stopped"} /\ epoch'[w] = epoch[w] + 1
      /\ cont'[w].kind = "none" /\ cont'[w].ref = None /\ cont'[w].op = None
      /\ \A u \in Works \ {w} : /\ wStatus'[u] = wStatus[u] /\ epoch'[u] = epoch[u]
                                /\ cont'[u] = cont[u]
      /\ UNCHANGED <<revision, coordinator, wakeup, runSt, runWork, runRev, runEpoch,
                     target, dSt, via, unapplied>>
  BY DEF ConvergeControls, Settled, Cont, TypeOK, StoreTypeOK, runVars, targetVars, deliveryVars,
         ghostVars
<1>2. \A r \in Runs : runWork[r] = w => dSt[r] \notin AtChannel
  BY DEF ConvergeControls, Unresolved, AtChannel
<1>3. \A r \in Runs : RunOK(r)'
  BY <1>1, WorkTypes DEF WorkSound, RunOK
<1>4. \A r \in Runs : OpenIsAwaited(r)'
  BY <1>1, WorkTypes DEF WorkSound, RunOK, OpenIsAwaited
<1>5. \A u \in Works : CoordinatorOK(u)'
  BY <1>1 DEF WorkSound, CoordinatorOK
<1>6. \A u \in Works : ContinuationOK(u)'
  BY <1>1 DEF WorkSound, ContinuationOK
<1>7. OneAtChannel'
  BY <1>1 DEF WorkSound, OneAtChannel
<1>8. HaltIsHonest'
  BY <1>1, <1>2, WorkTypes DEF WorkSound, RunOK, HaltIsHonest, AtChannel
<1>9. CompletionIsBacked'
  BY <1>1 DEF WorkSound, CompletionIsBacked
<1>10. OneMayDeliver'
  <2>1. \A r \in Runs : MayDeliver(r)' => MayDeliver(r)
    BY <1>1, WorkTypes DEF WorkSound, RunOK, MayDeliver, IsCurrent
  <2> QED
    BY <1>1, <2>1 DEF WorkSound, OneMayDeliver
<1>11. WaitCanEnd' /\ ReadyIsScheduled'
  BY <1>1 DEF WorkSound, WaitCanEnd, ReadyIsScheduled, Open
<1> QED
  BY <1>3, <1>4, <1>5, <1>6, <1>7, <1>8, <1>9, <1>10, <1>11 DEF WorkSound

\* A Run goes on, or is being cancelled.
LEMMA RunGoesOn ==
  ASSUME TypeOK, WorkSound, NEW r \in Runs, StartRun(r) \/ CancelRun(r)
  PROVE  WorkSound'
<1>1. /\ runSt[r] \in Unfinished /\ runSt'[r] \in Unfinished
      /\ \A q \in Runs \ {r} : runSt'[q] = runSt[q]
      /\ UNCHANGED <<wStatus, revision, epoch, cont, coordinator, wakeup, runWork, runRev, runEpoch,
                     target, dSt, via, unapplied>>
  BY DEF StartRun, CancelRun, Unfinished, TypeOK, StoreTypeOK, mandateVars, targetVars,
         deliveryVars, ghostVars
<1>2. \A q \in Runs : RunOK(q)'
  BY <1>1 DEF WorkSound, RunOK, Unfinished
<1>3. \A q \in Runs : OpenIsAwaited(q)'
  BY <1>1 DEF WorkSound, OpenIsAwaited, Unfinished
<1>4. \A u \in Works : CoordinatorOK(u)'
  BY <1>1, WorkTypes DEF WorkSound, CoordinatorOK
<1>5. \A u \in Works : ContinuationOK(u)'
  BY <1>1, WorkTypes DEF WorkSound, ContinuationOK, Unfinished
<1>6. OneAtChannel' /\ HaltIsHonest' /\ WaitCanEnd' /\ ReadyIsScheduled'
  BY <1>1 DEF WorkSound, OneAtChannel, HaltIsHonest, WaitCanEnd, ReadyIsScheduled, Open
<1>7. CompletionIsBacked'
  BY <1>1 DEF WorkSound, CompletionIsBacked, Unfinished
<1>8. OneMayDeliver'
  <2>1. \A q \in Runs : MayDeliver(q)' => MayDeliver(q)
    BY <1>1 DEF MayDeliver, IsCurrent
  <2> QED
    BY <1>1, <2>1 DEF WorkSound, OneMayDeliver
<1> QED
  BY <1>2, <1>3, <1>4, <1>5, <1>6, <1>7, <1>8 DEF WorkSound

\* What a Run that ends finds: nothing of its Work is awaited or at the channel.
LEMMA EndOfCoordinator ==
  ASSUME TypeOK, WorkSound, NEW r \in Runs, runSt[r] \in Unfinished, NEW c
  PROVE  LET w == runWork[r] IN
         /\ w \in Works /\ coordinator[w] = r /\ cont[w].ref = None /\ cont[w].op = None
         /\ dSt[r] = "none"
         /\ \A q \in Runs : runWork[q] = w => dSt[q] \notin AtChannel
         /\ ContAfterRun(r, c) = IF runRev[r] # revision[w] THEN cont[w] ELSE c
<1> DEFINE w == runWork[r]
<1>1. w \in Works /\ coordinator[w] = r /\ dSt[r] = "none"
  BY DEF WorkSound, RunOK, Unfinished
<1>2. /\ cont[w].ref = None /\ cont[w].op = None
      /\ \A q \in Runs : runWork[q] = w => dSt[q] \notin AtChannel
  BY <1>1, WorkTypes DEF WorkSound, CoordinatorOK
<1>3. \A x : Protected(w, x) = x
  BY <1>2, ProtectedIs
<1> QED
  BY <1>1, <1>2, <1>3 DEF ContAfterRun

LEMMA EndSound ==
  ASSUME TypeOK, WorkSound, NEW r \in Runs, FailRun(r) \/ FinalizeCancelled(r)
  PROVE  WorkSound'
<1> DEFINE w == runWork[r]
           blocked == Cont("blocked", None, None)
<1>1. PICK st \in {"failed", "cancelled"} : EndRun(r, st) /\ runSt[r] \in Unfinished
  BY DEF FailRun, FinalizeCancelled, Unfinished
<1>2. /\ w \in Works /\ coordinator[w] = r /\ cont[w].ref = None /\ cont[w].op = None
      /\ \A q \in Runs : runWork[q] = w => dSt[q] \notin AtChannel
      /\ ContAfterRun(r, blocked) = IF runRev[r] # revision[w] THEN cont[w] ELSE blocked
  BY <1>1, EndOfCoordinator
<1>3. ContAfterRun(r, blocked).op = None
  BY <1>2 DEF Cont
<1>4. /\ runSt' = [runSt EXCEPT ![r] = st]
      /\ coordinator' = [coordinator EXCEPT ![w] = None]
      /\ wStatus' = [wStatus EXCEPT ![w] = Settled(wStatus[w])]
      /\ epoch' = [epoch EXCEPT ![w] = IF Settled(wStatus[w]) \in {"paused", "stopped"} THEN @ + 1 ELSE @]
      /\ cont' = [cont EXCEPT ![w] = ContAfterRun(r, blocked)]
      /\ UNCHANGED <<revision, wakeup, runWork, runRev, runEpoch, target, dSt, via, unapplied>>
  BY <1>1, <1>3 DEF EndRun, targetVars, deliveryVars, ghostVars
<1>5. PICK v \in Works : v = w
  BY <1>2
<1>6. /\ runWork[r] = v /\ coordinator[v] = r /\ coordinator'[v] = None
      /\ cont'[v].ref = None /\ cont'[v].op = None
      /\ cont'[v].kind = "blocked" \/ (runRev[r] # revision[v] /\ cont'[v] = cont[v])
      /\ IF wStatus[v] \in {"pausing", "stopping"}
         THEN wStatus'[v] \in {"paused", "stopped"}
         ELSE wStatus'[v] = wStatus[v]
      /\ epoch'[v] = epoch[v] + 1 \/ (epoch'[v] = epoch[v] /\ wStatus'[v] = wStatus[v])
      /\ wStatus'[v] \in {"active", "completed"} => epoch'[v] = epoch[v]
      /\ runSt[r] \in Unfinished /\ runSt'[r] \in {"failed", "cancelled"}
      /\ \A u \in Works \ {v} : /\ wStatus'[u] = wStatus[u] /\ epoch'[u] = epoch[u]
                                /\ cont'[u] = cont[u] /\ coordinator'[u] = coordinator[u]
      /\ \A q \in Runs \ {r} : runSt'[q] = runSt[q]
      /\ \A q \in Runs : runWork[q] = v => dSt[q] \notin AtChannel
  <2>1. Settled(wStatus[w]) = IF wStatus[w] = "pausing" THEN "paused"
                              ELSE IF wStatus[w] = "stopping" THEN "stopped" ELSE wStatus[w]
    BY DEF Settled
  <2>2. /\ runWork[r] = v /\ coordinator[v] = r /\ coordinator'[v] = None
        /\ runSt[r] \in Unfinished /\ runSt'[r] \in {"failed", "cancelled"}
        /\ \A q \in Runs \ {r} : runSt'[q] = runSt[q]
        /\ \A q \in Runs : runWork[q] = v => dSt[q] \notin AtChannel
    BY <1>1, <1>2, <1>4, <1>5 DEF TypeOK, StoreTypeOK
  <2>3. \A u \in Works \ {v} : /\ wStatus'[u] = wStatus[u] /\ epoch'[u] = epoch[u]
                               /\ cont'[u] = cont[u] /\ coordinator'[u] = coordinator[u]
    BY <1>4, <1>5 DEF TypeOK, StoreTypeOK
  <2>4. cont'[v] = IF runRev[r] # revision[v] THEN cont[v] ELSE blocked
    BY <1>2, <1>4, <1>5 DEF TypeOK, StoreTypeOK
  <2>5. /\ cont'[v].ref = None /\ cont'[v].op = None
        /\ cont'[v].kind = "blocked" \/ (runRev[r] # revision[v] /\ cont'[v] = cont[v])
    BY <1>2, <1>5, <2>4 DEF Cont
  <2>6. /\ wStatus'[v] = Settled(wStatus[v])
        /\ epoch'[v] = IF Settled(wStatus[v]) \in {"paused", "stopped"} THEN epoch[v] + 1 ELSE epoch[v]
    BY <1>4, <1>5 DEF TypeOK, StoreTypeOK
  <2> HIDE DEF blocked
  <2> QED
    BY <1>5, <2>1, <2>2, <2>3, <2>5, <2>6
<1>7. UNCHANGED <<revision, wakeup, runWork, runRev, runEpoch, target, dSt, via, unapplied>>
  BY <1>4
<1> HIDE DEF w, blocked
<1>8. \A q \in Runs : RunOK(q)'
  BY <1>6, <1>7, WorkTypes DEF WorkSound, RunOK, Unfinished
<1>9. ASSUME NEW q \in Runs
      PROVE  OpenIsAwaited(q)'
  <2>1. CASE q = r
    BY <1>6, <2>1 DEF OpenIsAwaited
  <2>2. CASE q # r /\ runWork[q] = v
    <3>1. wStatus'[v] = "active" => wStatus[v] = "active"
      BY <1>6
    <3>2. OpenIsAwaited(q) /\ q # None
      BY WorkTypes DEF WorkSound
    <3>3. cont[v].ref = None
      BY <1>2, <1>5
    <3> QED
      BY <1>6, <1>7, <2>2, <3>1, <3>2, <3>3 DEF OpenIsAwaited
  <2>3. CASE q # r /\ runWork[q] # v
    <3>1. OpenIsAwaited(q) /\ (runSt[q] = "succeeded" => runWork[q] \in Works)
      BY DEF WorkSound, RunOK
    <3> QED
      BY <1>6, <1>7, <2>3, <3>1 DEF OpenIsAwaited
  <2> QED
    BY <2>1, <2>2, <2>3
<1>10. ASSUME NEW u \in Works, coordinator'[u] # None
       PROVE  CoordinatorOK(u)'
  <2>1. u # v /\ coordinator'[u] = coordinator[u]
    BY <1>6, <1>10
  <2>2. coordinator[u] \in Runs \ {r}
    BY <1>6, <1>10, <2>1, WorkTypes DEF WorkSound, CoordinatorOK
  <2> QED
    BY <1>6, <1>7, <1>10, <2>1, <2>2 DEF WorkSound, CoordinatorOK
<1>11. ASSUME NEW u \in Works
       PROVE  ContinuationOK(u)'
  <2>1. CASE u = v
    BY <1>6, <2>1 DEF WorkSound, ContinuationOK
  <2>2. CASE u # v
    BY <1>6, <1>7, <2>2, WorkTypes DEF WorkSound, ContinuationOK, Unfinished
  <2> QED
    BY <2>1, <2>2
<1>12. OneAtChannel'
  BY <1>7 DEF WorkSound, OneAtChannel
<1>13. HaltIsHonest'
  BY <1>6, <1>7, WorkTypes DEF WorkSound, RunOK, HaltIsHonest, AtChannel
<1>14. CompletionIsBacked'
  <2>1. ASSUME NEW u \in Works, wStatus'[u] = "completed"
        PROVE  \E q \in Runs : /\ runWork[q] = u /\ runRev[q] = revision[u] /\ runEpoch[q] = epoch'[u]
                               /\ runSt'[q] = "succeeded" /\ dSt[q] = "accepted"
    <3>1. wStatus[u] = "completed" /\ epoch'[u] = epoch[u]
      BY <1>6, <2>1
    <3>2. PICK q \in Runs : /\ runWork[q] = u /\ runRev[q] = revision[u] /\ runEpoch[q] = epoch[u]
                            /\ runSt[q] = "succeeded" /\ dSt[q] = "accepted"
      BY <3>1 DEF WorkSound, CompletionIsBacked
    <3>3. runSt'[q] = runSt[q]
      BY <1>6, <3>2 DEF Unfinished
    <3> QED
      BY <3>1, <3>2, <3>3
  <2> QED
    BY <1>7, <2>1 DEF CompletionIsBacked
<1>15. OneMayDeliver'
  <2>1. \A q \in Runs : MayDeliver(q)' => MayDeliver(q)
    BY <1>6, <1>7, WorkTypes DEF WorkSound, RunOK, MayDeliver, IsCurrent
  <2> QED
    BY <1>7, <2>1 DEF WorkSound, OneMayDeliver
<1>16. WaitCanEnd'
  BY <1>6, <1>7 DEF WorkSound, WaitCanEnd, Open, ContinuationOK
<1>17. ReadyIsScheduled'
  BY <1>6, <1>7, WorkTypes DEF WorkSound, ReadyIsScheduled, CoordinatorOK
<1> QED
  BY <1>8, <1>9, <1>10, <1>11, <1>12, <1>13, <1>14, <1>15, <1>16, <1>17 DEF WorkSound, CoordinatorOK

\* A Run that executes hands over its fulfilment, or finds the receipt of another.
LEMMA ExecuteSound ==
  ASSUME TypeOK, WorkSound, LeaseSound, NEW r \in Runs, ExecuteReminder(r)
  PROVE  WorkSound'
<1> DEFINE w == runWork[r]
<1>1. /\ w \in Works /\ coordinator[w] = r /\ cont[w].ref = None /\ cont[w].op = None
      /\ dSt[r] = "none" /\ runSt[r] = "running" /\ wStatus[w] = "active"
      /\ runRev[r] = revision[w] /\ runEpoch[r] = epoch[w]
      /\ \A q \in Runs : runWork[q] = w => dSt[q] \notin AtChannel
      /\ ContAfterRun(r, Cont("awaiting_delivery", r, None)) = Cont("awaiting_delivery", r, None)
  <2>1. /\ runSt[r] = "running" /\ wStatus[w] = "active"
        /\ runRev[r] = revision[w] /\ runEpoch[r] = epoch[w]
    BY DEF ExecuteReminder, CheckWork
  <2> QED
    BY <2>1, EndOfCoordinator DEF Unfinished
<1>2. PICK v \in Works : v = w
  BY <1>1
<1>3. /\ runSt'[r] = "succeeded" /\ coordinator'[v] = None
      /\ \A q \in Runs \ {r} : runSt'[q] = runSt[q] /\ dSt'[q] = dSt[q] /\ via'[q] = via[q]
      /\ \A u \in Works \ {v} : /\ coordinator'[u] = coordinator[u] /\ wStatus'[u] = wStatus[u]
                                /\ cont'[u] = cont[u] /\ wakeup'[u] = wakeup[u]
      /\ UNCHANGED <<revision, epoch, runWork, runRev, runEpoch, target, unapplied>>
  BY <1>2 DEF ExecuteReminder, TypeOK, StoreTypeOK, Deliveries, targetVars, ghostVars
<1>4. \/ /\ Prior(r) # {} /\ dSt'[r] = "accepted" /\ via'[r] = "revalidated"
         /\ wStatus'[v] = "completed" /\ cont'[v].kind = "none"
         /\ cont'[v].ref = None /\ cont'[v].op = None
      \/ /\ Prior(r) = {} /\ dSt'[r] = "pending" /\ via'[r] = "none"
         /\ wStatus'[v] = "active" /\ cont'[v].kind = "awaiting_delivery"
         /\ cont'[v].ref = r /\ cont'[v].op = None
  <2>1. Cont("awaiting_delivery", r, None).ref = r
    BY DEF Cont
  <2> QED
    BY <1>1, <1>2, <2>1 DEF ExecuteReminder, Cont, TypeOK, StoreTypeOK, Deliveries
<1>5. /\ runWork[r] = v /\ coordinator[v] = r /\ cont[v].ref = None /\ cont[v].op = None
      /\ dSt[r] = "none" /\ runSt[r] = "running" /\ wStatus[v] = "active"
      /\ runRev[r] = revision[v] /\ runEpoch[r] = epoch[v]
      /\ \A q \in Runs : runWork[q] = v => dSt[q] \notin AtChannel
      /\ via[r] = "none"
  BY <1>1, <1>2 DEF LeaseSound, RowOK, Deliveries
<1>6. \A q \in Runs : dSt'[q] \in AtChannel => dSt[q] \in AtChannel /\ q # r
  BY <1>3, <1>4 DEF AtChannel
<1> HIDE DEF w
<1>7. \A q \in Runs : RunOK(q)'
  BY <1>3, <1>4, <1>5, WorkTypes DEF WorkSound, RunOK, Unfinished
<1>8. \A q \in Runs : runWork[q] = v /\ runRev[q] = revision[v] => dSt[q] # "failed"
  BY <1>5, WorkTypes DEF WorkSound, RunOK, OpenIsAwaited
<1>9. ASSUME NEW q \in Runs
      PROVE  OpenIsAwaited(q)'
  <2>1. CASE q = r
    BY <1>3, <1>4, <2>1 DEF OpenIsAwaited, AtChannel
  <2>2. CASE q # r /\ runWork[q] = v
    BY <1>3, <1>5, <1>8, <2>2 DEF OpenIsAwaited
  <2>3. CASE q # r /\ runWork[q] # v
    <3>1. OpenIsAwaited(q) /\ (runSt[q] = "succeeded" => runWork[q] \in Works)
      BY DEF WorkSound, RunOK
    <3> QED
      BY <1>3, <2>3, <3>1 DEF OpenIsAwaited
  <2> QED
    BY <2>1, <2>2, <2>3
<1>10. ASSUME NEW u \in Works, coordinator'[u] # None
       PROVE  CoordinatorOK(u)'
  <2>1. u # v /\ coordinator'[u] = coordinator[u]
    BY <1>3, <1>10
  <2>2. coordinator[u] \in Runs \ {r}
    BY <1>5, <1>10, <2>1, WorkTypes DEF WorkSound, CoordinatorOK
  <2>3. \A q \in Runs : runWork'[q] = u => dSt'[q] \notin AtChannel
    BY <1>3, <1>6, <1>10, <2>1 DEF WorkSound, CoordinatorOK
  <2> QED
    BY <1>3, <1>10, <2>1, <2>2, <2>3 DEF WorkSound, CoordinatorOK
<1>11. ASSUME NEW u \in Works
       PROVE  ContinuationOK(u)'
  <2>1. CASE u = v
    BY <1>3, <1>4, <1>5, <1>6, <2>1, WorkTypes DEF ContinuationOK
  <2>2. CASE u # v
    BY <1>3, <1>5, <1>6, <2>2, WorkTypes DEF WorkSound, ContinuationOK
  <2> QED
    BY <2>1, <2>2
<1>12. OneAtChannel'
  BY <1>3, <1>6 DEF WorkSound, OneAtChannel
<1>13. OneMayDeliver'
  <2>1. \A q \in Runs \ {r} : MayDeliver(q)' => MayDeliver(q)
    BY <1>3, <1>4, WorkTypes DEF WorkSound, RunOK, MayDeliver, IsCurrent, AtChannel
  <2>2. ASSUME NEW q \in Runs \ {r}, runWork[q] = v, runRev[q] = runRev[r], v \notin Daily,
               MayDeliver(q)', MayDeliver(r)'
        PROVE  FALSE
    <3>1. Prior(r) = {} /\ cont'[v].ref = r
      BY <1>4, <2>2 DEF MayDeliver, AtChannel
    <3>2. dSt[q] # "accepted"
      BY <1>5, <2>2, <3>1 DEF Prior
    <3>3. via[q] = "none"
      BY <3>2 DEF LeaseSound, RowOK, Deliveries
    <3>4. ~IsCurrent(v, q)'
      BY <2>2, <3>1 DEF IsCurrent
    <3> QED
      BY <1>3, <1>5, <1>8, <2>2, <3>3, <3>4 DEF MayDeliver
  <2> QED
    BY <1>3, <1>5, <2>1, <2>2 DEF WorkSound, OneMayDeliver
<1>14. HaltIsHonest'
  <2>1. ASSUME NEW q \in Runs, dSt'[q] \in AtChannel
        PROVE  wStatus'[runWork[q]] \notin {"paused", "stopped"}
    <3>1. dSt[q] \in AtChannel /\ runWork[q] # v
      BY <1>5, <1>6, <2>1
    <3>2. runWork[q] \in Works
      BY <3>1 DEF WorkSound, RunOK, AtChannel
    <3> QED
      BY <1>3, <3>1, <3>2 DEF WorkSound, HaltIsHonest, AtChannel
  <2> QED
    BY <1>3, <2>1 DEF HaltIsHonest, AtChannel
<1>15. CompletionIsBacked'
  <2>1. ASSUME NEW u \in Works, wStatus'[u] = "completed"
        PROVE  \E q \in Runs : /\ runWork[q] = u /\ runRev[q] = revision[u] /\ runEpoch[q] = epoch[u]
                               /\ runSt'[q] = "succeeded" /\ dSt'[q] = "accepted"
    <3>1. CASE u = v
      BY <1>3, <1>4, <1>5, <2>1, <3>1
    <3>2. CASE u # v
      <4>1. PICK q \in Runs : /\ runWork[q] = u /\ runRev[q] = revision[u] /\ runEpoch[q] = epoch[u]
                              /\ runSt[q] = "succeeded" /\ dSt[q] = "accepted"
        BY <1>3, <2>1, <3>2 DEF WorkSound, CompletionIsBacked
      <4> QED
        BY <1>3, <1>5, <4>1
    <3> QED
      BY <3>1, <3>2
  <2> QED
    BY <1>3, <2>1 DEF CompletionIsBacked
<1>16. WaitCanEnd'
  <2>1. ASSUME NEW u \in Works, wStatus'[u] = "active", cont'[u].kind = "awaiting_delivery"
        PROVE  dSt'[cont'[u].ref] \in Open \/ ~target[u] \/ cont'[u].ref \in unapplied
    <3>1. CASE u = v
      BY <1>4, <2>1, <3>1 DEF Open
    <3>2. CASE u # v
      <4>1. cont'[u] = cont[u] /\ wStatus'[u] = wStatus[u]
        BY <1>3, <3>2
      <4>2. cont[u].ref \in Runs /\ runWork[cont[u].ref] = u
        BY <2>1, <4>1 DEF WorkSound, ContinuationOK
      <4>3. dSt[cont[u].ref] \in Open \/ ~target[u] \/ cont[u].ref \in unapplied
        BY <2>1, <4>1 DEF WorkSound, WaitCanEnd
      <4> QED
        BY <1>3, <1>5, <3>2, <4>1, <4>2, <4>3
    <3> QED
      BY <3>1, <3>2
  <2> QED
    BY <1>3, <2>1 DEF WaitCanEnd, Open
<1>17. ReadyIsScheduled'
  BY <1>3, <1>4 DEF WorkSound, ReadyIsScheduled
<1> QED
  BY <1>7, <1>9, <1>10, <1>11, <1>12, <1>13, <1>14, <1>15, <1>16, <1>17 DEF WorkSound, CoordinatorOK

\* A claim cancels what is revoked or superseded, and blocks the Work that waits for it.
LEMMA CancelSound ==
  ASSUME TypeOK, WorkSound, NEW s \in Senders, NEW r \in Runs, ClaimCancels(s, r)
  PROVE  WorkSound'
<1> DEFINE w == runWork[r]
<1>1. /\ dSt[r] = "pending" /\ dSt'[r] = "cancelled"
      /\ \A q \in Runs \ {r} : \/ dSt'[q] = dSt[q]
                               \/ dSt[q] = "sending" /\ dSt'[q] = "uncertain"
      /\ UNCHANGED <<wStatus, revision, epoch, coordinator, wakeup, runSt, runWork, runRev,
                     runEpoch, target, via, unapplied>>
  <2>1. dSt[r] = "pending" /\ dSt' = [Swept EXCEPT ![r] = "cancelled"]
    BY DEF ClaimCancels
  <2>2. UNCHANGED <<wStatus, revision, epoch, coordinator, wakeup, runSt, runWork, runRev,
                    runEpoch, target, via, unapplied>>
    BY DEF ClaimCancels, runVars, targetVars, ghostVars
  <2> QED
    BY <2>1, <2>2, SweepIs DEF Deliveries
<1>2. w \in Works /\ runSt[r] = "succeeded"
  BY <1>1 DEF WorkSound, RunOK
<1>3. PICK v \in Works : v = w
  BY <1>2
<1>4. /\ \A u \in Works \ {v} : cont'[u] = cont[u]
      /\ IF wStatus[v] = "active" /\ cont[v].ref = r
         THEN cont'[v].kind = "blocked" /\ cont'[v].ref = r /\ cont'[v].op = None
         ELSE cont'[v] = cont[v]
  BY <1>3 DEF ClaimCancels, Cont, TypeOK, StoreTypeOK
<1> HIDE DEF w
<1>5. \A q \in Runs : dSt'[q] \in AtChannel => dSt[q] \in AtChannel /\ q # r
  BY <1>1 DEF AtChannel
<1>6. \A u \in Works : cont'[u].ref = cont[u].ref
  BY <1>4
<1>7. \A q \in Runs : RunOK(q)' /\ OpenIsAwaited(q)'
  <2>1. \A q \in Runs : RunOK(q)'
    BY <1>1, <1>2 DEF WorkSound, RunOK
  <2>2. \A q \in Runs : runSt[q] = "succeeded" => runWork[q] \in Works
    BY DEF WorkSound, RunOK
  <2>3. \A q \in Runs : OpenIsAwaited(q)'
    BY <1>1, <1>6, <2>2 DEF WorkSound, OpenIsAwaited, AtChannel
  <2> QED
    BY <2>1, <2>3
<1>8. ASSUME NEW u \in Works
      PROVE  CoordinatorOK(u)'
  <2>1. coordinator[u] # None => cont'[u] = cont[u]
    BY <1>4, WorkTypes DEF WorkSound, CoordinatorOK
  <2> QED
    BY <1>1, <1>5, <2>1 DEF WorkSound, CoordinatorOK
<1>9. ASSUME NEW u \in Works
      PROVE  ContinuationOK(u)'
  <2>1. CASE cont'[u] = cont[u]
    BY <1>1, <1>5, <2>1, WorkTypes DEF WorkSound, ContinuationOK
  <2>2. CASE cont'[u] # cont[u]
    <3>1. u = v /\ wStatus[v] = "active" /\ cont[v].ref = r
      BY <1>4, <2>2
    <3> QED
      BY <1>1, <1>4, <1>5, <3>1, WorkTypes DEF WorkSound, ContinuationOK
  <2> QED
    BY <2>1, <2>2
<1>10. OneAtChannel'
  BY <1>1, <1>5 DEF WorkSound, OneAtChannel
<1>11. OneMayDeliver'
  <2>1. ASSUME NEW q \in Runs, MayDeliver(q)'
        PROVE  MayDeliver(q)
    <3>1. dSt[q] # "none" => runWork[q] \in Works
      BY DEF WorkSound, RunOK
    <3> QED
      BY <1>1, <1>5, <1>6, <2>1, <3>1 DEF MayDeliver, IsCurrent, AtChannel
  <2> QED
    BY <1>1, <2>1 DEF WorkSound, OneMayDeliver
<1>12. HaltIsHonest'
  BY <1>1, <1>5 DEF WorkSound, HaltIsHonest, AtChannel
<1>13. CompletionIsBacked'
  BY <1>1 DEF WorkSound, CompletionIsBacked
<1>14. WaitCanEnd'
  <2>1. ASSUME NEW u \in Works, wStatus[u] = "active", cont'[u].kind = "awaiting_delivery"
        PROVE  dSt'[cont'[u].ref] \in Open \/ ~target[u] \/ cont'[u].ref \in unapplied
    <3>1. cont'[u] = cont[u] /\ cont[u].ref \in Runs /\ runWork[cont[u].ref] = u
      BY <1>4, <2>1 DEF WorkSound, ContinuationOK
    <3>2. cont[u].ref # r
      BY <1>3, <1>4, <2>1, <3>1 DEF w
    <3>3. dSt[cont[u].ref] \in Open \/ ~target[u] \/ cont[u].ref \in unapplied
      BY <2>1, <3>1 DEF WorkSound, WaitCanEnd
    <3> QED
      BY <1>1, <3>1, <3>2, <3>3 DEF Open
  <2> QED
    BY <1>1, <2>1 DEF WaitCanEnd, Open
<1>15. ReadyIsScheduled'
  BY <1>1, <1>4 DEF WorkSound, ReadyIsScheduled
<1> QED
  BY <1>7, <1>8, <1>9, <1>10, <1>11, <1>12, <1>13, <1>14, <1>15 DEF WorkSound

\* A claim takes the current fulfilment out: nothing else of its Work is at the channel.
LEMMA SendSound ==
  ASSUME TypeOK, WorkSound, NEW s \in Senders, NEW r \in Runs, ClaimSends(s, r)
  PROVE  WorkSound'
<1> DEFINE w == runWork[r]
<1>1. /\ dSt[r] = "pending" /\ dSt'[r] = "sending"
      /\ \A q \in Runs \ {r} : \/ dSt'[q] = dSt[q]
                               \/ dSt[q] = "sending" /\ dSt'[q] = "uncertain"
      /\ UNCHANGED <<wStatus, revision, epoch, cont, coordinator, wakeup, runSt, runWork, runRev,
                     runEpoch, target, via, unapplied>>
  <2>1. dSt[r] = "pending" /\ dSt' = [Swept EXCEPT ![r] = "sending"]
    BY DEF ClaimSends
  <2>2. UNCHANGED <<wStatus, revision, epoch, cont, coordinator, wakeup, runSt, runWork, runRev,
                    runEpoch, target, via, unapplied>>
    BY DEF ClaimSends, mandateVars, runVars, targetVars, ghostVars
  <2> QED
    BY <2>1, <2>2, SweepIs DEF Deliveries
<1>2. IsCurrent(w, r) /\ w \in Works
  BY <1>1 DEF ClaimSends, Deliverable, WorkSound, RunOK
<1>3. PICK v \in Works : v = w
  BY <1>2
<1>4. wStatus[v] = "active" /\ cont[v].ref = r /\ runWork[r] = v
  BY <1>2, <1>3 DEF IsCurrent
<1> HIDE DEF w
<1>5. \A q \in Runs : runWork[q] = v => dSt[q] \notin AtChannel
  BY <1>1, <1>4, WorkTypes DEF WorkSound, ContinuationOK, AtChannel
<1>6. \A q \in Runs \ {r} : dSt'[q] \in AtChannel => dSt[q] \in AtChannel
  BY <1>1 DEF AtChannel
<1>7. \A q \in Runs : RunOK(q)' /\ OpenIsAwaited(q)'
  BY <1>1, <1>4 DEF WorkSound, RunOK, OpenIsAwaited, AtChannel
<1>8. ASSUME NEW u \in Works
      PROVE  CoordinatorOK(u)'
  <2>1. coordinator[u] # None => u # v
    BY <1>4, WorkTypes DEF WorkSound, CoordinatorOK
  <2> QED
    BY <1>1, <1>4, <1>6, <2>1 DEF WorkSound, CoordinatorOK
<1>9. ASSUME NEW u \in Works
      PROVE  ContinuationOK(u)'
  <2>1. CASE u = v
    BY <1>1, <1>4, <1>5, <1>6, <2>1, WorkTypes DEF WorkSound, ContinuationOK
  <2>2. CASE u # v
    BY <1>1, <1>4, <1>6, <2>2, WorkTypes DEF WorkSound, ContinuationOK
  <2> QED
    BY <2>1, <2>2
<1>10. OneAtChannel'
  BY <1>1, <1>4, <1>5, <1>6 DEF WorkSound, OneAtChannel
<1>11. OneMayDeliver'
  <2>1. \A q \in Runs \ {r} : MayDeliver(q)' => MayDeliver(q)
    BY <1>1, <1>6 DEF MayDeliver, IsCurrent
  <2>2. MayDeliver(r)
    BY <1>1, <1>2 DEF MayDeliver, w
  <2> QED
    BY <1>1, <2>1, <2>2 DEF WorkSound, OneMayDeliver
<1>12. HaltIsHonest'
  BY <1>1, <1>4 DEF WorkSound, HaltIsHonest
<1>13. CompletionIsBacked' /\ ReadyIsScheduled'
  BY <1>1 DEF WorkSound, CompletionIsBacked, ReadyIsScheduled
<1>14. WaitCanEnd'
  BY <1>1 DEF WorkSound, WaitCanEnd, Open, ContinuationOK
<1> QED
  BY <1>7, <1>8, <1>9, <1>10, <1>11, <1>12, <1>13, <1>14 DEF WorkSound

LEMMA FinishSound ==
  ASSUME TypeOK, WorkSound, LeaseSound, NEW s \in Senders, Finish(s)
  PROVE  WorkSound'
<1> DEFINE d == job[s].d
<1>1. /\ d \in Deliveries /\ dSt[d] = "sending"
      /\ dSt'[d] \in {"accepted", "pending", "failed", "uncertain"}
      /\ \A e \in Deliveries \ {d} : dSt'[e] = dSt[e] /\ via'[e] = via[e]
  <2>1. d \in Deliveries /\ FinishedRow(s, d)
    BY FinishWrites
  <2>2. dSt[d] = "sending" /\ d \in Deliveries
    BY <2>1 DEF FinishedRow
  <2>3. PICK st \in {"accepted", "pending", "failed", "uncertain"} :
          dSt' = [dSt EXCEPT ![d] = st] /\ \E x : via' = [via EXCEPT ![d] = x]
    BY <2>1 DEF FinishedRow
  <2> QED
    BY <2>2, <2>3 DEF TypeOK, StoreTypeOK
<1>2. dSt'[d] = FinishState(s)
  BY <1>1 DEF Finish, TypeOK, StoreTypeOK
<1>3. /\ UNCHANGED <<revision, epoch, coordinator, runVars, target>>
      /\ unapplied' = IF Authorized(d) THEN unapplied ELSE unapplied \cup {d}
      /\ IF FinishState(s) = "accepted" /\ Authorized(d)
         THEN ApplyReceipt(d) ELSE UNCHANGED <<wStatus, cont, wakeup>>
  BY DEF Finish, targetVars
<1> HIDE DEF d
<1>4. CASE d \notin Runs
  <2>1. UNCHANGED mandateVars
    BY <1>3, <1>4 DEF ApplyReceipt, mandateVars
  <2>2. \A r \in Runs : dSt'[r] = dSt[r] /\ via'[r] = via[r]
    BY <1>1, <1>4 DEF Deliveries
  <2> QED
    BY <1>3, <2>1, <2>2, FrameSound
<1>5. CASE d \in Runs /\ FinishState(s) = "accepted" /\ Authorized(d) /\ IsCurrent(runWork[d], d)
  <2>1. \A r \in Runs \ {d} : dSt'[r] = dSt[r] /\ via'[r] = via[r]
    BY <1>1 DEF Deliveries
  <2> QED
    BY <1>1, <1>2, <1>3, <1>5, <2>1, ReceiptSound DEF AtChannel
<1>6. CASE d \in Runs /\ ~(FinishState(s) = "accepted" /\ Authorized(d) /\ IsCurrent(runWork[d], d))
  <2>1. UNCHANGED mandateVars
    BY <1>3, <1>6 DEF ApplyReceipt, mandateVars
  <2>2. \A r \in Runs \ {d} : dSt'[r] = dSt[r] /\ via'[r] = via[r]
    BY <1>1 DEF Deliveries
  <2>3. dSt'[d] \in {"accepted", "cancelled"} => ~IsCurrent(runWork[d], d) \/ d \in unapplied'
    BY <1>1, <1>2, <1>3, <1>6
  <2> QED
    BY <1>1, <1>3, <1>6, <2>1, <2>2, <2>3, OutcomeSound DEF AtChannel
<1> QED
  BY <1>4, <1>5, <1>6

LEMMA StoreSound ==
  ASSUME TypeOK, WorkSound, LeaseSound, StoreNext
  PROVE  WorkSound'
<1>1. ASSUME NEW w \in Works, Pause(w) \/ Stop(w)
      PROVE  WorkSound'
  BY <1>1, HaltSound DEF Pause, Stop
<1>2. ASSUME NEW d \in Chats, EnqueueChat(d) \/ RetryUncertain(d)
      PROVE  WorkSound'
  <2>1. UNCHANGED <<mandateVars, runVars, target, via, unapplied>>
    BY <1>2 DEF EnqueueChat, RetryUncertain, targetVars, ghostVars
  <2>2. d \notin Runs /\ \E st : dSt' = [dSt EXCEPT ![d] = st]
    BY <1>2, WorkAssumption DEF EnqueueChat, RetryUncertain
  <2>3. \A r \in Runs : dSt'[r] = dSt[r] /\ via'[r] = via[r]
    BY <2>1, <2>2 DEF TypeOK, StoreTypeOK, Deliveries
  <2> QED
    BY <2>1, <2>3, FrameSound
<1>3. ASSUME NEW a \in Accounts, ChangeBinding(a)
      PROVE  WorkSound'
  <2>1. UNCHANGED <<mandateVars, runVars, target, dSt, via, unapplied>>
    BY <1>3 DEF ChangeBinding, deliveryVars, ghostVars
  <2> QED
    BY <2>1, FrameSound
<1> QED
  BY <1>1, <1>2, <1>3, ReviseSound, ResumeSound, DisableSound, AdmitSound, OccurrenceSound,
     ConvergeSound, ResolveSound, RunGoesOn, ExecuteSound, EndSound DEF StoreNext

LEMMA SenderSound ==
  ASSUME TypeOK, WorkSound, LeaseSound,
         \/ \E s \in Senders : SenderStep(s) \/ SenderLost(s)
         \/ \E m \in wire : ChannelAccepts(m)
         \/ \E e \in Deliveries : LeaseExpires(e)
         \/ UNCHANGED vars
  PROVE  WorkSound'
<1> USE DEF storeVars, deliveryVars, ghostVars, targetVars
<1>1. ASSUME NEW s \in Senders, ClaimNothing(s)
      PROVE  WorkSound'
  <2>1. UNCHANGED <<mandateVars, runVars, target, via, unapplied>> /\ dSt' = Swept
    BY <1>1 DEF ClaimNothing
  <2> QED
    BY <2>1, SweepIs, FrameSound DEF Deliveries
<1>2. ASSUME NEW s \in Senders, NEW d \in Deliveries, ClaimCancels(s, d) \/ ClaimSends(s, d)
      PROVE  WorkSound'
  <2>1. CASE d \in Runs
    BY <1>2, <2>1, CancelSound, SendSound
  <2>2. CASE d \notin Runs
    <3>1. UNCHANGED <<mandateVars, runVars, target, via, unapplied>>
      BY <1>2, <2>2 DEF ClaimCancels, ClaimSends, mandateVars
    <3>2. \E st : dSt' = [Swept EXCEPT ![d] = st]
      BY <1>2 DEF ClaimCancels, ClaimSends
    <3>3. \A r \in Runs : dSt'[r] = dSt[r] \/ (dSt[r] = "sending" /\ dSt'[r] = "uncertain")
      BY <2>2, <3>2, SweepIs DEF Deliveries
    <3> QED
      BY <3>1, <3>3, FrameSound
  <2> QED
    BY <2>1, <2>2
<1>3. ASSUME \/ \E s \in Senders : \/ Send(s) \/ AnswerAccepted(s) \/ AnswerFailed(s)
                                   \/ AnswerUncertain(s) \/ FinishTooLate(s) \/ SenderLost(s)
             \/ \E m \in wire : ChannelAccepts(m)
             \/ \E e \in Deliveries : LeaseExpires(e)
             \/ UNCHANGED vars
      PROVE  WorkSound'
  <2>1. UNCHANGED <<mandateVars, runVars, target, dSt, via, unapplied>>
    BY <1>3 DEF Send, AnswerAccepted, AnswerFailed, AnswerUncertain, Answer, FinishTooLate,
                SenderLost, ChannelAccepts, LeaseExpires, vars
  <2> QED
    BY <2>1, FrameSound
<1> QED
  BY <1>1, <1>2, <1>3, FinishSound DEF SenderStep, Claim

-----------------------------------------------------------------------------
(* The types of the senders' steps *)

LEMMA PartsKept ==
  ASSUME TypeOK, WorkSound, LeaseSound, StoreNext
  PROVE  \A d \in Deliveries : dPart'[d] <= Parts
BY StoreRows, RowTypes DEF StoreRow, RowKept

LEMMA ClaimTypes ==
  ASSUME TypeOK, WorkSound, NEW s \in Senders, Claim(s)
  PROVE  TypeOK'
<1> USE DEF mandateVars, runVars, targetVars, ghostVars, senderVars, channelVars
<1>1. CASE ClaimNothing(s)
  BY <1>1, SweepIs DEF ClaimNothing, TypeOK, StoreTypeOK
<1>2. ASSUME NEW d \in Deliveries, ClaimCancels(s, d)
      PROVE  TypeOK'
  <2>1. cont' \in [Works -> Continuation]
    <3>1. CASE UNCHANGED cont
      BY <3>1 DEF TypeOK, StoreTypeOK, Continuation
    <3>2. CASE d \in Runs /\ cont' = [cont EXCEPT ![runWork[d]] = Cont("blocked", d, None)]
      BY <3>2, ContType DEF TypeOK, StoreTypeOK, Continuation, ContKind
    <3> QED
      BY <1>2, <3>1, <3>2 DEF ClaimCancels
  <2>2. dSt' \in [Deliveries -> DeliveryState]
    BY <1>2, SweepIs DEF ClaimCancels, DeliveryState
  <2> QED
    BY <1>2, <2>1, <2>2, SweepIs DEF ClaimCancels, TypeOK, StoreTypeOK, Continuation
<1>3. ASSUME NEW d \in Deliveries, ClaimSends(s, d)
      PROVE  TypeOK'
  <2>1. dSt' \in [Deliveries -> DeliveryState]
    BY <1>3, SweepIs DEF ClaimSends, DeliveryState
  <2>2. attempts' \in [Deliveries -> Nat] /\ dTok' \in [Deliveries -> Nat]
    BY <1>3 DEF ClaimSends, TypeOK, StoreTypeOK
  <2>3. /\ pos' \in [Senders -> {"idle", "claimed", "waiting", "answered"}]
        /\ out' \in [Senders -> {"none", "accepted", "failed", "uncertain"}]
    BY <1>3 DEF ClaimSends, TypeOK
  <2>4. job' \in [Senders -> [d: Deliveries \cup {None}, tok: Nat, part: Nat]]
    <3>1. [d |-> d, tok |-> attempts[d] + 1, part |-> dPart[d]]
            \in [d: Deliveries \cup {None}, tok: Nat, part: Nat]
      BY RowTypes
    <3> QED
      BY <1>3, <3>1 DEF ClaimSends, TypeOK
  <2> QED
    BY <1>3, <2>1, <2>2, <2>3, <2>4, SweepIs DEF ClaimSends, TypeOK, StoreTypeOK
<1> QED
  BY <1>1, <1>2, <1>3 DEF Claim

LEMMA IdleTypes ==
  ASSUME TypeOK, NEW s \in Senders, Idle(s)
  PROVE  /\ pos' \in [Senders -> {"idle", "claimed", "waiting", "answered"}]
         /\ job' \in [Senders -> [d: Deliveries \cup {None}, tok: Nat, part: Nat]]
         /\ out' \in [Senders -> {"none", "accepted", "failed", "uncertain"}]
BY DEF Idle, NoJob, TypeOK

LEMMA FinishTypes ==
  ASSUME TypeOK, LeaseSound, NEW s \in Senders, Finish(s)
  PROVE  TypeOK'
<1> USE DEF mandateVars, runVars, targetVars, ghostVars, senderVars, channelVars
<1> DEFINE d == job[s].d
<1>1. d \in Deliveries /\ FinishedRow(s, d) /\ Idle(s)
  BY FinishWrites
<1>2. /\ dSt' \in [Deliveries -> DeliveryState] /\ via' \in [Deliveries -> Receipt]
      /\ dPart' \in [Deliveries -> Nat] /\ \A e \in Deliveries : dPart'[e] <= Parts
  <2>1. PICK st \in {"accepted", "pending", "failed", "uncertain"}, p \in 0..Parts :
          /\ dSt' = [dSt EXCEPT ![d] = st] /\ dPart' = [dPart EXCEPT ![d] = p]
          /\ \E x \in {"none", "inbox", "channel"} : via' = [via EXCEPT ![d] = x]
    BY <1>1 DEF FinishedRow
  <2>2. dSt' \in [Deliveries -> DeliveryState] /\ via' \in [Deliveries -> Receipt]
    <3>1. st \in DeliveryState
      BY DEF DeliveryState
    <3>2. PICK x \in Receipt : via' = [via EXCEPT ![d] = x]
      BY <2>1 DEF Receipt
    <3> QED
      BY <2>1, <3>1, <3>2 DEF TypeOK, StoreTypeOK
  <2>3. dPart' \in [Deliveries -> Nat]
    <3>1. p \in Nat
      BY RowTypes
    <3>2. dPart \in [Deliveries -> Nat]
      BY DEF TypeOK, StoreTypeOK
    <3> QED
      BY <2>1, <3>1, <3>2
  <2>4. \A e \in Deliveries : dPart'[e] \in {p, dPart[e]}
    BY <2>1 DEF TypeOK, StoreTypeOK
  <2> QED
    BY <2>2, <2>3, <2>4, RowTypes
<1>3. /\ wStatus' \in [Works -> WorkStatus] /\ cont' \in [Works -> Continuation]
      /\ wakeup' \in [Works -> BOOLEAN] /\ unapplied' \in SUBSET Deliveries
      /\ lapsed' \in [Deliveries -> BOOLEAN]
  <2>1. ApplyReceipt(d) \/ UNCHANGED <<wStatus, cont, wakeup>>
    BY DEF Finish
  <2>2. /\ wStatus' \in [Works -> WorkStatus] /\ cont' \in [Works -> Continuation]
        /\ wakeup' \in [Works -> BOOLEAN]
    BY <1>1, <2>1, ReceiptTypes DEF TypeOK, StoreTypeOK, Continuation
  <2> QED
    BY <1>1, <2>2 DEF Finish, TypeOK, StoreTypeOK
<1>4. UNCHANGED <<revision, epoch, coordinator, runVars, targetVars, dTok, attempts, again,
                  commands, channelVars>>
  BY DEF Finish
<1> QED
  BY <1>1, <1>2, <1>3, <1>4, IdleTypes DEF TypeOK, StoreTypeOK, Continuation

LEMMA SenderTypes ==
  ASSUME TypeOK, LeaseSound,
         \/ \E s \in Senders : \/ Send(s) \/ AnswerAccepted(s) \/ AnswerFailed(s)
                               \/ AnswerUncertain(s) \/ FinishTooLate(s) \/ SenderLost(s)
         \/ \E m \in wire : ChannelAccepts(m)
         \/ \E e \in Deliveries : LeaseExpires(e)
         \/ UNCHANGED vars
  PROVE  TypeOK'
<1> USE DEF storeVars, mandateVars, runVars, targetVars, deliveryVars, leaseVars, ghostVars,
            senderVars, channelVars
<1>1. ASSUME NEW s \in Senders, Send(s)
      PROVE  TypeOK'
  <2>1. Request(s) \in Deliveries \X Nat \X (0..Parts - 1)
    <3>1. SenderOK(s) /\ pos[s] = "claimed"
      BY <1>1 DEF Send, LeaseSound
    <3>2. job[s].d \in Deliveries /\ job[s].tok \in Nat /\ job[s].part \in 0..Parts - 1
      BY <3>1, RowTypes DEF SenderOK
    <3> QED
      BY <3>2 DEF Request
  <2> QED
    BY <1>1, <2>1 DEF Send, TypeOK, StoreTypeOK
<1>2. ASSUME NEW s \in Senders, AnswerAccepted(s) \/ AnswerFailed(s) \/ AnswerUncertain(s)
      PROVE  TypeOK'
  BY <1>2 DEF AnswerAccepted, AnswerFailed, AnswerUncertain, Answer, TypeOK, StoreTypeOK
<1>3. ASSUME NEW s \in Senders, FinishTooLate(s) \/ SenderLost(s)
      PROVE  TypeOK'
  <2>1. Idle(s) /\ UNCHANGED <<storeVars, channelVars>>
    BY <1>3 DEF FinishTooLate, SenderLost
  <2> QED
    BY <2>1, IdleTypes DEF TypeOK, StoreTypeOK
<1>4. ASSUME NEW m \in wire, ChannelAccepts(m)
      PROVE  TypeOK'
  <2>1. taken' \in [Deliveries -> [0..Parts - 1 -> Nat]]
    <3>1. m[1] \in Deliveries /\ m[3] \in 0..Parts - 1 /\ taken[m[1]][m[3]] + 1 \in Nat
      BY RowTypes
    <3>2. [taken[m[1]] EXCEPT ![m[3]] = @ + 1] \in [0..Parts - 1 -> Nat]
      BY <3>1 DEF TypeOK
    <3>3. taken' = [taken EXCEPT ![m[1]] = [taken[m[1]] EXCEPT ![m[3]] = @ + 1]]
      BY <1>4 DEF ChannelAccepts
    <3> QED
      BY <3>2, <3>3 DEF TypeOK
  <2> QED
    BY <1>4, <2>1 DEF ChannelAccepts, TypeOK, StoreTypeOK
<1>5. ASSUME NEW e \in Deliveries, LeaseExpires(e)
      PROVE  TypeOK'
  BY <1>5 DEF LeaseExpires, TypeOK, StoreTypeOK
<1>6. CASE UNCHANGED vars
  BY <1>6 DEF vars, TypeOK, StoreTypeOK
<1> QED
  BY <1>1, <1>2, <1>3, <1>4, <1>5, <1>6

-----------------------------------------------------------------------------
(* The invariant *)

LEMMA InitSound ==
  ASSUME Init
  PROVE  Sound
<1> USE DEF Init, StoreInit
<1>1. TypeOK
  <2>1. \A w \in Works : InitialCont(w) \in Continuation
    BY InitialContType
  <2>2. cont \in [Works -> Continuation]
    BY <2>1
  <2>3. job \in [Senders -> [d: Deliveries \cup {None}, tok: Nat, part: Nat]]
    BY DEF NoJob
  <2> QED
    BY <2>2, <2>3, WorkAssumption, SenderAssumption
       DEF TypeOK, StoreTypeOK, Continuation, WorkStatus, RunStatus, DeliveryState, Receipt
<1>2. \A r \in Runs : dSt[r] = "none" /\ via[r] = "none" /\ runSt[r] = "none"
  BY DEF Deliveries
<1>3. WorkSound
  <2>1. \A r \in Runs : RunOK(r) /\ OpenIsAwaited(r)
    BY <1>2 DEF RunOK, OpenIsAwaited, Unfinished
  <2>2. \A w \in Works : CoordinatorOK(w) /\ ContinuationOK(w)
    BY DEF CoordinatorOK, ContinuationOK, InitialCont, Cont
  <2>3. OneAtChannel /\ OneMayDeliver /\ HaltIsHonest
    BY <1>2 DEF OneAtChannel, OneMayDeliver, HaltIsHonest, MayDeliver, AtChannel
  <2>4. CompletionIsBacked /\ WaitCanEnd /\ ReadyIsScheduled
    BY DEF CompletionIsBacked, WaitCanEnd, ReadyIsScheduled, InitialCont, Cont
  <2> QED
    BY <2>1, <2>2, <2>3, <2>4 DEF WorkSound
<1>4. LeaseSound
  BY SenderAssumption DEF LeaseSound, RowOK, TakenOK, SenderOK, OwnLease, WireOK
<1>5. ASSUME NEW d \in Deliveries, NEW p \in 0..Parts - 1
      PROVE  taken[d][p] + Cardinality(Underway(d, p)) + Waiting(d, p) <= 1 + again[d]
  <2>1. taken[d][p] = 0 /\ Underway(d, p) = {}
    BY <1>1, <1>4, NothingYet
  <2>2. Waiting(d, p) = 0 /\ again[d] = 0
    BY DEF Waiting
  <2> QED
    BY <2>1, <2>2, FS_EmptySet
<1>6. CapacitySound
  <2>1. Held(dSt) = {}
    BY DEF Held
  <2>2. ASSUME NEW a \in Accounts
        PROVE  Cardinality({h \in Held(dSt) : OwnerOf(h) = a}) <= AccountLimit
    <3>1. {h \in Held(dSt) : OwnerOf(h) = a} = {}
      BY <2>1
    <3>2. Cardinality({h \in Held(dSt) : OwnerOf(h) = a}) = 0
      BY <3>1, FS_EmptySet
    <3> QED
      BY <3>2, SenderAssumption
  <2>3. IsFiniteSet(Held(dSt)) /\ Cardinality(Held(dSt)) <= GlobalLimit
    <3>1. Cardinality({}) = 0 /\ IsFiniteSet({})
      BY FS_EmptySet
    <3>2. Cardinality(Held(dSt)) = 0 /\ IsFiniteSet(Held(dSt))
      BY <2>1, <3>1, Zenon
    <3>3. 0 <= GlobalLimit
      BY SenderAssumption
    <3> QED
      BY <3>2, <3>3
  <2> QED
    BY <2>2, <2>3 DEF CapacitySound, CapacityIsKept
<1> QED
  BY <1>1, <1>3, <1>4, <1>5, <1>6 DEF Sound, Decided

LEMMA StoreStep ==
  ASSUME Sound, StoreNext, UNCHANGED <<senderVars, channelVars>>
  PROVE  Sound'
<1>1. TypeOK'
  BY StoreTypes, PartsKept DEF Sound, TypeOK, senderVars, channelVars
<1>2. WorkSound' /\ LeaseSound' /\ CapacitySound'
  BY StoreSound, StoreLeases, StoreCapacity DEF Sound
<1>3. \A d \in Deliveries : Decided(d)'
  BY StoreDecided DEF Sound
<1> QED
  BY <1>1, <1>2, <1>3 DEF Sound

LEMMA SenderStepSound ==
  ASSUME Sound,
         \/ \E s \in Senders : SenderStep(s) \/ SenderLost(s)
         \/ \E m \in wire : ChannelAccepts(m)
         \/ \E e \in Deliveries : LeaseExpires(e)
         \/ UNCHANGED vars
  PROVE  Sound'
<1> USE DEF SenderStep, Claim
<1>1. TypeOK /\ WorkSound /\ LeaseSound /\ CapacitySound /\ \A d \in Deliveries : Decided(d)
  BY DEF Sound
<1>2. TypeOK'
  BY <1>1, ClaimTypes, FinishTypes, SenderTypes
<1>3. WorkSound'
  BY <1>1, SenderSound
<1>4. LeaseSound'
  BY <1>1, IdleClaim, SendingClaim, ChannelLeases, FinishLeases, LossLeases
<1>5. CapacitySound'
  BY <1>1, SenderCapacity, ClaimCapacity
<1>6. \A d \in Deliveries : Decided(d)'
  BY <1>1, QuietDecided, ChannelDecided, ClaimDecided, FinishDecided
<1> QED
  BY <1>2, <1>3, <1>4, <1>5, <1>6 DEF Sound

\* The rows of deliveries, attempts, Runs and Works and the requests at the channel
\* agree at all times, whatever Works, Runs, senders, parts and limits there are.
THEOREM AlwaysSound == Spec => []Sound
<1>1. Sound /\ [Next]_vars => Sound'
  BY StoreStep, SenderStepSound DEF Next
<1> QED
  BY <1>1, InitSound, PTL DEF Spec

LEMMA SoundIsSafe ==
  ASSUME Sound
  PROVE  Safety
<1>1. TypeOK /\ WorkSound /\ LeaseSound /\ CapacitySound /\ \A d \in Deliveries : Decided(d)
  BY DEF Sound
<1>2. RepeatsAreDecided
  <2>1. ASSUME NEW d \in Deliveries, NEW p \in 0..Parts - 1
        PROVE  taken[d][p] <= 1 + again[d]
    <3>1. taken[d][p] + Cardinality(Underway(d, p)) + Waiting(d, p) <= 1 + again[d]
      BY <1>1 DEF Decided
    <3> QED
      BY <1>1, <3>1, UnderwayCount, WaitingIs, RowTypes
  <2> QED
    BY <2>1 DEF RepeatsAreDecided
<1>3. AcceptedIsComplete
  BY <1>1, RowTypes DEF AcceptedIsComplete, LeaseSound, RowOK, TakenOK
<1>4. OneLiveFulfilment
  <2>1. ASSUME NEW q \in Runs, NEW r \in Runs, runWork[q] = runWork[r], Live(q), Live(r)
        PROVE  q = r
    <3> DEFINE w == runWork[q]
    <3>1. w \in Works
      BY <1>1, <2>1 DEF WorkSound, RunOK, Live
    <3>2. CASE dSt[q] \in AtChannel /\ dSt[r] \in AtChannel
      BY <1>1, <2>1, <3>2 DEF WorkSound, OneAtChannel
    <3>3. ASSUME NEW a \in Runs, NEW b \in Runs, runWork[a] = w, runWork[b] = w,
                 dSt[b] = "pending", IsCurrent(w, b), Live(a)
          PROVE  a = b
      <4>1. ContinuationOK(w) /\ cont[w].ref = b /\ cont[w].ref # None
        BY <1>1, <3>1, <3>3, WorkTypes DEF WorkSound, IsCurrent
      <4> QED
        BY <3>3, <4>1 DEF ContinuationOK, Live, IsCurrent, AtChannel
    <3> QED
      BY <2>1, <3>2, <3>3 DEF Live, AtChannel
  <2> QED
    BY <2>1 DEF OneLiveFulfilment
<1>5. RevisionIsDeliveredOnce
  BY <1>1 DEF WorkSound, OneMayDeliver, MayDeliver, RevisionIsDeliveredOnce
<1> QED
  BY <1>1, <1>2, <1>3, <1>4, <1>5 DEF Safety, WorkSound, CapacitySound

\* The channel gets a part twice only after a decision, what counts as accepted is
\* complete, the capacity is kept, a Work has one live fulfilment and a revision of
\* a one-shot Work one delivery, a halt is honest, a completion has its receipt,
\* and what waits can end.
THEOREM DeliveriesAgree == Spec => []Safety
BY AlwaysSound, SoundIsSafe, PTL

LEMMA StepIsLegal ==
  ASSUME Sound, [Next]_vars
  PROVE  TransitionsAreLegalStep
<1>1. TypeOK /\ WorkSound /\ LeaseSound
  BY DEF Sound
<1>2. ASSUME NEW d \in Deliveries, dSt[d] # "none", StoreNext
      PROVE  /\ dSt[d] \in {"accepted", "cancelled"} => UNCHANGED <<dSt[d], dPart[d], dTok[d]>>
             /\ dPart'[d] \in dPart[d]..dPart[d] + 1
  <2>1. StoreRow(d)
    BY <1>1, <1>2, StoreRows
  <2> QED
    BY <1>1, <1>2, <2>1, RowTypes DEF StoreRow, RowKept
<1>3. ASSUME NEW d \in Deliveries, NEW s \in Senders, Claim(s)
      PROVE  /\ dSt[d] \in {"accepted", "cancelled"} => UNCHANGED <<dSt[d], dPart[d], dTok[d]>>
             /\ dPart'[d] \in dPart[d]..dPart[d] + 1
  <2>1. CASE ClaimNothing(s) \/ \E e \in Deliveries : ClaimCancels(s, e)
    <3>1. /\ UNCHANGED <<dPart, dTok>>
          /\ dSt'[d] = dSt[d] \/ dSt[d] \in {"sending", "pending"}
      BY <1>1, <2>1, IdleClaim
    <3> QED
      BY <1>1, <3>1, RowTypes
  <2>2. ASSUME NEW e \in Deliveries, ClaimSends(s, e)
        PROVE  /\ dSt[d] \in {"accepted", "cancelled"} => UNCHANGED <<dSt[d], dPart[d], dTok[d]>>
               /\ dPart'[d] \in dPart[d]..dPart[d] + 1
    <3>1. /\ dSt[e] = "pending" /\ dSt' = [Swept EXCEPT ![e] = "sending"]
          /\ dTok' = [dTok EXCEPT ![e] = attempts[e] + 1] /\ UNCHANGED dPart
      BY <2>2 DEF ClaimSends
    <3>2. dSt[d] \in {"accepted", "cancelled"} => Swept[d] = dSt[d] /\ d # e
      BY <1>1, <3>1, SweepIs
    <3>3. dSt[d] \in {"accepted", "cancelled"} => dSt'[d] = dSt[d] /\ dTok'[d] = dTok[d]
      BY <1>1, <3>1, <3>2, SweepIs DEF TypeOK, StoreTypeOK
    <3> QED
      BY <1>1, <3>1, <3>3, RowTypes
  <2> QED
    BY <1>3, <2>1, <2>2 DEF Claim
<1>4. ASSUME NEW d \in Deliveries, NEW s \in Senders, Finish(s)
      PROVE  /\ dSt[d] \in {"accepted", "cancelled"} => UNCHANGED <<dSt[d], dPart[d], dTok[d]>>
             /\ dPart'[d] \in dPart[d]..dPart[d] + 1
  <2> DEFINE e == job[s].d
  <2>1. FinishedRow(s, e) /\ e \in Deliveries
    BY <1>1, <1>4, FinishWrites
  <2>2. PICK st \in {"accepted", "pending", "failed", "uncertain"}, p \in 0..Parts :
          /\ dSt' = [dSt EXCEPT ![e] = st] /\ dPart' = [dPart EXCEPT ![e] = p]
          /\ p \in {dPart[e], dPart[e] + 1} /\ dSt[e] = "sending" /\ UNCHANGED dTok
    BY <2>1 DEF FinishedRow
  <2>3. d # e => UNCHANGED <<dSt[d], dPart[d], dTok[d]>>
    BY <2>2 DEF TypeOK, StoreTypeOK
  <2>4. dPart'[e] = p
    BY <1>1, <2>1, <2>2 DEF TypeOK, StoreTypeOK
  <2> QED
    BY <1>1, <2>2, <2>3, <2>4, RowTypes
<1>5. ASSUME NEW d \in Deliveries,
             \/ \E s \in Senders : \/ Send(s) \/ AnswerAccepted(s) \/ AnswerFailed(s)
                                   \/ AnswerUncertain(s) \/ FinishTooLate(s) \/ SenderLost(s)
             \/ \E m \in wire : ChannelAccepts(m)
             \/ \E e \in Deliveries : LeaseExpires(e)
             \/ UNCHANGED vars
      PROVE  /\ dSt[d] \in {"accepted", "cancelled"} => UNCHANGED <<dSt[d], dPart[d], dTok[d]>>
             /\ dPart'[d] \in dPart[d]..dPart[d] + 1
  <2>1. UNCHANGED <<dSt, dPart, dTok>>
    BY <1>5 DEF Send, AnswerAccepted, AnswerFailed, AnswerUncertain, Answer, FinishTooLate,
                SenderLost, ChannelAccepts, LeaseExpires, vars, storeVars, deliveryVars, leaseVars
  <2> QED
    BY <1>1, <2>1, RowTypes
<1> QED
  BY <1>2, <1>3, <1>4, <1>5 DEF Next, SenderStep, TransitionsAreLegalStep

\* The trigger that guards the delivery rows never refuses an update: what is final
\* stays as it is, and next_part moves forward one part at a time.
THEOREM LegalTransitions == Spec => TransitionsAreLegal
<1>1. Sound /\ [Next]_vars => [TransitionsAreLegalStep]_vars
  BY StepIsLegal
<1> QED
  BY <1>1, AlwaysSound, PTL DEF Spec, TransitionsAreLegal
=============================================================================
