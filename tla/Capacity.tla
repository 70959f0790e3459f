------------------------------ MODULE Capacity ------------------------------
(***************************************************************************)
(* Cross-worker tickets for one resource (model, tool or fetch).            *)
(* CapacityService.slot polls acquire until its ticket is held, renews it   *)
(* while the resource is used and releases it at the end.  acquire is one   *)
(* transaction under an advisory lock: sweep, insert or renew, count, pick  *)
(* the winner of the lane.  Leases last 90 s: they lapse when the owner is  *)
(* dead, or when it is alive but stalled.  A poll whose task was cancelled  *)
(* still commits in its thread, possibly after the release.                 *)
(***************************************************************************)
EXTENDS Naturals, Sequences, FiniteSets

CONSTANTS
    Tickets, AccountOf, LaneOf,   \* one slot per ticket; "interactive" | "background"
    Total, Interactive, PerAccount,  \* resource_limits
    MaxStalls                     \* bound on leases a live owner lets lapse

ASSUME CapacityAssumption ==
    /\ IsFiniteSet(Tickets)
    /\ Total \in Nat /\ Interactive \in Nat /\ PerAccount \in Nat
    /\ LaneOf \in [Tickets -> {"interactive", "background"}]

VARIABLES
    row,     \* capacity_queue.state, "none" before the insert
    fresh,   \* lease_until >= now()
    queue,   \* ticket ids by created_at
    turn,    \* lane -> <<a, b>>: the last_admitted_at of account a precedes that of b
    active,  \* the Run of the ticket may still acquire
    pc,      \* the owning task
    ghost,   \* tickets with an acquire thread nobody waits for
    stalled  \* tickets whose live owner let the lease lapse

vars == <<row, fresh, queue, turn, active, pc, ghost, stalled>>
Lanes == {"interactive", "background"}
Accounts == {AccountOf[t] : t \in Tickets}

TypeOK ==
    /\ row \in [Tickets -> {"none", "waiting", "held", "released"}]
    /\ fresh \in [Tickets -> BOOLEAN] /\ active \in [Tickets -> BOOLEAN]
    /\ queue \in Seq(Tickets) /\ \A i, j \in DOMAIN queue : queue[i] = queue[j] => i = j
    /\ turn \in [Lanes -> SUBSET (Accounts \X Accounts)]
    /\ pc \in [Tickets -> {"polling", "using", "leaving", "gone", "dead"}]
    /\ ghost \subseteq Tickets /\ stalled \subseteq Tickets

Init ==
    /\ row = [t \in Tickets |-> "none"] /\ fresh = [t \in Tickets |-> FALSE]
    /\ queue = <<>> /\ turn = [l \in Lanes |-> {}]
    /\ active = [t \in Tickets |-> TRUE] /\ pc = [t \in Tickets |-> "polling"]
    /\ ghost = {} /\ stalled = {}

----------------------------------------------------------------------------
Held(r) == {t \in Tickets : r[t] = "held"}
OfAccount(S, a) == {t \in S : AccountOf[t] = a}
Background(S) == {t \in S : LaneOf[t] = "background"}
Minus(m, n) == IF m > n THEN m - n ELSE 0

BackgroundPerAccount == Minus(PerAccount, IF Interactive > 0 THEN 1 ELSE 0)

\* Lapsed tickets, waiting or held, are released by whoever polls next.
Swept == [t \in Tickets |->
    IF row[t] \in {"waiting", "held"} /\ ~fresh[t] THEN "released" ELSE row[t]]

\* Variation: the interactive share is not reserved.
SaturatedShared(r, t) ==
    \/ Cardinality(Held(r)) >= Total
    \/ Cardinality(OfAccount(Held(r), AccountOf[t])) >= PerAccount
    \/ /\ LaneOf[t] = "background"
       /\ Cardinality(OfAccount(Background(Held(r)), AccountOf[t])) >= BackgroundPerAccount

Saturated(r, t) ==
    \/ Cardinality(Held(r)) >= Total
    \/ Cardinality(OfAccount(Held(r), AccountOf[t])) >= PerAccount
    \/ /\ LaneOf[t] = "background"
       /\ \/ Cardinality(Background(Held(r))) >= Minus(Total, Interactive)
          \/ Cardinality(OfAccount(Background(Held(r)), AccountOf[t])) >= BackgroundPerAccount

\* Waiting tickets of the lane whose account has room.
Eligible(r, l) == {t \in Tickets :
    /\ r[t] = "waiting" /\ LaneOf[t] = l
    /\ Cardinality(OfAccount(Held(r), AccountOf[t])) < PerAccount
    /\ l = "background" =>
         Cardinality(OfAccount(Background(Held(r)), AccountOf[t])) < BackgroundPerAccount}

IndexOf(s, x) == IF \E i \in DOMAIN s : s[i] = x THEN CHOOSE i \in DOMAIN s : s[i] = x ELSE 0
Before(q, l, t, u) ==
    \/ <<AccountOf[t], AccountOf[u]>> \in turn[l]
    \/ <<AccountOf[u], AccountOf[t]>> \notin turn[l] /\ IndexOf(q, t) < IndexOf(q, u)
Winner(r, q, t) ==
    LET E == Eligible(r, LaneOf[t]) IN t \in E /\ \A u \in E \ {t} : Before(q, LaneOf[t], t, u)

\* last_admitted_at = now(); accounts that were never admitted share the default.
Admitted(a, l) == {p \in turn[l] : p[1] # a} \cup ((Accounts \ {a}) \X {a})

Enqueued(t) == IF row[t] = "none" THEN Append(queue, t) ELSE queue

\* acquire: the whole transaction.
Acquire(t) ==
    LET q == Enqueued(t)
        r == [Swept EXCEPT ![t] = IF @ = "none" THEN "waiting" ELSE @]
        wins == ~Saturated(r, t) /\ Winner(r, q, t)
    IN /\ queue' = q
       /\ fresh' = [fresh EXCEPT ![t] = r[t] # "released"]
       /\ row' = IF wins THEN [r EXCEPT ![t] = "held"] ELSE r
       /\ turn' = IF wins THEN [turn EXCEPT ![LaneOf[t]] = Admitted(AccountOf[t], LaneOf[t])]
                  ELSE turn

Won(t) == row'[t] = "held" /\ row[t] # "held"

\* One turn of the polling loop in slot.
Poll(t) ==
    /\ pc[t] = "polling"
    /\ IF active[t]
       THEN Acquire(t) /\ pc' = [pc EXCEPT ![t] = IF Won(t) THEN "using" ELSE @]
       ELSE pc' = [pc EXCEPT ![t] = "leaving"] /\ UNCHANGED <<row, fresh, queue, turn>>
    /\ UNCHANGED <<active, ghost, stalled>>

\* The task is cancelled during a poll: the thread goes on, finally runs.
CancelPoll(t) ==
    /\ pc[t] = "polling" /\ pc' = [pc EXCEPT ![t] = "leaving"]
    /\ ghost' = ghost \cup {t}
    /\ UNCHANGED <<row, fresh, queue, turn, active, stalled>>

GhostAcquire(t) ==
    /\ t \in ghost /\ ghost' = ghost \ {t}
    /\ IF active[t] THEN Acquire(t) ELSE UNCHANGED <<row, fresh, queue, turn>>
    /\ UNCHANGED <<active, pc, stalled>>

Heartbeat(t) ==
    /\ pc[t] = "using" /\ ~(row[t] = "held" /\ fresh[t])
    /\ pc' = [pc EXCEPT ![t] = "leaving"]
    /\ UNCHANGED <<row, fresh, queue, turn, active, ghost, stalled>>

\* The protected work ends, normally or not.
EndUse(t) ==
    /\ pc[t] = "using" /\ pc' = [pc EXCEPT ![t] = "leaving"]
    /\ UNCHANGED <<row, fresh, queue, turn, active, ghost, stalled>>

Release(t) ==
    /\ pc[t] = "leaving" /\ pc' = [pc EXCEPT ![t] = "gone"]
    /\ row' = [row EXCEPT ![t] = IF @ = "none" THEN @ ELSE "released"]
    /\ UNCHANGED <<fresh, queue, turn, active, ghost, stalled>>

----------------------------------------------------------------------------
(* Environment.                                                             *)

Die(t) ==
    /\ pc[t] \in {"polling", "using", "leaving"} /\ pc' = [pc EXCEPT ![t] = "dead"]
    /\ UNCHANGED <<row, fresh, queue, turn, active, ghost, stalled>>

\* A live owner is kept from polling or renewing for a whole lease.
Stall(t) ==
    /\ pc[t] \in {"polling", "using"} /\ fresh[t] /\ Cardinality(stalled) < MaxStalls
    /\ fresh' = [fresh EXCEPT ![t] = FALSE] /\ stalled' = stalled \cup {t}
    /\ UNCHANGED <<row, queue, turn, active, pc, ghost>>

\* The lease of an owner that is gone runs out.
Lapse(t) ==
    /\ pc[t] \in {"gone", "dead"} /\ fresh[t] /\ fresh' = [fresh EXCEPT ![t] = FALSE]
    /\ UNCHANGED <<row, queue, turn, active, pc, ghost, stalled>>

RunStops(t) ==
    /\ active[t] /\ active' = [active EXCEPT ![t] = FALSE]
    /\ UNCHANGED <<row, fresh, queue, turn, pc, ghost, stalled>>

Next == \E t \in Tickets :
    \/ Poll(t) \/ CancelPoll(t) \/ GhostAcquire(t) \/ Heartbeat(t) \/ EndUse(t) \/ Release(t)
    \/ Die(t) \/ Stall(t) \/ Lapse(t) \/ RunStops(t)

\* The loops poll every 0.5 s and renew every 20 s, Activities are bounded by
\* their timeouts, and leases run out by the clock.
Fairness == \A t \in Tickets :
    /\ WF_vars(Poll(t)) /\ WF_vars(Heartbeat(t)) /\ WF_vars(EndUse(t))
    /\ WF_vars(Release(t)) /\ WF_vars(Lapse(t))

Spec == Init /\ [][Next]_vars
FairSpec == Spec /\ Fairness
\* The heartbeat alone: the protected work itself may never end.
HeartbeatSpec == Spec /\ \A t \in Tickets : WF_vars(Heartbeat(t))

----------------------------------------------------------------------------
\* Held tickets never exceed the total and per-account limits; where background work is
\* admitted at all it leaves the interactive share free, and one slot of each account.
LimitsHold ==
    /\ Cardinality(Held(row)) <= Total
    /\ Background(Held(row)) # {} => Cardinality(Background(Held(row))) + Interactive <= Total
    /\ \A a \in Accounts :
         /\ Cardinality(OfAccount(Held(row), a)) <= PerAccount
         /\ Interactive > 0 /\ OfAccount(Background(Held(row)), a) # {} =>
              Cardinality(OfAccount(Background(Held(row)), a)) < PerAccount

\* A task that still polls or uses the resource lost its ticket only because it
\* was itself late by a whole lease: no other poll can take it away.
LostOnlyByDelay ==
    \A t \in Tickets :
        pc[t] \in {"polling", "using"} /\ row[t] = "released" => t \in stalled

\* A user whose ticket was swept is cancelled: overuse of the limit is temporary.
OveruseEnds == \A t \in Tickets :
    (pc[t] = "using" /\ row[t] = "released") ~> pc[t] # "using"

\* While no live owner stalls, everyone who polls is served or its Run stops,
\* dead owners at the head of the lane notwithstanding.
EveryoneIsServed == \A t \in Tickets : pc[t] = "polling" ~> pc[t] # "polling"

\* The limits hold and a ticket is lost only by delay (capacity.py).
Safety ==
    /\ TypeOK
    /\ LimitsHold
    /\ LostOnlyByDelay
=============================================================================
