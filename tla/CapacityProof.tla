--------------------------- MODULE CapacityProof ---------------------------
(***************************************************************************)
(* The limits of a resource hold for every number of tickets and accounts  *)
(* and every configuration, and a ticket is taken only from an owner that  *)
(* was late by a whole lease.                                               *)
(***************************************************************************)
EXTENDS Capacity, FiniteSetTheorems, TLAPS

\* A live owner has a lease, unless it let it lapse.
Owned(t) ==
  pc[t] \in {"polling", "using"} /\ row[t] # "none" /\ (~fresh[t] \/ row[t] = "released")
    => t \in stalled

\* Every row has a place in the order of creation.
Placed == \A i \in DOMAIN queue : row[queue[i]] # "none"

\* The inductive invariant.
Sound == Safety /\ Placed /\ \A t \in Tickets : Owned(t)

-----------------------------------------------------------------------------
(* Counting tickets.                                                        *)

\* Fewer tickets satisfy the same bounds.
LEMMA Fewer ==
  ASSUME NEW S \in SUBSET Tickets, NEW R \in SUBSET S
  PROVE  /\ Cardinality(S) \in Nat /\ Cardinality(R) \in Nat
         /\ Cardinality(R) <= Cardinality(S)
<1>1. IsFiniteSet(Tickets)
  BY CapacityAssumption
<1>2. IsFiniteSet(S)
  BY <1>1, FS_Subset
<1>3. IsFiniteSet(R) /\ Cardinality(R) <= Cardinality(S)
  BY <1>2, FS_Subset
<1> QED
  BY <1>2, <1>3, FS_CardinalityType

\* One more ticket is one more at most.
LEMMA OneMore ==
  ASSUME NEW S \in SUBSET Tickets, NEW t \in Tickets
  PROVE  Cardinality(S \cup {t}) \in Nat /\ Cardinality(S \cup {t}) <= Cardinality(S) + 1
<1>1. IsFiniteSet(S)
  BY CapacityAssumption, FS_Subset
<1>2. Cardinality(S \cup {t}) = IF t \in S THEN Cardinality(S) ELSE Cardinality(S) + 1
  BY <1>1, FS_AddElement
<1>3. Cardinality(S) \in Nat
  BY <1>1, FS_CardinalityType
<1> QED
  BY <1>2, <1>3

LEMMA MinusBound ==
  ASSUME NEW m \in Nat, NEW n \in Nat, NEW c \in Nat, c < Minus(m, n)
  PROVE  c + 1 + n <= m
BY DEF Minus

LEMMA SomeBackground ==
  ASSUME NEW S \in SUBSET Tickets, S # {}
  PROVE  Cardinality(S) >= 1
<1>1. IsFiniteSet(S)
  BY CapacityAssumption, FS_Subset
<1> QED
  BY <1>1, FS_EmptySet, FS_CardinalityType
-----------------------------------------------------------------------------
\* The limits of a set of held tickets.
Limits(H) ==
  /\ Cardinality(H) <= Total
  /\ Background(H) # {} => Cardinality(Background(H)) + Interactive <= Total
  /\ \A a \in Accounts :
       /\ Cardinality(OfAccount(H, a)) <= PerAccount
       /\ Interactive > 0 /\ OfAccount(Background(H), a) # {} =>
            Cardinality(OfAccount(Background(H), a)) < PerAccount

LEMMA LimitsOfHeld == LimitsHold <=> Limits(Held(row))
BY DEF LimitsHold, Limits

\* Giving tickets back keeps the limits.
LEMMA LimitsShrink ==
  ASSUME NEW S \in SUBSET Tickets, NEW R \in SUBSET S, Limits(S)
  PROVE  Limits(R)
<1>1. Background(R) \subseteq Background(S) /\ Background(S) \subseteq Tickets
  BY DEF Background
<1>2. Cardinality(R) <= Cardinality(S) /\ Cardinality(R) \in Nat /\ Cardinality(S) \in Nat
  BY Fewer
<1>3. /\ Cardinality(Background(R)) <= Cardinality(Background(S))
      /\ Cardinality(Background(R)) \in Nat /\ Cardinality(Background(S)) \in Nat
  BY <1>1, Fewer
<1>4. ASSUME NEW a \in Accounts
      PROVE  /\ Cardinality(OfAccount(R, a)) <= PerAccount
             /\ Interactive > 0 /\ OfAccount(Background(R), a) # {} =>
                  Cardinality(OfAccount(Background(R), a)) < PerAccount
  <2>1. /\ OfAccount(R, a) \subseteq OfAccount(S, a) /\ OfAccount(S, a) \subseteq Tickets
        /\ OfAccount(Background(R), a) \subseteq OfAccount(Background(S), a)
        /\ OfAccount(Background(S), a) \subseteq Tickets
    BY <1>1 DEF OfAccount
  <2>2. /\ Cardinality(OfAccount(R, a)) <= Cardinality(OfAccount(S, a))
        /\ Cardinality(OfAccount(R, a)) \in Nat /\ Cardinality(OfAccount(S, a)) \in Nat
    BY <2>1, Fewer
  <2>3. /\ Cardinality(OfAccount(Background(R), a)) <= Cardinality(OfAccount(Background(S), a))
        /\ Cardinality(OfAccount(Background(R), a)) \in Nat
        /\ Cardinality(OfAccount(Background(S), a)) \in Nat
    BY <2>1, Fewer
  <2> QED
    BY <2>1, <2>2, <2>3, CapacityAssumption DEF Limits
<1> QED
  BY <1>1, <1>2, <1>3, <1>4, CapacityAssumption DEF Limits

\* A ticket admitted while nothing is saturated keeps the limits.
LEMMA LimitsGrow ==
  ASSUME NEW r, NEW t \in Tickets, Limits(Held(r)), ~Saturated(r, t)
  PROVE  Limits(Held(r) \cup {t})
<1> DEFINE S == Held(r)  B == Background(S)  c == AccountOf[t]
<1>1. S \subseteq Tickets /\ B \subseteq Tickets
  BY DEF Held, Background
<1>2. /\ Total \in Nat /\ Interactive \in Nat /\ PerAccount \in Nat
      /\ LaneOf \in [Tickets -> {"interactive", "background"}]
  BY CapacityAssumption
<1>3. Cardinality(S) < Total
  <2>1. Cardinality(S) \in Nat
    BY <1>1, Fewer
  <2> QED
    BY <2>1, <1>2 DEF Saturated
<1>4. Cardinality(S \cup {t}) <= Total
  BY <1>1, <1>2, <1>3, OneMore, Fewer
<1>5. Background(S \cup {t}) = IF LaneOf[t] = "background" THEN B \cup {t} ELSE B
  BY DEF Background
<1>6. /\ OfAccount(S, c) \subseteq Tickets /\ OfAccount(B, c) \subseteq Tickets
      /\ Cardinality(OfAccount(S, c)) \in Nat /\ Cardinality(OfAccount(B, c)) \in Nat
      /\ Cardinality(B) \in Nat
  <2>1. OfAccount(S, c) \subseteq Tickets /\ OfAccount(B, c) \subseteq Tickets
    BY <1>1 DEF OfAccount
  <2> QED
    BY <2>1, <1>1, Fewer
<1>7. Background(S \cup {t}) # {} => Cardinality(Background(S \cup {t})) + Interactive <= Total
  <2>1. CASE LaneOf[t] = "background"
    <3>1. Cardinality(B) < Minus(Total, Interactive)
      BY <2>1, <1>2, <1>6 DEF Saturated, Minus
    <3>2. Cardinality(B) + 1 + Interactive <= Total
      BY <3>1, <1>2, <1>6, MinusBound
    <3>3. Cardinality(B \cup {t}) \in Nat /\ Cardinality(B \cup {t}) <= Cardinality(B) + 1
      BY <1>1, OneMore
    <3>4. Cardinality(B \cup {t}) + Interactive <= Total
      <4> HIDE DEF B
      <4> QED
        BY <3>2, <3>3, <1>2, <1>6
    <3> QED
      BY <2>1, <3>4, <1>5
  <2>2. CASE LaneOf[t] # "background"
    BY <2>2, <1>5 DEF Limits
  <2> QED
    BY <2>1, <2>2
<1>8. ASSUME NEW a \in Accounts
      PROVE  /\ Cardinality(OfAccount(S \cup {t}, a)) <= PerAccount
             /\ Interactive > 0 /\ OfAccount(Background(S \cup {t}), a) # {} =>
                  Cardinality(OfAccount(Background(S \cup {t}), a)) < PerAccount
  <2>1. CASE a # c
    <3>1. OfAccount(S \cup {t}, a) = OfAccount(S, a)
      BY <2>1 DEF OfAccount
    <3>2. OfAccount(Background(S \cup {t}), a) = OfAccount(B, a)
      BY <2>1, <1>5 DEF OfAccount
    <3> QED
      BY <3>1, <3>2 DEF Limits
  <2>2. CASE a = c
    <3>1. OfAccount(S \cup {t}, a) = OfAccount(S, c) \cup {t}
      BY <2>2 DEF OfAccount
    <3>2. Cardinality(OfAccount(S, c)) < PerAccount
      BY <1>2, <1>6 DEF Saturated
    <3>3. /\ Cardinality(OfAccount(S, c) \cup {t}) \in Nat
          /\ Cardinality(OfAccount(S, c) \cup {t}) <= Cardinality(OfAccount(S, c)) + 1
      BY <1>6, OneMore
    <3>4. Cardinality(OfAccount(S \cup {t}, a)) <= PerAccount
      <4>1. Cardinality(OfAccount(S, c) \cup {t}) <= PerAccount
        BY <3>2, <3>3, <1>2, <1>6
      <4> QED
        BY <3>1, <4>1
    <3>5. ASSUME Interactive > 0, OfAccount(Background(S \cup {t}), a) # {}
          PROVE  Cardinality(OfAccount(Background(S \cup {t}), a)) < PerAccount
      <4>1. CASE LaneOf[t] = "background"
        <5>1. OfAccount(Background(S \cup {t}), a) = OfAccount(B, c) \cup {t}
          BY <4>1, <2>2, <1>5 DEF OfAccount
        <5>2. Cardinality(OfAccount(B, c)) < Minus(PerAccount, 1)
          BY <4>1, <3>5, <1>2, <1>6 DEF Saturated, BackgroundPerAccount, Minus
        <5>3. Cardinality(OfAccount(B, c)) + 1 + 1 <= PerAccount
          BY <5>2, <1>2, <1>6, MinusBound
        <5>4. /\ Cardinality(OfAccount(B, c) \cup {t}) \in Nat
              /\ Cardinality(OfAccount(B, c) \cup {t}) <= Cardinality(OfAccount(B, c)) + 1
          BY <1>6, OneMore
        <5> QED
          BY <5>1, <5>3, <5>4, <1>2, <1>6
      <4>2. CASE LaneOf[t] # "background"
        <5>1. OfAccount(Background(S \cup {t}), a) = OfAccount(B, c)
          BY <4>2, <2>2, <1>5
        <5> QED
          BY <5>1, <3>5, <2>2 DEF Limits
      <4> QED
        BY <4>1, <4>2
    <3> QED
      BY <3>4, <3>5
  <2> QED
    BY <2>1, <2>2
<1> QED
  BY <1>4, <1>7, <1>8 DEF Limits
-----------------------------------------------------------------------------
(* The steps.                                                               *)

\* What a poll does to each ticket.
LEMMA AcquireRows ==
  ASSUME Sound, NEW t \in Tickets, Acquire(t)
  PROVE  /\ row' \in [Tickets -> {"none", "waiting", "held", "released"}]
         /\ fresh' \in [Tickets -> BOOLEAN]
         /\ \A u \in Tickets \ {t} :
              /\ fresh'[u] = fresh[u]
              /\ row'[u] = row[u] \/ (row[u] # "none" /\ ~fresh[u] /\ row'[u] = "released")
         /\ row'[t] # "none"
         /\ (~fresh'[t] \/ row'[t] = "released") =>
              (row[t] # "none" /\ (~fresh[t] \/ row[t] = "released"))
<1> DEFINE r == [Swept EXCEPT ![t] = IF @ = "none" THEN "waiting" ELSE @]
           wins == ~Saturated(r, t) /\ Winner(r, Enqueued(t), t)
<1>1. /\ row \in [Tickets -> {"none", "waiting", "held", "released"}]
      /\ fresh \in [Tickets -> BOOLEAN]
  BY DEF Sound, Safety, TypeOK
<1>2. /\ fresh' = [fresh EXCEPT ![t] = r[t] # "released"]
      /\ row' = IF wins THEN [r EXCEPT ![t] = "held"] ELSE r
  BY DEF Acquire
<1>3. wins => r[t] = "waiting"
  BY DEF Winner, Eligible
<1>4. /\ r \in [Tickets -> {"none", "waiting", "held", "released"}]
      /\ r[t] # "none"
      /\ r[t] = "released" => (row[t] # "none" /\ (~fresh[t] \/ row[t] = "released"))
      /\ \A u \in Tickets \ {t} :
           r[u] = row[u] \/ (row[u] # "none" /\ ~fresh[u] /\ r[u] = "released")
  BY <1>1 DEF Swept
<1> HIDE DEF r, wins
<1>5. CASE wins
  <2>1. row' = [r EXCEPT ![t] = "held"]
    BY <1>2, <1>5
  <2> QED
    BY <1>1, <1>2, <1>3, <1>4, <1>5, <2>1
<1>6. CASE ~wins
  <2>1. row' = r
    BY <1>2, <1>6
  <2> QED
    BY <1>1, <1>2, <1>4, <2>1
<1> QED
  BY <1>5, <1>6

\* What a poll does to the held tickets and to the orders.
LEMMA AcquireLimits ==
  ASSUME Sound, NEW t \in Tickets, Acquire(t)
  PROVE  Limits(Held(row)')
<1> DEFINE r == [Swept EXCEPT ![t] = IF @ = "none" THEN "waiting" ELSE @]
           wins == ~Saturated(r, t) /\ Winner(r, Enqueued(t), t)
<1>1. row \in [Tickets -> {"none", "waiting", "held", "released"}]
  BY DEF Sound, Safety, TypeOK
<1>2. row' = IF wins THEN [r EXCEPT ![t] = "held"] ELSE r
  BY DEF Acquire
<1>3. Limits(Held(row)) /\ Held(row) \subseteq Tickets
  BY LimitsOfHeld DEF Sound, Safety, Held
<1>4. r \in [Tickets -> {"none", "waiting", "held", "released"}] /\ Held(r) \subseteq Held(row)
  BY <1>1 DEF Swept, Held
<1>5. Limits(Held(r))
  BY <1>3, <1>4, LimitsShrink
<1>6. CASE wins
  <2>1. ~Saturated(r, t)
    BY <1>6
  <2>2. Limits(Held(r) \cup {t})
    BY <1>5, <2>1, LimitsGrow
  <2>3. Held(row)' = Held(r) \cup {t}
    <3> HIDE DEF r, wins
    <3>1. row' = [r EXCEPT ![t] = "held"]
      BY <1>2, <1>6
    <3> QED
      BY <3>1, <1>4 DEF Held
  <2> QED
    BY <2>2, <2>3
<1>7. CASE ~wins
  <2> HIDE DEF r, wins
  <2>1. row' = r
    BY <1>2, <1>7
  <2> QED
    BY <2>1, <1>5 DEF Held
<1> QED
  BY <1>6, <1>7

LEMMA AcquireOrders ==
  ASSUME Sound, NEW t \in Tickets, Acquire(t)
  PROVE  /\ queue' \in Seq(Tickets) /\ \A i, j \in DOMAIN queue' : queue'[i] = queue'[j] => i = j
         /\ Placed'
         /\ turn' \in [Lanes -> SUBSET (Accounts \X Accounts)]
<1>1. /\ queue \in Seq(Tickets) /\ \A i, j \in DOMAIN queue : queue[i] = queue[j] => i = j
      /\ turn \in [Lanes -> SUBSET (Accounts \X Accounts)]
      /\ Placed
  BY DEF Sound, Safety, TypeOK
<1>2. /\ row'[t] # "none"
      /\ \A u \in Tickets : row[u] # "none" => row'[u] # "none"
  BY AcquireRows
<1>3. queue' = Enqueued(t)
  BY DEF Acquire
<1>4. turn' \in [Lanes -> SUBSET (Accounts \X Accounts)]
  <2>1. turn' = turn \/ turn' = [turn EXCEPT ![LaneOf[t]] = Admitted(AccountOf[t], LaneOf[t])]
    BY DEF Acquire
  <2>2. LaneOf[t] \in Lanes /\ AccountOf[t] \in Accounts
    BY CapacityAssumption DEF Lanes, Accounts
  <2>3. Admitted(AccountOf[t], LaneOf[t]) \subseteq Accounts \X Accounts
    BY <1>1, <2>2 DEF Admitted
  <2> QED
    BY <1>1, <2>1, <2>2, <2>3
<1>5. CASE row[t] = "none"
  <2>1. queue' = Append(queue, t)
    BY <1>3, <1>5 DEF Enqueued
  <2>2. \A i \in DOMAIN queue : queue[i] \in Tickets /\ queue[i] # t
    BY <1>1, <1>5 DEF Placed
  <2>3. /\ queue' \in Seq(Tickets) /\ Len(queue') = Len(queue) + 1
        /\ \A i \in DOMAIN queue' : queue'[i] = IF i = Len(queue) + 1 THEN t ELSE queue[i]
    BY <1>1, <2>1
  <2>4. \A i \in DOMAIN queue' : i = Len(queue) + 1 \/ i \in DOMAIN queue
    BY <1>1, <2>3
  <2>5. \A i, j \in DOMAIN queue' : queue'[i] = queue'[j] => i = j
    BY <1>1, <2>2, <2>3, <2>4
  <2>6. Placed'
    BY <1>1, <1>2, <2>2, <2>3, <2>4 DEF Placed
  <2> QED
    BY <2>3, <2>5, <2>6, <1>4
<1>6. CASE row[t] # "none"
  <2>1. queue' = queue
    BY <1>3, <1>6 DEF Enqueued
  <2> QED
    BY <1>1, <1>2, <1>4, <2>1 DEF Placed
<1> QED
  BY <1>5, <1>6
-----------------------------------------------------------------------------
\* The parts of TypeOK that a poll does not touch.
Rest == /\ active \in [Tickets -> BOOLEAN]
        /\ pc \in [Tickets -> {"polling", "using", "leaving", "gone", "dead"}]
        /\ ghost \subseteq Tickets /\ stalled \subseteq Tickets

\* A poll preserves the invariant, whichever state its owner is in afterwards.
LEMMA AcquireSound ==
  ASSUME Sound, NEW t \in Tickets, Acquire(t), Rest', stalled' = stalled,
         \A u \in Tickets : pc'[u] \in {"polling", "using"} => pc[u] \in {"polling", "using"}
  PROVE  Sound'
<1>1. TypeOK'
  BY AcquireRows, AcquireOrders DEF TypeOK, Rest
<1>2. LimitsHold'
  BY AcquireLimits DEF LimitsHold, Limits
<1>3. Placed'
  BY AcquireOrders
<1>4. ASSUME NEW u \in Tickets
      PROVE  Owned(u)' /\ (pc'[u] \in {"polling", "using"} /\ row'[u] = "released" => u \in stalled')
  <2>1. Owned(u)
    BY DEF Sound
  <2>2. CASE u = t
    BY <2>1, <2>2, AcquireRows DEF Owned
  <2>3. CASE u # t
    <3>1. /\ fresh'[u] = fresh[u]
          /\ row'[u] = row[u] \/ (row[u] # "none" /\ ~fresh[u] /\ row'[u] = "released")
      BY <2>3, AcquireRows
    <3> QED
      BY <2>1, <3>1 DEF Owned
  <2> QED
    BY <2>2, <2>3
<1> QED
  BY <1>1, <1>2, <1>3, <1>4 DEF Sound, Safety, LostOnlyByDelay

\* A step that polls nothing: held tickets are kept or given back.
LEMMA QuietSound ==
  ASSUME Sound, TypeOK', Held(row)' \subseteq Held(row), queue' = queue,
         \A u \in Tickets : (row'[u] = "none" => row[u] = "none") /\ Owned(u)'
  PROVE  Sound'
<1>1. Limits(Held(row)) /\ Held(row) \subseteq Tickets
  BY LimitsOfHeld DEF Sound, Safety, Held
<1>2. Limits(Held(row)')
  BY <1>1, LimitsShrink
<1>3. LimitsHold'
  BY <1>2 DEF LimitsHold, Limits
<1>4. Placed'
  <2>1. \A i \in DOMAIN queue : queue[i] \in Tickets
    BY DEF Sound, Safety, TypeOK
  <2> QED
    BY <2>1 DEF Sound, Placed
<1>5. LostOnlyByDelay'
  BY DEF LostOnlyByDelay, Owned
<1> QED
  BY <1>3, <1>4, <1>5 DEF Sound, Safety

LEMMA InitSound == Init => Sound
<1> SUFFICES ASSUME Init PROVE Sound
  OBVIOUS
<1>1. TypeOK
  BY DEF Init, TypeOK, Lanes
<1>2. Held(row) = {}
  BY DEF Init, Held
<1>3. LimitsHold
  <2>1. Cardinality({}) = 0
    BY FS_EmptySet
  <2>2. Background({}) = {} /\ \A a \in Accounts : OfAccount({}, a) = {}
    BY DEF Background, OfAccount
  <2> QED
    BY <1>2, <2>1, <2>2, CapacityAssumption DEF LimitsHold
<1> QED
  BY <1>1, <1>3 DEF Init, Sound, Safety, LostOnlyByDelay, Placed, Owned

LEMMA StepSound == Sound /\ [Next]_vars => Sound'
<1> SUFFICES ASSUME Sound, [Next]_vars PROVE Sound'
  OBVIOUS
<1>1. TypeOK /\ \A u \in Tickets : Owned(u)
  BY DEF Sound, Safety
<1>2. ASSUME NEW t \in Tickets, Poll(t) PROVE Sound'
  <2>1. CASE active[t]
    <3>1. /\ Acquire(t)
          /\ pc[t] = "polling" /\ pc' = [pc EXCEPT ![t] = IF Won(t) THEN "using" ELSE @]
          /\ active' = active /\ ghost' = ghost /\ stalled' = stalled
      BY <1>2, <2>1 DEF Poll
    <3>2. Rest'
      BY <1>1, <3>1 DEF TypeOK, Rest
    <3>3. \A u \in Tickets : pc'[u] \in {"polling", "using"} => pc[u] \in {"polling", "using"}
      BY <1>1, <3>1 DEF TypeOK
    <3> QED
      BY <3>1, <3>2, <3>3, AcquireSound
  <2>2. CASE ~active[t]
    <3>1. /\ pc' = [pc EXCEPT ![t] = "leaving"]
          /\ UNCHANGED <<row, fresh, queue, turn, active, ghost, stalled>>
      BY <1>2, <2>2 DEF Poll
    <3> QED
      BY <1>1, <3>1, QuietSound DEF TypeOK, Held, Owned
  <2> QED
    BY <2>1, <2>2
<1>3. ASSUME NEW t \in Tickets, CancelPoll(t) PROVE Sound'
  BY <1>1, <1>3, QuietSound DEF CancelPoll, TypeOK, Held, Owned
<1>4. ASSUME NEW t \in Tickets, GhostAcquire(t) PROVE Sound'
  <2>1. t \in ghost /\ ghost' = ghost \ {t} /\ UNCHANGED <<active, pc, stalled>>
    BY <1>4 DEF GhostAcquire
  <2>2. CASE active[t]
    <3>1. Acquire(t)
      BY <1>4, <2>2 DEF GhostAcquire
    <3>2. Rest'
      BY <1>1, <2>1 DEF TypeOK, Rest
    <3> QED
      BY <2>1, <3>1, <3>2, AcquireSound
  <2>3. CASE ~active[t]
    <3>1. UNCHANGED <<row, fresh, queue, turn>>
      BY <1>4, <2>3 DEF GhostAcquire
    <3> QED
      BY <1>1, <2>1, <3>1, QuietSound DEF TypeOK, Held, Owned
  <2> QED
    BY <2>2, <2>3
<1>5. ASSUME NEW t \in Tickets, Heartbeat(t) \/ EndUse(t) \/ Die(t) PROVE Sound'
  BY <1>1, <1>5, QuietSound DEF Heartbeat, EndUse, Die, TypeOK, Held, Owned
<1>6. ASSUME NEW t \in Tickets, Release(t) PROVE Sound'
  BY <1>1, <1>6, QuietSound DEF Release, TypeOK, Held, Owned
<1>7. ASSUME NEW t \in Tickets, Stall(t) PROVE Sound'
  BY <1>1, <1>7, QuietSound DEF Stall, TypeOK, Held, Owned
<1>8. ASSUME NEW t \in Tickets, Lapse(t) PROVE Sound'
  BY <1>1, <1>8, QuietSound DEF Lapse, TypeOK, Held, Owned
<1>9. ASSUME NEW t \in Tickets, RunStops(t) PROVE Sound'
  BY <1>1, <1>9, QuietSound DEF RunStops, TypeOK, Held, Owned
<1>10. CASE UNCHANGED vars
  BY <1>1, <1>10, QuietSound DEF vars, TypeOK, Held, Owned
<1> QED
  BY <1>2, <1>3, <1>4, <1>5, <1>6, <1>7, <1>8, <1>9, <1>10 DEF Next

\* Every state of the queue is sound.
THEOREM AlwaysSound == Spec => []Sound
BY InitSound, StepSound, PTL DEF Spec

\* Whatever the limits, the tickets and the accounts: held tickets stay within them, the
\* interactive share stays free, and only a late owner loses its ticket (capacity.py).
THEOREM LimitsAreKept == Spec => []Safety
<1>1. Sound => Safety
  BY DEF Sound
<1> QED
  BY <1>1, AlwaysSound, PTL
=============================================================================
