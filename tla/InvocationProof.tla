--------------------------- MODULE InvocationProof ---------------------------
(***************************************************************************)
(* However many agents, Research parents and limits: child Executions stay *)
(* within their limits and end with their Run, a closed one gets no result, *)
(* an agent is told once what was committed, and a research Run succeeds   *)
(* with a sufficient report that is saved once.                             *)
(***************************************************************************)
EXTENDS Invocation, FiniteSetTheorems, TLAPS

AgentSteps == {"prepare", "observe", "start", "wait", "close", "done", "failed"}
ParentSteps == {"prepare", "start", "wait", "close", "publish", "saving", "saved", "complete",
                "failing", "done", "failed"}

Shape == TypeOK /\ ghosts \in [Runs -> SUBSET Nat]

\* The types in three parts: rows of the database, the Workflow, its child.
RunsOK ==
  /\ runSt \in [Runs -> {"running", "cancelling"} \cup Ended]
  /\ exe \in [Runs -> {"none"} \cup Active \cup Ended] /\ token \in [Runs -> Nat]
  /\ result \in [Runs -> {"none"} \cup Outcomes]
  /\ op \in [Runs -> {"open", "error"} \cup Outcomes] /\ events \in [Runs -> Nat]
  /\ observed \in [Runs -> BOOLEAN] /\ view \in [Runs -> BOOLEAN]
  /\ intent \in [Runs -> {"none", "pending", "refused", "succeeded", "failed"}]
  /\ saved \in [Runs -> Nat]
FlowOK ==
  /\ wpc \in [Runs -> Fenced \cup {"start", "wait", "close", "done", "failed"}]
  /\ ans \in [Runs -> {"none", "backoff", "ok", "error", "child", "committed", "replay", "refused"}]
  /\ tries \in [Runs -> 0 .. Tries - 1] /\ late \in [Runs -> {"none"} \cup Fenced]
  /\ status \in [Runs -> {"none", "succeeded", "failed", "cancelled"}] /\ resets \in 0 .. Resets
  /\ why \in [Runs -> {"none", "lost", "conflict", "result", "child", "cancelled"}]
ChildOK ==
  /\ cpc \in [Runs -> {"none", "idle", "working", "done", "failed", "cancelled"}]
  /\ holds \in [Runs -> Nat] /\ \A r \in Runs : ghosts[r] \subseteq 0 .. token[r]
  /\ ghosts \in [Runs -> SUBSET Nat] /\ atts \in [Runs -> 0 .. Tries]

\* A late try is one of the step that is tried again, or the Workflow has failed.
StepsOK(r) ==
  /\ holds[r] <= token[r] /\ (cpc[r] = "idle" => atts[r] < Tries)
  /\ wpc[r] = "close" => status[r] # "none"
  /\ r \in Agents => wpc[r] \in AgentSteps /\ late[r] \in {"none", "prepare", "observe"}
  /\ r \in Parents => /\ wpc[r] \in ParentSteps /\ late[r] # "observe" /\ ans[r] # "error"
  /\ late[r] # "none" =>
       \/ wpc[r] = "failed"
       \/ /\ ans[r] = "backoff"
          /\ late[r] = wpc[r] \/ (late[r] = "saved" /\ wpc[r] = "saving")

\* From close on, an agent's child takes no slot.
SlotOK(r) ==
  /\ runSt[r] \in Ended => exe[r] \notin Active
  /\ wpc[r] = "close" /\ ans[r] = "ok" => exe[r] \notin Active
  /\ wpc[r] = "prepare" /\ ans[r] = "error" => exe[r] \notin Active
  /\ r \in Agents /\ (wpc[r] \in {"observe", "done"} \/ late[r] = "observe" \/ op[r] # "open"
                      \/ (wpc[r] = "prepare" /\ ans[r] = "replay"))
       => exe[r] \notin Active

\* The transcript has the call's event exactly when its Operation is completed.
ObservedOK(r) == r \in Agents =>
  /\ observed[r] => op[r] = result[r] /\ events[r] = 1
  /\ op[r] \in Outcomes => observed[r]
  /\ op[r] = "open" => events[r] = 0
  /\ wpc[r] = "observe" /\ ans[r] = "refused" => events[r] = 0
  /\ why[r] # "conflict"

\* Nothing is recorded as saved before the catalog has it; a parent's Operation is closed
\* with the report it then keeps, and its Run succeeds after that.
SavedOK(r) ==
  /\ saved[r] <= 1
  /\ intent[r] = "succeeded" => saved[r] = 1
  /\ (wpc[r] = "saved" \/ late[r] = "saved" \/ (wpc[r] = "saving" /\ ans[r] = "ok"))
     /\ intent[r] # "none" => saved[r] = 1
  /\ r \in Parents /\ runSt[r] = "succeeded" => op[r] # "open"
  /\ r \in Parents /\ op[r] # "open" =>
       /\ result[r] = "succeeded" /\ op[r] = "succeeded"
       /\ intent[r] # "none" => intent[r] = "succeeded" /\ saved[r] = 1

RowOK(r) == StepsOK(r) /\ SlotOK(r) /\ ObservedOK(r) /\ SavedOK(r)

\* The inductive invariant.
Sound == Shape /\ LimitsHold /\ \A r \in Runs : RowOK(r)
-----------------------------------------------------------------------------
\* The inductive invariant implies what the runs check.
LEMMA SoundIsSafe == Sound => Safety
<1> SUFFICES ASSUME Sound PROVE Safety
  OBVIOUS
<1>1. TypeOK /\ LimitsHold /\ \A r \in Runs : SlotOK(r) /\ ObservedOK(r) /\ SavedOK(r)
  BY DEF Sound, Shape, RowOK
<1>2. NoChildOutlivesRun /\ SlotIsFree
  BY <1>1 DEF NoChildOutlivesRun, SlotIsFree, SlotOK, Runs
<1>3. ObservedAsCommitted
  BY <1>1 DEF ObservedAsCommitted, ObservedOK, Runs
<1>4. DeliveredIsSaved /\ SavedOnce
  BY <1>1 DEF DeliveredIsSaved, SavedOnce, SavedOK, Runs
<1> QED
  BY <1>1, <1>2, <1>3, <1>4 DEF Safety

\* A step of r: the rows of the other Runs stand still.
Still(r) == \A s \in Runs \ {r} :
  /\ runSt'[s] = runSt[s] /\ exe'[s] = exe[s] /\ token'[s] = token[s] /\ result'[s] = result[s]
  /\ op'[s] = op[s] /\ events'[s] = events[s] /\ observed'[s] = observed[s]
  /\ intent'[s] = intent[s] /\ saved'[s] = saved[s] /\ wpc'[s] = wpc[s] /\ ans'[s] = ans[s]
  /\ late'[s] = late[s] /\ holds'[s] = holds[s] /\ why'[s] = why[s]
  /\ cpc'[s] = cpc[s] /\ atts'[s] = atts[s] /\ status'[s] = status[s]

\* A step of r keeps the invariant when it keeps the row of r and the limits.
LEMMA RowMoves ==
  ASSUME Sound, NEW r \in Runs, Shape', Still(r), RowOK(r)', LimitsHold'
  PROVE  Sound'
<1>1. ASSUME NEW s \in Runs \ {r}
      PROVE  RowOK(s)'
  <2>1. RowOK(s)
    BY DEF Sound
  <2>2. StepsOK(s)' /\ SlotOK(s)'
    BY <2>1 DEF Still, RowOK, StepsOK, SlotOK
  <2>3. ObservedOK(s)' /\ SavedOK(s)'
    BY <2>1 DEF Still, RowOK, ObservedOK, SavedOK
  <2> QED
    BY <2>2, <2>3 DEF RowOK
<1> QED
  BY <1>1 DEF Sound

\* No limit is passed by a step that opens no child Execution.
LEMMA NoneOpens ==
  ASSUME Sound, Shape', \A s \in Runs : exe'[s] \in Active => exe[s] \in Active
  PROVE  LimitsHold'
<1> DEFINE open(R) == {r \in R : exe[r] \notin {"none"} \cup Ended}
<1>1. ASSUME NEW R \in SUBSET Runs
      PROVE  Cardinality(open(R)') <= Cardinality(open(R))
                /\ Cardinality(open(R)) \in Nat /\ Cardinality(open(R)') \in Nat
  <2>1. open(R)' \subseteq open(R)
    <3>1. \A s \in Runs : exe[s] \in Active => exe[s] \notin {"none"} \cup Ended
      BY DEF Active, Ended
    <3>2. \A s \in Runs : exe'[s] \in {"none"} \cup Active \cup Ended
      BY DEF Shape, TypeOK
    <3> QED
      BY <3>1, <3>2
  <2>2. IsFiniteSet(open(R))
    BY InvocationAssumption, FS_Subset DEF Runs
  <2> QED
    BY <2>1, <2>2, FS_Subset, FS_CardinalityType
<1>2. \A r \in Runs : {s \in Runs : AccountOf[s] = AccountOf[r]} \in SUBSET Runs
  OBVIOUS
<1>3. /\ Cardinality(open(Runs)) <= GlobalLimit
      /\ \A r \in Runs : Cardinality(open({s \in Runs : AccountOf[s] = AccountOf[r]})) <= AccountLimit
  BY DEF Sound, LimitsHold
<1> HIDE DEF open
<1>4. /\ Cardinality(open(Runs)') <= GlobalLimit
      /\ \A r \in Runs : Cardinality(open({s \in Runs : AccountOf[s] = AccountOf[r]})') <= AccountLimit
  BY <1>1, <1>2, <1>3, InvocationAssumption
<1> QED
  BY <1>4 DEF LimitsHold, open

\* What a step of r knows.
LEMMA Row ==
  ASSUME Sound, NEW r \in Runs
  PROVE  /\ Shape /\ RunsOK /\ FlowOK /\ ChildOK
         /\ TypeOK /\ StepsOK(r) /\ SlotOK(r) /\ ObservedOK(r) /\ SavedOK(r)
         /\ r \in Parents <=> r \notin Agents
         /\ Tries \in Nat \ {0} /\ Resets \in Nat
BY InvocationAssumption DEF Sound, Shape, TypeOK, RunsOK, FlowOK, ChildOK, RowOK, Runs
-----------------------------------------------------------------------------
(* Fenced Activities.                                                       *)

\* The current try answers, or a late one is silent.
Acted(r, p, a) ==
  /\ runSt[r] = "running" /\ UNCHANGED <<wpc, tries, status, why>>
  /\ ans' \in [Runs -> {"none", "backoff", "ok", "error", "child", "committed", "replay", "refused"}]
  /\ late' \in [Runs -> {"none"} \cup Fenced]
  /\ \A s \in Runs \ {r} : ans'[s] = ans[s] /\ late'[s] = late[s]
  /\ \/ wpc[r] = p /\ ans[r] = "none" /\ ans'[r] = a /\ late'[r] = "none" /\ late[r] = "none"
     \/ /\ late[r] = p /\ late'[r] = "none" /\ ans'[r] = ans[r]
        /\ wpc[r] = "failed" \/ ans[r] = "backoff"

\* A fenced Activity answers its current try, or a late one commits in silence.
LEMMA ByActs ==
  ASSUME Sound, NEW r \in Runs, NEW p \in Fenced, NEW a, By(r, p, a),
         a \in {"ok", "error", "child", "committed", "replay", "refused"}
  PROVE  Acted(r, p, a)
<1>1. TypeOK /\ StepsOK(r)
  BY Row
<1>2. /\ ans \in [Runs -> {"none", "backoff", "ok", "error", "child", "committed", "replay", "refused"}]
      /\ late \in [Runs -> {"none"} \cup Fenced]
  BY <1>1 DEF TypeOK
<1>3. /\ runSt[r] = "running" /\ UNCHANGED <<wpc, tries, status, why>>
      /\ \/ wpc[r] = p /\ ans[r] = "none" /\ ans' = [ans EXCEPT ![r] = a] /\ late' = late
         \/ late[r] = p /\ late' = [late EXCEPT ![r] = "none"] /\ ans' = ans
  BY DEF By, Fence
<1>4. wpc[r] = p => wpc[r] # "failed"
  BY DEF Fenced
<1>5. late[r] = p => late[r] # "none"
  BY DEF Fenced
<1> QED
  BY <1>1, <1>2, <1>3, <1>4, <1>5 DEF StepsOK, Acted

\* A step that only answers.
LEMMA AnswerSound ==
  ASSUME Sound, NEW r \in Runs, NEW p \in Fenced, NEW a, By(r, p, a),
         a \in {"ok", "error", "child", "committed", "replay", "refused"},
         UNCHANGED <<run, exec, result, tool, delivery, child, resets>>,
         a = "error" => r \in Agents /\ exe[r] = "none",
         p = "prepare" /\ a = "replay" => op[r] # "open",
         p = "observe" /\ a = "refused" /\ r \in Agents => events[r] = 0,
         p = "saving" /\ a = "ok" /\ intent[r] # "none" => saved[r] = 1
  PROVE  Sound'
<1>1. Shape /\ RunsOK /\ FlowOK /\ ChildOK
      /\ TypeOK /\ StepsOK(r) /\ SlotOK(r) /\ ObservedOK(r) /\ SavedOK(r)
      /\ (r \in Parents <=> r \notin Agents) /\ Tries \in Nat \ {0} /\ Resets \in Nat
  BY Row
<1>2. Acted(r, p, a)
  BY ByActs
<1>3. Still(r)
  BY <1>1, <1>2 DEF Shape, TypeOK, Still, Acted, run, exec, tool, delivery, child, Active,
     Ended, Fenced, AgentSteps, ParentSteps
<1>4. Shape'
  <2>1. RunsOK'
    BY <1>1, <1>2 DEF RunsOK, FlowOK, ChildOK, Acted, run, exec, tool, delivery, child, Active,
       Ended, Fenced, AgentSteps, ParentSteps
  <2>2. FlowOK'
    BY <1>1, <1>2 DEF RunsOK, FlowOK, ChildOK, Acted, run, exec, tool, delivery, child, Active,
       Ended, Fenced, AgentSteps, ParentSteps
  <2>3. ChildOK'
    BY <1>1, <1>2 DEF RunsOK, FlowOK, ChildOK, Acted, run, exec, tool, delivery, child, Active,
       Ended, Fenced, AgentSteps, ParentSteps
  <2> QED
    BY <2>1, <2>2, <2>3 DEF Shape, TypeOK, RunsOK, FlowOK, ChildOK
<1>5. StepsOK(r)' /\ SlotOK(r)'
  BY <1>1, <1>2 DEF StepsOK, SlotOK, TypeOK, Acted, run, exec, tool, delivery, child, Active,
     Ended, Fenced, AgentSteps, ParentSteps
<1>6. ObservedOK(r)'
  BY <1>1, <1>2 DEF ObservedOK, StepsOK, TypeOK, Acted, run, exec, tool, delivery, child,
     Active, Ended, Fenced, AgentSteps, ParentSteps
<1>7. SavedOK(r)'
  BY <1>1, <1>2 DEF SavedOK, StepsOK, TypeOK, Acted, run, exec, tool, delivery, child, Active,
     Ended, Fenced, AgentSteps, ParentSteps
<1>8. LimitsHold'
  BY <1>1, <1>2, <1>4, NoneOpens DEF TypeOK, Acted, run, exec, tool, delivery, child, Active,
     Ended, Fenced, AgentSteps, ParentSteps
<1> QED
  BY <1>3, <1>4, <1>5, <1>6, <1>7, <1>8, RowMoves DEF RowOK

\* Refusals, replays and a save that has nothing to do.
LEMMA OnlyAnswersSound ==
  ASSUME Sound, NEW r \in Runs,
         \/ PrepareRefused(r) \/ PrepareReplay(r) \/ ObserveMissing(r)
         \/ SaveNothing(r) \/ CompleteRefused(r)
  PROVE  Sound'
<1>1. Shape /\ RunsOK /\ FlowOK /\ ChildOK
      /\ TypeOK /\ StepsOK(r) /\ SlotOK(r) /\ ObservedOK(r) /\ SavedOK(r)
      /\ (r \in Parents <=> r \notin Agents) /\ Tries \in Nat \ {0} /\ Resets \in Nat
  BY Row
<1>2. CASE PrepareRefused(r)
  BY <1>2, AnswerSound DEF PrepareRefused, Fenced
<1>3. CASE PrepareReplay(r)
  BY <1>3, AnswerSound DEF PrepareReplay, Fenced
<1>4. CASE ObserveMissing(r)
  BY <1>1, <1>4, AnswerSound DEF ObserveMissing, Replays, Fenced, ObservedOK
<1>5. CASE SaveNothing(r)
  BY <1>1, <1>5, AnswerSound DEF SaveNothing, Fenced, SavedOK
<1>6. CASE CompleteRefused(r)
  BY <1>6, AnswerSound DEF CompleteRefused, Fenced
<1> QED
  BY <1>2, <1>3, <1>4, <1>5, <1>6

\* An admission below both limits keeps them.
LEMMA OneOpens ==
  ASSUME Sound, NEW r \in Runs, Admits(r), Shape',
         exe' = [exe EXCEPT ![r] = IF @ = "none" THEN "queued" ELSE @]
  PROVE  LimitsHold'
<1>1. CASE exe[r] # "none"
  BY <1>1, NoneOpens DEF Sound, Shape, TypeOK
<1>2. CASE exe[r] = "none"
  <2> DEFINE open(R) == {s \in R : exe[s] \notin {"none"} \cup Ended}
             mine(s) == {t \in Runs : AccountOf[t] = AccountOf[s]}
  <2>1. exe \in [Runs -> {"none"} \cup Active \cup Ended] /\ Active \cap ({"none"} \cup Ended) = {}
    BY DEF Sound, Shape, TypeOK, Active, Ended
  <2>2. \A R \in SUBSET Runs : Children(R) = open(R)
    BY <2>1 DEF Children, Counts
  <2>3. /\ exe' = [exe EXCEPT ![r] = "queued"] /\ "queued" \notin {"none"} \cup Ended
        /\ Cardinality(open(Runs)) < GlobalLimit /\ Cardinality(open(mine(r))) < AccountLimit
    BY <1>2, <2>2 DEF Admits, Ended
  <2>4. ASSUME NEW R \in SUBSET Runs
        PROVE  /\ IsFiniteSet(open(R)) /\ Cardinality(open(R)) \in Nat
               /\ r \notin R => open(R)' = open(R)
               /\ r \in R => Cardinality(open(R)') = Cardinality(open(R)) + 1
    <3>1. IsFiniteSet(open(R)) /\ Cardinality(open(R)) \in Nat
      BY InvocationAssumption, FS_Subset, FS_CardinalityType DEF Runs
    <3>2. r \notin R => open(R)' = open(R)
      BY <2>1, <2>3
    <3>3. r \in R => open(R)' = open(R) \cup {r} /\ r \notin open(R)
      BY <1>2, <2>1, <2>3
    <3> QED
      BY <3>1, <3>2, <3>3, FS_AddElement
  <2>5. ASSUME NEW s \in Runs
        PROVE  Cardinality(open(mine(s))') <= AccountLimit
    <3>1. mine(s) \in SUBSET Runs /\ Cardinality(open(mine(s))) <= AccountLimit
      BY DEF Sound, LimitsHold
    <3>2. CASE r \in mine(s)
      <4>1. mine(s) = mine(r)
        BY <3>2
      <4>2. Cardinality(open(mine(s))) < AccountLimit
        BY <2>3, <4>1
      <4> HIDE DEF mine, open
      <4> QED
        BY <2>4, <3>1, <3>2, <4>2, InvocationAssumption
    <3>3. CASE r \notin mine(s)
      <4> HIDE DEF mine, open
      <4> QED
        BY <2>4, <3>1, <3>3
    <3> QED
      BY <3>2, <3>3
  <2>6. Cardinality(open(Runs)') <= GlobalLimit
    <3> HIDE DEF mine, open
    <3> QED
      BY <2>3, <2>4, InvocationAssumption
  <2> QED
    BY <2>5, <2>6 DEF LimitsHold
<1> QED
  BY <1>1, <1>2

\* Prepare inserts the child Execution under the capacity of the deployment and the account.
LEMMA PrepareSound ==
  ASSUME Sound, NEW r \in Runs, Prepare(r)
  PROVE  Sound'
<1>1. Shape /\ RunsOK /\ FlowOK /\ ChildOK
      /\ TypeOK /\ StepsOK(r) /\ SlotOK(r) /\ ObservedOK(r) /\ SavedOK(r)
      /\ (r \in Parents <=> r \notin Agents) /\ Tries \in Nat \ {0} /\ Resets \in Nat
  BY Row
<1>2. PICK a \in {"child", "committed"} :
        /\ By(r, "prepare", a) /\ op[r] = "open" /\ Admits(r)
        /\ exe' = [exe EXCEPT ![r] = IF @ = "none" THEN "queued" ELSE @]
        /\ UNCHANGED <<run, token, result, tool, delivery, child, resets>>
  BY DEF Prepare, PreparedAnswer
<1>3. Acted(r, "prepare", a)
  BY <1>2, ByActs DEF Fenced
<1>4. Still(r)
  BY <1>1, <1>2, <1>3 DEF Shape, TypeOK, Still, Acted, run, exec, tool, delivery, child, Active,
     Ended, Fenced, AgentSteps, ParentSteps
<1>5. Shape'
  <2>1. RunsOK'
    BY <1>1, <1>2, <1>3 DEF RunsOK, FlowOK, ChildOK, Acted, run, exec, tool, delivery, child,
       Active, Ended, Fenced, AgentSteps, ParentSteps
  <2>2. FlowOK'
    BY <1>1, <1>2, <1>3 DEF RunsOK, FlowOK, ChildOK, Acted, run, exec, tool, delivery, child,
       Active, Ended, Fenced, AgentSteps, ParentSteps
  <2>3. ChildOK'
    BY <1>1, <1>2, <1>3 DEF RunsOK, FlowOK, ChildOK, Acted, run, exec, tool, delivery, child,
       Active, Ended, Fenced, AgentSteps, ParentSteps
  <2> QED
    BY <2>1, <2>2, <2>3 DEF Shape, TypeOK, RunsOK, FlowOK, ChildOK
<1>6. StepsOK(r)' /\ SlotOK(r)'
  BY <1>1, <1>2, <1>3 DEF StepsOK, SlotOK, TypeOK, Acted, run, exec, tool, delivery, child,
     Active, Ended, Fenced, AgentSteps, ParentSteps
<1>7. ObservedOK(r)'
  BY <1>1, <1>2, <1>3 DEF ObservedOK, StepsOK, TypeOK, Acted, run, exec, tool, delivery, child,
     Active, Ended, Fenced, AgentSteps, ParentSteps
<1>8. SavedOK(r)'
  BY <1>1, <1>2, <1>3 DEF SavedOK, StepsOK, TypeOK, Acted, run, exec, tool, delivery, child,
     Active, Ended, Fenced, AgentSteps, ParentSteps
<1>9. LimitsHold'
  BY <1>2, <1>5, OneOpens
<1> QED
  BY <1>4, <1>5, <1>6, <1>7, <1>8, <1>9, RowMoves DEF RowOK

\* _observe: event, completion and observation row in one transaction.
LEMMA ObserveCommits ==
  ASSUME Sound, NEW r \in Runs, NEW o \in ({"error"} \cup Outcomes) \ {"uncertain", "cancelled"},
         IF exe[r] = "none" THEN o = "error" ELSE o = result[r],
         op[r] = "open", events[r] = 0, By(r, "observe", "ok"),
         op' = [op EXCEPT ![r] = o], events' = [events EXCEPT ![r] = @ + 1],
         observed' = [observed EXCEPT ![r] = o # "error"],
         UNCHANGED <<run, exec, result, delivery, child, resets>>
  PROVE  Sound'
<1>1. Shape /\ RunsOK /\ FlowOK /\ ChildOK
      /\ TypeOK /\ StepsOK(r) /\ SlotOK(r) /\ ObservedOK(r) /\ SavedOK(r)
      /\ (r \in Parents <=> r \notin Agents) /\ Tries \in Nat \ {0} /\ Resets \in Nat
  BY Row
<1>2. "error" \notin Outcomes /\ "none" \notin Outcomes /\ "open" \notin Outcomes
  BY InvocationAssumption
<1>3. Acted(r, "observe", "ok")
  BY ByActs DEF Fenced
<1>4. r \in Agents /\ op'[r] = o /\ events'[r] = 1
  BY <1>1, <1>3 DEF TypeOK, StepsOK, Acted, ParentSteps
<1>5. observed'[r] => o = result[r] /\ o # "error"
  BY <1>1, <1>2 DEF TypeOK
<1>6. o # "error" => observed'[r]
  BY <1>1 DEF TypeOK
<1>7. Still(r)
  BY <1>1, <1>2, <1>3, <1>4, <1>5, <1>6 DEF Shape, TypeOK, Still, Acted, run, exec, tool,
     delivery, child, Active, Ended, Fenced, AgentSteps, ParentSteps
<1>8. Shape'
  <2>1. RunsOK'
    BY <1>1, <1>2, <1>3, <1>4, <1>5, <1>6 DEF RunsOK, FlowOK, ChildOK, Acted, run, exec, tool,
       delivery, child, Active, Ended, Fenced, AgentSteps, ParentSteps
  <2>2. FlowOK'
    BY <1>1, <1>2, <1>3, <1>4, <1>5, <1>6 DEF RunsOK, FlowOK, ChildOK, Acted, run, exec, tool,
       delivery, child, Active, Ended, Fenced, AgentSteps, ParentSteps
  <2>3. ChildOK'
    BY <1>1, <1>2, <1>3, <1>4, <1>5, <1>6 DEF RunsOK, FlowOK, ChildOK, Acted, run, exec, tool,
       delivery, child, Active, Ended, Fenced, AgentSteps, ParentSteps
  <2> QED
    BY <2>1, <2>2, <2>3 DEF Shape, TypeOK, RunsOK, FlowOK, ChildOK
<1>9. StepsOK(r)' /\ SlotOK(r)'
  BY <1>1, <1>2, <1>3, <1>4, <1>5, <1>6 DEF StepsOK, SlotOK, TypeOK, Acted, run, exec, tool,
     delivery, child, Active, Ended, Fenced, AgentSteps, ParentSteps
<1>10. ObservedOK(r)'
  BY <1>1, <1>2, <1>3, <1>4, <1>5, <1>6 DEF ObservedOK, StepsOK, TypeOK, Acted, run, exec, tool,
     delivery, child, Active, Ended, Fenced, AgentSteps, ParentSteps
<1>11. SavedOK(r)'
  BY <1>1, <1>2, <1>3, <1>4, <1>5, <1>6 DEF SavedOK, StepsOK, TypeOK, Acted, run, exec, tool,
     delivery, child, Active, Ended, Fenced, AgentSteps, ParentSteps
<1>12. LimitsHold'
  BY <1>1, <1>2, <1>3, <1>4, <1>5, <1>6, <1>8, NoneOpens DEF TypeOK, Acted, run, exec, tool,
     delivery, child, Active, Ended, Fenced, AgentSteps, ParentSteps
<1> QED
  BY <1>7, <1>8, <1>9, <1>10, <1>11, <1>12, RowMoves DEF RowOK

\* Observe replays, refuses or commits.
LEMMA ObserveSound ==
  ASSUME Sound, NEW r \in Runs, ObserveResult(r)
  PROVE  Sound'
<1>1. PICK o \in {"error"} \cup Outcomes :
        (IF exe[r] = "none" THEN o = "error" ELSE o = result[r]) /\ Observe(r, o)
  BY DEF ObserveResult
<1>2. UNCHANGED <<run, exec, result, delivery, child, resets>>
  BY <1>1 DEF Observe
<1>3. CASE By(r, "observe", "ok") /\ UNCHANGED tool
  BY <1>2, <1>3, AnswerSound DEF Fenced
<1>4. CASE By(r, "observe", "refused") /\ UNCHANGED tool /\ op[r] = "open"
  <2>1. r \in Agents => events[r] = 0
    BY <1>4, Row DEF ObservedOK
  <2> QED
    BY <1>2, <1>4, <2>1, AnswerSound DEF Fenced
<1>5. CASE /\ o \notin {"uncertain", "cancelled"} /\ events[r] = 0 /\ op[r] = "open"
           /\ By(r, "observe", "ok")
           /\ op' = [op EXCEPT ![r] = o] /\ events' = [events EXCEPT ![r] = @ + 1]
           /\ observed' = [observed EXCEPT ![r] = o # "error"]
  BY <1>1, <1>2, <1>5, ObserveCommits
<1> QED
  BY <1>1, <1>3, <1>4, <1>5 DEF Observe, Replays

\* The report gets its artifact version.
LEMMA PublishSound ==
  ASSUME Sound, NEW r \in Runs, Publish(r)
  PROVE  Sound'
<1>1. Shape /\ RunsOK /\ FlowOK /\ ChildOK
      /\ TypeOK /\ StepsOK(r) /\ SlotOK(r) /\ ObservedOK(r) /\ SavedOK(r)
      /\ (r \in Parents <=> r \notin Agents) /\ Tries \in Nat \ {0} /\ Resets \in Nat
  BY Row
<1>2. /\ By(r, "publish", "ok") /\ view' = [view EXCEPT ![r] = TRUE]
      /\ UNCHANGED <<run, exec, result, tool, intent, saved, child, resets>>
  BY DEF Publish
<1>3. Acted(r, "publish", "ok")
  BY <1>2, ByActs DEF Fenced
<1>4. Still(r)
  BY <1>1, <1>2, <1>3 DEF Shape, TypeOK, Still, Acted, run, exec, tool, delivery, child, Active,
     Ended, Fenced, AgentSteps, ParentSteps
<1>5. Shape'
  <2>1. RunsOK'
    BY <1>1, <1>2, <1>3 DEF RunsOK, FlowOK, ChildOK, Acted, run, exec, tool, delivery, child,
       Active, Ended, Fenced, AgentSteps, ParentSteps
  <2>2. FlowOK'
    BY <1>1, <1>2, <1>3 DEF RunsOK, FlowOK, ChildOK, Acted, run, exec, tool, delivery, child,
       Active, Ended, Fenced, AgentSteps, ParentSteps
  <2>3. ChildOK'
    BY <1>1, <1>2, <1>3 DEF RunsOK, FlowOK, ChildOK, Acted, run, exec, tool, delivery, child,
       Active, Ended, Fenced, AgentSteps, ParentSteps
  <2> QED
    BY <2>1, <2>2, <2>3 DEF Shape, TypeOK, RunsOK, FlowOK, ChildOK
<1>6. StepsOK(r)' /\ SlotOK(r)'
  BY <1>1, <1>2, <1>3 DEF StepsOK, SlotOK, TypeOK, Acted, run, exec, tool, delivery, child,
     Active, Ended, Fenced, AgentSteps, ParentSteps
<1>7. ObservedOK(r)'
  BY <1>1, <1>2, <1>3 DEF ObservedOK, StepsOK, TypeOK, Acted, run, exec, tool, delivery, child,
     Active, Ended, Fenced, AgentSteps, ParentSteps
<1>8. SavedOK(r)'
  BY <1>1, <1>2, <1>3 DEF SavedOK, StepsOK, TypeOK, Acted, run, exec, tool, delivery, child,
     Active, Ended, Fenced, AgentSteps, ParentSteps
<1>9. LimitsHold'
  BY <1>1, <1>2, <1>3, <1>5, NoneOpens DEF TypeOK, Acted, run, exec, tool, delivery, child,
     Active, Ended, Fenced, AgentSteps, ParentSteps
<1> QED
  BY <1>4, <1>5, <1>6, <1>7, <1>8, <1>9, RowMoves DEF RowOK

\* The catalog keeps the report once.
LEMMA SaveSound ==
  ASSUME Sound, NEW r \in Runs, Save(r)
  PROVE  Sound'
<1>1. Shape /\ RunsOK /\ FlowOK /\ ChildOK
      /\ TypeOK /\ StepsOK(r) /\ SlotOK(r) /\ ObservedOK(r) /\ SavedOK(r)
      /\ (r \in Parents <=> r \notin Agents) /\ Tries \in Nat \ {0} /\ Resets \in Nat
  BY Row
<1>2. /\ By(r, "saving", "ok") /\ saved' = [saved EXCEPT ![r] = IF @ = 0 THEN 1 ELSE @]
      /\ UNCHANGED <<run, exec, result, tool, view, intent, child, resets>>
  BY DEF Save, SaveEntry
<1>3. Acted(r, "saving", "ok")
  BY <1>2, ByActs DEF Fenced
<1>4. saved'[r] = 1 /\ \A s \in Runs \ {r} : saved'[s] = saved[s]
  BY <1>1, <1>2 DEF RunsOK, SavedOK
<1>5. Still(r)
  BY <1>1, <1>2, <1>3, <1>4 DEF Shape, TypeOK, Still, Acted, run, exec, tool, delivery, child,
     Active, Ended, Fenced, AgentSteps, ParentSteps
<1>6. Shape'
  <2>1. RunsOK'
    BY <1>1, <1>2, <1>3, <1>4 DEF RunsOK, FlowOK, ChildOK, Acted, run, exec, tool, delivery,
       child, Active, Ended, Fenced, AgentSteps, ParentSteps
  <2>2. FlowOK'
    BY <1>1, <1>2, <1>3, <1>4 DEF RunsOK, FlowOK, ChildOK, Acted, run, exec, tool, delivery,
       child, Active, Ended, Fenced, AgentSteps, ParentSteps
  <2>3. ChildOK'
    BY <1>1, <1>2, <1>3, <1>4 DEF RunsOK, FlowOK, ChildOK, Acted, run, exec, tool, delivery,
       child, Active, Ended, Fenced, AgentSteps, ParentSteps
  <2> QED
    BY <2>1, <2>2, <2>3 DEF Shape, TypeOK, RunsOK, FlowOK, ChildOK
<1>7. StepsOK(r)' /\ SlotOK(r)'
  BY <1>1, <1>2, <1>3, <1>4 DEF StepsOK, SlotOK, TypeOK, Acted, run, exec, tool, delivery,
     child, Active, Ended, Fenced, AgentSteps, ParentSteps
<1>8. ObservedOK(r)'
  BY <1>1, <1>2, <1>3, <1>4 DEF ObservedOK, StepsOK, TypeOK, Acted, run, exec, tool, delivery,
     child, Active, Ended, Fenced, AgentSteps, ParentSteps
<1>9. SavedOK(r)'
  BY <1>1, <1>2, <1>3, <1>4 DEF SavedOK, StepsOK, TypeOK, Acted, run, exec, tool, delivery,
     child, Active, Ended, Fenced, AgentSteps, ParentSteps
<1>10. LimitsHold'
  BY <1>1, <1>2, <1>3, <1>4, <1>6, NoneOpens DEF TypeOK, Acted, run, exec, tool, delivery,
     child, Active, Ended, Fenced, AgentSteps, ParentSteps
<1> QED
  BY <1>5, <1>6, <1>7, <1>8, <1>9, <1>10, RowMoves DEF RowOK

\* The catalog refuses and the intent keeps the failure.
LEMMA SaveRefusedSound ==
  ASSUME Sound, NEW r \in Runs, SaveRefused(r)
  PROVE  Sound'
<1>1. Shape /\ RunsOK /\ FlowOK /\ ChildOK
      /\ TypeOK /\ StepsOK(r) /\ SlotOK(r) /\ ObservedOK(r) /\ SavedOK(r)
      /\ (r \in Parents <=> r \notin Agents) /\ Tries \in Nat \ {0} /\ Resets \in Nat
  BY Row
<1>2. /\ By(r, "saving", "refused") /\ saved[r] = 0 /\ intent[r] \notin {"none", "succeeded"}
      /\ intent' = [intent EXCEPT ![r] = IF @ \in {"pending", "refused"} THEN "refused" ELSE @]
      /\ UNCHANGED <<run, exec, result, tool, view, saved, child, resets>>
  BY DEF SaveRefused, Record
<1>3. Acted(r, "saving", "refused")
  BY <1>2, ByActs DEF Fenced
<1>4. Still(r)
  BY <1>1, <1>2, <1>3 DEF Shape, TypeOK, Still, Acted, run, exec, tool, delivery, child, Active,
     Ended, Fenced, AgentSteps, ParentSteps
<1>5. Shape'
  <2>1. RunsOK'
    BY <1>1, <1>2, <1>3 DEF RunsOK, FlowOK, ChildOK, Acted, run, exec, tool, delivery, child,
       Active, Ended, Fenced, AgentSteps, ParentSteps
  <2>2. FlowOK'
    BY <1>1, <1>2, <1>3 DEF RunsOK, FlowOK, ChildOK, Acted, run, exec, tool, delivery, child,
       Active, Ended, Fenced, AgentSteps, ParentSteps
  <2>3. ChildOK'
    BY <1>1, <1>2, <1>3 DEF RunsOK, FlowOK, ChildOK, Acted, run, exec, tool, delivery, child,
       Active, Ended, Fenced, AgentSteps, ParentSteps
  <2> QED
    BY <2>1, <2>2, <2>3 DEF Shape, TypeOK, RunsOK, FlowOK, ChildOK
<1>6. StepsOK(r)' /\ SlotOK(r)'
  BY <1>1, <1>2, <1>3 DEF StepsOK, SlotOK, TypeOK, Acted, run, exec, tool, delivery, child,
     Active, Ended, Fenced, AgentSteps, ParentSteps
<1>7. ObservedOK(r)'
  BY <1>1, <1>2, <1>3 DEF ObservedOK, StepsOK, TypeOK, Acted, run, exec, tool, delivery, child,
     Active, Ended, Fenced, AgentSteps, ParentSteps
<1>8. SavedOK(r)'
  BY <1>1, <1>2, <1>3 DEF SavedOK, StepsOK, TypeOK, Acted, run, exec, tool, delivery, child,
     Active, Ended, Fenced, AgentSteps, ParentSteps
<1>9. LimitsHold'
  BY <1>1, <1>2, <1>3, <1>5, NoneOpens DEF TypeOK, Acted, run, exec, tool, delivery, child,
     Active, Ended, Fenced, AgentSteps, ParentSteps
<1> QED
  BY <1>4, <1>5, <1>6, <1>7, <1>8, <1>9, RowMoves DEF RowOK

\* The intent is recorded after the catalog.
LEMMA SaveRecordedSound ==
  ASSUME Sound, NEW r \in Runs, SaveRecorded(r)
  PROVE  Sound'
<1>1. Shape /\ RunsOK /\ FlowOK /\ ChildOK
      /\ TypeOK /\ StepsOK(r) /\ SlotOK(r) /\ ObservedOK(r) /\ SavedOK(r)
      /\ (r \in Parents <=> r \notin Agents) /\ Tries \in Nat \ {0} /\ Resets \in Nat
  BY Row
<1>2. /\ By(r, "saved", "ok") /\ intent' = [intent EXCEPT ![r] = IF @ \in {"pending", "refused"} THEN "succeeded" ELSE @]
      /\ UNCHANGED <<run, exec, result, tool, view, saved, child, resets>>
  BY DEF SaveRecorded, Record
<1>3. Acted(r, "saved", "ok")
  BY <1>2, ByActs DEF Fenced
<1>4. Still(r)
  BY <1>1, <1>2, <1>3 DEF Shape, TypeOK, Still, Acted, run, exec, tool, delivery, child, Active,
     Ended, Fenced, AgentSteps, ParentSteps
<1>5. Shape'
  <2>1. RunsOK'
    BY <1>1, <1>2, <1>3 DEF RunsOK, FlowOK, ChildOK, Acted, run, exec, tool, delivery, child,
       Active, Ended, Fenced, AgentSteps, ParentSteps
  <2>2. FlowOK'
    BY <1>1, <1>2, <1>3 DEF RunsOK, FlowOK, ChildOK, Acted, run, exec, tool, delivery, child,
       Active, Ended, Fenced, AgentSteps, ParentSteps
  <2>3. ChildOK'
    BY <1>1, <1>2, <1>3 DEF RunsOK, FlowOK, ChildOK, Acted, run, exec, tool, delivery, child,
       Active, Ended, Fenced, AgentSteps, ParentSteps
  <2> QED
    BY <2>1, <2>2, <2>3 DEF Shape, TypeOK, RunsOK, FlowOK, ChildOK
<1>6. StepsOK(r)' /\ SlotOK(r)'
  BY <1>1, <1>2, <1>3 DEF StepsOK, SlotOK, TypeOK, Acted, run, exec, tool, delivery, child,
     Active, Ended, Fenced, AgentSteps, ParentSteps
<1>7. ObservedOK(r)'
  BY <1>1, <1>2, <1>3 DEF ObservedOK, StepsOK, TypeOK, Acted, run, exec, tool, delivery, child,
     Active, Ended, Fenced, AgentSteps, ParentSteps
<1>8. SavedOK(r)'
  BY <1>1, <1>2, <1>3 DEF SavedOK, StepsOK, TypeOK, Acted, run, exec, tool, delivery, child,
     Active, Ended, Fenced, AgentSteps, ParentSteps
<1>9. LimitsHold'
  BY <1>1, <1>2, <1>3, <1>5, NoneOpens DEF TypeOK, Acted, run, exec, tool, delivery, child,
     Active, Ended, Fenced, AgentSteps, ParentSteps
<1> QED
  BY <1>4, <1>5, <1>6, <1>7, <1>8, <1>9, RowMoves DEF RowOK

\* A Run ends or is being cancelled: its child Execution ends or is being cancelled.
LEMMA RunToMoves ==
  ASSUME Sound, NEW r \in Runs, NEW st \in {"cancelling"} \cup Ended, RunTo(r, st)
  PROVE  /\ runSt' \in [Runs -> {"running", "cancelling"} \cup Ended]
         /\ exe' \in [Runs -> {"none"} \cup Active \cup Ended] /\ token' \in [Runs -> Nat]
         /\ \A s \in Runs \ {r} : runSt'[s] = runSt[s] /\ exe'[s] = exe[s] /\ token'[s] = token[s]
         /\ runSt'[r] = st /\ token[r] <= token'[r]
         /\ exe'[r] \in Active => exe[r] \in Active /\ st = "cancelling"
         /\ holds[r] <= token'[r] /\ \A s \in Runs : ghosts[s] \subseteq 0 .. token'[s]
<1>1. TypeOK
  BY Row
<1>2. /\ runSt' \in [Runs -> {"running", "cancelling"} \cup Ended]
      /\ exe' \in [Runs -> {"none"} \cup Active \cup Ended] /\ token' \in [Runs -> Nat]
  BY <1>1 DEF RunTo, Project, TypeOK, Active, Ended
<1>3. /\ \A s \in Runs \ {r} : runSt'[s] = runSt[s] /\ exe'[s] = exe[s] /\ token'[s] = token[s]
      /\ runSt'[r] = st /\ token[r] <= token'[r]
      /\ exe'[r] \in Active => exe[r] \in Active /\ st = "cancelling"
  BY <1>1 DEF RunTo, Project, TypeOK, Active, Ended
<1>4. \A s \in Runs : ghosts[s] \subseteq 0 .. token[s] /\ token[s] \in Nat /\ token'[s] \in Nat
                    /\ token[s] <= token'[s]
  BY <1>1, <1>2, <1>3 DEF TypeOK
<1>5. holds[r] <= token'[r]
  <2>1. holds[r] \in Nat /\ token[r] \in Nat /\ token'[r] \in Nat /\ holds[r] <= token[r]
    BY <1>1, <1>2, Row DEF TypeOK, StepsOK
  <2> QED
    BY <1>3, <2>1
<1> QED
  BY <1>2, <1>3, <1>4, <1>5

\* _complete closes the Operation of a caller only with a sufficient, saved report.
LEMMA CloseOperationSound ==
  ASSUME Sound, NEW r \in Runs, CloseOperation(r)
  PROVE  Sound'
<1>1. Shape /\ RunsOK /\ FlowOK /\ ChildOK
      /\ TypeOK /\ StepsOK(r) /\ SlotOK(r) /\ ObservedOK(r) /\ SavedOK(r)
      /\ (r \in Parents <=> r \notin Agents) /\ Tries \in Nat \ {0} /\ Resets \in Nat
  BY Row
<1>2. /\ op[r] = "open" /\ result[r] = "succeeded" /\ op' = [op EXCEPT ![r] = "succeeded"]
      /\ intent[r] # "none" => intent[r] = "succeeded" /\ saved[r] > 0
      /\ wpc[r] = "complete" \/ late[r] = "complete"
      /\ UNCHANGED <<runSt, exe, token, result, events, observed, view, intent, saved>>
      /\ UNCHANGED <<wpc, ans, tries, late, status, why, cpc, holds, ghosts, atts, resets>>
  BY DEF CloseOperation, SavedIfRequired, Sufficient, During, run, exec, delivery, flow, child
<1>3. Still(r)
  BY <1>1, <1>2 DEF Shape, TypeOK, Still, Active, Ended, Fenced, AgentSteps, ParentSteps
<1>4. Shape'
  <2>1. RunsOK'
    BY <1>1, <1>2 DEF RunsOK, FlowOK, ChildOK, Active, Ended, Fenced, AgentSteps, ParentSteps
  <2>2. FlowOK'
    BY <1>1, <1>2 DEF RunsOK, FlowOK, ChildOK, Active, Ended, Fenced, AgentSteps, ParentSteps
  <2>3. ChildOK'
    BY <1>1, <1>2 DEF RunsOK, FlowOK, ChildOK, Active, Ended, Fenced, AgentSteps, ParentSteps
  <2> QED
    BY <2>1, <2>2, <2>3 DEF Shape, TypeOK, RunsOK, FlowOK, ChildOK
<1>5. StepsOK(r)' /\ SlotOK(r)'
  BY <1>1, <1>2 DEF StepsOK, SlotOK, TypeOK, Active, Ended, Fenced, AgentSteps, ParentSteps
<1>6. ObservedOK(r)'
  BY <1>1, <1>2 DEF ObservedOK, StepsOK, TypeOK, Active, Ended, Fenced, AgentSteps,
     ParentSteps
<1>7. SavedOK(r)'
  BY <1>1, <1>2 DEF SavedOK, StepsOK, TypeOK, Active, Ended, Fenced, AgentSteps, ParentSteps
<1>8. LimitsHold'
  BY <1>1, <1>2, <1>4, NoneOpens DEF TypeOK, Active, Ended, Fenced, AgentSteps, ParentSteps
<1> QED
  BY <1>3, <1>4, <1>5, <1>6, <1>7, <1>8, RowMoves DEF RowOK

\* _complete ends the Run after its Operation was closed.
LEMMA CompleteSound ==
  ASSUME Sound, NEW r \in Runs, Complete(r)
  PROVE  Sound'
<1>1. Shape /\ RunsOK /\ FlowOK /\ ChildOK
      /\ TypeOK /\ StepsOK(r) /\ SlotOK(r) /\ ObservedOK(r) /\ SavedOK(r)
      /\ (r \in Parents <=> r \notin Agents) /\ Tries \in Nat \ {0} /\ Resets \in Nat
  BY Row
<1>2. /\ By(r, "complete", "ok") /\ op[r] # "open" /\ RunTo(r, "succeeded")
      /\ UNCHANGED <<result, tool, delivery, child, resets>>
  BY DEF Complete
<1>3. Acted(r, "complete", "ok")
  BY <1>2, ByActs DEF Fenced
<1>4. /\ runSt' \in [Runs -> {"running", "cancelling"} \cup Ended]
      /\ exe' \in [Runs -> {"none"} \cup Active \cup Ended] /\ token' \in [Runs -> Nat]
      /\ \A s \in Runs \ {r} : runSt'[s] = runSt[s] /\ exe'[s] = exe[s] /\ token'[s] = token[s]
      /\ runSt'[r] = "succeeded" /\ token[r] <= token'[r]
      /\ exe'[r] \in Active => exe[r] \in Active /\ "succeeded" = "cancelling"
      /\ holds[r] <= token'[r] /\ \A s \in Runs : ghosts[s] \subseteq 0 .. token'[s]
  BY <1>2, RunToMoves DEF Ended
<1>5. Still(r)
  BY <1>1, <1>2, <1>3, <1>4 DEF Shape, TypeOK, Still, Acted, run, exec, tool, delivery, child,
     Active, Ended, Fenced, AgentSteps, ParentSteps
<1>6. Shape'
  <2>1. RunsOK'
    BY <1>1, <1>2, <1>3, <1>4 DEF RunsOK, FlowOK, ChildOK, Acted, run, exec, tool, delivery,
       child, Active, Ended, Fenced, AgentSteps, ParentSteps
  <2>2. FlowOK'
    BY <1>1, <1>2, <1>3, <1>4 DEF RunsOK, FlowOK, ChildOK, Acted, run, exec, tool, delivery,
       child, Active, Ended, Fenced, AgentSteps, ParentSteps
  <2>3. ChildOK'
    BY <1>1, <1>2, <1>3, <1>4 DEF RunsOK, FlowOK, ChildOK, Acted, run, exec, tool, delivery,
       child, Active, Ended, Fenced, AgentSteps, ParentSteps
  <2> QED
    BY <2>1, <2>2, <2>3 DEF Shape, TypeOK, RunsOK, FlowOK, ChildOK
<1>7. StepsOK(r)' /\ SlotOK(r)'
  BY <1>1, <1>2, <1>3, <1>4 DEF StepsOK, SlotOK, TypeOK, Acted, run, exec, tool, delivery,
     child, Active, Ended, Fenced, AgentSteps, ParentSteps
<1>8. ObservedOK(r)'
  BY <1>1, <1>2, <1>3, <1>4 DEF ObservedOK, StepsOK, TypeOK, Acted, run, exec, tool, delivery,
     child, Active, Ended, Fenced, AgentSteps, ParentSteps
<1>9. SavedOK(r)'
  BY <1>1, <1>2, <1>3, <1>4 DEF SavedOK, StepsOK, TypeOK, Acted, run, exec, tool, delivery,
     child, Active, Ended, Fenced, AgentSteps, ParentSteps
<1>10. LimitsHold'
  BY <1>1, <1>2, <1>3, <1>4, <1>6, NoneOpens DEF TypeOK, Acted, run, exec, tool, delivery,
     child, Active, Ended, Fenced, AgentSteps, ParentSteps
<1> QED
  BY <1>5, <1>6, <1>7, <1>8, <1>9, <1>10, RowMoves DEF RowOK

\* A Run that had succeeded only answers.
LEMMA CompleteAgainSound ==
  ASSUME Sound, NEW r \in Runs, CompleteAgain(r)
  PROVE  Sound'
<1>1. Shape /\ RunsOK /\ FlowOK /\ ChildOK
      /\ TypeOK /\ StepsOK(r) /\ SlotOK(r) /\ ObservedOK(r) /\ SavedOK(r)
      /\ (r \in Parents <=> r \notin Agents) /\ Tries \in Nat \ {0} /\ Resets \in Nat
  BY Row
<1>2. Still(r)
  BY <1>1 DEF Shape, TypeOK, Still, CompleteAgain, run, exec, tool, delivery, child, Active,
     Ended, Fenced, AgentSteps, ParentSteps
<1>3. Shape'
  <2>1. RunsOK'
    BY <1>1 DEF RunsOK, FlowOK, ChildOK, CompleteAgain, run, exec, tool, delivery, child, Active,
       Ended, Fenced, AgentSteps, ParentSteps
  <2>2. FlowOK'
    BY <1>1 DEF RunsOK, FlowOK, ChildOK, CompleteAgain, run, exec, tool, delivery, child, Active,
       Ended, Fenced, AgentSteps, ParentSteps
  <2>3. ChildOK'
    BY <1>1 DEF RunsOK, FlowOK, ChildOK, CompleteAgain, run, exec, tool, delivery, child, Active,
       Ended, Fenced, AgentSteps, ParentSteps
  <2> QED
    BY <2>1, <2>2, <2>3 DEF Shape, TypeOK, RunsOK, FlowOK, ChildOK
<1>4. StepsOK(r)' /\ SlotOK(r)'
  BY <1>1 DEF StepsOK, SlotOK, TypeOK, CompleteAgain, run, exec, tool, delivery, child, Active,
     Ended, Fenced, AgentSteps, ParentSteps
<1>5. ObservedOK(r)'
  BY <1>1 DEF ObservedOK, StepsOK, TypeOK, CompleteAgain, run, exec, tool, delivery, child,
     Active, Ended, Fenced, AgentSteps, ParentSteps
<1>6. SavedOK(r)'
  BY <1>1 DEF SavedOK, StepsOK, TypeOK, CompleteAgain, run, exec, tool, delivery, child, Active,
     Ended, Fenced, AgentSteps, ParentSteps
<1>7. LimitsHold'
  BY <1>1, <1>3, NoneOpens DEF TypeOK, CompleteAgain, run, exec, tool, delivery, child, Active,
     Ended, Fenced, AgentSteps, ParentSteps
<1> QED
  BY <1>2, <1>3, <1>4, <1>5, <1>6, <1>7, RowMoves DEF RowOK

\* _fail fails an intent whose save was refused.
LEMMA FailIntentSound ==
  ASSUME Sound, NEW r \in Runs, FailIntent(r)
  PROVE  Sound'
<1>1. Shape /\ RunsOK /\ FlowOK /\ ChildOK
      /\ TypeOK /\ StepsOK(r) /\ SlotOK(r) /\ ObservedOK(r) /\ SavedOK(r)
      /\ (r \in Parents <=> r \notin Agents) /\ Tries \in Nat \ {0} /\ Resets \in Nat
  BY Row
<1>2. /\ intent[r] = "refused" /\ intent' = [intent EXCEPT ![r] = "failed"]
      /\ UNCHANGED <<runSt, exe, token, result, op, events, observed, view, saved>>
      /\ UNCHANGED <<wpc, ans, tries, late, status, why, cpc, holds, ghosts, atts, resets>>
  BY DEF FailIntent, During, run, exec, tool, flow, child
<1>3. Still(r)
  BY <1>1, <1>2 DEF Shape, TypeOK, Still, Active, Ended, Fenced, AgentSteps, ParentSteps
<1>4. Shape'
  <2>1. RunsOK'
    BY <1>1, <1>2 DEF RunsOK, FlowOK, ChildOK, Active, Ended, Fenced, AgentSteps, ParentSteps
  <2>2. FlowOK'
    BY <1>1, <1>2 DEF RunsOK, FlowOK, ChildOK, Active, Ended, Fenced, AgentSteps, ParentSteps
  <2>3. ChildOK'
    BY <1>1, <1>2 DEF RunsOK, FlowOK, ChildOK, Active, Ended, Fenced, AgentSteps, ParentSteps
  <2> QED
    BY <2>1, <2>2, <2>3 DEF Shape, TypeOK, RunsOK, FlowOK, ChildOK
<1>5. StepsOK(r)' /\ SlotOK(r)'
  BY <1>1, <1>2 DEF StepsOK, SlotOK, TypeOK, Active, Ended, Fenced, AgentSteps, ParentSteps
<1>6. ObservedOK(r)'
  BY <1>1, <1>2 DEF ObservedOK, StepsOK, TypeOK, Active, Ended, Fenced, AgentSteps,
     ParentSteps
<1>7. SavedOK(r)'
  BY <1>1, <1>2 DEF SavedOK, StepsOK, TypeOK, Active, Ended, Fenced, AgentSteps, ParentSteps
<1>8. LimitsHold'
  BY <1>1, <1>2, <1>4, NoneOpens DEF TypeOK, Active, Ended, Fenced, AgentSteps, ParentSteps
<1> QED
  BY <1>3, <1>4, <1>5, <1>6, <1>7, <1>8, RowMoves DEF RowOK

\* _fail ends the Run.
LEMMA FailDeliverySound ==
  ASSUME Sound, NEW r \in Runs, FailDelivery(r)
  PROVE  Sound'
<1>1. Shape /\ RunsOK /\ FlowOK /\ ChildOK
      /\ TypeOK /\ StepsOK(r) /\ SlotOK(r) /\ ObservedOK(r) /\ SavedOK(r)
      /\ (r \in Parents <=> r \notin Agents) /\ Tries \in Nat \ {0} /\ Resets \in Nat
  BY Row
<1>2. /\ By(r, "failing", "ok") /\ RunTo(r, "failed")
      /\ UNCHANGED <<result, tool, delivery, child, resets>>
  BY DEF FailDelivery
<1>3. Acted(r, "failing", "ok")
  BY <1>2, ByActs DEF Fenced
<1>4. /\ runSt' \in [Runs -> {"running", "cancelling"} \cup Ended]
      /\ exe' \in [Runs -> {"none"} \cup Active \cup Ended] /\ token' \in [Runs -> Nat]
      /\ \A s \in Runs \ {r} : runSt'[s] = runSt[s] /\ exe'[s] = exe[s] /\ token'[s] = token[s]
      /\ runSt'[r] = "failed" /\ token[r] <= token'[r]
      /\ exe'[r] \in Active => exe[r] \in Active /\ "failed" = "cancelling"
      /\ holds[r] <= token'[r] /\ \A s \in Runs : ghosts[s] \subseteq 0 .. token'[s]
  BY <1>2, RunToMoves DEF Ended
<1>5. Still(r)
  BY <1>1, <1>2, <1>3, <1>4 DEF Shape, TypeOK, Still, Acted, run, exec, tool, delivery, child,
     Active, Ended, Fenced, AgentSteps, ParentSteps
<1>6. Shape'
  <2>1. RunsOK'
    BY <1>1, <1>2, <1>3, <1>4 DEF RunsOK, FlowOK, ChildOK, Acted, run, exec, tool, delivery,
       child, Active, Ended, Fenced, AgentSteps, ParentSteps
  <2>2. FlowOK'
    BY <1>1, <1>2, <1>3, <1>4 DEF RunsOK, FlowOK, ChildOK, Acted, run, exec, tool, delivery,
       child, Active, Ended, Fenced, AgentSteps, ParentSteps
  <2>3. ChildOK'
    BY <1>1, <1>2, <1>3, <1>4 DEF RunsOK, FlowOK, ChildOK, Acted, run, exec, tool, delivery,
       child, Active, Ended, Fenced, AgentSteps, ParentSteps
  <2> QED
    BY <2>1, <2>2, <2>3 DEF Shape, TypeOK, RunsOK, FlowOK, ChildOK
<1>7. StepsOK(r)' /\ SlotOK(r)'
  BY <1>1, <1>2, <1>3, <1>4 DEF StepsOK, SlotOK, TypeOK, Acted, run, exec, tool, delivery,
     child, Active, Ended, Fenced, AgentSteps, ParentSteps
<1>8. ObservedOK(r)'
  BY <1>1, <1>2, <1>3, <1>4 DEF ObservedOK, StepsOK, TypeOK, Acted, run, exec, tool, delivery,
     child, Active, Ended, Fenced, AgentSteps, ParentSteps
<1>9. SavedOK(r)'
  BY <1>1, <1>2, <1>3, <1>4 DEF SavedOK, StepsOK, TypeOK, Acted, run, exec, tool, delivery,
     child, Active, Ended, Fenced, AgentSteps, ParentSteps
<1>10. LimitsHold'
  BY <1>1, <1>2, <1>3, <1>4, <1>6, NoneOpens DEF TypeOK, Acted, run, exec, tool, delivery,
     child, Active, Ended, Fenced, AgentSteps, ParentSteps
<1> QED
  BY <1>5, <1>6, <1>7, <1>8, <1>9, <1>10, RowMoves DEF RowOK

\* The Run is cancelled or ends around its call.
LEMMA RunMovesSound ==
  ASSUME Sound, NEW r \in Runs, NEW st \in {"cancelling"} \cup Ended, RunTo(r, st),
         st = "succeeded" => r \in Agents,
         UNCHANGED <<result, tool, delivery, flow, child, resets>>
  PROVE  Sound'
<1>1. Shape /\ RunsOK /\ FlowOK /\ ChildOK
      /\ TypeOK /\ StepsOK(r) /\ SlotOK(r) /\ ObservedOK(r) /\ SavedOK(r)
      /\ (r \in Parents <=> r \notin Agents) /\ Tries \in Nat \ {0} /\ Resets \in Nat
  BY Row
<1>2. RunTo(r, st)
  OBVIOUS
<1>3. /\ runSt' \in [Runs -> {"running", "cancelling"} \cup Ended]
      /\ exe' \in [Runs -> {"none"} \cup Active \cup Ended] /\ token' \in [Runs -> Nat]
      /\ \A s \in Runs \ {r} : runSt'[s] = runSt[s] /\ exe'[s] = exe[s] /\ token'[s] = token[s]
      /\ runSt'[r] = st /\ token[r] <= token'[r]
      /\ exe'[r] \in Active => exe[r] \in Active /\ st = "cancelling"
      /\ holds[r] <= token'[r] /\ \A s \in Runs : ghosts[s] \subseteq 0 .. token'[s]
  BY RunToMoves
<1>4. Still(r)
  BY <1>1, <1>2, <1>3 DEF Shape, TypeOK, Still, flow, tool, delivery, child, Active, Ended,
     Fenced, AgentSteps, ParentSteps
<1>5. Shape'
  <2>1. RunsOK'
    BY <1>1, <1>2, <1>3 DEF RunsOK, FlowOK, ChildOK, flow, tool, delivery, child, Active, Ended,
       Fenced, AgentSteps, ParentSteps
  <2>2. FlowOK'
    BY <1>1, <1>2, <1>3 DEF RunsOK, FlowOK, ChildOK, flow, tool, delivery, child, Active, Ended,
       Fenced, AgentSteps, ParentSteps
  <2>3. ChildOK'
    BY <1>1, <1>2, <1>3 DEF RunsOK, FlowOK, ChildOK, flow, tool, delivery, child, Active, Ended,
       Fenced, AgentSteps, ParentSteps
  <2> QED
    BY <2>1, <2>2, <2>3 DEF Shape, TypeOK, RunsOK, FlowOK, ChildOK
<1>6. StepsOK(r)' /\ SlotOK(r)'
  BY <1>1, <1>2, <1>3 DEF StepsOK, SlotOK, TypeOK, flow, tool, delivery, child, Active, Ended,
     Fenced, AgentSteps, ParentSteps
<1>7. ObservedOK(r)'
  BY <1>1, <1>2, <1>3 DEF ObservedOK, StepsOK, TypeOK, flow, tool, delivery, child, Active,
     Ended, Fenced, AgentSteps, ParentSteps
<1>8. SavedOK(r)'
  BY <1>1, <1>2, <1>3 DEF SavedOK, StepsOK, TypeOK, flow, tool, delivery, child, Active, Ended,
     Fenced, AgentSteps, ParentSteps
<1>9. LimitsHold'
  BY <1>1, <1>2, <1>3, <1>5, NoneOpens DEF TypeOK, flow, tool, delivery, child, Active, Ended,
     Fenced, AgentSteps, ParentSteps
<1> QED
  BY <1>4, <1>5, <1>6, <1>7, <1>8, <1>9, RowMoves DEF RowOK

(* The child Workflow and its attempts.                                     *)

\* A child attempt takes a new token.
LEMMA AcquiresSound ==
  ASSUME Sound, NEW r \in Runs, ChildAcquires(r)
  PROVE  Sound'
<1>1. Shape /\ RunsOK /\ FlowOK /\ ChildOK
      /\ TypeOK /\ StepsOK(r) /\ SlotOK(r) /\ ObservedOK(r) /\ SavedOK(r)
      /\ (r \in Parents <=> r \notin Agents) /\ Tries \in Nat \ {0} /\ Resets \in Nat
  BY Row
<1>2. \A s \in Runs : ghosts[s] \subseteq 0 .. token[s] + 1
  BY <1>1 DEF TypeOK
<1>3. runSt[r] = "running"
  BY DEF ChildAcquires, Fence
<1>4. Still(r)
  BY <1>1, <1>2, <1>3 DEF Shape, TypeOK, Still, ChildAcquires, run, tool, delivery, flow,
     Active, Ended, Fenced, AgentSteps, ParentSteps
<1>5. Shape'
  <2>1. RunsOK'
    BY <1>1, <1>2, <1>3 DEF RunsOK, FlowOK, ChildOK, ChildAcquires, run, tool, delivery, flow,
       Active, Ended, Fenced, AgentSteps, ParentSteps
  <2>2. FlowOK'
    BY <1>1, <1>2, <1>3 DEF RunsOK, FlowOK, ChildOK, ChildAcquires, run, tool, delivery, flow,
       Active, Ended, Fenced, AgentSteps, ParentSteps
  <2>3. ChildOK'
    <3>1. token[r] \in Nat /\ atts[r] + 1 \in 0 .. Tries /\ atts \in [Runs -> 0 .. Tries]
      BY <1>1 DEF RunsOK, ChildOK, StepsOK, ChildAcquires
    <3>2. /\ atts' \in [Runs -> 0 .. Tries] /\ holds' \in [Runs -> Nat]
          /\ cpc' \in [Runs -> {"none", "idle", "working", "done", "failed", "cancelled"}]
      BY <1>1, <3>1 DEF ChildOK, ChildAcquires
    <3>3. ghosts' = ghosts /\ \A s \in Runs : token'[s] \in {token[s], token[s] + 1}
      BY <1>1 DEF RunsOK, ChildAcquires
    <3>4. ASSUME NEW s \in Runs PROVE ghosts'[s] \subseteq 0 .. token'[s]
      BY <1>1, <1>2, <3>3 DEF ChildOK
    <3> QED
      BY <1>1, <3>2, <3>3, <3>4 DEF ChildOK
  <2> QED
    BY <2>1, <2>2, <2>3 DEF Shape, TypeOK, RunsOK, FlowOK, ChildOK
<1>6. StepsOK(r)' /\ SlotOK(r)'
  BY <1>1, <1>2, <1>3 DEF StepsOK, SlotOK, TypeOK, ChildAcquires, run, tool, delivery, flow,
     Active, Ended, Fenced, AgentSteps, ParentSteps
<1>7. ObservedOK(r)'
  BY <1>1, <1>2, <1>3 DEF ObservedOK, StepsOK, TypeOK, ChildAcquires, run, tool, delivery, flow,
     Active, Ended, Fenced, AgentSteps, ParentSteps
<1>8. SavedOK(r)'
  BY <1>1, <1>2, <1>3 DEF SavedOK, StepsOK, TypeOK, ChildAcquires, run, tool, delivery, flow,
     Active, Ended, Fenced, AgentSteps, ParentSteps
<1>9. LimitsHold'
  BY <1>1, <1>2, <1>3, <1>5, NoneOpens DEF TypeOK, ChildAcquires, run, tool, delivery, flow,
     Active, Ended, Fenced, AgentSteps, ParentSteps
<1> QED
  BY <1>4, <1>5, <1>6, <1>7, <1>8, <1>9, RowMoves DEF RowOK

\* commit_result keeps the first result.
LEMMA PublishesSound ==
  ASSUME Sound, NEW r \in Runs, NEW t, NEW o \in Outcomes, Publishes(r, t, o)
  PROVE  Sound'
<1>1. Shape /\ RunsOK /\ FlowOK /\ ChildOK
      /\ TypeOK /\ StepsOK(r) /\ SlotOK(r) /\ ObservedOK(r) /\ SavedOK(r)
      /\ (r \in Parents <=> r \notin Agents) /\ Tries \in Nat \ {0} /\ Resets \in Nat
  BY Row
<1>2. "none" \notin Outcomes
  BY InvocationAssumption
<1>3. Still(r)
  BY <1>1, <1>2 DEF Shape, TypeOK, Still, Publishes, run, tool, delivery, flow, child, exec,
     Active, Ended, Fenced, AgentSteps, ParentSteps
<1>4. Shape'
  <2>1. RunsOK'
    BY <1>1, <1>2 DEF RunsOK, FlowOK, ChildOK, Publishes, run, tool, delivery, flow, child, exec,
       Active, Ended, Fenced, AgentSteps, ParentSteps
  <2>2. FlowOK'
    BY <1>1, <1>2 DEF RunsOK, FlowOK, ChildOK, Publishes, run, tool, delivery, flow, child, exec,
       Active, Ended, Fenced, AgentSteps, ParentSteps
  <2>3. ChildOK'
    BY <1>1, <1>2 DEF RunsOK, FlowOK, ChildOK, Publishes, run, tool, delivery, flow, child, exec,
       Active, Ended, Fenced, AgentSteps, ParentSteps
  <2> QED
    BY <2>1, <2>2, <2>3 DEF Shape, TypeOK, RunsOK, FlowOK, ChildOK
<1>5. StepsOK(r)' /\ SlotOK(r)'
  BY <1>1, <1>2 DEF StepsOK, SlotOK, TypeOK, Publishes, run, tool, delivery, flow, child, exec,
     Active, Ended, Fenced, AgentSteps, ParentSteps
<1>6. ObservedOK(r)'
  BY <1>1, <1>2 DEF ObservedOK, StepsOK, TypeOK, Publishes, run, tool, delivery, flow, child,
     exec, Active, Ended, Fenced, AgentSteps, ParentSteps
<1>7. SavedOK(r)'
  BY <1>1, <1>2 DEF SavedOK, StepsOK, TypeOK, Publishes, run, tool, delivery, flow, child, exec,
     Active, Ended, Fenced, AgentSteps, ParentSteps
<1>8. LimitsHold'
  BY <1>1, <1>2, <1>4, NoneOpens DEF TypeOK, Publishes, run, tool, delivery, flow, child, exec,
     Active, Ended, Fenced, AgentSteps, ParentSteps
<1> QED
  BY <1>3, <1>4, <1>5, <1>6, <1>7, <1>8, RowMoves DEF RowOK

\* A stale attempt leaves.
LEMMA PublishStaleSound ==
  ASSUME Sound, NEW r \in Runs, NEW t, PublishStale(r, t)
  PROVE  Sound'
<1>1. Shape /\ RunsOK /\ FlowOK /\ ChildOK
      /\ TypeOK /\ StepsOK(r) /\ SlotOK(r) /\ ObservedOK(r) /\ SavedOK(r)
      /\ (r \in Parents <=> r \notin Agents) /\ Tries \in Nat \ {0} /\ Resets \in Nat
  BY Row
<1>2. Still(r)
  BY <1>1 DEF Shape, TypeOK, Still, PublishStale, run, exec, tool, delivery, flow, Active,
     Ended, Fenced, AgentSteps, ParentSteps
<1>3. Shape'
  <2>1. RunsOK'
    BY <1>1 DEF RunsOK, FlowOK, ChildOK, PublishStale, run, exec, tool, delivery, flow, Active,
       Ended, Fenced, AgentSteps, ParentSteps
  <2>2. FlowOK'
    BY <1>1 DEF RunsOK, FlowOK, ChildOK, PublishStale, run, exec, tool, delivery, flow, Active,
       Ended, Fenced, AgentSteps, ParentSteps
  <2>3. ChildOK'
    BY <1>1 DEF RunsOK, FlowOK, ChildOK, PublishStale, run, exec, tool, delivery, flow, Active,
       Ended, Fenced, AgentSteps, ParentSteps
  <2> QED
    BY <2>1, <2>2, <2>3 DEF Shape, TypeOK, RunsOK, FlowOK, ChildOK
<1>4. StepsOK(r)' /\ SlotOK(r)'
  BY <1>1 DEF StepsOK, SlotOK, TypeOK, PublishStale, run, exec, tool, delivery, flow, Active,
     Ended, Fenced, AgentSteps, ParentSteps
<1>5. ObservedOK(r)'
  BY <1>1 DEF ObservedOK, StepsOK, TypeOK, PublishStale, run, exec, tool, delivery, flow,
     Active, Ended, Fenced, AgentSteps, ParentSteps
<1>6. SavedOK(r)'
  BY <1>1 DEF SavedOK, StepsOK, TypeOK, PublishStale, run, exec, tool, delivery, flow, Active,
     Ended, Fenced, AgentSteps, ParentSteps
<1>7. LimitsHold'
  BY <1>1, <1>3, NoneOpens DEF TypeOK, PublishStale, run, exec, tool, delivery, flow, Active,
     Ended, Fenced, AgentSteps, ParentSteps
<1> QED
  BY <1>2, <1>3, <1>4, <1>5, <1>6, <1>7, RowMoves DEF RowOK

\* The child Workflow gives up an attempt.
LEMMA GivesUpSound ==
  ASSUME Sound, NEW r \in Runs, ChildGivesUpTry(r)
  PROVE  Sound'
<1>1. Shape /\ RunsOK /\ FlowOK /\ ChildOK
      /\ TypeOK /\ StepsOK(r) /\ SlotOK(r) /\ ObservedOK(r) /\ SavedOK(r)
      /\ (r \in Parents <=> r \notin Agents) /\ Tries \in Nat \ {0} /\ Resets \in Nat
  BY Row
<1>2. Still(r)
  BY <1>1 DEF Shape, TypeOK, Still, ChildGivesUpTry, run, exec, tool, delivery, flow, Active,
     Ended, Fenced, AgentSteps, ParentSteps
<1>3. Shape'
  <2>1. RunsOK'
    BY <1>1 DEF RunsOK, FlowOK, ChildOK, ChildGivesUpTry, run, exec, tool, delivery, flow, Active,
       Ended, Fenced, AgentSteps, ParentSteps
  <2>2. FlowOK'
    BY <1>1 DEF RunsOK, FlowOK, ChildOK, ChildGivesUpTry, run, exec, tool, delivery, flow, Active,
       Ended, Fenced, AgentSteps, ParentSteps
  <2>3. ChildOK'
    <3>1. /\ ghosts[r] \cup {holds[r]} \in SUBSET Nat
          /\ ghosts[r] \cup {holds[r]} \subseteq 0 .. token[r]
      BY <1>1 DEF ChildOK, RunsOK, StepsOK
    <3>2. ghosts'[r] \in {ghosts[r], ghosts[r] \cup {holds[r]}} /\ token' = token
      BY <1>1 DEF ChildOK, ChildGivesUpTry, exec
    <3>3. ghosts' = [ghosts EXCEPT ![r] = ghosts'[r]]
      BY <1>1 DEF ChildOK, ChildGivesUpTry
    <3>4. ghosts' \in [Runs -> SUBSET Nat] /\ \A s \in Runs : ghosts'[s] \subseteq 0 .. token'[s]
      BY <1>1, <3>1, <3>2, <3>3 DEF ChildOK
    <3> QED
      BY <1>1, <3>4 DEF ChildOK, ChildGivesUpTry, exec
  <2> QED
    BY <2>1, <2>2, <2>3 DEF Shape, TypeOK, RunsOK, FlowOK, ChildOK
<1>4. StepsOK(r)' /\ SlotOK(r)'
  BY <1>1 DEF StepsOK, SlotOK, TypeOK, ChildGivesUpTry, run, exec, tool, delivery, flow, Active,
     Ended, Fenced, AgentSteps, ParentSteps
<1>5. ObservedOK(r)'
  BY <1>1 DEF ObservedOK, StepsOK, TypeOK, ChildGivesUpTry, run, exec, tool, delivery, flow,
     Active, Ended, Fenced, AgentSteps, ParentSteps
<1>6. SavedOK(r)'
  BY <1>1 DEF SavedOK, StepsOK, TypeOK, ChildGivesUpTry, run, exec, tool, delivery, flow,
     Active, Ended, Fenced, AgentSteps, ParentSteps
<1>7. LimitsHold'
  BY <1>1, <1>3, NoneOpens DEF TypeOK, ChildGivesUpTry, run, exec, tool, delivery, flow, Active,
     Ended, Fenced, AgentSteps, ParentSteps
<1> QED
  BY <1>2, <1>3, <1>4, <1>5, <1>6, <1>7, RowMoves DEF RowOK

\* The child Workflow fails.
LEMMA ChildFailsSound ==
  ASSUME Sound, NEW r \in Runs, ChildFails(r)
  PROVE  Sound'
<1>1. Shape /\ RunsOK /\ FlowOK /\ ChildOK
      /\ TypeOK /\ StepsOK(r) /\ SlotOK(r) /\ ObservedOK(r) /\ SavedOK(r)
      /\ (r \in Parents <=> r \notin Agents) /\ Tries \in Nat \ {0} /\ Resets \in Nat
  BY Row
<1>2. Still(r)
  BY <1>1 DEF Shape, TypeOK, Still, ChildFails, run, exec, tool, delivery, flow, Active, Ended,
     Fenced, AgentSteps, ParentSteps
<1>3. Shape'
  <2>1. RunsOK'
    BY <1>1 DEF RunsOK, FlowOK, ChildOK, ChildFails, run, exec, tool, delivery, flow, Active,
       Ended, Fenced, AgentSteps, ParentSteps
  <2>2. FlowOK'
    BY <1>1 DEF RunsOK, FlowOK, ChildOK, ChildFails, run, exec, tool, delivery, flow, Active,
       Ended, Fenced, AgentSteps, ParentSteps
  <2>3. ChildOK'
    BY <1>1 DEF RunsOK, FlowOK, ChildOK, ChildFails, run, exec, tool, delivery, flow, Active,
       Ended, Fenced, AgentSteps, ParentSteps
  <2> QED
    BY <2>1, <2>2, <2>3 DEF Shape, TypeOK, RunsOK, FlowOK, ChildOK
<1>4. StepsOK(r)' /\ SlotOK(r)'
  BY <1>1 DEF StepsOK, SlotOK, TypeOK, ChildFails, run, exec, tool, delivery, flow, Active,
     Ended, Fenced, AgentSteps, ParentSteps
<1>5. ObservedOK(r)'
  BY <1>1 DEF ObservedOK, StepsOK, TypeOK, ChildFails, run, exec, tool, delivery, flow, Active,
     Ended, Fenced, AgentSteps, ParentSteps
<1>6. SavedOK(r)'
  BY <1>1 DEF SavedOK, StepsOK, TypeOK, ChildFails, run, exec, tool, delivery, flow, Active,
     Ended, Fenced, AgentSteps, ParentSteps
<1>7. LimitsHold'
  BY <1>1, <1>3, NoneOpens DEF TypeOK, ChildFails, run, exec, tool, delivery, flow, Active,
     Ended, Fenced, AgentSteps, ParentSteps
<1> QED
  BY <1>2, <1>3, <1>4, <1>5, <1>6, <1>7, RowMoves DEF RowOK

\* The child Workflow returns.
LEMMA ChildDoneSound ==
  ASSUME Sound, NEW r \in Runs, ChildDone(r)
  PROVE  Sound'
<1>1. Shape /\ RunsOK /\ FlowOK /\ ChildOK
      /\ TypeOK /\ StepsOK(r) /\ SlotOK(r) /\ ObservedOK(r) /\ SavedOK(r)
      /\ (r \in Parents <=> r \notin Agents) /\ Tries \in Nat \ {0} /\ Resets \in Nat
  BY Row
<1>2. Still(r)
  BY <1>1 DEF Shape, TypeOK, Still, ChildDone, run, exec, tool, delivery, flow, Active, Ended,
     Fenced, AgentSteps, ParentSteps
<1>3. Shape'
  <2>1. RunsOK'
    BY <1>1 DEF RunsOK, FlowOK, ChildOK, ChildDone, run, exec, tool, delivery, flow, Active,
       Ended, Fenced, AgentSteps, ParentSteps
  <2>2. FlowOK'
    BY <1>1 DEF RunsOK, FlowOK, ChildOK, ChildDone, run, exec, tool, delivery, flow, Active,
       Ended, Fenced, AgentSteps, ParentSteps
  <2>3. ChildOK'
    BY <1>1 DEF RunsOK, FlowOK, ChildOK, ChildDone, run, exec, tool, delivery, flow, Active,
       Ended, Fenced, AgentSteps, ParentSteps
  <2> QED
    BY <2>1, <2>2, <2>3 DEF Shape, TypeOK, RunsOK, FlowOK, ChildOK
<1>4. StepsOK(r)' /\ SlotOK(r)'
  BY <1>1 DEF StepsOK, SlotOK, TypeOK, ChildDone, run, exec, tool, delivery, flow, Active,
     Ended, Fenced, AgentSteps, ParentSteps
<1>5. ObservedOK(r)'
  BY <1>1 DEF ObservedOK, StepsOK, TypeOK, ChildDone, run, exec, tool, delivery, flow, Active,
     Ended, Fenced, AgentSteps, ParentSteps
<1>6. SavedOK(r)'
  BY <1>1 DEF SavedOK, StepsOK, TypeOK, ChildDone, run, exec, tool, delivery, flow, Active,
     Ended, Fenced, AgentSteps, ParentSteps
<1>7. LimitsHold'
  BY <1>1, <1>3, NoneOpens DEF TypeOK, ChildDone, run, exec, tool, delivery, flow, Active,
     Ended, Fenced, AgentSteps, ParentSteps
<1> QED
  BY <1>2, <1>3, <1>4, <1>5, <1>6, <1>7, RowMoves DEF RowOK

\* The child Workflow is cancelled.
LEMMA ChildCancelledSound ==
  ASSUME Sound, NEW r \in Runs, ChildCancelled(r)
  PROVE  Sound'
<1>1. Shape /\ RunsOK /\ FlowOK /\ ChildOK
      /\ TypeOK /\ StepsOK(r) /\ SlotOK(r) /\ ObservedOK(r) /\ SavedOK(r)
      /\ (r \in Parents <=> r \notin Agents) /\ Tries \in Nat \ {0} /\ Resets \in Nat
  BY Row
<1>2. Still(r)
  BY <1>1 DEF Shape, TypeOK, Still, ChildCancelled, run, exec, tool, delivery, flow, Active,
     Ended, Fenced, AgentSteps, ParentSteps
<1>3. Shape'
  <2>1. RunsOK'
    BY <1>1 DEF RunsOK, FlowOK, ChildOK, ChildCancelled, run, exec, tool, delivery, flow, Active,
       Ended, Fenced, AgentSteps, ParentSteps
  <2>2. FlowOK'
    BY <1>1 DEF RunsOK, FlowOK, ChildOK, ChildCancelled, run, exec, tool, delivery, flow, Active,
       Ended, Fenced, AgentSteps, ParentSteps
  <2>3. ChildOK'
    <3>1. /\ ghosts[r] \cup {holds[r]} \in SUBSET Nat
          /\ ghosts[r] \cup {holds[r]} \subseteq 0 .. token[r]
      BY <1>1 DEF ChildOK, RunsOK, StepsOK
    <3>2. ghosts'[r] \in {ghosts[r], ghosts[r] \cup {holds[r]}} /\ token' = token
      BY <1>1 DEF ChildOK, ChildCancelled, exec
    <3>3. ghosts' = [ghosts EXCEPT ![r] = ghosts'[r]]
      BY <1>1 DEF ChildOK, ChildCancelled
    <3>4. ghosts' \in [Runs -> SUBSET Nat] /\ \A s \in Runs : ghosts'[s] \subseteq 0 .. token'[s]
      BY <1>1, <3>1, <3>2, <3>3 DEF ChildOK
    <3> QED
      BY <1>1, <3>4 DEF ChildOK, ChildCancelled, exec
  <2> QED
    BY <2>1, <2>2, <2>3 DEF Shape, TypeOK, RunsOK, FlowOK, ChildOK
<1>4. StepsOK(r)' /\ SlotOK(r)'
  BY <1>1 DEF StepsOK, SlotOK, TypeOK, ChildCancelled, run, exec, tool, delivery, flow, Active,
     Ended, Fenced, AgentSteps, ParentSteps
<1>5. ObservedOK(r)'
  BY <1>1 DEF ObservedOK, StepsOK, TypeOK, ChildCancelled, run, exec, tool, delivery, flow,
     Active, Ended, Fenced, AgentSteps, ParentSteps
<1>6. SavedOK(r)'
  BY <1>1 DEF SavedOK, StepsOK, TypeOK, ChildCancelled, run, exec, tool, delivery, flow, Active,
     Ended, Fenced, AgentSteps, ParentSteps
<1>7. LimitsHold'
  BY <1>1, <1>3, NoneOpens DEF TypeOK, ChildCancelled, run, exec, tool, delivery, flow, Active,
     Ended, Fenced, AgentSteps, ParentSteps
<1> QED
  BY <1>2, <1>3, <1>4, <1>5, <1>6, <1>7, RowMoves DEF RowOK

(* The Workflow.                                                            *)

\* The types of the Workflow's steps.
LEMMA Goes ==
  ASSUME Sound, NEW r \in Runs, NEW p, Go(r, p),
         p \in Fenced \cup {"start", "wait", "close", "done", "failed"},
         why' \in [Runs -> {"none", "lost", "conflict", "result", "child", "cancelled"}],
         status' \in [Runs -> {"none", "succeeded", "failed", "cancelled"}], resets' \in 0 .. Resets
  PROVE  FlowOK'
<1>1. FlowOK /\ Tries \in Nat \ {0}
  BY Row
<1> QED
  BY <1>1 DEF Go, FlowOK

LEMMA Fails ==
  ASSUME Sound, NEW r \in Runs, NEW p, Fail(r, p),
         p \in {"none", "lost", "conflict", "result", "child", "cancelled"},
         late' \in [Runs -> {"none"} \cup Fenced],
         status' \in [Runs -> {"none", "succeeded", "failed", "cancelled"}], resets' \in 0 .. Resets
  PROVE  FlowOK'
<1>1. FlowOK /\ Tries \in Nat \ {0}
  BY Row
<1> QED
  BY <1>1 DEF Fail, FlowOK

LEMMA Retries ==
  ASSUME Sound, NEW r \in Runs, NEW p \in {"lost", "result"}, NEW g \in {"none"} \cup Fenced,
         Retry(r, p, g), UNCHANGED <<status, resets>>
  PROVE  FlowOK'
<1>1. FlowOK /\ Tries \in Nat \ {0}
  BY Row
<1>2. /\ why \in [Runs -> {"none", "lost", "conflict", "result", "child", "cancelled"}]
      /\ status' \in [Runs -> {"none", "succeeded", "failed", "cancelled"}] /\ resets' \in 0 .. Resets
  BY <1>1 DEF FlowOK
<1>3. CASE MayRetry(r)
  BY <1>1, <1>2, <1>3 DEF Retry, MayRetry, FlowOK, Fenced
<1>4. CASE ~MayRetry(r) /\ wpc[r] \in {"publish", "saving", "saved", "complete"}
  <2>1. \E q \in {"saving", "failing"} : Go(r, q) /\ UNCHANGED why
    BY <1>4 DEF Retry, GiveUp
  <2> QED
    BY <1>2, <2>1, Goes DEF Fenced
<1>5. CASE ~MayRetry(r) /\ wpc[r] \notin {"publish", "saving", "saved", "complete"}
  <2>1. Fail(r, p) /\ late' \in [Runs -> {"none"} \cup Fenced]
    BY <1>1, <1>5 DEF Retry, FlowOK
  <2> QED
    BY <1>2, <2>1, Fails
<1> QED
  BY <1>3, <1>4, <1>5


\* The Workflow goes on after prepare.
LEMMA PreparedSound ==
  ASSUME Sound, NEW r \in Runs, Prepared(r)
  PROVE  Sound'
<1>1. Shape /\ RunsOK /\ FlowOK /\ ChildOK
      /\ TypeOK /\ StepsOK(r) /\ SlotOK(r) /\ ObservedOK(r) /\ SavedOK(r)
      /\ (r \in Parents <=> r \notin Agents) /\ Tries \in Nat \ {0} /\ Resets \in Nat
  BY Row
<1>2. Still(r)
  BY <1>1 DEF Shape, TypeOK, Still, Prepared, CommittedNext, Go, run, exec, tool, delivery,
     child, Active, Ended, Fenced, AgentSteps, ParentSteps
<1>3. Shape'
  <2>1. RunsOK'
    BY <1>1 DEF RunsOK, FlowOK, ChildOK, Prepared, CommittedNext, Go, run, exec, tool, delivery,
       child, Active, Ended, Fenced, AgentSteps, ParentSteps
  <2>2. FlowOK'
    <3>1. /\ \E p \in {"start", "close", "observe", "done"} : Go(r, p)
          /\ UNCHANGED <<why, resets>>
      BY DEF Prepared, CommittedNext
    <3>2. status' \in [Runs -> {"none", "succeeded", "failed", "cancelled"}]
      BY <1>1 DEF Prepared, FlowOK
    <3> QED
      BY <1>1, <3>1, <3>2, Goes DEF FlowOK, Fenced
  <2>3. ChildOK'
    BY <1>1 DEF RunsOK, FlowOK, ChildOK, Prepared, CommittedNext, Go, run, exec, tool, delivery,
       child, Active, Ended, Fenced, AgentSteps, ParentSteps
  <2> QED
    BY <2>1, <2>2, <2>3 DEF Shape, TypeOK, RunsOK, FlowOK, ChildOK
<1>4. StepsOK(r)' /\ SlotOK(r)'
  BY <1>1 DEF StepsOK, SlotOK, TypeOK, Prepared, CommittedNext, Go, run, exec, tool, delivery,
     child, Active, Ended, Fenced, AgentSteps, ParentSteps
<1>5. ObservedOK(r)'
  BY <1>1 DEF ObservedOK, StepsOK, TypeOK, Prepared, CommittedNext, Go, run, exec, tool,
     delivery, child, Active, Ended, Fenced, AgentSteps, ParentSteps
<1>6. SavedOK(r)'
  BY <1>1 DEF SavedOK, StepsOK, TypeOK, Prepared, CommittedNext, Go, run, exec, tool, delivery,
     child, Active, Ended, Fenced, AgentSteps, ParentSteps
<1>7. LimitsHold'
  BY <1>1, <1>3, NoneOpens DEF TypeOK, Prepared, CommittedNext, Go, run, exec, tool, delivery,
     child, Active, Ended, Fenced, AgentSteps, ParentSteps
<1> QED
  BY <1>2, <1>3, <1>4, <1>5, <1>6, <1>7, RowMoves DEF RowOK

\* The Workflow starts its child.
LEMMA StartSound ==
  ASSUME Sound, NEW r \in Runs, StartChild(r)
  PROVE  Sound'
<1>1. Shape /\ RunsOK /\ FlowOK /\ ChildOK
      /\ TypeOK /\ StepsOK(r) /\ SlotOK(r) /\ ObservedOK(r) /\ SavedOK(r)
      /\ (r \in Parents <=> r \notin Agents) /\ Tries \in Nat \ {0} /\ Resets \in Nat
  BY Row
<1>2. Still(r)
  BY <1>1 DEF Shape, TypeOK, Still, StartChild, Go, run, exec, tool, delivery, Active, Ended,
     Fenced, AgentSteps, ParentSteps
<1>3. Shape'
  <2>1. RunsOK'
    BY <1>1 DEF RunsOK, FlowOK, ChildOK, StartChild, Go, run, exec, tool, delivery, Active, Ended,
       Fenced, AgentSteps, ParentSteps
  <2>2. FlowOK'
    BY <1>1 DEF RunsOK, FlowOK, ChildOK, StartChild, Go, run, exec, tool, delivery, Active, Ended,
       Fenced, AgentSteps, ParentSteps
  <2>3. ChildOK'
    BY <1>1 DEF RunsOK, FlowOK, ChildOK, StartChild, Go, run, exec, tool, delivery, Active, Ended,
       Fenced, AgentSteps, ParentSteps
  <2> QED
    BY <2>1, <2>2, <2>3 DEF Shape, TypeOK, RunsOK, FlowOK, ChildOK
<1>4. StepsOK(r)' /\ SlotOK(r)'
  BY <1>1 DEF StepsOK, SlotOK, TypeOK, StartChild, Go, run, exec, tool, delivery, Active, Ended,
     Fenced, AgentSteps, ParentSteps
<1>5. ObservedOK(r)'
  BY <1>1 DEF ObservedOK, StepsOK, TypeOK, StartChild, Go, run, exec, tool, delivery, Active,
     Ended, Fenced, AgentSteps, ParentSteps
<1>6. SavedOK(r)'
  BY <1>1 DEF SavedOK, StepsOK, TypeOK, StartChild, Go, run, exec, tool, delivery, Active,
     Ended, Fenced, AgentSteps, ParentSteps
<1>7. LimitsHold'
  BY <1>1, <1>3, NoneOpens DEF TypeOK, StartChild, Go, run, exec, tool, delivery, Active, Ended,
     Fenced, AgentSteps, ParentSteps
<1> QED
  BY <1>2, <1>3, <1>4, <1>5, <1>6, <1>7, RowMoves DEF RowOK

\* The child handle returns or raises.
LEMMA ReturnedSound ==
  ASSUME Sound, NEW r \in Runs, ChildReturned(r)
  PROVE  Sound'
<1>1. Shape /\ RunsOK /\ FlowOK /\ ChildOK
      /\ TypeOK /\ StepsOK(r) /\ SlotOK(r) /\ ObservedOK(r) /\ SavedOK(r)
      /\ (r \in Parents <=> r \notin Agents) /\ Tries \in Nat \ {0} /\ Resets \in Nat
  BY Row
<1>2. Still(r)
  BY <1>1 DEF Shape, TypeOK, Still, ChildReturned, Go, run, exec, tool, delivery, Active, Ended,
     Fenced, AgentSteps, ParentSteps
<1>3. Shape'
  <2>1. RunsOK'
    BY <1>1 DEF RunsOK, FlowOK, ChildOK, ChildReturned, Go, run, exec, tool, delivery, Active,
       Ended, Fenced, AgentSteps, ParentSteps
  <2>2. FlowOK'
    BY <1>1 DEF RunsOK, FlowOK, ChildOK, ChildReturned, Go, run, exec, tool, delivery, Active,
       Ended, Fenced, AgentSteps, ParentSteps
  <2>3. ChildOK'
    BY <1>1 DEF RunsOK, FlowOK, ChildOK, ChildReturned, Go, run, exec, tool, delivery, Active,
       Ended, Fenced, AgentSteps, ParentSteps
  <2> QED
    BY <2>1, <2>2, <2>3 DEF Shape, TypeOK, RunsOK, FlowOK, ChildOK
<1>4. StepsOK(r)' /\ SlotOK(r)'
  BY <1>1 DEF StepsOK, SlotOK, TypeOK, ChildReturned, Go, run, exec, tool, delivery, Active,
     Ended, Fenced, AgentSteps, ParentSteps
<1>5. ObservedOK(r)'
  BY <1>1 DEF ObservedOK, StepsOK, TypeOK, ChildReturned, Go, run, exec, tool, delivery, Active,
     Ended, Fenced, AgentSteps, ParentSteps
<1>6. SavedOK(r)'
  BY <1>1 DEF SavedOK, StepsOK, TypeOK, ChildReturned, Go, run, exec, tool, delivery, Active,
     Ended, Fenced, AgentSteps, ParentSteps
<1>7. LimitsHold'
  BY <1>1, <1>3, NoneOpens DEF TypeOK, ChildReturned, Go, run, exec, tool, delivery, Active,
     Ended, Fenced, AgentSteps, ParentSteps
<1> QED
  BY <1>2, <1>3, <1>4, <1>5, <1>6, <1>7, RowMoves DEF RowOK

\* close_capability_activity ends the child Execution once.
LEMMA CloseSound ==
  ASSUME Sound, NEW r \in Runs, Close(r)
  PROVE  Sound'
<1>1. Shape /\ RunsOK /\ FlowOK /\ ChildOK
      /\ TypeOK /\ StepsOK(r) /\ SlotOK(r) /\ ObservedOK(r) /\ SavedOK(r)
      /\ (r \in Parents <=> r \notin Agents) /\ Tries \in Nat \ {0} /\ Resets \in Nat
  BY Row
<1>2. \A s \in Runs : ghosts[s] \subseteq 0 .. token[s] + 1
  BY <1>1 DEF TypeOK
<1>3. Still(r)
  BY <1>1, <1>2 DEF Shape, TypeOK, Still, Close, CloseStatus, ClosedToken, run, exec, tool,
     delivery, child, Active, Ended, Fenced, AgentSteps, ParentSteps
<1>4. Shape'
  <2>1. RunsOK'
    BY <1>1, <1>2 DEF RunsOK, FlowOK, ChildOK, Close, CloseStatus, ClosedToken, run, exec, tool,
       delivery, child, Active, Ended, Fenced, AgentSteps, ParentSteps
  <2>2. FlowOK'
    BY <1>1, <1>2 DEF RunsOK, FlowOK, ChildOK, Close, CloseStatus, ClosedToken, run, exec, tool,
       delivery, child, Active, Ended, Fenced, AgentSteps, ParentSteps
  <2>3. ChildOK'
    BY <1>1, <1>2 DEF RunsOK, FlowOK, ChildOK, Close, CloseStatus, ClosedToken, run, exec, tool,
       delivery, child, Active, Ended, Fenced, AgentSteps, ParentSteps
  <2> QED
    BY <2>1, <2>2, <2>3 DEF Shape, TypeOK, RunsOK, FlowOK, ChildOK
<1>5. StepsOK(r)' /\ SlotOK(r)'
  BY <1>1, <1>2 DEF StepsOK, SlotOK, TypeOK, Close, CloseStatus, ClosedToken, run, exec, tool,
     delivery, child, Active, Ended, Fenced, AgentSteps, ParentSteps
<1>6. ObservedOK(r)'
  BY <1>1, <1>2 DEF ObservedOK, StepsOK, TypeOK, Close, CloseStatus, ClosedToken, run, exec,
     tool, delivery, child, Active, Ended, Fenced, AgentSteps, ParentSteps
<1>7. SavedOK(r)'
  BY <1>1, <1>2 DEF SavedOK, StepsOK, TypeOK, Close, CloseStatus, ClosedToken, run, exec, tool,
     delivery, child, Active, Ended, Fenced, AgentSteps, ParentSteps
<1>8. LimitsHold'
  BY <1>1, <1>2, <1>4, NoneOpens DEF TypeOK, Close, CloseStatus, ClosedToken, run, exec, tool,
     delivery, child, Active, Ended, Fenced, AgentSteps, ParentSteps
<1> QED
  BY <1>3, <1>4, <1>5, <1>6, <1>7, <1>8, RowMoves DEF RowOK

\* The Workflow goes on after close.
LEMMA ClosedSound ==
  ASSUME Sound, NEW r \in Runs, Closed(r)
  PROVE  Sound'
<1>1. Shape /\ RunsOK /\ FlowOK /\ ChildOK
      /\ TypeOK /\ StepsOK(r) /\ SlotOK(r) /\ ObservedOK(r) /\ SavedOK(r)
      /\ (r \in Parents <=> r \notin Agents) /\ Tries \in Nat \ {0} /\ Resets \in Nat
  BY Row
<1>2. Still(r)
  BY <1>1 DEF Shape, TypeOK, Still, Closed, Go, Fail, run, exec, tool, delivery, child, Active,
     Ended, Fenced, AgentSteps, ParentSteps
<1>3. Shape'
  <2>1. RunsOK'
    BY <1>1 DEF RunsOK, FlowOK, ChildOK, Closed, Go, Fail, run, exec, tool, delivery, child,
       Active, Ended, Fenced, AgentSteps, ParentSteps
  <2>2. FlowOK'
    <3>1. /\ resets' \in 0 .. Resets
          /\ status' \in [Runs -> {"none", "succeeded", "failed", "cancelled"}]
      BY <1>1 DEF Closed, FlowOK
    <3>2. CASE status[r] = "succeeded"
      <4>1. /\ \E p \in {"observe", "publish"} : Go(r, p)
            /\ why' \in [Runs -> {"none", "lost", "conflict", "result", "child", "cancelled"}]
        BY <1>1, <3>2 DEF Closed, FlowOK
      <4> QED
        BY <3>1, <4>1, Goes DEF Fenced
    <3>3. CASE status[r] # "succeeded"
      <4>1. Fail(r, "child") /\ late' \in [Runs -> {"none"} \cup Fenced]
        BY <1>1, <3>3 DEF Closed, FlowOK
      <4> QED
        BY <3>1, <4>1, Fails
    <3> QED
      BY <3>2, <3>3
  <2>3. ChildOK'
    BY <1>1 DEF RunsOK, FlowOK, ChildOK, Closed, Go, Fail, run, exec, tool, delivery, child,
       Active, Ended, Fenced, AgentSteps, ParentSteps
  <2> QED
    BY <2>1, <2>2, <2>3 DEF Shape, TypeOK, RunsOK, FlowOK, ChildOK
<1>4. StepsOK(r)' /\ SlotOK(r)'
  BY <1>1 DEF StepsOK, SlotOK, TypeOK, Closed, Go, Fail, run, exec, tool, delivery, child,
     Active, Ended, Fenced, AgentSteps, ParentSteps
<1>5. ObservedOK(r)'
  BY <1>1 DEF ObservedOK, StepsOK, TypeOK, Closed, Go, Fail, run, exec, tool, delivery, child,
     Active, Ended, Fenced, AgentSteps, ParentSteps
<1>6. SavedOK(r)'
  BY <1>1 DEF SavedOK, StepsOK, TypeOK, Closed, Go, Fail, run, exec, tool, delivery, child,
     Active, Ended, Fenced, AgentSteps, ParentSteps
<1>7. LimitsHold'
  BY <1>1, <1>3, NoneOpens DEF TypeOK, Closed, Go, Fail, run, exec, tool, delivery, child,
     Active, Ended, Fenced, AgentSteps, ParentSteps
<1> QED
  BY <1>2, <1>3, <1>4, <1>5, <1>6, <1>7, RowMoves DEF RowOK

\* The Workflow goes on after a fenced Activity.
LEMMA AnsweredSound ==
  ASSUME Sound, NEW r \in Runs, Answered(r)
  PROVE  Sound'
<1>1. Shape /\ RunsOK /\ FlowOK /\ ChildOK
      /\ TypeOK /\ StepsOK(r) /\ SlotOK(r) /\ ObservedOK(r) /\ SavedOK(r)
      /\ (r \in Parents <=> r \notin Agents) /\ Tries \in Nat \ {0} /\ Resets \in Nat
  BY Row
<1>2. Still(r)
  BY <1>1 DEF Shape, TypeOK, Still, Answered, After, Go, run, exec, tool, delivery, child,
     Active, Ended, Fenced, AgentSteps, ParentSteps
<1>3. Shape'
  <2>1. RunsOK'
    BY <1>1 DEF RunsOK, FlowOK, ChildOK, Answered, After, Go, run, exec, tool, delivery, child,
       Active, Ended, Fenced, AgentSteps, ParentSteps
  <2>2. FlowOK'
    BY <1>1 DEF RunsOK, FlowOK, ChildOK, Answered, After, Go, run, exec, tool, delivery, child,
       Active, Ended, Fenced, AgentSteps, ParentSteps
  <2>3. ChildOK'
    BY <1>1 DEF RunsOK, FlowOK, ChildOK, Answered, After, Go, run, exec, tool, delivery, child,
       Active, Ended, Fenced, AgentSteps, ParentSteps
  <2> QED
    BY <2>1, <2>2, <2>3 DEF Shape, TypeOK, RunsOK, FlowOK, ChildOK
<1>4. StepsOK(r)' /\ SlotOK(r)'
  BY <1>1 DEF StepsOK, SlotOK, TypeOK, Answered, After, Go, run, exec, tool, delivery, child,
     Active, Ended, Fenced, AgentSteps, ParentSteps
<1>5. ObservedOK(r)'
  BY <1>1 DEF ObservedOK, StepsOK, TypeOK, Answered, After, Go, run, exec, tool, delivery,
     child, Active, Ended, Fenced, AgentSteps, ParentSteps
<1>6. SavedOK(r)'
  BY <1>1 DEF SavedOK, StepsOK, TypeOK, Answered, After, Go, run, exec, tool, delivery, child,
     Active, Ended, Fenced, AgentSteps, ParentSteps
<1>7. LimitsHold'
  BY <1>1, <1>3, NoneOpens DEF TypeOK, Answered, After, Go, run, exec, tool, delivery, child,
     Active, Ended, Fenced, AgentSteps, ParentSteps
<1> QED
  BY <1>2, <1>3, <1>4, <1>5, <1>6, <1>7, RowMoves DEF RowOK

\* A try is lost, and may still commit.
LEMMA TryLostSound ==
  ASSUME Sound, NEW r \in Runs, NEW g, TryLost(r, g)
  PROVE  Sound'
<1>1. Shape /\ RunsOK /\ FlowOK /\ ChildOK
      /\ TypeOK /\ StepsOK(r) /\ SlotOK(r) /\ ObservedOK(r) /\ SavedOK(r)
      /\ (r \in Parents <=> r \notin Agents) /\ Tries \in Nat \ {0} /\ Resets \in Nat
  BY Row
<1>2. Still(r)
  BY <1>1 DEF Shape, TypeOK, Still, TryLost, Retry, MayRetry, GiveUp, Go, Fail, run, exec, tool,
     delivery, child, Active, Ended, Fenced, AgentSteps, ParentSteps
<1>3. Shape'
  <2>1. RunsOK'
    BY <1>1 DEF RunsOK, FlowOK, ChildOK, TryLost, Retry, MayRetry, GiveUp, Go, Fail, run, exec,
       tool, delivery, child, Active, Ended, Fenced, AgentSteps, ParentSteps
  <2>2. FlowOK'
    <3>1. g \in {"none"} \cup Fenced /\ Retry(r, "lost", g) /\ UNCHANGED <<status, resets>>
      BY DEF TryLost
    <3> QED
      BY <3>1, Retries
  <2>3. ChildOK'
    BY <1>1 DEF RunsOK, FlowOK, ChildOK, TryLost, Retry, MayRetry, GiveUp, Go, Fail, run, exec,
       tool, delivery, child, Active, Ended, Fenced, AgentSteps, ParentSteps
  <2> QED
    BY <2>1, <2>2, <2>3 DEF Shape, TypeOK, RunsOK, FlowOK, ChildOK
<1>4. StepsOK(r)' /\ SlotOK(r)'
  BY <1>1 DEF StepsOK, SlotOK, TypeOK, TryLost, Retry, MayRetry, GiveUp, Go, Fail, run, exec,
     tool, delivery, child, Active, Ended, Fenced, AgentSteps, ParentSteps
<1>5. ObservedOK(r)'
  BY <1>1 DEF ObservedOK, StepsOK, TypeOK, TryLost, Retry, MayRetry, GiveUp, Go, Fail, run,
     exec, tool, delivery, child, Active, Ended, Fenced, AgentSteps, ParentSteps
<1>6. SavedOK(r)'
  BY <1>1 DEF SavedOK, StepsOK, TypeOK, TryLost, Retry, MayRetry, GiveUp, Go, Fail, run, exec,
     tool, delivery, child, Active, Ended, Fenced, AgentSteps, ParentSteps
<1>7. LimitsHold'
  BY <1>1, <1>3, NoneOpens DEF TypeOK, TryLost, Retry, MayRetry, GiveUp, Go, Fail, run, exec,
     tool, delivery, child, Active, Ended, Fenced, AgentSteps, ParentSteps
<1> QED
  BY <1>2, <1>3, <1>4, <1>5, <1>6, <1>7, RowMoves DEF RowOK

\* A refusal is final for an agent and retried for a parent.
LEMMA RefusedSound ==
  ASSUME Sound, NEW r \in Runs, Refused(r)
  PROVE  Sound'
<1>1. Shape /\ RunsOK /\ FlowOK /\ ChildOK
      /\ TypeOK /\ StepsOK(r) /\ SlotOK(r) /\ ObservedOK(r) /\ SavedOK(r)
      /\ (r \in Parents <=> r \notin Agents) /\ Tries \in Nat \ {0} /\ Resets \in Nat
  BY Row
<1>2. Still(r)
  BY <1>1 DEF Shape, TypeOK, Still, Refused, Retry, MayRetry, GiveUp, Go, Fail, run, exec, tool,
     delivery, child, Active, Ended, Fenced, AgentSteps, ParentSteps
<1>3. Shape'
  <2>1. RunsOK'
    BY <1>1 DEF RunsOK, FlowOK, ChildOK, Refused, Retry, MayRetry, GiveUp, Go, Fail, run, exec,
       tool, delivery, child, Active, Ended, Fenced, AgentSteps, ParentSteps
  <2>2. FlowOK'
    <3>1. UNCHANGED <<status, resets>>
      BY DEF Refused
    <3>2. CASE wpc[r] = "observe"
      <4>1. \E p \in {"conflict", "result"} : Fail(r, p) /\ UNCHANGED late
        BY <3>2 DEF Refused
      <4> QED
        BY <1>1, <3>1, <4>1, Fails DEF FlowOK
    <3>3. CASE wpc[r] # "observe"
      <4>1. Retry(r, "result", "none")
        BY <3>3 DEF Refused
      <4> QED
        BY <3>1, <4>1, Retries
    <3> QED
      BY <3>2, <3>3
  <2>3. ChildOK'
    BY <1>1 DEF RunsOK, FlowOK, ChildOK, Refused, Retry, MayRetry, GiveUp, Go, Fail, run, exec,
       tool, delivery, child, Active, Ended, Fenced, AgentSteps, ParentSteps
  <2> QED
    BY <2>1, <2>2, <2>3 DEF Shape, TypeOK, RunsOK, FlowOK, ChildOK
<1>4. StepsOK(r)' /\ SlotOK(r)'
  BY <1>1 DEF StepsOK, SlotOK, TypeOK, Refused, Retry, MayRetry, GiveUp, Go, Fail, run, exec,
     tool, delivery, child, Active, Ended, Fenced, AgentSteps, ParentSteps
<1>5. ObservedOK(r)'
  BY <1>1 DEF ObservedOK, StepsOK, TypeOK, Refused, Retry, MayRetry, GiveUp, Go, Fail, run,
     exec, tool, delivery, child, Active, Ended, Fenced, AgentSteps, ParentSteps
<1>6. SavedOK(r)'
  BY <1>1 DEF SavedOK, StepsOK, TypeOK, Refused, Retry, MayRetry, GiveUp, Go, Fail, run, exec,
     tool, delivery, child, Active, Ended, Fenced, AgentSteps, ParentSteps
<1>7. LimitsHold'
  BY <1>1, <1>3, NoneOpens DEF TypeOK, Refused, Retry, MayRetry, GiveUp, Go, Fail, run, exec,
     tool, delivery, child, Active, Ended, Fenced, AgentSteps, ParentSteps
<1> QED
  BY <1>2, <1>3, <1>4, <1>5, <1>6, <1>7, RowMoves DEF RowOK

\* The next try revokes the last one.
LEMMA AcquireSound ==
  ASSUME Sound, NEW r \in Runs, Acquire(r)
  PROVE  Sound'
<1>1. Shape /\ RunsOK /\ FlowOK /\ ChildOK
      /\ TypeOK /\ StepsOK(r) /\ SlotOK(r) /\ ObservedOK(r) /\ SavedOK(r)
      /\ (r \in Parents <=> r \notin Agents) /\ Tries \in Nat \ {0} /\ Resets \in Nat
  BY Row
<1>2. Still(r)
  BY <1>1 DEF Shape, TypeOK, Still, Acquire, run, exec, tool, delivery, child, Active, Ended,
     Fenced, AgentSteps, ParentSteps
<1>3. Shape'
  <2>1. RunsOK'
    BY <1>1 DEF RunsOK, FlowOK, ChildOK, Acquire, run, exec, tool, delivery, child, Active, Ended,
       Fenced, AgentSteps, ParentSteps
  <2>2. FlowOK'
    BY <1>1 DEF RunsOK, FlowOK, ChildOK, Acquire, run, exec, tool, delivery, child, Active, Ended,
       Fenced, AgentSteps, ParentSteps
  <2>3. ChildOK'
    BY <1>1 DEF RunsOK, FlowOK, ChildOK, Acquire, run, exec, tool, delivery, child, Active, Ended,
       Fenced, AgentSteps, ParentSteps
  <2> QED
    BY <2>1, <2>2, <2>3 DEF Shape, TypeOK, RunsOK, FlowOK, ChildOK
<1>4. StepsOK(r)' /\ SlotOK(r)'
  BY <1>1 DEF StepsOK, SlotOK, TypeOK, Acquire, run, exec, tool, delivery, child, Active, Ended,
     Fenced, AgentSteps, ParentSteps
<1>5. ObservedOK(r)'
  BY <1>1 DEF ObservedOK, StepsOK, TypeOK, Acquire, run, exec, tool, delivery, child, Active,
     Ended, Fenced, AgentSteps, ParentSteps
<1>6. SavedOK(r)'
  BY <1>1 DEF SavedOK, StepsOK, TypeOK, Acquire, run, exec, tool, delivery, child, Active,
     Ended, Fenced, AgentSteps, ParentSteps
<1>7. LimitsHold'
  BY <1>1, <1>3, NoneOpens DEF TypeOK, Acquire, run, exec, tool, delivery, child, Active, Ended,
     Fenced, AgentSteps, ParentSteps
<1> QED
  BY <1>2, <1>3, <1>4, <1>5, <1>6, <1>7, RowMoves DEF RowOK

\* The Run no longer runs.
LEMMA StaleSound ==
  ASSUME Sound, NEW r \in Runs, Stale(r)
  PROVE  Sound'
<1>1. Shape /\ RunsOK /\ FlowOK /\ ChildOK
      /\ TypeOK /\ StepsOK(r) /\ SlotOK(r) /\ ObservedOK(r) /\ SavedOK(r)
      /\ (r \in Parents <=> r \notin Agents) /\ Tries \in Nat \ {0} /\ Resets \in Nat
  BY Row
<1>2. Still(r)
  BY <1>1 DEF Shape, TypeOK, Still, Stale, Fail, run, exec, tool, delivery, child, Active,
     Ended, Fenced, AgentSteps, ParentSteps
<1>3. Shape'
  <2>1. RunsOK'
    BY <1>1 DEF RunsOK, FlowOK, ChildOK, Stale, Fail, run, exec, tool, delivery, child, Active,
       Ended, Fenced, AgentSteps, ParentSteps
  <2>2. FlowOK'
    BY <1>1 DEF RunsOK, FlowOK, ChildOK, Stale, Fail, run, exec, tool, delivery, child, Active,
       Ended, Fenced, AgentSteps, ParentSteps
  <2>3. ChildOK'
    BY <1>1 DEF RunsOK, FlowOK, ChildOK, Stale, Fail, run, exec, tool, delivery, child, Active,
       Ended, Fenced, AgentSteps, ParentSteps
  <2> QED
    BY <2>1, <2>2, <2>3 DEF Shape, TypeOK, RunsOK, FlowOK, ChildOK
<1>4. StepsOK(r)' /\ SlotOK(r)'
  BY <1>1 DEF StepsOK, SlotOK, TypeOK, Stale, Fail, run, exec, tool, delivery, child, Active,
     Ended, Fenced, AgentSteps, ParentSteps
<1>5. ObservedOK(r)'
  BY <1>1 DEF ObservedOK, StepsOK, TypeOK, Stale, Fail, run, exec, tool, delivery, child,
     Active, Ended, Fenced, AgentSteps, ParentSteps
<1>6. SavedOK(r)'
  BY <1>1 DEF SavedOK, StepsOK, TypeOK, Stale, Fail, run, exec, tool, delivery, child, Active,
     Ended, Fenced, AgentSteps, ParentSteps
<1>7. LimitsHold'
  BY <1>1, <1>3, NoneOpens DEF TypeOK, Stale, Fail, run, exec, tool, delivery, child, Active,
     Ended, Fenced, AgentSteps, ParentSteps
<1> QED
  BY <1>2, <1>3, <1>4, <1>5, <1>6, <1>7, RowMoves DEF RowOK

\* Temporal resets a Workflow that is over.
LEMMA ResetSound ==
  ASSUME Sound, NEW r \in Runs, Reset(r)
  PROVE  Sound'
<1>1. Shape /\ RunsOK /\ FlowOK /\ ChildOK
      /\ TypeOK /\ StepsOK(r) /\ SlotOK(r) /\ ObservedOK(r) /\ SavedOK(r)
      /\ (r \in Parents <=> r \notin Agents) /\ Tries \in Nat \ {0} /\ Resets \in Nat
  BY Row
<1>2. Still(r)
  BY <1>1 DEF Shape, TypeOK, Still, Reset, Go, run, exec, tool, delivery, child, Active, Ended,
     Fenced, AgentSteps, ParentSteps
<1>3. Shape'
  <2>1. RunsOK'
    BY <1>1 DEF RunsOK, FlowOK, ChildOK, Reset, Go, run, exec, tool, delivery, child, Active,
       Ended, Fenced, AgentSteps, ParentSteps
  <2>2. FlowOK'
    BY <1>1 DEF RunsOK, FlowOK, ChildOK, Reset, Go, run, exec, tool, delivery, child, Active,
       Ended, Fenced, AgentSteps, ParentSteps
  <2>3. ChildOK'
    BY <1>1 DEF RunsOK, FlowOK, ChildOK, Reset, Go, run, exec, tool, delivery, child, Active,
       Ended, Fenced, AgentSteps, ParentSteps
  <2> QED
    BY <2>1, <2>2, <2>3 DEF Shape, TypeOK, RunsOK, FlowOK, ChildOK
<1>4. StepsOK(r)' /\ SlotOK(r)'
  BY <1>1 DEF StepsOK, SlotOK, TypeOK, Reset, Go, run, exec, tool, delivery, child, Active,
     Ended, Fenced, AgentSteps, ParentSteps
<1>5. ObservedOK(r)'
  BY <1>1 DEF ObservedOK, StepsOK, TypeOK, Reset, Go, run, exec, tool, delivery, child, Active,
     Ended, Fenced, AgentSteps, ParentSteps
<1>6. SavedOK(r)'
  BY <1>1 DEF SavedOK, StepsOK, TypeOK, Reset, Go, run, exec, tool, delivery, child, Active,
     Ended, Fenced, AgentSteps, ParentSteps
<1>7. LimitsHold'
  BY <1>1, <1>3, NoneOpens DEF TypeOK, Reset, Go, run, exec, tool, delivery, child, Active,
     Ended, Fenced, AgentSteps, ParentSteps
<1> QED
  BY <1>2, <1>3, <1>4, <1>5, <1>6, <1>7, RowMoves DEF RowOK

\* Before any call.
LEMMA InitSound == Init => Sound
<1> SUFFICES ASSUME Init PROVE Sound
  OBVIOUS
<1>1. RunsOK
  BY DEF Init, Each, RunsOK
<1>2. FlowOK
  BY InvocationAssumption DEF Init, Each, FlowOK, Fenced
<1>3. ChildOK
  BY InvocationAssumption DEF Init, Each, ChildOK
<1>4. ASSUME NEW r \in Runs
      PROVE  RowOK(r)
  <2>1. r \in Agents => intent[r] = "none"
    BY DEF Init, Runs
  <2>2. "open" \notin Outcomes
    BY InvocationAssumption
  <2>3. StepsOK(r) /\ SlotOK(r)
    BY DEF Init, Each, StepsOK, SlotOK, AgentSteps, ParentSteps, Active, Ended
  <2>4. ObservedOK(r) /\ SavedOK(r)
    BY <2>2 DEF Init, Each, ObservedOK, SavedOK
  <2> QED
    BY <2>3, <2>4 DEF RowOK
<1>5. LimitsHold
  <2>1. \A R : {r \in R : exe[r] \notin {"none"} \cup Ended} = {} \/ ~(R \subseteq Runs)
    BY DEF Init, Each
  <2>2. \A r \in Runs : {s \in Runs : AccountOf[s] = AccountOf[r]} \subseteq Runs
    OBVIOUS
  <2> QED
    BY <2>1, <2>2, FS_EmptySet, InvocationAssumption DEF LimitsHold
<1> QED
  BY <1>1, <1>2, <1>3, <1>4, <1>5 DEF Sound, Shape, TypeOK, RunsOK, FlowOK, ChildOK

\* Activities of the caller.
LEMMA CallerSound ==
  ASSUME Sound, NEW r \in Runs,
         \/ Prepare(r) \/ PrepareRefused(r) \/ PrepareReplay(r) \/ ObserveResult(r) \/ ObserveMissing(r)
         \/ Publish(r) \/ Save(r) \/ SaveRefused(r) \/ SaveNothing(r) \/ SaveRecorded(r)
         \/ CloseOperation(r) \/ Complete(r) \/ CompleteRefused(r) \/ CompleteAgain(r)
         \/ FailIntent(r) \/ FailDelivery(r)
  PROVE  Sound'
BY PrepareSound, ObserveSound, OnlyAnswersSound, PublishSound, SaveSound, SaveRefusedSound,
   SaveRecordedSound, CloseOperationSound, CompleteSound, CompleteAgainSound, FailIntentSound,
   FailDeliverySound

\* The child and its attempts.
LEMMA ChildSound ==
  ASSUME Sound, NEW r \in Runs,
         \/ ChildAcquires(r) \/ ChildGivesUpTry(r) \/ ChildDone(r) \/ ChildFails(r) \/ ChildCancelled(r)
         \/ \E o \in Outcomes : Publishes(r, holds[r], o)
         \/ \E t \in ghosts[r] : PublishStale(r, t) \/ \E o \in Outcomes : Publishes(r, t, o)
  PROVE  Sound'
<1>1. CASE ChildAcquires(r)
  BY <1>1, AcquiresSound
<1>2. CASE ChildGivesUpTry(r) \/ ChildCancelled(r)
  BY <1>2, GivesUpSound, ChildCancelledSound
<1>3. CASE ChildDone(r) \/ ChildFails(r)
  BY <1>3, ChildDoneSound, ChildFailsSound
<1>4. CASE \E t : \E o \in Outcomes : Publishes(r, t, o)
  BY <1>4, PublishesSound
<1>5. CASE \E t \in ghosts[r] : PublishStale(r, t)
  BY <1>5, PublishStaleSound
<1> QED
  BY <1>1, <1>2, <1>3, <1>4, <1>5

\* The Workflow and the Run around it.
LEMMA WorkflowSound ==
  ASSUME Sound, NEW r \in Runs,
         \/ Prepared(r) \/ StartChild(r) \/ ChildReturned(r) \/ Close(r) \/ Closed(r) \/ Answered(r)
         \/ \E g \in {"none"} \cup Fenced : TryLost(r, g)
         \/ Refused(r) \/ Acquire(r) \/ Stale(r) \/ Reset(r)
         \/ CancelRun(r) \/ Cancelled(r) \/ \E s \in {"succeeded", "failed"} : RunEnds(r, s)
  PROVE  Sound'
<1>1. CASE \/ Prepared(r) \/ StartChild(r) \/ ChildReturned(r) \/ Close(r) \/ Closed(r) \/ Answered(r)
  BY <1>1, PreparedSound, StartSound, ReturnedSound, CloseSound, ClosedSound, AnsweredSound
<1>2. CASE \/ \E g \in {"none"} \cup Fenced : TryLost(r, g)
           \/ Refused(r) \/ Acquire(r) \/ Stale(r) \/ Reset(r)
  BY <1>2, TryLostSound, RefusedSound, AcquireSound, StaleSound, ResetSound
<1>3. CASE CancelRun(r) \/ Cancelled(r) \/ \E s \in {"succeeded", "failed"} : RunEnds(r, s)
  <2>1. \E st \in {"cancelling"} \cup Ended :
          /\ RunTo(r, st) /\ (st = "succeeded" => r \in Agents)
          /\ UNCHANGED <<result, tool, delivery, flow, child, resets>>
    BY <1>3 DEF CancelRun, Cancelled, RunEnds, Ended
  <2> QED
    BY <2>1, RunMovesSound
<1> QED
  BY <1>1, <1>2, <1>3

\* Every step keeps the invariant.
LEMMA StepSound == Sound /\ [Next]_vars => Sound'
<1> SUFFICES ASSUME Sound, [Next]_vars PROVE Sound'
  OBVIOUS
<1>1. CASE Next
  BY <1>1, CallerSound, ChildSound, WorkflowSound DEF Next
<1>2. CASE UNCHANGED vars
  <2>1. /\ UNCHANGED <<runSt, exe, token, result, op, events, observed, view, intent, saved>>
        /\ UNCHANGED <<wpc, ans, tries, late, status, why, cpc, holds, ghosts, atts, resets>>
    BY <1>2 DEF vars, run, exec, tool, delivery, flow, child
  <2>2. Shape' /\ LimitsHold'
    BY <2>1 DEF Sound, Shape, TypeOK, LimitsHold
  <2>3. \A r \in Runs : RowOK(r)'
    BY <2>1 DEF Sound, RowOK, StepsOK, SlotOK, ObservedOK, SavedOK
  <2> QED
    BY <2>2, <2>3 DEF Sound
<1> QED
  BY <1>1, <1>2

\* Only commit_result writes a result, and only under an open Execution.
LEMMA OnlyPublishesResults ==
  ASSUME Sound, [Next]_vars
  PROVE  NoResultAfterCloseStep
<1> SUFFICES ASSUME NEW s \in Runs, exe[s] \in Ended, result[s] = "none", result'[s] # "none"
             PROVE  FALSE
  BY DEF NoResultAfterCloseStep
<1>1. result \in [Runs -> {"none"} \cup Outcomes]
  BY DEF Sound, Shape, TypeOK
<1>2. \E r \in Runs : \E t : \E o \in Outcomes : Publishes(r, t, o)
  <2>1. CASE Next
    <3>1. PICK r \in Runs :
            \/ \/ Prepare(r) \/ PrepareRefused(r) \/ PrepareReplay(r) \/ ObserveMissing(r)
               \/ Publish(r) \/ Save(r) \/ SaveRefused(r) \/ SaveNothing(r) \/ SaveRecorded(r)
            \/ ObserveResult(r)
            \/ \/ CloseOperation(r) \/ Complete(r) \/ CompleteRefused(r) \/ CompleteAgain(r)
               \/ FailIntent(r) \/ FailDelivery(r)
            \/ \/ ChildAcquires(r) \/ ChildGivesUpTry(r) \/ ChildDone(r) \/ ChildFails(r)
               \/ ChildCancelled(r) \/ \E t : PublishStale(r, t)
            \/ \E t : \E o \in Outcomes : Publishes(r, t, o)
            \/ \/ Prepared(r) \/ StartChild(r) \/ ChildReturned(r) \/ Close(r) \/ Closed(r)
               \/ Answered(r) \/ \E g : TryLost(r, g)
            \/ \/ Refused(r) \/ Acquire(r) \/ Stale(r) \/ Reset(r)
               \/ CancelRun(r) \/ Cancelled(r) \/ \E st : RunEnds(r, st)
      BY <2>1 DEF Next
    <3>2. result' # result
      OBVIOUS
    <3>3. ~(\/ Prepare(r) \/ PrepareRefused(r) \/ PrepareReplay(r) \/ ObserveMissing(r)
            \/ Publish(r) \/ Save(r) \/ SaveRefused(r) \/ SaveNothing(r) \/ SaveRecorded(r))
      BY <3>2 DEF Prepare, PrepareRefused, PrepareReplay, ObserveMissing, Publish, Save,
         SaveRefused, SaveNothing, SaveRecorded
    <3>4. ~ObserveResult(r)
      BY <3>2 DEF ObserveResult, Observe
    <3>5. ~(\/ CloseOperation(r) \/ Complete(r) \/ CompleteRefused(r) \/ CompleteAgain(r)
            \/ FailIntent(r) \/ FailDelivery(r))
      BY <3>2 DEF CloseOperation, Complete, CompleteRefused, CompleteAgain, FailIntent, FailDelivery
    <3>6. ~(\/ ChildAcquires(r) \/ ChildGivesUpTry(r) \/ ChildDone(r) \/ ChildFails(r)
            \/ ChildCancelled(r) \/ \E t : PublishStale(r, t))
      BY <3>2 DEF ChildAcquires, ChildGivesUpTry, ChildDone, ChildFails, ChildCancelled, PublishStale
    <3>7. ~(\/ Prepared(r) \/ StartChild(r) \/ ChildReturned(r) \/ Close(r) \/ Closed(r)
            \/ Answered(r) \/ \E g : TryLost(r, g))
      BY <3>2 DEF Prepared, StartChild, ChildReturned, Close, Closed, Answered, TryLost
    <3>8. ~(\/ Refused(r) \/ Acquire(r) \/ Stale(r) \/ Reset(r)
            \/ CancelRun(r) \/ Cancelled(r) \/ \E st : RunEnds(r, st))
      BY <3>2 DEF Refused, Acquire, Stale, Reset, CancelRun, Cancelled, RunEnds
    <3> QED
      BY <3>1, <3>3, <3>4, <3>5, <3>6, <3>7, <3>8
  <2>2. CASE UNCHANGED vars
    BY <2>2 DEF vars
  <2> QED
    BY <2>1, <2>2
<1>3. PICK r \in Runs : \E t : \E o \in Outcomes : Publishes(r, t, o)
  BY <1>2
<1>4. /\ exe[r] \in {"queued", "running"}
      /\ \E v : result' = [result EXCEPT ![r] = v]
  BY <1>3 DEF Publishes, Producer
<1> QED
  BY <1>1, <1>4 DEF Ended

\* Under every schedule of late tries, given-up child attempts, resets and cancellations the
\* rows of a capability call keep the inductive invariant.
THEOREM AlwaysSound == Spec => []Sound
<1>1. Init => Sound
  BY InitSound
<1>2. Sound /\ [Next]_vars => Sound'
  BY StepSound
<1> QED
  BY <1>1, <1>2, PTL DEF Spec

\* Child Executions stay within the limits and end with their Run, an agent is told once what
\* was committed, and a research Run succeeds with a sufficient report saved once
\* (capability_service.py, main_capability.py, research_run.py).
THEOREM CallsAreSafe == Spec => []Safety
<1>1. Sound => Safety
  BY SoundIsSafe
<1> QED
  BY <1>1, AlwaysSound, PTL

\* commit_result under the producer's fence: an Execution closed without a result never gets one.
THEOREM ClosedStaysWithoutResult == Spec => NoResultAfterClose
<1>1. Sound /\ [Next]_vars => [NoResultAfterCloseStep]_vars
  BY OnlyPublishesResults
<1> QED
  BY <1>1, AlwaysSound, PTL DEF Spec, NoResultAfterClose
=============================================================================
