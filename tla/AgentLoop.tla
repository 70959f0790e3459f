------------------------------ MODULE AgentLoop ------------------------------
(***************************************************************************)
(* The durable Agent strategies (agent_workflows/react.py, agent_step.py,  *)
(* plan_execute.py) over the transcript and the Operations their           *)
(* Activities write (agent_activities/runtime.py, store.py).               *)
(*                                                                         *)
(* A Workflow awaits one Activity at a time and threads the transcript     *)
(* version each answer carries into the next request.  Every Activity      *)
(* attempt is a sequence of fenced transactions with a model call between  *)
(* them; an attempt may die, or be given up for dead and live on while the *)
(* next attempt of the same Operation runs.                                *)
(*                                                                         *)
(* The model, the tool and the validity of a respond_directly action are   *)
(* nondeterministic; messages are abstracted to the Operation that wrote   *)
(* them.  An attempt releases its segment in the step that ends it: the    *)
(* order of those two transactions is the subject of ToolExecution.        *)
(***************************************************************************)
EXTENDS Naturals, Sequences, FiniteSets

CONSTANTS
  Strategy,      \* "react" or "plan"
  ToolFirst,     \* main_protocol = tool_first_v1 on a chat root
  MaxTurns,      \* AgentRunInput.max_turns, or AgentStepInput.max_turns
  MaxCalls,      \* bound: tool calls of one decision
  MaxSteps,      \* _parse_plan keeps at most 8 steps
  MaxReplans,    \* the replan limit of plan_execute.py
  MaxAttempts    \* retry_policy.maximum_attempts of execute_segment

LoopAssumption ==
  /\ Strategy \in {"react", "plan"}
  /\ ToolFirst \in BOOLEAN
  /\ MaxTurns \in Nat \ {0}
  /\ MaxCalls \in Nat \ {0}
  /\ MaxSteps \in Nat \ {0}
  /\ MaxReplans \in Nat
  /\ MaxAttempts \in Nat \ {0}

VARIABLES
  run,     \* "running", or "revoked" once the Run leaves running
  log,     \* agent_transcript_events in sequence order: the writing Operation
  ops,     \* execution_operations: Operation id -> row
  owner,   \* the token whose lease is live, 0 when the segment is released
  cur,     \* the Activity attempt the Workflow awaits, or Idle
  late,    \* an attempt given up for dead that still runs, or Idle
  wf,      \* the Workflow's local state
  tries    \* attempts spent on the awaited Operation

storeVars == <<run, log, ops, owner>>
vars == <<storeVars, cur, late, wf, tries>>
-----------------------------------------------------------------------------
(* Operations and their results *)

\* An Operation id names its kind, plan version, step, turn and tool call.
Operation(k, v, s, n, c) == [k |-> k, v |-> v, s |-> s, n |-> n, c |-> c]

ModelKinds == {"model", "forced", "synthesis"}
FinalOnly(o) == o.k \in {"forced", "synthesis"}
AsksModel(o) == o.k \in ModelKinds \union {"plan", "eval"}
HasEvent(o) == o.k # "eval"
RespondOp(o) == [o EXCEPT !.k = "respond"]
ToolOp(o, c) == [o EXCEPT !.k = "tool", !.c = c]

\* What an Operation's stored payload tells the Workflow.
Result(type, num, ver) == [type |-> type, num |-> num, ver |-> ver]
NoResult == Result("none", 0, 0)

Version == Len(log)
Known(o) == o \in DOMAIN ops
Completed(o) == Known(o) /\ ops[o].st = "completed"
Logged(o) == \E i \in 1..Len(log) : log[i] = o
SequenceOf(o) == CHOOSE i \in 1..Len(log) : log[i] = o

SetOp(o, st, by, res) ==
  ops' = [x \in DOMAIN ops \union {o} |->
            IF x = o THEN [st |-> st, by |-> by, res |-> res] ELSE ops[x]]

Idle == [op |-> Operation("idle", 0, 0, 0, 0), ph |-> "idle", token |-> 0,
         ver |-> 0, out |-> NoResult]
-----------------------------------------------------------------------------
(* The Workflow: which Operation it awaits, and what an answer does *)

Ended == {"done", "failed", "cancelled"}

\* operation_id of the request the Workflow has dispatched.
Awaited ==
  CASE wf.pc = "context"   -> Operation("context", 0, 0, 0, 0)
    [] wf.pc = "plan"      -> Operation("plan", wf.v, 0, 0, 0)
    [] wf.pc = "model"     -> Operation("model", wf.v, wf.s, wf.n, 0)
    [] wf.pc = "forced"    -> Operation("forced", wf.v, wf.s, wf.n, 0)
    [] wf.pc = "tool"      -> Operation("tool", wf.v, wf.s, wf.n, wf.c)
    [] wf.pc = "eval"      -> Operation("eval", wf.v, wf.s, 0, 0)
    [] wf.pc = "synthesis" -> Operation("synthesis", wf.v, 0, wf.steps + 1, 0)
    [] OTHER               -> Idle.op

\* The turn after the last one is the forced final decision.
NextTurn(w) ==
  [w EXCEPT !.n = w.n + 1, !.c = 0, !.calls = 0,
            !.pc = IF w.n < MaxTurns THEN "model" ELSE "forced"]

StartStep(w, s) == [w EXCEPT !.pc = "model", !.s = s, !.n = 1, !.c = 0, !.calls = 0]

Bootstrapped(w) ==
  IF Strategy = "react" THEN [w EXCEPT !.pc = "model", !.n = 1]
                        ELSE [w EXCEPT !.pc = "plan", !.v = 1]

\* A step's or the ReAct loop's answer: ReAct returns it; a plan records it and
\* evaluates, except that Main's terminal response ends the whole plan.
Answered(w, ref) ==
  IF Strategy = "react" \/ ref.k = "respond"
  THEN [w EXCEPT !.pc = "done", !.result = ref]
  ELSE [w EXCEPT !.pc = "eval", !.refs = Append(w.refs, ref)]

Decided(w, r, ref) ==
  CASE r.type = "final" -> Answered(w, ref)
    [] r.type # "final" /\ r.num > 0 -> [w EXCEPT !.pc = "tool", !.c = 1, !.calls = r.num]
    [] OTHER -> NextTurn(w)

ToolAnswered(w) == IF w.c < w.calls THEN [w EXCEPT !.c = w.c + 1] ELSE NextTurn(w)

Replan(w) ==
  IF w.replans >= MaxReplans
  THEN [w EXCEPT !.pc = "failed", !.replans = w.replans + 1]
  ELSE [w EXCEPT !.pc = "plan", !.replans = w.replans + 1, !.v = w.v + 1, !.s = 0]

Evaluated(w, decision) ==
  CASE decision = "fail" -> [w EXCEPT !.pc = "failed"]
    [] decision = "replan" -> Replan(w)
    [] decision = "continue" /\ w.s < w.steps -> StartStep(w, w.s + 1)
    [] OTHER -> [w EXCEPT !.pc = "synthesis"]

\* The Workflow's step on the answer r of operation o; ref is its result_ref.
Advance(o, r, ref) ==
  LET w == IF HasEvent(o) THEN [wf EXCEPT !.tv = r.ver] ELSE wf
  IN CASE o.k = "context" -> Bootstrapped(w)
       [] o.k = "plan" -> StartStep([w EXCEPT !.steps = r.num], 1)
       [] o.k = "model" -> Decided(w, r, ref)
       [] o.k = "tool" -> ToolAnswered(w)
       [] o.k = "forced" -> Answered(w, ref)
       [] o.k = "eval" -> Evaluated(w, r.type)
       [] OTHER -> [w EXCEPT !.pc = "done", !.result = ref]
-----------------------------------------------------------------------------
(* execute_segment: attempts, fences, retries *)

\* assert_execution_fence: the Run still runs and the attempt's lease is live.
Fenced(a) == run = "running" /\ a.token = owner

Stale(a) == ~Fenced(a)

\* The code's token grows with every acquire.  What counts is that no living
\* attempt shares it, and at most one earlier attempt lives: two tokens do.
NewToken == IF late.token = 1 THEN 2 ELSE 1

\* acquire_segment hands out a new token; the request carries the Workflow's
\* transcript version.
Dispatch ==
  /\ cur = Idle
  /\ wf.pc \notin Ended
  /\ run = "running"
  /\ tries < MaxAttempts
  /\ owner' = NewToken
  /\ cur' = [op |-> Awaited, ph |-> "begin", token |-> NewToken, ver |-> wf.tv, out |-> NoResult]
  /\ tries' = tries + 1
  /\ UNCHANGED <<run, log, ops, late, wf>>

\* acquire_segment of a revoked Run: run_not_executable cancels the Workflow.
AcquireRefused ==
  /\ cur = Idle
  /\ wf.pc \notin Ended
  /\ run = "revoked"
  /\ wf' = [wf EXCEPT !.pc = "cancelled"]
  /\ UNCHANGED <<storeVars, cur, late, tries>>

\* The attempt answers: release the segment and step the Workflow.
Returns(r, ref) ==
  /\ cur' = Idle
  /\ owner' = 0
  /\ wf' = Advance(cur.op, r, ref)
  /\ tries' = 0

\* The attempt fails: another attempt after the backoff, or the error ends the
\* Workflow.
Fails(fatal) ==
  /\ cur' = Idle
  /\ owner' = 0
  /\ IF fatal \/ tries = MaxAttempts
       THEN wf' = [wf EXCEPT !.pc = "failed"] /\ tries' = 0
       ELSE UNCHANGED <<wf, tries>>

\* An attempt the Workflow no longer awaits just stops.
Vanishes == late' = Idle /\ UNCHANGED <<owner, cur, wf, tries>>

IsCur(a) == a = cur /\ cur # Idle
IsLate(a) == a = late /\ late # Idle
Alive(a) == IsCur(a) \/ IsLate(a)

Answers(a, r, ref) ==
  IF IsCur(a) THEN Returns(r, ref) /\ UNCHANGED late ELSE Vanishes

Raises(a, fatal) ==
  IF IsCur(a) THEN Fails(fatal) /\ UNCHANGED late ELSE Vanishes

Goes(a, ph, out) ==
  LET b == [a EXCEPT !.ph = ph, !.out = out]
  IN /\ IF IsCur(a) THEN cur' = b /\ UNCHANGED late ELSE late' = b /\ UNCHANGED cur
     /\ UNCHANGED <<owner, wf, tries>>

\* Heartbeat timeout of an attempt that lives on (one at a time is followed).
TimesOut ==
  /\ cur # Idle
  /\ late = Idle
  /\ late' = cur
  /\ Fails(FALSE)
  /\ UNCHANGED <<run, log, ops>>

\* The Worker dies with the attempt.
Crash ==
  /\ cur # Idle
  /\ Fails(FALSE)
  /\ UNCHANGED <<run, log, ops, late>>

\* Cancellation or terminal recovery takes the Run, and its lease, away.
Revoke ==
  /\ run = "running"
  /\ wf.pc \notin Ended
  /\ run' = "revoked"
  /\ owner' = 0
  /\ UNCHANGED <<log, ops, cur, late, wf, tries>>
-----------------------------------------------------------------------------
(* One Activity attempt *)

Writes(a) == IF a.ph \in {"respond_write", "respond_answer"} THEN RespondOp(a.op) ELSE a.op

CarriesResult(a) ==
  a.ph = "respond_write" \/ (a.ph = "write" /\ a.op.k # "context")

\* A write of a stale attempt raises stale_fencing_token.  A result it carries
\* is received outside the fence: a revoked Run keeps it in the Operation when
\* no newer attempt took the Operation over, and never in the transcript.
Refused(a) ==
  /\ Alive(a)
  /\ Stale(a)
  /\ a.ph \notin {"call", "answer", "respond_answer"}
  /\ IF CarriesResult(a) /\ run = "revoked" /\ ~Completed(Writes(a)) /\ ops[Writes(a)].by = a.token
       THEN SetOp(Writes(a), "completed", a.token, a.out)
       ELSE UNCHANGED ops
  /\ Raises(a, FALSE)
  /\ UNCHANGED <<run, log>>

\* begin_operation: a completed Operation answers from its stored payload, and
\* one whose decision is Main's response goes on to that response.
Begin(a) ==
  /\ Alive(a) /\ Fenced(a)
  /\ a.ph = "begin"
  /\ IF Completed(a.op)
     THEN /\ UNCHANGED ops
          /\ IF ops[a.op].res.type = "respond"
               THEN Goes(a, "respond", ops[a.op].res)
               ELSE Answers(a, ops[a.op].res, a.op)
     ELSE /\ SetOp(a.op, "started", a.token, NoResult)
          /\ Goes(a, IF a.op.k = "context" THEN "call" ELSE "load", NoResult)
  /\ UNCHANGED <<run, log>>

\* planning turns a version conflict into the retryable planning_failed.
ConflictIsFatal(o) == o.k # "plan"

\* fail_operation, which evaluate_plan never calls and which leaves a completed
\* Operation alone; a tool's intent is kept (ToolExecution).
FailsOperation(o) == o.k \notin {"eval", "tool"} /\ ~Completed(o)

Fail(a, fatal) ==
  /\ IF FailsOperation(a.op) THEN SetOp(a.op, "failed", a.token, NoResult) ELSE UNCHANGED ops
  /\ Raises(a, fatal)

\* load_messages and the check of the version the request was built for.
Load(a) ==
  /\ Alive(a) /\ Fenced(a)
  /\ a.ph = "load"
  /\ IF Version = a.ver
       THEN UNCHANGED ops /\ Goes(a, "call", NoResult)
       ELSE Fail(a, ConflictIsFatal(a.op))
  /\ UNCHANGED <<run, log>>

\* What _parse_plan, _parse_evaluation and the decision protocol make of the
\* model's text; an unreadable evaluation completes on the last step only.
DefaultDecision(o) == IF o.s >= wf.steps THEN "complete" ELSE "continue"

Choices(o) ==
  CASE o.k = "tool"    -> {Result("tool", 0, 0)}
    [] o.k = "plan"    -> {Result("plan", m, 0) : m \in 1..MaxSteps}
    [] o.k = "eval"    -> {Result(d, 0, 0) : d \in {"continue", "replan", "complete", "fail",
                                                    DefaultDecision(o)}}
    [] FinalOnly(o)    -> IF ToolFirst THEN {Result("respond", 1, 0), Result("invalid", 0, 0)}
                                       ELSE {Result("final", 0, 0)}
    [] OTHER           -> IF ToolFirst
                          THEN {Result("respond", 1, 0), Result("tool_calls", 1, 0),
                                Result("tool_calls", 0, 0)}
                          ELSE {Result("final", 0, 0)}
                                 \union {Result("tool_calls", m, 0) : m \in 1..MaxCalls}

\* context_bootstrap loads the Run's input, rewrites the recall query with a
\* model, recalls memory and composes the messages, outside any transaction.
AssembleContext(a) ==
  /\ Alive(a)
  /\ a.ph = "call" /\ a.op.k = "context"
  /\ Goes(a, "write", Result("context", 0, 1))
  /\ UNCHANGED <<run, log, ops>>

\* The model or the tool answers, outside any transaction.  A final-only
\* decision that is no respond_directly is refused, the Operation left started.
Call(a) ==
  /\ Alive(a)
  /\ a.ph = "call" /\ a.op.k # "context"
  /\ \E r \in Choices(a.op) :
       IF r.type = "invalid" THEN Raises(a, TRUE) ELSE Goes(a, "write", r)
  /\ UNCHANGED <<run, log, ops>>

\* The call fails: a classified model failure, a budget, a failing loader.
CallFails(a) ==
  /\ Alive(a)
  /\ a.ph = "call"
  /\ \E fatal \in BOOLEAN :
       IF Fenced(a) THEN Fail(a, fatal) ELSE UNCHANGED ops /\ Raises(a, FALSE)
  /\ UNCHANGED <<run, log>>

\* complete_operation accepts a repetition of the stored result, nothing else.
CanComplete(o, r) == Completed(o) => ops[o].res = r

\* create_transcript: the first writer fills version 1, a later one finds it.
CreateTranscript(a) ==
  /\ Alive(a) /\ Fenced(a)
  /\ a.ph = "write" /\ a.op.k = "context"
  /\ log' = IF Version = 0 THEN <<a.op>> ELSE log
  /\ SetOp(a.op, "completed", a.token, a.out)
  /\ Goes(a, "answer", a.out)
  /\ UNCHANGED run

\* complete_operation of an evaluation, which writes no event.
CompleteOperation(a) ==
  /\ Alive(a) /\ Fenced(a)
  /\ a.ph = "write" /\ a.op.k = "eval"
  /\ IF CanComplete(a.op, a.out)
       THEN SetOp(a.op, "completed", a.token, a.out) /\ Goes(a, "answer", a.out)
       ELSE UNCHANGED ops /\ Raises(a, FALSE)
  /\ UNCHANGED <<run, log>>

\* complete_operation_with_event appends when the transcript still has the
\* expected version; otherwise it finds its own event or reports a conflict.
CanAppend(o, r, expected) ==
  Version = expected /\ CanComplete(o, [r EXCEPT !.ver = expected + 1])

AppendEvent(a, o) ==
  /\ log' = Append(log, o)
  /\ SetOp(o, "completed", a.token, [a.out EXCEPT !.ver = Version + 1])

CompleteWithEvent(a) ==
  LET r == [a.out EXCEPT !.ver = Version + 1]
  IN
  /\ Alive(a) /\ Fenced(a)
  /\ a.ph = "write" /\ a.op.k \notin {"context", "eval"}
  /\ \/ /\ CanAppend(a.op, a.out, a.ver)
        /\ AppendEvent(a, a.op)
        /\ Goes(a, IF r.type = "respond" THEN "respond" ELSE "answer", r)
     \/ /\ Version # a.ver /\ Logged(a.op)
        /\ UNCHANGED <<log, ops>>
        /\ Goes(a, "answer", [a.out EXCEPT !.ver = SequenceOf(a.op)])
     \/ /\ ~CanAppend(a.op, a.out, a.ver) /\ (Version = a.ver \/ ~Logged(a.op))
        /\ UNCHANGED log
        /\ Fail(a, Version # a.ver /\ ConflictIsFatal(a.op))
  /\ UNCHANGED run

\* The committed result reaches the Workflow: the attempt may die before that.
Answer(a) ==
  /\ Alive(a)
  /\ a.ph = "answer"
  /\ Answers(a, a.out, a.op)
  /\ UNCHANGED <<run, log, ops>>

\* A final-only decision whose response was rejected ends the Workflow.
RespondAnswer(a, r) ==
  IF FinalOnly(a.op) /\ r.type # "final"
  THEN Raises(a, TRUE)
  ELSE Answers(a, r, RespondOp(a.op))

RespondAnswers(a) ==
  /\ Alive(a)
  /\ a.ph = "respond_answer"
  /\ RespondAnswer(a, a.out)
  /\ UNCHANGED <<run, log, ops>>

\* _main_response: begin_operation of the response replays a completed one.
RespondBegin(a) ==
  /\ Alive(a) /\ Fenced(a)
  /\ a.ph = "respond"
  /\ IF Completed(RespondOp(a.op))
     THEN UNCHANGED ops /\ RespondAnswer(a, ops[RespondOp(a.op)].res)
     ELSE /\ SetOp(RespondOp(a.op), "started", a.token, NoResult)
          /\ \E t \in {"final", "tool_calls"} :
               Goes(a, "respond_write", Result(t, 0, a.out.ver))
  /\ UNCHANGED <<run, log>>

\* The receipt, or the rejection, answers the respond_directly call right after
\* the decision that made it.
RespondWrite(a) ==
  LET o == RespondOp(a.op) r == [a.out EXCEPT !.ver = Version + 1]
  IN
  /\ Alive(a) /\ Fenced(a)
  /\ a.ph = "respond_write"
  /\ \/ /\ CanAppend(o, a.out, a.out.ver)
        /\ AppendEvent(a, o)
        /\ Goes(a, "respond_answer", r)
     \/ /\ ~CanAppend(o, a.out, a.out.ver)
        /\ UNCHANGED log
        /\ \E fatal \in BOOLEAN : Fail(a, fatal)
  /\ UNCHANGED run
-----------------------------------------------------------------------------
(* The specification *)

Init ==
  /\ run = "running"
  /\ log = <<>>
  /\ ops = [o \in {} |-> Idle]
  /\ owner = 0
  /\ cur = Idle
  /\ late = Idle
  /\ wf = [pc |-> "context", v |-> 0, s |-> 0, n |-> 0, c |-> 0, calls |-> 0, tv |-> 0,
           steps |-> 0, replans |-> 0, refs |-> <<>>, result |-> Idle.op]
  /\ tries = 0

Works(a) ==
  \/ Begin(a) \/ Load(a) \/ AssembleContext(a) \/ Call(a) \/ CallFails(a)
  \/ CreateTranscript(a) \/ CompleteOperation(a) \/ CompleteWithEvent(a)
  \/ Answer(a) \/ RespondBegin(a) \/ RespondWrite(a) \/ RespondAnswers(a) \/ Refused(a)

CurWorks == Works(cur)
LateWorks == Works(late)

Next == Dispatch \/ AcquireRefused \/ TimesOut \/ Crash \/ Revoke \/ CurWorks \/ LateWorks

Spec == Init /\ [][Next]_vars

\* Temporal dispatches every Activity of an open Workflow and an attempt that
\* is neither lost nor timed out takes its next step.  Crashes, timeouts, model
\* failures, the Run's end and a forgotten attempt's steps may never happen.
FairSpec == Spec /\ WF_vars(Dispatch) /\ WF_vars(AcquireRefused) /\ WF_vars(CurWorks)
-----------------------------------------------------------------------------
(* Properties *)

OpKinds == {"context", "plan", "model", "forced", "tool", "eval", "synthesis", "respond"}

\* Every variable keeps its type; a row is known before it has a result.
TypeOK ==
  /\ run \in {"running", "revoked"}
  /\ \A i \in 1..Len(log) : Completed(log[i]) /\ HasEvent(log[i])
  /\ \A o \in DOMAIN ops :
       /\ o.k \in OpKinds
       /\ ops[o].st \in {"started", "failed", "completed"}
       /\ ops[o].st # "completed" => ops[o].res = NoResult
  /\ owner \in 0..2
  /\ cur = Idle => owner = 0
  /\ tries \in 0..MaxAttempts

\* Whenever the model is asked, every tool call of every decision it is shown
\* has its result in the transcript, respond_directly's receipt or rejection
\* included: a request with a pending call is refused by the provider and would
\* end the Run (runtime.py model_decision: "do not leave pending tool calls").
CallsAnswered ==
  (cur.ph = "call" /\ AsksModel(cur.op)) =>
    \A i \in 1..Len(log) :
      LET d == log[i] r == ops[d].res
      IN d.k \in ModelKinds =>
           CASE r.type = "tool_calls" -> \A c \in 1..r.num : Logged(ToolOp(d, c))
             [] r.type = "respond" -> Logged(RespondOp(d))
             [] OTHER -> TRUE

\* The version a live attempt carries is the transcript's: an optimistic check
\* that ends the Run must never fire on the Workflow's own retries, whatever
\* was committed by an attempt whose answer was lost.
VersionsThread ==
  Fenced(cur) =>
    /\ (cur.ph \in {"load", "call", "write"} /\ cur.op.k # "context") => Version = cur.ver
    /\ cur.ph = "respond_write" => Version = cur.out.ver

\* The model is not asked again for a decision that is already stored: a retry
\* after a lost answer replays it, so a plan or a tool choice never changes
\* under the Workflow and is not paid for twice.
DecidedOnce ==
  (Fenced(cur) /\ cur.ph \in {"load", "call"}) => ~Completed(cur.op)

\* The reference a Workflow ends with names a stored answer with content:
\* finalize_agent_result reads it back.  A decision still holding tool calls or
\* a rejected response is no answer.
ResultIsAnswer ==
  wf.pc = "done" => Completed(wf.result) /\ ops[wf.result].res.type = "final"

Before(o, p) == o.v < p.v \/ (o.v = p.v /\ o.s < p.s)

\* A plan runs its steps in order, each once in a plan version, and keeps the
\* answer of every one it evaluated, over every replan.
StepsInOrder ==
  /\ \A i, j \in 1..Len(wf.refs) : i < j => Before(wf.refs[i], wf.refs[j])
  /\ wf.v <= MaxReplans + 1
  /\ wf.pc = "eval" => /\ wf.refs # <<>>
                       /\ LET o == wf.refs[Len(wf.refs)]
                          IN o.v = wf.v /\ o.s = wf.s /\ Completed(o)

\* Only the attempt the Workflow awaits writes the transcript: an attempt given
\* up for dead may still be waiting for its model, and a decision of it would
\* race the one of its replacement (assert_execution_fence).
OnlyTheAwaitedWrites ==
    log' # log => /\ cur.ph \in {"write", "respond_write"}
                  /\ log'[Len(log')] = Writes(cur)

\* Whatever the model answers and whichever attempts die, the strategy ends.
AgentEnds == <>(wf.pc \in Ended)

\* The decisions of a strategy are threaded, answered and counted once, whatever
\* attempt or Activity is late (react.py, plan_execute.py, main_response.py).
Safety ==
    /\ TypeOK
    /\ CallsAnswered
    /\ VersionsThread
    /\ DecidedOnce
    /\ ResultIsAnswer
    /\ StepsInOrder
=============================================================================
