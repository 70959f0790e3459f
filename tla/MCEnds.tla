------------------------------- MODULE MCEnds -------------------------------
(*****************************************************************************)
(* What must end, ends: the components side by side under their fairness, on *)
(* their smallest instances.  One part is chosen at the start and the others *)
(* stand still.                                                              *)
(*****************************************************************************)
EXTENDS Naturals, Sequences, FiniteSets

CONSTANTS Parts, Absent, None
VARIABLES part, runSt, retryOf, older, intent, termEv, rowSt, rowTid, evSt, evBy, evAtt,
          wpc, wcur, wbatch, tmpSt, tmpCancel, flow, late, rpc, rtodo, rcur, faults, run,
          token, owner, live, segSt, cls, opSt, opAtt, attempts, receipts, opRes, event,
          dpc, seg, dout, dres, apc, tok, prior, may, aout, orphan, lateCtl, effects,
          wStatus, revision, epoch, cont, coordinator, wakeup, target, bound, runWork,
          runRev, runEpoch, dSt, dPart, dTok, lapsed, via, again, unapplied, commands, pos,
          job, out, wire, taken, log, ops, cur, wf, tries, kind, scope, deleg, exe, err,
          res, outcome, ans, bpc, bout, btries, agg, refused, why, result, op, events,
          observed, view, saved, cpc, holds, ghosts, atts, status, resets, row, ppc, sinks,
          cache, held, inflight, active, gate, sub, reader, queue, used, reason, seen,
          frames, feed, order, shown, poll, failures, sweeps, losses, expiry, refs, staging,
          object, put, runActive, holder, gc, fresh, turn, pc, ghost, stalled, versions,
          runs, fence, att, calls, reserved, staged, file, account, window, replies, locks,
          handler, told, delivered, conn, call, current, handled, sender, lock, cool, done,
          real, trouble, monitor, starts, issued, dead, fetch, refresh, loop, heart, known,
          ws, link, gap, sent, st, gen, manual, blocked, acts, guard, wk, rop, doc, fact,
          flight, made, http, connected, sid, age, stack, server, handshakes, settled,
          process, manager, at, stdin, stdout, disturbed, hung

Run == INSTANCE RunDispatch WITH
    Runs <- {"r1"}, Convs <- {"c1"}, ConvOf <- [r \in {"r1"} |-> "c1"], Pids <- {"p1"},
    NoPid <- None, NoRun <- None, Workers <- {"w1"}, PidOf <- [w \in {"w1"} |-> "p1"],
    MaxAttempts <- 2, BatchLimit <- 1, ReconLimit <- 1, MaxFaults <- 1
Tool == INSTANCE ToolExecution WITH
    MaxSegments <- 2, MaxFaults <- 1
Delivery == INSTANCE WorkDelivery WITH
    Works <- {"work1"}, Daily <- {}, Runs <- {"run1"}, Chats <- {"chat1"},
    Inbox <- {"chat1"}, Accounts <- {"a1"},
    Owner <- [x \in {"work1", "chat1"} |-> "a1"], None <- None, MaxCommands <- 1,
    Senders <- {"x1"}, Parts <- 2, GlobalLimit <- 1, AccountLimit <- 1
Agent == INSTANCE AgentLoop WITH
    Strategy <- "react", ToolFirst <- FALSE, MaxTurns <- 1, MaxCalls <- 1,
    MaxSteps <- 1, MaxReplans <- 0, MaxAttempts <- 2
Branches == INSTANCE Delegation WITH
    Runs <- {"r1"}, AccountOf <- [r \in {"r1"} |-> "a1"], Keys <- {"k1"},
    Required <- {"k1"}, GlobalLimit <- 3, AccountLimit <- 3,
    BranchErrors <- {"run_budget_exhausted", "TimeoutError"}, Tries <- 2
Called == INSTANCE Invocation WITH
    Agents <- {"r1"}, Parents <- {}, AccountOf <- [r \in {"r1"} |-> "a1"],
    GlobalLimit <- 1, AccountLimit <- 1, Tries <- 1, Resets <- 1,
    Outcomes <- {"succeeded", "uncertain"}
Parent == INSTANCE Invocation WITH
    Agents <- {}, Parents <- {"r1"}, AccountOf <- [r \in {"r1"} |-> "a1"],
    GlobalLimit <- 1, AccountLimit <- 1, Tries <- 2, Resets <- 0,
    Outcomes <- {"succeeded", "insufficient"}
Feed == INSTANCE RunFeed WITH
    Conns <- {"c1"}, Workers <- {"w1"}, Publishers <- {"x1"}, MaxConnections <- 1,
    Buffer <- 1, Bytes <- 2, MaxGap <- 1, Streams <- 1, Events <- 1, Failures <- 0,
    Sweeps <- 0, Losses <- 0, Cuts <- 1
Files == INSTANCE FileObjects WITH
    Uploads <- {"u1", "u2"}, Outputs <- {}, Puts <- {"p1"}, Attempts <- {},
    Contents <- {"c1"}, Kinds <- {"message"}, PageLimit <- 2, MaxFaults <- 1
Tickets == INSTANCE Capacity WITH
    Tickets <- {"b1", "b2"}, AccountOf <- [t \in {"b1", "b2"} |-> t],
    LaneOf <- [t \in {"b1", "b2"} |-> "background"], Total <- 2, Interactive <- 1,
    PerAccount <- 2, MaxStalls <- 0
Page == INSTANCE HtmlBuild WITH
    MaxRuns <- 2, MaxAttempts <- 1, Docs <- {"d1"}, Standalone <- FALSE, None <- None
Qq == INSTANCE QqIngress WITH
    Messages <- {"m1", "x"}, RouteOf <- [m \in {"m1", "x"} |-> "room"],
    SenderOf <- [m \in {"m1", "x"} |-> "s1"],
    OpOf <- [m1 |-> "message", x |-> "malformed"],
    TargetOf <- [m \in {"m1", "x"} |-> None], Groups <- {"room"}, Untriggered <- {},
    Accounts <- {"a1"}, FirstAccount <- [s \in {"s1"} |-> "a1"], Handlers <- {"h1"},
    WindowSize <- 1, MaxDelivery <- 2, MaxWeb <- 0, MaxRebind <- 0, MaxCrash <- 0,
    Faults <- {"redis", "database", "lost", "channel"}, None <- None
Link == INSTANCE OneBot11 WITH
    MaxConn <- 2, Senders <- {}, QueueSize <- 1, MaxEvent <- 0, MaxTrouble <- 1,
    Faults <- {"replace", "drop", "slow", "odd", "offline"}, None <- None
Gateway == INSTANCE OfficialQQ WITH
    Senders <- {}, Durable <- {}, MaxToken <- 3, MaxEvent <- 1, MaxStart <- 1,
    MaxTrouble <- 2, Faults <- {"drop", "again", "fetch", "callback"}, None <- None
Memory == INSTANCE MemorySource WITH
    Sources <- {"chat"}, ParentOf <- [s \in {"chat"} |-> "none"], Workers <- {"w1"},
    NoWorker <- None, Decisions <- {"allow"}, Kinds <- {"delete", "correct", "revoke"},
    MaxGen <- 2, MaxFails <- 1, Faults <- 1, Rejects <- FALSE
Http == INSTANCE McpHttp WITH
    Callers <- {"x1"}, KeepAlive <- "ka", MaxDepth <- 1,
    Hazards <- {"age", "expire", "down", "refuse", "settle"}
Stdio == INSTANCE McpStdio WITH
    Callers <- {"x1"}, Pingers <- {"ka"}, Manager <- "mg", MaxStale <- 1,
    Hazards <- {"slow", "cancel", "notes", "dies", "hangs", "stop", "settle"}

ASSUME Agent!LoopAssumption
ASSUME Branches!DelegationAssumption
ASSUME Feed!RunFeedAssumption
ASSUME Files!FileAssumption
ASSUME Page!HtmlAssumption
ASSUME Memory!MemoryAssumption
ASSUME Http!HttpAssumption
ASSUME Stdio!StdioAssumption

sideVars == <<part, runSt, retryOf, older, intent, termEv, rowSt, rowTid, evSt, evBy,
              evAtt, wpc, wcur, wbatch, tmpSt, tmpCancel, flow, late, rpc, rtodo, rcur,
              faults, run, token, owner, live, segSt, cls, opSt, opAtt, attempts,
              receipts, opRes, event, dpc, seg, dout, dres, apc, tok, prior, may, aout,
              orphan, lateCtl, effects, wStatus, revision, epoch, cont, coordinator,
              wakeup, target, bound, runWork, runRev, runEpoch, dSt, dPart, dTok, lapsed,
              via, again, unapplied, commands, pos, job, out, wire, taken, log, ops, cur,
              wf, tries, kind, scope, deleg, exe, err, res, outcome, ans, bpc, bout,
              btries, agg, refused, why, result, op, events, observed, view, saved, cpc,
              holds, ghosts, atts, status, resets, row, ppc, sinks, cache, held, inflight,
              active, gate, sub, reader, queue, used, reason, seen, frames, feed, order,
              shown, poll, failures, sweeps, losses, expiry, refs, staging, object, put,
              runActive, holder, gc, fresh, turn, pc, ghost, stalled, versions, runs,
              fence, att, calls, reserved, staged, file, account, window, replies, locks,
              handler, told, delivered, conn, call, current, handled, sender, lock, cool,
              done, real, trouble, monitor, starts, issued, dead, fetch, refresh, loop,
              heart, known, ws, link, gap, sent, st, gen, manual, blocked, acts, guard, wk,
              rop, doc, fact, flight, made, http, connected, sid, age, stack, server,
              handshakes, settled, process, manager, at, stdin, stdout, disturbed, hung>>

\* A variable is idle in the parts that do not have it, and stays so.
Only(parts, v) == IF part \in parts THEN TRUE ELSE v = Absent
Still(parts, vs) == IF part \in parts THEN TRUE ELSE UNCHANGED vs

\* The parts of each component.
RunDispatchParts == {"run"}
ToolExecutionParts == {"tool"}
WorkDeliveryParts == {"delivery"}
AgentLoopParts == {"agent"}
DelegationParts == {"branches"}
InvocationParts == {"call", "parent"}
RunFeedParts == {"feed"}
FileObjectsParts == {"gc"}
CapacityParts == {"capacity"}
HtmlBuildParts == {"page"}
QqIngressParts == {"qq"}
OneBot11Parts == {"link"}
OfficialQQParts == {"gateway"}
MemorySourceParts == {"memory"}
McpHttpParts == {"http"}
McpStdioParts == {"stdio"}

SideInit ==
    /\ part \in Parts
    /\ part = "run" => Run!Init
    /\ part = "tool" => Tool!Init
    /\ part = "delivery" => Delivery!Init
    /\ part = "agent" => Agent!Init
    /\ part = "branches" => Branches!Init
    /\ part = "call" => Called!Init
    /\ part = "parent" => Parent!Init
    /\ part = "feed" => Feed!Init
    /\ part = "gc" => Files!Init
    /\ part = "capacity" => Tickets!Init
    /\ part = "page" => Page!Init
    /\ part = "qq" => Qq!Init
    /\ part = "link" => Link!Init
    /\ part = "gateway" => Gateway!Init
    /\ part = "memory" => Memory!Init
    /\ part = "http" => Http!Init
    /\ part = "stdio" => Stdio!Init
    /\ Only(RunDispatchParts \cup WorkDeliveryParts \cup DelegationParts \cup InvocationParts, runSt)
    /\ Only(RunDispatchParts, retryOf) /\ Only(RunDispatchParts, older)
    /\ Only(RunDispatchParts, termEv) /\ Only(RunDispatchParts, rowSt)
    /\ Only(RunDispatchParts, rowTid) /\ Only(RunDispatchParts, evSt)
    /\ Only(RunDispatchParts, evBy) /\ Only(RunDispatchParts, evAtt)
    /\ Only(RunDispatchParts, wcur) /\ Only(RunDispatchParts, wbatch)
    /\ Only(RunDispatchParts, tmpSt) /\ Only(RunDispatchParts, tmpCancel)
    /\ Only(RunDispatchParts, flow) /\ Only(RunDispatchParts, rpc)
    /\ Only(RunDispatchParts, rtodo) /\ Only(RunDispatchParts, rcur)
    /\ Only(RunDispatchParts \cup InvocationParts \cup FileObjectsParts \cup HtmlBuildParts, intent)
    /\ Only(RunDispatchParts \cup DelegationParts \cup InvocationParts, wpc)
    /\ Only(RunDispatchParts \cup AgentLoopParts \cup DelegationParts \cup InvocationParts, late)
    /\ Only(RunDispatchParts \cup ToolExecutionParts \cup FileObjectsParts \cup MemorySourceParts, faults)
    /\ Only(ToolExecutionParts \cup AgentLoopParts \cup RunFeedParts, run)
    /\ Only(ToolExecutionParts \cup InvocationParts \cup OfficialQQParts, token)
    /\ Only(ToolExecutionParts \cup AgentLoopParts, owner)
    /\ Only(ToolExecutionParts, live) /\ Only(ToolExecutionParts, segSt)
    /\ Only(ToolExecutionParts, cls) /\ Only(ToolExecutionParts, opSt)
    /\ Only(ToolExecutionParts, opAtt) /\ Only(ToolExecutionParts, opRes)
    /\ Only(ToolExecutionParts, event) /\ Only(ToolExecutionParts, dpc)
    /\ Only(ToolExecutionParts, seg) /\ Only(ToolExecutionParts, dout)
    /\ Only(ToolExecutionParts, dres) /\ Only(ToolExecutionParts, apc)
    /\ Only(ToolExecutionParts, tok) /\ Only(ToolExecutionParts, prior)
    /\ Only(ToolExecutionParts, may) /\ Only(ToolExecutionParts, aout)
    /\ Only(ToolExecutionParts, orphan) /\ Only(ToolExecutionParts, lateCtl)
    /\ Only(ToolExecutionParts \cup WorkDeliveryParts, attempts)
    /\ Only(ToolExecutionParts \cup QqIngressParts, receipts)
    /\ Only(ToolExecutionParts \cup McpHttpParts, effects)
    /\ Only(WorkDeliveryParts, wStatus) /\ Only(WorkDeliveryParts, revision)
    /\ Only(WorkDeliveryParts, epoch) /\ Only(WorkDeliveryParts, cont)
    /\ Only(WorkDeliveryParts, coordinator) /\ Only(WorkDeliveryParts, wakeup)
    /\ Only(WorkDeliveryParts, target) /\ Only(WorkDeliveryParts, runWork)
    /\ Only(WorkDeliveryParts, runRev) /\ Only(WorkDeliveryParts, runEpoch)
    /\ Only(WorkDeliveryParts, dSt) /\ Only(WorkDeliveryParts, dPart)
    /\ Only(WorkDeliveryParts, dTok) /\ Only(WorkDeliveryParts, lapsed)
    /\ Only(WorkDeliveryParts, via) /\ Only(WorkDeliveryParts, again)
    /\ Only(WorkDeliveryParts, unapplied) /\ Only(WorkDeliveryParts, commands)
    /\ Only(WorkDeliveryParts, pos) /\ Only(WorkDeliveryParts, job)
    /\ Only(WorkDeliveryParts, taken)
    /\ Only(WorkDeliveryParts \cup QqIngressParts, bound)
    /\ Only(WorkDeliveryParts \cup FileObjectsParts, out)
    /\ Only(WorkDeliveryParts \cup RunFeedParts \cup OneBot11Parts, wire)
    /\ Only(AgentLoopParts, log) /\ Only(AgentLoopParts, ops)
    /\ Only(AgentLoopParts \cup MemorySourceParts, cur)
    /\ Only(AgentLoopParts \cup HtmlBuildParts, wf)
    /\ Only(AgentLoopParts \cup DelegationParts \cup InvocationParts \cup HtmlBuildParts, tries)
    /\ Only(DelegationParts, kind) /\ Only(DelegationParts, scope)
    /\ Only(DelegationParts, deleg) /\ Only(DelegationParts, err) /\ Only(DelegationParts, res)
    /\ Only(DelegationParts, outcome) /\ Only(DelegationParts, bpc)
    /\ Only(DelegationParts, bout) /\ Only(DelegationParts, btries)
    /\ Only(DelegationParts, agg) /\ Only(DelegationParts, refused)
    /\ Only(DelegationParts \cup InvocationParts, exe)
    /\ Only(DelegationParts \cup InvocationParts, ans)
    /\ Only(DelegationParts \cup InvocationParts, why)
    /\ Only(InvocationParts \cup McpHttpParts \cup McpStdioParts, result)
    /\ Only(InvocationParts, op) /\ Only(InvocationParts, observed)
    /\ Only(InvocationParts, saved) /\ Only(InvocationParts, cpc)
    /\ Only(InvocationParts, holds) /\ Only(InvocationParts, ghosts)
    /\ Only(InvocationParts, atts) /\ Only(InvocationParts, status)
    /\ Only(InvocationParts, resets)
    /\ Only(InvocationParts \cup OneBot11Parts \cup OfficialQQParts, events)
    /\ Only(InvocationParts \cup RunFeedParts, view)
    /\ Only(RunFeedParts \cup FileObjectsParts \cup CapacityParts, row)
    /\ Only(RunFeedParts, ppc) /\ Only(RunFeedParts, sinks) /\ Only(RunFeedParts, inflight)
    /\ Only(RunFeedParts, gate) /\ Only(RunFeedParts, sub) /\ Only(RunFeedParts, reader)
    /\ Only(RunFeedParts, reason) /\ Only(RunFeedParts, seen) /\ Only(RunFeedParts, feed)
    /\ Only(RunFeedParts, order) /\ Only(RunFeedParts, shown) /\ Only(RunFeedParts, poll)
    /\ Only(RunFeedParts, failures) /\ Only(RunFeedParts, sweeps) /\ Only(RunFeedParts, losses)
    /\ Only(RunFeedParts \cup OfficialQQParts, cache)
    /\ Only(RunFeedParts \cup McpStdioParts, held)
    /\ Only(RunFeedParts \cup CapacityParts, active)
    /\ Only(RunFeedParts \cup FileObjectsParts \cup CapacityParts \cup OneBot11Parts, queue)
    /\ Only(RunFeedParts \cup QqIngressParts, used)
    /\ Only(RunFeedParts \cup OneBot11Parts \cup OfficialQQParts, frames)
    /\ Only(FileObjectsParts, expiry) /\ Only(FileObjectsParts, refs)
    /\ Only(FileObjectsParts, staging) /\ Only(FileObjectsParts, object)
    /\ Only(FileObjectsParts, put) /\ Only(FileObjectsParts, runActive)
    /\ Only(FileObjectsParts, holder) /\ Only(FileObjectsParts, gc)
    /\ Only(CapacityParts, fresh) /\ Only(CapacityParts, turn) /\ Only(CapacityParts, pc)
    /\ Only(CapacityParts, ghost) /\ Only(CapacityParts, stalled)
    /\ Only(HtmlBuildParts, versions) /\ Only(HtmlBuildParts, fence)
    /\ Only(HtmlBuildParts, att) /\ Only(HtmlBuildParts, calls)
    /\ Only(HtmlBuildParts, reserved) /\ Only(HtmlBuildParts, staged)
    /\ Only(HtmlBuildParts, file)
    /\ Only(HtmlBuildParts \cup QqIngressParts, runs)
    /\ Only(QqIngressParts, account) /\ Only(QqIngressParts, window)
    /\ Only(QqIngressParts, replies) /\ Only(QqIngressParts, locks)
    /\ Only(QqIngressParts, handler) /\ Only(QqIngressParts, told)
    /\ Only(QqIngressParts, delivered)
    /\ Only(OneBot11Parts, conn) /\ Only(OneBot11Parts, call) /\ Only(OneBot11Parts, current)
    /\ Only(OneBot11Parts, cool) /\ Only(OneBot11Parts, done) /\ Only(OneBot11Parts, real)
    /\ Only(OneBot11Parts \cup OfficialQQParts, handled)
    /\ Only(OneBot11Parts \cup OfficialQQParts, sender)
    /\ Only(OneBot11Parts \cup OfficialQQParts, trouble)
    /\ Only(OneBot11Parts \cup OfficialQQParts \cup McpHttpParts \cup McpStdioParts, lock)
    /\ Only(OfficialQQParts, monitor) /\ Only(OfficialQQParts, starts)
    /\ Only(OfficialQQParts, issued) /\ Only(OfficialQQParts, dead)
    /\ Only(OfficialQQParts, fetch) /\ Only(OfficialQQParts, refresh)
    /\ Only(OfficialQQParts, loop) /\ Only(OfficialQQParts, heart)
    /\ Only(OfficialQQParts, known) /\ Only(OfficialQQParts, ws)
    /\ Only(OfficialQQParts, link) /\ Only(OfficialQQParts, gap) /\ Only(OfficialQQParts, sent)
    /\ Only(MemorySourceParts, st) /\ Only(MemorySourceParts, gen)
    /\ Only(MemorySourceParts, manual) /\ Only(MemorySourceParts, blocked)
    /\ Only(MemorySourceParts, acts) /\ Only(MemorySourceParts, guard)
    /\ Only(MemorySourceParts, wk) /\ Only(MemorySourceParts, rop)
    /\ Only(MemorySourceParts, doc) /\ Only(MemorySourceParts, fact)
    /\ Only(MemorySourceParts, flight) /\ Only(MemorySourceParts, made)
    /\ Only(McpHttpParts, http) /\ Only(McpHttpParts, sid) /\ Only(McpHttpParts, age)
    /\ Only(McpHttpParts, stack) /\ Only(McpHttpParts, server) /\ Only(McpHttpParts, handshakes)
    /\ Only(McpHttpParts \cup McpStdioParts, connected)
    /\ Only(McpHttpParts \cup McpStdioParts, settled)
    /\ Only(McpStdioParts, process) /\ Only(McpStdioParts, manager) /\ Only(McpStdioParts, at)
    /\ Only(McpStdioParts, stdin) /\ Only(McpStdioParts, stdout)
    /\ Only(McpStdioParts, disturbed) /\ Only(McpStdioParts, hung)

OthersStill ==
    /\ Still(RunDispatchParts \cup WorkDeliveryParts \cup DelegationParts \cup
             InvocationParts,
             <<runSt>>)
    /\ Still(RunDispatchParts, <<retryOf, older, termEv, rowSt, rowTid, evSt, evBy,
                                    evAtt, wcur, wbatch, tmpSt, tmpCancel, flow, rpc, rtodo,
                                    rcur>>)
    /\ Still(RunDispatchParts \cup InvocationParts \cup FileObjectsParts \cup
             HtmlBuildParts,
             <<intent>>)
    /\ Still(RunDispatchParts \cup DelegationParts \cup InvocationParts, <<wpc>>)
    /\ Still(RunDispatchParts \cup AgentLoopParts \cup DelegationParts \cup
             InvocationParts,
             <<late>>)
    /\ Still(RunDispatchParts \cup ToolExecutionParts \cup FileObjectsParts \cup
             MemorySourceParts,
             <<faults>>)
    /\ Still(ToolExecutionParts \cup AgentLoopParts \cup RunFeedParts, <<run>>)
    /\ Still(ToolExecutionParts \cup InvocationParts \cup OfficialQQParts, <<token>>)
    /\ Still(ToolExecutionParts \cup AgentLoopParts, <<owner>>)
    /\ Still(ToolExecutionParts, <<live, segSt, cls, opSt, opAtt, opRes, event, dpc, seg,
                                      dout, dres, apc, tok, prior, may, aout, orphan,
                                      lateCtl>>)
    /\ Still(ToolExecutionParts \cup WorkDeliveryParts, <<attempts>>)
    /\ Still(ToolExecutionParts \cup QqIngressParts, <<receipts>>)
    /\ Still(ToolExecutionParts \cup McpHttpParts, <<effects>>)
    /\ Still(WorkDeliveryParts, <<wStatus, revision, epoch, cont, coordinator, wakeup,
                                     target, runWork, runRev, runEpoch, dSt, dPart, dTok,
                                     lapsed, via, again, unapplied, commands, pos, job,
                                     taken>>)
    /\ Still(WorkDeliveryParts \cup QqIngressParts, <<bound>>)
    /\ Still(WorkDeliveryParts \cup FileObjectsParts, <<out>>)
    /\ Still(WorkDeliveryParts \cup RunFeedParts \cup OneBot11Parts, <<wire>>)
    /\ Still(AgentLoopParts, <<log, ops>>)
    /\ Still(AgentLoopParts \cup MemorySourceParts, <<cur>>)
    /\ Still(AgentLoopParts \cup HtmlBuildParts, <<wf>>)
    /\ Still(AgentLoopParts \cup DelegationParts \cup InvocationParts \cup
             HtmlBuildParts,
             <<tries>>)
    /\ Still(DelegationParts, <<kind, scope, deleg, err, res, outcome, bpc, bout, btries,
                                   agg, refused>>)
    /\ Still(DelegationParts \cup InvocationParts, <<exe, ans, why>>)
    /\ Still(InvocationParts \cup McpHttpParts \cup McpStdioParts, <<result>>)
    /\ Still(InvocationParts, <<op, observed, saved, cpc, holds, ghosts, atts, status,
                                   resets>>)
    /\ Still(InvocationParts \cup OneBot11Parts \cup OfficialQQParts, <<events>>)
    /\ Still(InvocationParts \cup RunFeedParts, <<view>>)
    /\ Still(RunFeedParts \cup FileObjectsParts \cup CapacityParts, <<row>>)
    /\ Still(RunFeedParts, <<ppc, sinks, inflight, gate, sub, reader, reason, seen, feed,
                                order, shown, poll, failures, sweeps, losses>>)
    /\ Still(RunFeedParts \cup OfficialQQParts, <<cache>>)
    /\ Still(RunFeedParts \cup McpStdioParts, <<held>>)
    /\ Still(RunFeedParts \cup CapacityParts, <<active>>)
    /\ Still(RunFeedParts \cup FileObjectsParts \cup CapacityParts \cup OneBot11Parts,
             <<queue>>)
    /\ Still(RunFeedParts \cup QqIngressParts, <<used>>)
    /\ Still(RunFeedParts \cup OneBot11Parts \cup OfficialQQParts, <<frames>>)
    /\ Still(FileObjectsParts, <<expiry, refs, staging, object, put, runActive, holder,
                                    gc>>)
    /\ Still(CapacityParts, <<fresh, turn, pc, ghost, stalled>>)
    /\ Still(HtmlBuildParts, <<versions, fence, att, calls, reserved, staged, file>>)
    /\ Still(HtmlBuildParts \cup QqIngressParts, <<runs>>)
    /\ Still(QqIngressParts, <<account, window, replies, locks, handler, told, delivered>>)
    /\ Still(OneBot11Parts, <<conn, call, current, cool, done, real>>)
    /\ Still(OneBot11Parts \cup OfficialQQParts, <<handled, sender, trouble>>)
    /\ Still(OneBot11Parts \cup OfficialQQParts \cup McpHttpParts \cup McpStdioParts,
             <<lock>>)
    /\ Still(OfficialQQParts, <<monitor, starts, issued, dead, fetch, refresh, loop,
                                   heart, known, ws, link, gap, sent>>)
    /\ Still(MemorySourceParts, <<st, gen, manual, blocked, acts, guard, wk, rop, doc,
                                     fact, flight, made>>)
    /\ Still(McpHttpParts, <<http, sid, age, stack, server, handshakes>>)
    /\ Still(McpHttpParts \cup McpStdioParts, <<connected, settled>>)
    /\ Still(McpStdioParts, <<process, manager, at, stdin, stdout, disturbed, hung>>)
    /\ UNCHANGED part

SideNext ==
    /\ \/ part = "run" /\ Run!Next
       \/ part = "tool" /\ Tool!Next
       \/ part = "delivery" /\ Delivery!Next
       \/ part = "agent" /\ Agent!Next
       \/ part = "branches" /\ Branches!Next
       \/ part = "call" /\ Called!Next
       \/ part = "parent" /\ Parent!Next
       \/ part = "feed" /\ Feed!Next
       \/ part = "gc" /\ Files!Next
       \/ part = "capacity" /\ Tickets!Next
       \/ part = "page" /\ Page!Next
       \/ part = "qq" /\ Qq!Next
       \/ part = "link" /\ Link!Next
       \/ part = "gateway" /\ Gateway!Next
       \/ part = "memory" /\ Memory!Next
       \/ part = "http" /\ Http!Next
       \/ part = "stdio" /\ Stdio!Next
    /\ OthersStill

SideSpec == SideInit /\ [][SideNext]_sideVars

\* The variables of the part that moves.
partVars ==
    CASE part = "run" -> Run!vars
      [] part = "tool" -> Tool!vars
      [] part = "delivery" -> Delivery!vars
      [] part = "agent" -> Agent!vars
      [] part = "branches" -> Branches!vars
      [] part = "call" -> Called!vars
      [] part = "parent" -> Parent!vars
      [] part = "feed" -> Feed!vars
      [] part = "gc" -> Files!vars
      [] part = "capacity" -> Tickets!vars
      [] part = "page" -> Page!vars
      [] part = "qq" -> Qq!vars
      [] part = "link" -> Link!vars
      [] part = "gateway" -> Gateway!vars
      [] part = "memory" -> Memory!vars
      [] part = "http" -> Http!vars
      [] part = "stdio" -> Stdio!vars

\* The i-th of those whose step others may disable again and again: a delivery that
\* is passed over, a task that waits for a lock, a fetch, an action to be claimed.
Recurrent(i) ==
    /\ UNCHANGED part
    /\ \/ /\ part = "delivery" /\ i <= 2
          /\ \/ Delivery!ClaimCancels("x1", <<"run1", "chat1">>[i])
             \/ Delivery!ClaimSends("x1", <<"run1", "chat1">>[i])
       \/ part = "gateway" /\ i = 1 /\ Gateway!Fetch(Gateway!Refresher)
       \/ part = "memory" /\ Memory!Claim("w1", "chat", i)
       \/ part = "http" /\ i <= 2 /\ Http!Progress(<<"x1", "ka">>[i])
       \/ part = "stdio" /\ Stdio!Progress(<<"x1", "ka", "mg">>[i])

\* The i-th of the steps a component is weakly fair to: loops go on, Workers poll and
\* retry, answers and time-outs arrive, time passes.  None is a client's or a fault.
Steady(i) ==
    /\ UNCHANGED part
    /\ \/ /\ part = "run"
          /\ \/ i = 1 /\ Run!DispatcherStep("w1")
             \/ i = 2 /\ Run!RecoverAbandoned
             \/ i = 3 /\ Run!WorkflowStep("r1")
             \/ i = 4 /\ Run!ReconcilerStep
       \/ /\ part = "tool"
          /\ \/ i = 1 /\ Tool!DriverStep
             \/ i \in 2..3 /\ Tool!ActivityStep(i - 1)
       \/ /\ part = "delivery"
          /\ \/ i = 1 /\ Delivery!Claim("x1")
             \/ /\ i = 2
                /\ \/ Delivery!Send("x1")
                   \/ Delivery!AnswerUncertain("x1")
                   \/ Delivery!Finish("x1")
                   \/ Delivery!FinishTooLate("x1")
             \/ i \in 3..4 /\ Delivery!LeaseExpires(<<"run1", "chat1">>[i - 2])
             \/ i = 5 /\ Delivery!ConvergeControls("work1") /\ UNCHANGED <<pos, job, out, wire, taken>>
             \/ i = 6 /\ Delivery!FinalizeCancelled("run1") /\ UNCHANGED <<pos, job, out, wire, taken>>
       \/ /\ part = "agent"
          /\ \/ i = 1 /\ Agent!Dispatch
             \/ i = 2 /\ Agent!AcquireRefused
             \/ i = 3 /\ Agent!CurWorks
       \/ /\ part = "branches"
          /\ \/ i = 1 /\ Branches!Progress("r1")
             \/ i = 2 /\ Branches!Refuses("r1")
       \/ /\ part = "call"
          /\ \/ i = 1 /\ Called!CallerMoves("r1")
             \/ i = 2 /\ Called!ChildMoves("r1")
             \/ i = 3 /\ Called!RunMoves("r1")
       \/ /\ part = "parent"
          /\ \/ i = 1 /\ Parent!CallerMoves("r1")
             \/ i = 2 /\ Parent!ChildMoves("r1")
             \/ i = 3 /\ Parent!RunMoves("r1")
       \/ /\ part = "feed"
          /\ \/ i = 1 /\ Feed!Sweep
             \/ i = 2 /\ Feed!Publisher("x1")
             \/ i = 3 /\ Feed!Gateway("c1")
             \/ i = 4 /\ Feed!Read("c1")
             \/ i = 5 /\ Feed!Keepalive("c1")
             \/ i = 6 /\ Feed!Browser("c1")
       \/ /\ part = "gc"
          /\ \/ i = 1 /\ Files!Collector
             \/ i \in 2..3 /\ Files!Due(<<"u1", "u2">>[i - 1])
       \/ /\ part = "capacity"
          /\ i <= 10
          /\ LET t == IF i <= 5 THEN "b1" ELSE "b2" IN
             \/ i % 5 = 0 /\ Tickets!Poll(t)
             \/ i % 5 = 1 /\ Tickets!Heartbeat(t)
             \/ i % 5 = 2 /\ Tickets!EndUse(t)
             \/ i % 5 = 3 /\ Tickets!Release(t)
             \/ i % 5 = 4 /\ Tickets!Lapse(t)
       \/ part = "page" /\ i \in 1..2 /\ Page!FlowOf(i)
       \/ part = "qq" /\ i = 1 /\ Qq!Handles("h1")
       \/ /\ part = "link"
          /\ \/ \E c \in 1..2 :
                \/ /\ i = c
                   /\ \/ Link!ReadAnswer(c)
                      \/ Link!ReadOffline(c)
                      \/ Link!ReadMessage(c)
                      \/ Link!ReaderEnds(c)
                \/ /\ i = 2 + c
                   /\ \/ Link!Login(c)
                      \/ Link!LoggedIn(c)
                      \/ Link!Probed(c)
                      \/ Link!Verify(c)
                      \/ Link!Poll(c)
                      \/ Link!Polled(c)
                      \/ Link!Finish(c)
                      \/ Link!Discard(c)
                \/ i = 4 + c /\ Link!Connect(c) /\ UNCHANGED trouble
                \/ i = 6 + c /\ Link!Answer(c, c)
                \/ i = 8 + c /\ Link!TimeOut(c) /\ UNCHANGED trouble
             \/ i = 11 /\ Link!Consume
             \/ i = 12 /\ Link!Online
             \/ i = 13 /\ Link!Cool
       \/ /\ part = "gateway"
          /\ \/ i = 1 /\ Gateway!Start
             \/ i = 2 /\ Gateway!Loop
             \/ i = 3 /\ Gateway!Refresh
             \/ i = 4 /\ Gateway!Fetched(Gateway!Refresher)
       \/ /\ part = "memory"
          /\ \/ i = 1 /\ Memory!Step("w1")
             \/ i = 2 /\ Memory!Work("chat")
             \/ i \in 3..5 /\ ~Memory!Handled("chat", i - 2) /\ Memory!Expire("chat", i - 2)
       \/ part = "http" /\ i = 1 /\ Http!Call("x1")
       \/ /\ part = "stdio"
          /\ \/ i = 1 /\ Stdio!Call("x1")
             \/ i = 2 /\ Stdio!Connect
             \/ i = 3 /\ Stdio!Serve
             \/ i = 4 /\ Stdio!ListTools
             \/ i = 5 /\ Stdio!Terminated

FairSpec ==
    /\ SideSpec
    /\ \A i \in 1..13 : WF_partVars(Steady(i))
    /\ \A i \in 1..3 : SF_partVars(Recurrent(i))

-----------------------------------------------------------------------------
\* Something that has begun and has not ended.  That it always ends, W ~> ~W, is the same
\* as []<>~W: it never lasts for ever.

\* A Run accepted by the service, an Agent's strategy, its branches and the capabilities it
\* calls, the segment of a tool, a page being built (FinalizeRunActivity and the reconciler;
\* react.py, plan_execute.py, child_agent.py, main_capability.py, html_workflow.py).
RunWaits ==
    \/ part = "run" /\ runSt["r1"] \in Run!Active
    \/ part = "tool" /\ dpc # "done"
    \/ part = "agent" /\ wf.pc \notin Agent!Ended
    \/ part = "branches" /\ exe["r1"]["k1"][1] \in Branches!Active
    \/ part = "call" /\ exe["r1"] \in Called!Active
    \/ part = "parent" /\ exe["r1"] \in Parent!Active
    \/ part = "page" /\ \E r \in 1..Len(runs) : runs[r].status \notin Page!Ended

\* What is being sent or read: a delivery, a halt that no uncertain delivery holds up, the
\* end of a Run that a tab waits for, a message of QQ, a call of an MCP tool.
CallWaits ==
    \/ /\ part = "delivery"
       /\ \/ \E d \in {"run1", "chat1"} : dSt[d] \in {"pending", "sending"}
          \/ /\ wStatus["work1"] \in {"pausing", "stopping"}
             /\ ~(runWork["run1"] = "work1" /\ dSt["run1"] = "uncertain")
    \/ /\ part = "feed" /\ run = "terminal" /\ gate["c1"] # "none"
       /\ view["c1"] # "terminal" /\ feed["c1"] \notin {"closed", "expired"}
    \/ part = "qq" /\ handler["h1"].at # "idle"
    \/ part = "http" /\ stack["x1"] # <<>>
    \/ part = "stdio" /\ at["x1"] # "idle"

\* What is kept for somebody: a ticket a task polls for, an expired file nobody refers to,
\* an action on a source of memory.
KeptWaits ==
    \/ part = "capacity" /\ pc["b1"] = "polling"
    \/ part = "gc" /\ \E f \in {"u1", "u2"} :
          /\ expiry[f] = "due" /\ refs[f] = {} /\ row[f].status # "deleted"
    \/ part = "memory" /\ \E i \in 1..Len(acts["chat"]) :
          acts["chat"][i].status \notin Memory!Settled /\ ~Memory!Stuck("chat")

RunsEnd == []<>~RunWaits
NobodyWaitsForEver == []<>~(CallWaits \/ KeptWaits)

\* When the faults are over both links to QQ are up for good (OneBot11, OfficialQQ).
LinksRecover ==
    <>[](/\ part = "link" => current # None /\ conn[current].open
         /\ part = "gateway" => ws /\ link = "session")
=============================================================================
