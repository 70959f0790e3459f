------------------------------ MODULE MCAgents ------------------------------
(*****************************************************************************)
(* The agent side by side: the calls of a Run to capabilities, the loop of an *)
(* agent and of a plan, the branches of a delegation, the build of a page and *)
(* the protocol with the model.  One part is chosen at the start and the     *)
(* others stand still.                                                       *)
(*****************************************************************************)
EXTENDS Invocation, TLC

CONSTANTS Parts, Absent, a1, p1, r1, r2, x1, x2, respond, act, broken, NoArguments, NoName,
          xml0, xml1, old, i1, i2
VARIABLES part, loopRun, log, ops, owner, cur, loopLate, wf, loopTries, delegationRunSt,
          kind, scope, deleg, delegationExe, err, res, outcome, delegationWpc,
          delegationAns, delegationTries, delegationLate, bpc, bout, btries, agg, refused,
          delegationWhy, versions, runs, fence, buildTries, att, calls, reserved, staged,
          buildIntent, file, transcript, turn, protocolStatus, table, operations, ran, asked

OneAccount == [r \in Runs |-> "acct"]

XmlIdsOfText == <<xml0, xml1>>
Says(role, blocks) == [role |-> role, blocks |-> blocks]
Words == [type |-> "text", calls |-> <<>>]

\* A first question; one in a group, after other messages, with the system prompt
\* assembled in two parts; one after an Anthropic exchange in its own form.
Fresh == {<<Says("system", <<Words>>), Says("user", <<Words>>)>>}
InGroup == {<<Says("system", <<Words>>), Says("system", <<Words>>), Says("user", <<Words>>),
              Says("user", <<Words>>)>>}
WithOld == InGroup \cup
    {<<Says("system", <<Words>>), Says("user", <<Words>>),
       Says("assistant", <<Words, [type |-> "tool_use", id |-> old, action |-> respond]>>),
       Says("user", <<[type |-> "tool_result", id |-> old], Words>>)>>}

React == INSTANCE AgentLoop WITH
    Strategy <- "react", ToolFirst <- FALSE, MaxTurns <- 1, MaxCalls <- 2,
    MaxSteps <- 1, MaxReplans <- 0, MaxAttempts <- 2, run <- loopRun, late <- loopLate,
    tries <- loopTries
Main == INSTANCE AgentLoop WITH
    Strategy <- "react", ToolFirst <- TRUE, MaxTurns <- 1, MaxCalls <- 1, MaxSteps <- 1,
    MaxReplans <- 0, MaxAttempts <- 2, run <- loopRun, late <- loopLate,
    tries <- loopTries
Plan == INSTANCE AgentLoop WITH
    Strategy <- "plan", ToolFirst <- FALSE, MaxTurns <- 1, MaxCalls <- 1, MaxSteps <- 2,
    MaxReplans <- 2, MaxAttempts <- 1, run <- loopRun, late <- loopLate,
    tries <- loopTries
Branches == INSTANCE Delegation WITH
    Runs <- {r1}, AccountOf <- [r \in {r1} |-> "acct"], Keys <- {x1, x2},
    Required <- {x1}, GlobalLimit <- 3, AccountLimit <- 3,
    BranchErrors <- {"run_budget_exhausted", "TimeoutError"}, Tries <- 1,
    runSt <- delegationRunSt, exe <- delegationExe, wpc <- delegationWpc,
    ans <- delegationAns, tries <- delegationTries, late <- delegationLate,
    why <- delegationWhy
Limits == INSTANCE Delegation WITH
    Runs <- {r1, r2}, AccountOf <- [r \in {r1, r2} |-> "acct"], Keys <- {x1},
    Required <- {x1}, GlobalLimit <- 1, AccountLimit <- 2, BranchErrors <- {},
    Tries <- 1, runSt <- delegationRunSt, exe <- delegationExe, wpc <- delegationWpc,
    ans <- delegationAns, tries <- delegationTries, late <- delegationLate,
    why <- delegationWhy
Page == INSTANCE HtmlBuild WITH
    MaxRuns <- 2, MaxAttempts <- 2, Docs <- {x1}, Standalone <- FALSE, None <- Absent,
    tries <- buildTries, intent <- buildIntent
Alone == INSTANCE HtmlBuild WITH
    MaxRuns <- 2, MaxAttempts <- 1, Docs <- {x1, x2}, Standalone <- TRUE, None <- Absent,
    tries <- buildTries, intent <- buildIntent
Edits == INSTANCE HtmlBuild WITH
    MaxRuns <- 2, MaxAttempts <- 1, Docs <- {x1, x2}, Standalone <- FALSE, None <- Absent,
    tries <- buildTries, intent <- buildIntent
Forms == INSTANCE ModelProtocol WITH
    Ids <- {i1, i2}, Actions <- {respond, act}, Respond <- respond, Broken <- broken,
    NoArguments <- NoArguments, NoName <- NoName, XmlIds <- XmlIdsOfText, None <- Absent,
    Formats <- {"openai", "anthropic"}, Openings <- WithOld, ToolFirst <- FALSE,
    Stream <- FALSE, Repeats <- FALSE, XmlTexts <- FALSE, MaxCalls <- 2, MaxTurns <- 1,
    status <- protocolStatus
Turns == INSTANCE ModelProtocol WITH
    Ids <- {i1, i2}, Actions <- {respond, act}, Respond <- respond, Broken <- broken,
    NoArguments <- NoArguments, NoName <- NoName, XmlIds <- XmlIdsOfText, None <- Absent,
    Formats <- {"anthropic"}, Openings <- Fresh, ToolFirst <- FALSE, Stream <- FALSE,
    Repeats <- FALSE, XmlTexts <- FALSE, MaxCalls <- 2, MaxTurns <- 2,
    status <- protocolStatus
Texts == INSTANCE ModelProtocol WITH
    Ids <- {i1}, Actions <- {respond, act}, Respond <- respond, Broken <- broken,
    NoArguments <- NoArguments, NoName <- NoName, XmlIds <- XmlIdsOfText, None <- Absent,
    Formats <- {"openai"}, Openings <- InGroup, ToolFirst <- FALSE,
    Stream <- FALSE, Repeats <- FALSE, XmlTexts <- TRUE, MaxCalls <- 1, MaxTurns <- 2,
    status <- protocolStatus
Repeating == INSTANCE ModelProtocol WITH
    Ids <- {i1, Absent}, Actions <- {respond, act, broken}, Respond <- respond,
    Broken <- broken, NoArguments <- NoArguments, NoName <- NoName,
    XmlIds <- XmlIdsOfText, None <- Absent, Formats <- {"openai", "anthropic"},
    Openings <- InGroup, ToolFirst <- FALSE, Stream <- FALSE, Repeats <- TRUE,
    XmlTexts <- FALSE, MaxCalls <- 2, MaxTurns <- 1, status <- protocolStatus
Single == INSTANCE ModelProtocol WITH
    Ids <- {i1, i2}, Actions <- {respond, act}, Respond <- respond, Broken <- broken,
    NoArguments <- NoArguments, NoName <- NoName, XmlIds <- XmlIdsOfText, None <- Absent,
    Formats <- {"openai", "anthropic"}, Openings <- Fresh, ToolFirst <- TRUE,
    Stream <- FALSE, Repeats <- FALSE, XmlTexts <- TRUE, MaxCalls <- 2, MaxTurns <- 1,
    status <- protocolStatus

\* The calls of an agent and of a parent at once, each step tried once.
Calls == INSTANCE Invocation WITH Tries <- 1, Resets <- 0

ASSUME React!LoopAssumption
ASSUME Main!LoopAssumption
ASSUME Plan!LoopAssumption
ASSUME Branches!DelegationAssumption
ASSUME Limits!DelegationAssumption
ASSUME Page!HtmlAssumption
ASSUME Alone!HtmlAssumption
ASSUME Edits!HtmlAssumption
ASSUME Forms!ProtocolAssumption
ASSUME Turns!ProtocolAssumption
ASSUME Texts!ProtocolAssumption
ASSUME Repeating!ProtocolAssumption
ASSUME Single!ProtocolAssumption

sideVars == <<part, runSt, exe, token, result, op, events, observed, view, intent, saved,
              wpc, ans, tries, late, cpc, holds, ghosts, atts, status, resets, why,
              loopRun, log, ops, owner, cur, loopLate, wf, loopTries, delegationRunSt,
              kind, scope, deleg, delegationExe, err, res, outcome, delegationWpc,
              delegationAns, delegationTries, delegationLate, bpc, bout, btries, agg,
              refused, delegationWhy, versions, runs, fence, buildTries, att, calls,
              reserved, staged, buildIntent, file, transcript, turn, protocolStatus,
              table, operations, ran, asked>>

\* A variable is idle in the parts that do not have it, and stays so.
Only(parts, v) == IF part \in parts THEN TRUE ELSE v = Absent
Still(parts, vs) == IF part \in parts THEN TRUE ELSE UNCHANGED vs

\* The parts of each component.
InvocationParts == {"calls", "again", "saves"}
AgentLoopParts == {"react", "main", "plan"}
DelegationParts == {"branches", "limits"}
HtmlBuildParts == {"page", "standalone", "edits"}
ModelProtocolParts == {"forms", "turns", "texts", "repeats", "single"}

\* With retries and resets one caller moves at a time.
Rests(r) == UNCHANGED <<runSt[r], exe[r], ans[r], wpc[r]>>

SideInit ==
    /\ part \in Parts
    /\ Init
    /\ part = "react" => React!Init
    /\ part = "main" => Main!Init
    /\ part = "plan" => Plan!Init
    /\ part = "branches" => Branches!Init
    /\ part = "limits" => Limits!Init
    /\ part = "page" => Page!Init
    /\ part = "standalone" => Alone!Init
    /\ part = "edits" => Edits!Init
    /\ part = "forms" => Forms!Init
    /\ part = "turns" => Turns!Init
    /\ part = "texts" => Texts!Init
    /\ part = "repeats" => Repeating!Init
    /\ part = "single" => Single!Init
    /\ part # "saves" => intent = Each("none")
    /\ Only(AgentLoopParts, loopRun) /\ Only(AgentLoopParts, log) /\ Only(AgentLoopParts, ops)
    /\ Only(AgentLoopParts, owner) /\ Only(AgentLoopParts, cur)
    /\ Only(AgentLoopParts, loopLate) /\ Only(AgentLoopParts, loopTries)
    /\ Only(AgentLoopParts \cup HtmlBuildParts, wf)
    /\ Only(DelegationParts, delegationRunSt) /\ Only(DelegationParts, kind)
    /\ Only(DelegationParts, scope) /\ Only(DelegationParts, deleg)
    /\ Only(DelegationParts, delegationExe) /\ Only(DelegationParts, err)
    /\ Only(DelegationParts, res) /\ Only(DelegationParts, outcome)
    /\ Only(DelegationParts, delegationWpc) /\ Only(DelegationParts, delegationAns)
    /\ Only(DelegationParts, delegationTries) /\ Only(DelegationParts, delegationLate)
    /\ Only(DelegationParts, bpc) /\ Only(DelegationParts, bout)
    /\ Only(DelegationParts, btries) /\ Only(DelegationParts, agg)
    /\ Only(DelegationParts, refused) /\ Only(DelegationParts, delegationWhy)
    /\ Only(HtmlBuildParts, versions) /\ Only(HtmlBuildParts, runs)
    /\ Only(HtmlBuildParts, fence) /\ Only(HtmlBuildParts, buildTries)
    /\ Only(HtmlBuildParts, att) /\ Only(HtmlBuildParts, reserved)
    /\ Only(HtmlBuildParts, staged) /\ Only(HtmlBuildParts, buildIntent)
    /\ Only(HtmlBuildParts, file)
    /\ Only(HtmlBuildParts \cup ModelProtocolParts, calls)
    /\ Only(ModelProtocolParts, transcript) /\ Only(ModelProtocolParts, turn)
    /\ Only(ModelProtocolParts, protocolStatus) /\ Only(ModelProtocolParts, table)
    /\ Only(ModelProtocolParts, operations) /\ Only(ModelProtocolParts, ran)
    /\ Only(ModelProtocolParts, asked)

SideNext ==
    /\ \/ part = "calls" /\ Calls!Next
       \/ part = "again" /\ Next /\ Rests(p1)
       \/ part = "saves" /\ Next /\ Rests(a1)
       \/ part = "react" /\ React!Next
       \/ part = "main" /\ Main!Next
       \/ part = "plan" /\ Plan!Next
       \/ part = "branches" /\ Branches!Next
       \/ part = "limits" /\ Limits!Next
       \/ part = "page" /\ Page!Next
       \/ part = "standalone" /\ Alone!Next
       \/ part = "edits" /\ Edits!Next
       \/ part = "forms" /\ Forms!Next
       \/ part = "turns" /\ Turns!Next
       \/ part = "texts" /\ Texts!Next
       \/ part = "repeats" /\ Repeating!Next
       \/ part = "single" /\ Single!Next
    /\ Still(InvocationParts, <<runSt, exe, token, result, op, events, observed, view,
                                   intent, saved, wpc, ans, tries, late, cpc, holds, ghosts,
                                   atts, status, resets, why>>)
    /\ Still(AgentLoopParts, <<loopRun, log, ops, owner, cur, loopLate, loopTries>>)
    /\ Still(AgentLoopParts \cup HtmlBuildParts, <<wf>>)
    /\ Still(DelegationParts, <<delegationRunSt, kind, scope, deleg, delegationExe, err,
                                   res, outcome, delegationWpc, delegationAns,
                                   delegationTries, delegationLate, bpc, bout, btries, agg,
                                   refused, delegationWhy>>)
    /\ Still(HtmlBuildParts, <<versions, runs, fence, buildTries, att, reserved, staged,
                                  buildIntent, file>>)
    /\ Still(HtmlBuildParts \cup ModelProtocolParts, <<calls>>)
    /\ Still(ModelProtocolParts, <<transcript, turn, protocolStatus, table, operations,
                                      ran, asked>>)
    /\ UNCHANGED part

SideSpec == SideInit /\ [][SideNext]_sideVars

-----------------------------------------------------------------------------
\* The decisions and calls of a loop are recorded once and answered in order (AgentLoop).
LoopsSafe == /\ part = "react" => React!Safety
             /\ part = "main" => Main!Safety
             /\ part = "plan" => Plan!Safety

\* A delegation runs a branch again only after a failure and closes what it opened
\* (Delegation).
BranchesSafe == /\ part = "branches" => Branches!Safety
                /\ part = "limits" => Limits!Safety

\* A published page is the one in use, and a Run that succeeded has a version (HtmlBuild).
PagesSafe == /\ part = "page" => Page!Safety
             /\ part = "standalone" => Alone!Safety /\ Alone!BuiltOnParent
             /\ part = "edits" => Edits!Safety

\* Agents, the branches they delegate and the pages they build.
AgentsSafe == LoopsSafe /\ BranchesSafe /\ PagesSafe

\* A transcript can be sent to every endpoint and each call of a decision runs once
\* (ModelProtocol).
ProtocolSafe == /\ part = "forms" => Forms!Safety
                /\ part = "turns" => Turns!Safety
                /\ part = "texts" => Texts!Safety
                /\ part = "repeats" => Repeating!TypeOK /\ Repeating!OneEffectPerId
                /\ part = "single" => Single!TypeOK /\ Single!BatchRunsNothing

\* What no step may do: write for an attempt nobody awaits, change a finished page.
AgentSteps == [][/\ part = "react" => React!OnlyTheAwaitedWrites
                 /\ part = "page" => Page!CompletedIsKept]_sideVars
=============================================================================
