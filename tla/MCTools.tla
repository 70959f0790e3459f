------------------------------ MODULE MCTools -------------------------------
(*****************************************************************************)
(* The tools of a Run side by side: the sandbox of an execution, the clients of *)
(* MCP servers over HTTP, SSE and stdio, and the selection of the tools an   *)
(* agent is offered.  One part is chosen at the start and the others stand   *)
(* still.                                                                    *)
(*****************************************************************************)
EXTENDS ExecutionScope, TLC

CONSTANTS Parts, Absent, c1, c2, keeper, closer, s1, s2, s3, chat, child
VARIABLES part, http, connected, sid, age, lock, stack, httpResult, server, effects,
          handshakes, settled, stream, url, open, silent, announced, expecting, outbox, up,
          sseResult, process, held, stdioManager, at, stdin, stdout, stdioResult, disturbed,
          hung, index, ex

ToolSpec(exposure, family, priority, directions, extensions) ==
    [exposure |-> exposure, family |-> family, priority |-> priority, scope |-> "current_run",
     directions |-> directions, extensions |-> extensions]

\* Two front doors of one family and one of another, a management tool, a reader of PDF
\* inputs and a tool without files.
RoutingOfTool == <<
    ToolSpec("front_door", 1, 95, {}, {}),
    ToolSpec("always", 0, 0, {}, {}),
    ToolSpec("front_door", 2, 100, {"input", "output"}, {"pdf", "txt"}),
    ToolSpec("front_door", 2, 100, {"input"}, {}),
    ToolSpec("semantic", 0, 0, {"input"}, {"pdf"}),
    ToolSpec("semantic", 0, 0, {}, {}) >>
FileFacts == {[scope |-> "current_run", direction |-> "input", extension |-> "txt"],
              [scope |-> "current_run", direction |-> "output", extension |-> "pdf"],
              [scope |-> "current_run", direction |-> "input", extension |-> "pdf"]}

\* The registry of a Chat, of a Chat in another order, of a subagent; what a retriever ranks.
RegistryOrders == {<<2, 1, 3, 4, 5, 6>>, <<6, 5, 4, 3, 2, 1>>, <<5, 6>>}
RankedOrders == {<<1, 2, 3, 4, 5, 6>>, <<6, 5, 4, 3, 1, 2>>, <<3, 6, 1, 5, 4, 2>>}

Http == INSTANCE McpHttp WITH
    Callers <- {c1, c2}, KeepAlive <- keeper, MaxDepth <- 1,
    Hazards <- {"age", "expire"}, result <- httpResult
Sse == INSTANCE McpSse WITH
    Callers <- {c1, c2}, Pingers <- {}, Streams <- {s1}, Ids <- 1..4, MaxLate <- 0,
    MaxDepth <- 1, Hazards <- {"cut", "slow"}, result <- sseResult
Reopened == INSTANCE McpSse WITH
    Callers <- {c1}, Pingers <- {keeper}, Streams <- {s1, s2, s3}, Ids <- 1..6,
    MaxLate <- 1, MaxDepth <- 1, Hazards <- {"cut", "slow"}, result <- sseResult
Stdio == INSTANCE McpStdio WITH
    Callers <- {c1, c2}, Pingers <- {keeper}, Manager <- closer, MaxStale <- 1,
    Hazards <- {"slow", "cancel", "notes", "dies", "hangs", "stop"},
    manager <- stdioManager, result <- stdioResult
Index == INSTANCE ToolRouting WITH
    Executions <- {chat, child}, Tools <- 1..6, Routing <- RoutingOfTool,
    Registries <- RegistryOrders, Facts <- FileFacts, Orders <- RankedOrders,
    Limit <- 4, FetchLimit <- 2, K <- 60, MaxHints <- 0, Retriever <- TRUE,
    Reranker <- FALSE, Failing <- FALSE, None <- Absent
Few == INSTANCE ToolRouting WITH
    Executions <- {chat}, Tools <- 1..6, Routing <- RoutingOfTool,
    Registries <- RegistryOrders, Facts <- FileFacts, Orders <- RankedOrders,
    Limit <- 3, FetchLimit <- 2, K <- 60, MaxHints <- 1, Retriever <- FALSE,
    Reranker <- FALSE, Failing <- FALSE, None <- Absent
Select == INSTANCE ToolRouting WITH
    Executions <- {chat}, Tools <- 1..6, Routing <- RoutingOfTool,
    Registries <- RegistryOrders, Facts <- FileFacts, Orders <- RankedOrders,
    Limit <- 4, FetchLimit <- 2, K <- 60, MaxHints <- 1, Retriever <- TRUE,
    Reranker <- TRUE, Failing <- TRUE, None <- Absent

ASSUME Http!HttpAssumption
ASSUME Sse!SseAssumption
ASSUME Reopened!SseAssumption
ASSUME Stdio!StdioAssumption
ASSUME Index!RoutingAssumption
ASSUME Few!RoutingAssumption
ASSUME Select!RoutingAssumption

sideVars == <<part, token, att, dirs, inputs, scopes, boxes, hints, cache, threads,
              result, allowed, late, owed, crashes, http, connected, sid, age, lock,
              stack, httpResult, server, effects, handshakes, settled, stream, url, open,
              silent, announced, expecting, outbox, up, sseResult, process, held,
              stdioManager, at, stdin, stdout, stdioResult, disturbed, hung, index, ex>>

\* A variable is idle in the parts that do not have it, and stays so.
Only(parts, v) == IF part \in parts THEN TRUE ELSE v = Absent
Still(parts, vs) == IF part \in parts THEN TRUE ELSE UNCHANGED vs

\* The parts of each component.
ExecutionScopeParts == {"scope"}
McpHttpParts == {"http"}
McpSseParts == {"sse", "streams"}
McpStdioParts == {"stdio"}
ToolRoutingParts == {"index", "limit", "select"}

SideInit ==
    /\ part \in Parts
    /\ Init
    /\ part = "http" => Http!Init
    /\ part = "sse" => Sse!Init
    /\ part = "streams" => Reopened!Init
    /\ part = "stdio" => Stdio!Init
    /\ part = "index" => Index!Init
    /\ part = "limit" => Few!Init
    /\ part = "select" => Select!Init
    /\ Only(McpHttpParts \cup McpSseParts, http) /\ Only(McpHttpParts \cup McpSseParts, age)
    /\ Only(McpHttpParts \cup McpSseParts, stack)
    /\ Only(McpHttpParts \cup McpSseParts, effects)
    /\ Only(McpHttpParts \cup McpSseParts \cup McpStdioParts, connected)
    /\ Only(McpHttpParts \cup McpSseParts \cup McpStdioParts, lock)
    /\ Only(McpHttpParts \cup McpSseParts \cup McpStdioParts, settled)
    /\ Only(McpHttpParts, sid) /\ Only(McpHttpParts, httpResult) /\ Only(McpHttpParts, server)
    /\ Only(McpHttpParts, handshakes)
    /\ Only(McpSseParts, stream) /\ Only(McpSseParts, url) /\ Only(McpSseParts, open)
    /\ Only(McpSseParts, silent) /\ Only(McpSseParts, announced) /\ Only(McpSseParts, expecting)
    /\ Only(McpSseParts, outbox) /\ Only(McpSseParts, up) /\ Only(McpSseParts, sseResult)
    /\ Only(McpStdioParts, process) /\ Only(McpStdioParts, held)
    /\ Only(McpStdioParts, stdioManager) /\ Only(McpStdioParts, at)
    /\ Only(McpStdioParts, stdin) /\ Only(McpStdioParts, stdout)
    /\ Only(McpStdioParts, stdioResult) /\ Only(McpStdioParts, disturbed)
    /\ Only(McpStdioParts, hung)
    /\ Only(ToolRoutingParts, index) /\ Only(ToolRoutingParts, ex)

SideNext ==
    /\ \/ part = "scope" /\ Next
       \/ part = "http" /\ Http!Next
       \/ part = "sse" /\ Sse!Next
       \/ part = "streams" /\ Reopened!Next
       \/ part = "stdio" /\ Stdio!Next
       \/ part = "index" /\ Index!Next
       \/ part = "limit" /\ Few!Next
       \/ part = "select" /\ Select!Next
    /\ Still(ExecutionScopeParts, <<token, att, dirs, inputs, scopes, boxes, hints,
                                       cache, threads, result, allowed, late, owed, crashes>>)
    /\ Still(McpHttpParts \cup McpSseParts, <<http, age, stack, effects>>)
    /\ Still(McpHttpParts \cup McpSseParts \cup McpStdioParts, <<connected, lock, settled>>)
    /\ Still(McpHttpParts, <<sid, httpResult, server, handshakes>>)
    /\ Still(McpSseParts, <<stream, url, open, silent, announced, expecting, outbox, up,
                               sseResult>>)
    /\ Still(McpStdioParts, <<process, held, stdioManager, at, stdin, stdout,
                                 stdioResult, disturbed, hung>>)
    /\ Still(ToolRoutingParts, <<index, ex>>)
    /\ UNCHANGED part

SideSpec == SideInit /\ [][SideNext]_sideVars

-----------------------------------------------------------------------------
Interchangeable == Permutations({c1, c2})

\* A call goes to a server at most once over HTTP, and an answer is the caller's own over SSE;
\* over stdio only the order of the lines tells answers apart (McpHttp, McpSse, McpStdio).
ClientsSafe == /\ part = "http" => Http!Safety
               /\ part = "sse" => Sse!Safety
               /\ part = "streams" => Reopened!Safety
               /\ part = "stdio" => Stdio!Safety

\* What an agent is offered can run, is its own, within the limit and the best of its family
\* (ToolRouting).
RoutingSafe == /\ part = "index" => Index!Safety
               /\ part = "limit" => Few!Safety
               /\ part = "select" => Select!Safety

\* The servers behind the tools, and the routes to them.
ToolsSafe == ClientsSafe /\ RoutingSafe
=============================================================================
