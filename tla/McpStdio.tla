------------------------------ MODULE McpStdio ------------------------------
(***************************************************************************)
(* One session of the stdio client for MCP servers (MCPSessionStdio) and    *)
(* its place in MCPToolManager: a subprocess answers the requests it reads  *)
(* from its standard input one line at a time. A lock is held from the line *)
(* written to the line read, and the line read is taken for the answer.     *)
(***************************************************************************)
EXTENDS Naturals, Sequences, SequencesExt

CONSTANTS Callers,   \* tasks that call a tool, one call after the other
          Pingers,   \* the task of _keepalive_loop, if it runs
          Manager,   \* the task of MCPToolManager.connect and disconnect
          MaxStale,  \* lines not yet read when a request begins
          Hazards    \* what server and caller may do

StdioAssumption ==
  /\ Manager \notin Callers \cup Pingers /\ Callers \cap Pingers = {}
  /\ "note" \notin Callers \cup Pingers \cup {Manager}
  /\ MaxStale \in Nat

Tasks == Callers \cup Pingers \cup {Manager}

VARIABLES process,   \* the subprocess: "none", "running", "exited"
          held,      \* the session refers to it (_process)
          connected, \* _connected
          manager,   \* "off", "starting", "listing", "serving", "excluded", "stopping", "stopped"
          lock,      \* asyncio.Lock
          at,        \* where the request of a task is: "idle", "queued", "reading"
          stdin,     \* requests the server has not read, by task; "none" once abandoned
          stdout,    \* lines the client has not read, likewise; "note" for a notification
          result,    \* how the last call of a caller ended
          disturbed, \* a line was left behind by its request, or was nobody's answer
          hung,      \* the server does not answer
          settled    \* the environment causes no further trouble

vars == <<process, held, connected, manager, lock, at, stdin, stdout, result, disturbed,
          hung, settled>>
life == <<process, held, connected, manager>>
remote == <<hung, settled>>

Init ==
  /\ process = "none" /\ held = FALSE /\ connected = FALSE /\ manager = "off"
  /\ lock = "free" /\ at = [t \in Tasks |-> "idle"]
  /\ stdin = <<>> /\ stdout = <<>>
  /\ result = [c \in Callers |-> "none"]
  /\ disturbed = FALSE /\ hung = FALSE /\ settled = FALSE

-----------------------------------------------------------------------------
Lines == Len(stdin) + Len(stdout)

(* How a request ends: a caller gets a result, a ping is forgotten, connect goes on or *)
(* leaves this server out of the tools.                                               *)
Ends(t, how) ==
  /\ at' = [at EXCEPT ![t] = "idle"]
  /\ result' = IF t \in Callers THEN [result EXCEPT ![t] = how] ELSE result
  /\ IF t # Manager THEN UNCHANGED <<connected, manager>>
     ELSE IF how = "failed"
       THEN manager' = (IF manager \in {"starting", "listing"} THEN "excluded" ELSE manager)
            /\ UNCHANGED connected
     ELSE IF manager = "starting"
       THEN connected' = TRUE /\ manager' = "listing"
       ELSE manager' = "serving" /\ UNCHANGED connected

(* connect: the subprocess, then the handshake, then list_tools. *)
Connect ==
  /\ manager = "off"
  /\ process' = "running" /\ held' = TRUE /\ manager' = "starting"
  /\ at' = [at EXCEPT ![Manager] = "queued"]
  /\ UNCHANGED <<connected, lock, stdin, stdout, result, disturbed, remote>>
ListTools ==
  /\ manager = "listing" /\ at[Manager] = "idle"
  /\ at' = [at EXCEPT ![Manager] = "queued"]
  /\ UNCHANGED <<life, lock, stdin, stdout, result, disturbed, remote>>

Call(c) ==
  /\ manager = "serving" /\ at[c] = "idle" /\ Lines <= MaxStale
  /\ at' = [at EXCEPT ![c] = "queued"]
  /\ result' = [result EXCEPT ![c] = "none"]
  /\ UNCHANGED <<life, lock, stdin, stdout, disturbed, remote>>
Ping(t) ==
  /\ manager = "serving" /\ connected /\ at[t] = "idle" /\ Lines <= MaxStale
  /\ at' = [at EXCEPT ![t] = "queued"]
  /\ UNCHANGED <<life, lock, stdin, stdout, result, disturbed, remote>>

Write(t) ==
  /\ at[t] = "queued" /\ lock = "free"
  /\ IF ~held \/ process # "running"
       THEN Ends(t, "failed") /\ UNCHANGED <<lock, stdin>>
       ELSE /\ lock' = t
            /\ at' = [at EXCEPT ![t] = "reading"]
            /\ stdin' = Append(stdin, t)
            /\ UNCHANGED <<connected, manager, result>>
  /\ UNCHANGED <<process, held, stdout, disturbed, remote>>

(* The next line of stdout is the response: its id is compared and a difference logged. *)
Read(t) ==
  /\ at[t] = "reading" /\ stdout # <<>>
  /\ stdout' = Tail(stdout)
  /\ lock' = "free"
  /\ Ends(t, IF Head(stdout) = t THEN "answer" ELSE "foreign")
  /\ UNCHANGED <<process, held, stdin, disturbed, remote>>

(* The request is given up; its line stays behind in whichever pipe it is. *)
Abandoned(t, line) == IF line = t THEN "none" ELSE line
GivesUp(t) ==
  /\ lock' = IF lock = t THEN "free" ELSE lock
  /\ stdin' = [i \in DOMAIN stdin |-> Abandoned(t, stdin[i])]
  /\ stdout' = [i \in DOMAIN stdout |-> Abandoned(t, stdout[i])]
  /\ disturbed' = (disturbed \/ at[t] = "reading")
  /\ Ends(t, "failed")
  /\ UNCHANGED <<process, held, remote>>
TimeOut(t) ==
  /\ at[t] = "reading" /\ stdout = <<>> /\ process = "running"
  /\ hung \/ ("slow" \in Hazards /\ ~settled)
  /\ GivesUp(t)
(* An Activity is cancelled while its tool waits for the lock or for the line. *)
Cancel(c) ==
  /\ "cancel" \in Hazards /\ ~settled
  /\ at[c] # "idle"
  /\ GivesUp(c)
(* stdout of a process that is gone ends. *)
Closed(t) ==
  /\ at[t] = "reading" /\ stdout = <<>> /\ process # "running"
  /\ lock' = "free"
  /\ Ends(t, "failed")
  /\ UNCHANGED <<process, held, stdin, stdout, disturbed, remote>>

(* MCPToolManager.disconnect knows the sessions that came up; disconnect closes stdin, *)
(* waits 5 s for the process and kills it.                                             *)
Disconnect ==
  /\ "stop" \in Hazards /\ manager \in {"serving", "excluded"}
  /\ IF manager = "serving"
       THEN connected' = FALSE /\ held' = FALSE /\ manager' = "stopping"
       ELSE manager' = "stopped" /\ UNCHANGED <<connected, held>>
  /\ UNCHANGED <<process, lock, at, stdin, stdout, result, disturbed, remote>>
Terminated ==
  /\ manager = "stopping"
  /\ process' = "exited" /\ stdin' = <<>> /\ manager' = "stopped"
  /\ UNCHANGED <<held, connected, lock, at, stdout, result, disturbed, remote>>

(***************************************************************************)
(* The server. It answers in the order of the requests.                    *)
(***************************************************************************)
Serve ==
  /\ process = "running" /\ ~hung /\ stdin # <<>>
  /\ stdin' = Tail(stdin) /\ stdout' = Append(stdout, Head(stdin))
  /\ UNCHANGED <<life, lock, at, result, disturbed, remote>>
Notification ==
  /\ "notes" \in Hazards /\ ~settled /\ process = "running" /\ Lines <= MaxStale
  /\ stdout' = Append(stdout, "note")
  /\ disturbed' = TRUE
  /\ UNCHANGED <<life, lock, at, stdin, result, remote>>
Exits ==
  /\ "dies" \in Hazards /\ ~settled /\ process = "running"
  /\ process' = "exited" /\ stdin' = <<>>
  /\ UNCHANGED <<held, connected, manager, lock, at, stdout, result, disturbed, remote>>
Environment ==
  /\ ~settled
  /\ \/ "hangs" \in Hazards /\ hung' = ~hung /\ UNCHANGED settled
     \/ "settle" \in Hazards /\ settled' = TRUE /\ hung' = FALSE
  /\ UNCHANGED <<life, lock, at, stdin, stdout, result, disturbed>>

Progress(t) == Write(t) \/ Read(t) \/ TimeOut(t) \/ Closed(t)
Next ==
  \/ Connect \/ ListTools \/ Disconnect \/ Terminated
  \/ \E c \in Callers : Call(c) \/ Cancel(c)
  \/ \E t \in Pingers : Ping(t)
  \/ \E t \in Tasks : Progress(t)
  \/ Serve \/ Notification \/ Exits \/ Environment

Spec == Init /\ [][Next]_vars
(* asyncio runs every ready task and its lock is fair; a server that is not hung answers. *)
FairSpec == /\ Spec
            /\ \A t \in Tasks : SF_vars(Progress(t))
            /\ \A c \in Callers : WF_vars(Call(c))
            /\ WF_vars(Connect) /\ WF_vars(ListTools) /\ WF_vars(Terminated) /\ WF_vars(Serve)

-----------------------------------------------------------------------------
TypeOK ==
  /\ process \in {"none", "running", "exited"} /\ {held, connected} \subseteq BOOLEAN
  /\ manager \in {"off", "starting", "listing", "serving", "excluded", "stopping", "stopped"}
  /\ lock \in Tasks \cup {"free"}
  /\ \A t \in Tasks : lock = t <=> at[t] = "reading"
  /\ Range(stdin) \cup Range(stdout) \subseteq Tasks \cup {"none", "note"}
  /\ result \in [Callers -> {"none", "answer", "foreign", "failed"}]
  /\ manager = "serving" => connected

(* As long as every line has found its reader, calls that come together are told apart by *)
(* the order of the lines alone (_send_request: "stdio 管道保证响应按发送顺序返回").      *)
OrderTellsApart == disturbed \/ \A c \in Callers : result[c] # "foreign"

(* Every call ends, also when the server hangs, dies or is stopped below it (_send_request, *)
(* disconnect).                                                                             *)
CallsEnd == \A c \in Callers : (at[c] # "idle") ~> (at[c] = "idle")

\* Unless the order of the lines was disturbed, an answer is the caller's own.
Safety ==
    /\ TypeOK
    /\ OrderTellsApart

=============================================================================
