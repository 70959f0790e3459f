------------------------------- MODULE McpHttp -------------------------------
(***************************************************************************)
(* One session of the Streamable HTTP client for MCP servers (MCPSession),  *)
(* shared by the tool calls of a Worker and by the keep-alive loop. A task  *)
(* is a stack of requests: a call that finds its session too old or refused *)
(* reconnects, and the handshake of a reconnection is a request again.      *)
(* Tasks interleave wherever the code awaits.                               *)
(***************************************************************************)
EXTENDS Naturals, Sequences, FiniteSets

CONSTANTS Callers,      \* tasks that call a tool, one call after the other
          KeepAlive,    \* the task of _keepalive_loop
          MaxDepth,     \* nested handshakes before Python raises RecursionError
          Hazards       \* what time, server and network may do

HttpAssumption == KeepAlive \notin Callers /\ MaxDepth \in Nat \ {0}

Tasks == Callers \cup {KeepAlive}

VARIABLES http,       \* the httpx client: "none", "open", or "closed" but still referred to
          connected,
          sid,        \* the session id held: "none", "good", or "bad" once the server forgot it
          age,        \* of the session, against its TTL: "young", "half", "old"
          lock,       \* asyncio.Lock around a POST
          stack,      \* the requests a task is in, the innermost last
          result,     \* how the last call of a caller ended
          server,     \* [up, accepts]: reachable; its credentials are accepted
          effects,    \* how often the call of a caller has been carried out
          handshakes, \* initialize requests posted for the current call
          settled     \* the environment causes no further trouble

vars == <<http, connected, sid, age, lock, stack, result, server, effects, handshakes, settled>>
client == <<http, connected, sid, age>>
remote == <<server, settled>>
counts == <<effects, handshakes>>

Init ==
  /\ http = "open" /\ connected = TRUE /\ sid = "good" /\ age = "young"
  /\ lock = "free"
  /\ stack = [t \in Tasks |-> <<>>]
  /\ result = [c \in Callers |-> "none"]
  /\ server = [up |-> TRUE, accepts |-> TRUE]
  /\ effects = [c \in Callers |-> 0]
  /\ handshakes = [c \in Callers |-> 0]
  /\ settled = FALSE

-----------------------------------------------------------------------------
Idle(t) == stack[t] = <<>>
Top(t) == stack[t][Len(stack[t])]
At(t, at) == ~Idle(t) /\ Top(t).at = at
Below(t) == SubSeq(stack[t], 1, Len(stack[t]) - 1)
Replace(t, f) == stack' = [stack EXCEPT ![t] = Append(Below(t), f)]
Goto(t, at) == Replace(t, [Top(t) EXCEPT !.at = at])
(* via: the client a POST went through: the current one, a replaced one, a closed one. *)
Request(what, at, retry) ==
  [what |-> what, at |-> at, retry |-> retry, via |-> "none", sid |-> "none"]
Through(from, to) ==
  [t \in Tasks |-> [i \in 1..Len(stack[t]) |->
     IF stack[t][i].via = from THEN [stack[t][i] EXCEPT !.via = to] ELSE stack[t][i]]]

(* An exception unwinds to call_tool, which turns it into a failed result; the ping *)
(* of _ensure_alive catches it and reconnects.                                      *)
Nested(t) == Top(t).what = "ping" /\ Len(stack[t]) > 1
Raise(t) ==
  IF Nested(t)
    THEN /\ stack' = [stack EXCEPT ![t] = [Below(t) EXCEPT ![Len(Below(t))].at = "reopen"]]
         /\ UNCHANGED result
    ELSE /\ stack' = [stack EXCEPT ![t] = <<>>]
         /\ result' = IF t \in Callers THEN [result EXCEPT ![t] = "failed"] ELSE result

(***************************************************************************)
(* Requests.                                                               *)
(***************************************************************************)
Call(c) ==
  /\ Idle(c)
  /\ stack' = [stack EXCEPT ![c] = <<Request("call", "alive", TRUE)>>]
  /\ result' = [result EXCEPT ![c] = "none"]
  /\ effects' = [effects EXCEPT ![c] = 0]
  /\ handshakes' = [handshakes EXCEPT ![c] = 0]
  /\ UNCHANGED <<client, lock, remote>>

Ping ==
  /\ Idle(KeepAlive) /\ connected
  /\ stack' = [stack EXCEPT ![KeepAlive] = <<Request("ping", "post", FALSE)>>]
  /\ UNCHANGED <<client, lock, result, remote, counts>>

(* _ensure_alive *)
EnsureAlive(t) ==
  /\ At(t, "alive")
  /\ CASE http = "none" \/ ~connected \/ age = "young" -> Goto(t, "post")
       [] http # "none" /\ connected /\ age = "half" ->
            stack' = [stack EXCEPT ![t] = Append(@, Request("ping", "post", FALSE))]
       [] OTHER -> Goto(t, "reopen")
  /\ UNCHANGED <<client, lock, result, remote, counts>>

(* disconnect, up to its await of aclose ... *)
Reopen(t) ==
  /\ At(t, "reopen")
  /\ connected' = FALSE /\ sid' = "none"
  /\ http' = IF http = "none" THEN "none" ELSE "closed"
  /\ stack' = [Through("current", "closed") EXCEPT ![t][Len(stack[t])].at =
                  IF http = "none" THEN "connect" ELSE "closing"]
  /\ UNCHANGED <<age, lock, result, remote, counts>>
(* ... and after it: whatever client is there by now is dropped. *)
Closed(t) ==
  /\ At(t, "closing")
  /\ http' = "none"
  /\ stack' = [Through("current", "replaced") EXCEPT ![t][Len(stack[t])].at = "connect"]
  /\ UNCHANGED <<connected, sid, age, lock, result, remote, counts>>

(* connect: a new client and the handshake; the request goes on when it returns. *)
Depth(t) == Cardinality({i \in 1..Len(stack[t]) : stack[t][i].what = "initialize"})
Connect(t) ==
  /\ At(t, "connect")
  /\ IF connected
       THEN Goto(t, "post") /\ UNCHANGED <<http, result>>
       ELSE IF Depth(t) = MaxDepth
         THEN Raise(t) /\ UNCHANGED http
         ELSE /\ http' = "open"
              /\ stack' = [Through("current", "replaced") EXCEPT ![t] =
                   Append(Append(Below(t), [Top(t) EXCEPT !.at = "post"]),
                          Request("initialize", "alive", TRUE))]
              /\ UNCHANGED result
  /\ UNCHANGED <<connected, sid, age, lock, remote, counts>>

(* _post, _post_with_retry: the headers are made first, then the lock is taken, then *)
(* the client of that moment posts.                                                  *)
Posts(t, session) ==
  IF http = "none"
    THEN Raise(t) /\ UNCHANGED <<lock, handshakes>>
    ELSE /\ lock' = t
         /\ Replace(t, [Top(t) EXCEPT !.at = "flight", !.sid = session,
                          !.via = IF http = "open" THEN "current" ELSE "closed"])
         /\ handshakes' = IF t \in Callers /\ Top(t).what = "initialize"
                            THEN [handshakes EXCEPT ![t] = @ + 1] ELSE handshakes
         /\ UNCHANGED result
Post(t) ==
  /\ At(t, "post")
  /\ IF lock = "free" \/ http = "none"
       THEN Posts(t, sid)
       ELSE /\ Replace(t, [Top(t) EXCEPT !.at = "queued", !.sid = sid])
            /\ UNCHANGED <<lock, handshakes, result>>
  /\ UNCHANGED <<client, remote, effects>>
Acquire(t) ==
  /\ At(t, "queued") /\ lock = "free"
  /\ Posts(t, Top(t).sid)
  /\ UNCHANGED <<client, remote, effects>>

Reaches(t) == At(t, "flight") /\ server.up /\ Top(t).via # "closed"
Accepted(t) == server.accepts /\ (Top(t).what = "initialize" \/ Top(t).sid = "good")
Carried(t) == effects' = IF t \in Callers /\ Top(t).what = "call"
                           THEN [effects EXCEPT ![t] = @ + 1] ELSE effects

(* The connection fails, before or after the server has done its part. *)
\* Variation: a connection that fails is taken for an expired session.
BrokenRetries(t) ==
  /\ At(t, "flight") /\ ~Reaches(t)
  /\ lock' = "free"
  /\ IF Top(t).retry
       THEN /\ connected' = FALSE /\ sid' = "none"
            /\ Replace(t, [Top(t) EXCEPT !.at = "connect", !.retry = FALSE])
            /\ UNCHANGED result
       ELSE Raise(t) /\ UNCHANGED <<connected, sid>>
  /\ UNCHANGED effects \/ (Accepted(t) /\ Carried(t))
  /\ UNCHANGED <<http, age, remote, handshakes>>
Broken(t) ==
  /\ At(t, "flight") /\ ~Reaches(t)
  /\ lock' = "free"
  /\ Raise(t)
  /\ UNCHANGED effects \/ (Accepted(t) /\ Carried(t))
  /\ UNCHANGED <<client, remote, handshakes>>

Answered(t) ==
  /\ Reaches(t) /\ Accepted(t)
  /\ lock' = "free"
  /\ Carried(t)
  /\ CASE Top(t).what = "initialize" ->
            /\ sid' = "good"
            /\ Goto(t, "notify")
            /\ UNCHANGED <<result, age>>
       [] Top(t).what = "ping" ->
            /\ stack' = [stack EXCEPT ![t] =
                 IF Nested(t) THEN [Below(t) EXCEPT ![Len(Below(t))].at = "post"] ELSE <<>>]
            /\ age' = IF t = KeepAlive THEN "young" ELSE age
            /\ UNCHANGED <<result, sid>>
       [] OTHER ->
            /\ stack' = [stack EXCEPT ![t] = <<>>]
            /\ result' = [result EXCEPT ![t] = "ok"]
            /\ UNCHANGED <<sid, age>>
  /\ UNCHANGED <<http, connected, remote, handshakes>>

(* 401 or 403: a reconnection and one more try, except for a ping and for the second try. *)
Refused(t) ==
  /\ Reaches(t) /\ ~Accepted(t)
  /\ lock' = "free"
  /\ IF Top(t).retry
       THEN /\ connected' = FALSE /\ sid' = "none"
            /\ Replace(t, [Top(t) EXCEPT !.at = "connect", !.retry = FALSE])
            /\ UNCHANGED result
       ELSE Raise(t) /\ UNCHANGED <<connected, sid>>
  /\ UNCHANGED <<http, age, remote, counts>>

(* notifications/initialized, its answer ignored; the session counts as connected. *)
Notify(t) ==
  /\ At(t, "notify")
  /\ IF http # "open" \/ ~server.up
       THEN Raise(t) /\ UNCHANGED <<connected, age>>
       ELSE /\ lock = "free"
            /\ connected' = TRUE /\ age' = "young"
            /\ stack' = [stack EXCEPT ![t] = Below(t)]
            /\ UNCHANGED result
  /\ UNCHANGED <<http, sid, lock, remote, counts>>

(***************************************************************************)
(* Time, the server and the network.                                       *)
(***************************************************************************)
Aging ==
  /\ "age" \in Hazards /\ ~settled /\ age # "old"
  /\ age' = IF age = "young" THEN "half" ELSE "old"
  /\ UNCHANGED <<http, connected, sid, lock, stack, result, remote, counts>>

(* The server forgets its sessions. *)
Expire ==
  /\ "expire" \in Hazards /\ ~settled
  /\ sid' = IF sid = "good" THEN "bad" ELSE sid
  /\ stack' = [t \in Tasks |-> [i \in 1..Len(stack[t]) |->
       IF stack[t][i].sid = "good" THEN [stack[t][i] EXCEPT !.sid = "bad"] ELSE stack[t][i]]]
  /\ UNCHANGED <<http, connected, age, lock, result, remote, counts>>

Environment ==
  /\ ~settled
  /\ \/ "down" \in Hazards /\ server' = [server EXCEPT !.up = ~@] /\ UNCHANGED settled
     \/ "refuse" \in Hazards /\ server' = [server EXCEPT !.accepts = ~@] /\ UNCHANGED settled
     \/ "settle" \in Hazards /\ settled' = TRUE /\ server' = [up |-> TRUE, accepts |-> TRUE]
  /\ UNCHANGED <<client, lock, stack, result, counts>>

Progress(t) ==
  \/ EnsureAlive(t) \/ Reopen(t) \/ Closed(t) \/ Connect(t) \/ Post(t) \/ Acquire(t)
  \/ Broken(t) \/ Answered(t) \/ Refused(t) \/ Notify(t)
Next == Ping \/ Aging \/ Expire \/ Environment \/ (\E c \in Callers : Call(c))
        \/ \E t \in Tasks : Progress(t)

Spec == Init /\ [][Next]_vars
(* Awaits end: a POST has a timeout, asyncio runs every ready task and its lock is fair. *)
FairSpec == Spec /\ (\A t \in Tasks : SF_vars(Progress(t))) /\ \A c \in Callers : WF_vars(Call(c))

-----------------------------------------------------------------------------
TypeOK ==
  /\ http \in {"none", "open", "closed"} /\ connected \in BOOLEAN
  /\ sid \in {"none", "good", "bad"} /\ age \in {"young", "half", "old"}
  /\ lock \in Tasks \cup {"free"}
  /\ \A t \in Tasks : lock = t <=> At(t, "flight")
  /\ \A t \in Tasks : Len(stack[t]) <= MaxDepth + 2
  /\ result \in [Callers -> {"none", "ok", "failed"}]

(* However often the session expires, breaks or is replaced below it, one call is   *)
(* carried out by the server at most once (call_tool, _post_with_retry: a request   *)
(* is sent again only if it was refused).                                           *)
AtMostOnce == \A c \in Callers : effects[c] <= 1

(* Every call returns (call_tool), whatever the session goes through meanwhile. *)
CallsEnd == \A c \in Callers : (stack[c] # <<>>) ~> (stack[c] = <<>>)

\* A call reaches the server at most once, over whichever session.
Safety ==
    /\ TypeOK
    /\ AtMostOnce

=============================================================================
