------------------------------- MODULE McpSse -------------------------------
(***************************************************************************)
(* One session of the SSE client for MCP servers (MCPSessionSSE): requests  *)
(* go out by POST, answers come over a stream whose reader task hands them  *)
(* to futures by request id. A call whose session or stream is gone builds  *)
(* both again and repeats its request. As in McpHttp a task is a stack of   *)
(* requests and tasks interleave wherever the code awaits.                  *)
(***************************************************************************)
EXTENDS Naturals, Sequences, FiniteSets

CONSTANTS Callers,   \* tasks that call a tool, one call after the other
          Pingers,   \* the task of _keepalive_loop, if it runs
          Streams,   \* names for streams; one is used again once nothing refers to it
          Ids,       \* request ids, likewise
          MaxLate,   \* answers under way when a call or a ping begins
          MaxDepth,  \* nested handshakes before Python raises RecursionError
          Hazards    \* what time, server and network may do

SseAssumption ==
  /\ Callers \cap Pingers = {} /\ "none" \notin Streams \cup Callers \cup Pingers
  /\ Streams # {} /\ Ids \subseteq Nat \ {0} /\ MaxDepth \in Nat \ {0}
  /\ MaxLate \in Nat

Tasks == Callers \cup Pingers

VARIABLES http,       \* the httpx client: "none", "open", or "closed" but still referred to
          stream,     \* the stream of the session (its response and reader)
          url,        \* the stream whose endpoint POSTs go to
          connected, age,
          open,       \* streams that are open and read
          silent,     \* streams whose reader broke off: the response does not count as closed
          announced,  \* those that have sent their endpoint event
          expecting,  \* the task whose future the next endpoint event resolves
          lock,       \* asyncio.Lock around a POST
          stack,      \* the requests a task is in, the innermost last
          outbox,     \* answers under way: [stream, id, for]
          up,         \* the server can be reached
          result, effects, settled

vars == <<http, stream, url, connected, age, open, silent, announced, expecting, lock, stack, outbox,
          up, result, effects, settled>>
links == <<open, silent, announced, expecting>>
session == <<http, stream, url, connected, age>>
remote == <<up, settled>>

Init ==
  \E s \in Streams :
    /\ http = "open" /\ stream = s /\ url = s /\ connected = TRUE /\ age = "young"
    /\ open = {s} /\ silent = {} /\ announced = {s} /\ expecting = "none"
    /\ lock = "free"
    /\ stack = [t \in Tasks |-> <<>>]
    /\ outbox = {} /\ up = TRUE
    /\ result = [c \in Callers |-> "none"]
    /\ effects = [c \in Callers |-> 0]
    /\ settled = FALSE

-----------------------------------------------------------------------------
Idle(t) == stack[t] = <<>>
Top(t) == stack[t][Len(stack[t])]
At(t, at) == ~Idle(t) /\ Top(t).at = at
Below(t) == SubSeq(stack[t], 1, Len(stack[t]) - 1)
Replace(t, f) == stack' = [stack EXCEPT ![t] = Append(Below(t), f)]
Goto(t, at) == Replace(t, [Top(t) EXCEPT !.at = at])
(* id and future: what a request waits for; via: the client of its POST. *)
Request(what, at, retry) ==
  [what |-> what, at |-> at, retry |-> retry, id |-> 0, future |-> "none", via |-> "none"]
Through(from, to, st) ==
  [t \in Tasks |-> [i \in 1..Len(st[t]) |->
     IF st[t][i].via = from THEN [st[t][i] EXCEPT !.via = to] ELSE st[t][i]]]
(* All futures of _pending at once. *)
Resolved(how, st) ==
  [t \in Tasks |-> [i \in 1..Len(st[t]) |->
     IF st[t][i].future = "waiting" THEN [st[t][i] EXCEPT !.future = how] ELSE st[t][i]]]

(* An answer no future waits for any more is dropped by the reader when it comes. *)
Orphaned(id) == {[m EXCEPT !.for = IF m.id = id THEN "none" ELSE @] : m \in outbox}

Nested(t) == Top(t).what = "ping" /\ Len(stack[t]) > 1
Raise(t) ==
  /\ IF Nested(t)
       THEN /\ stack' = [stack EXCEPT ![t] = [Below(t) EXCEPT ![Len(Below(t))].at = "reopen"]]
            /\ UNCHANGED result
       ELSE /\ stack' = [stack EXCEPT ![t] = <<>>]
            /\ result' = IF t \in Callers THEN [result EXCEPT ![t] = "failed"] ELSE result
  /\ outbox' = Orphaned(Top(t).id)
  /\ expecting' = IF expecting = t THEN "none" ELSE expecting

(***************************************************************************)
(* Calls, and what comes before a request.                                 *)
(***************************************************************************)
Call(c) ==
  /\ Idle(c)
  /\ Cardinality(outbox) <= MaxLate
  /\ stack' = [stack EXCEPT ![c] = <<Request("call", "alive", TRUE)>>]
  /\ result' = [result EXCEPT ![c] = "none"]
  /\ effects' = [effects EXCEPT ![c] = 0]
  /\ UNCHANGED <<session, links, lock, outbox, remote>>

Ping(t) ==
  /\ Idle(t) /\ connected
  /\ Cardinality(outbox) <= MaxLate
  /\ stack' = [stack EXCEPT ![t] = <<Request("ping", "post", FALSE)>>]
  /\ UNCHANGED <<session, links, lock, outbox, result, effects, remote>>

(* _ensure_alive. The reader catches what it meets, so only a closed response is seen. *)
Lost == stream # "none" /\ stream \notin open \cup silent
EnsureAlive(t) ==
  /\ At(t, "alive")
  /\ CASE http = "none" \/ ~connected -> Goto(t, "post")
       [] http # "none" /\ connected /\ (Lost \/ age = "old") -> Goto(t, "reopen")
       [] http # "none" /\ connected /\ ~Lost /\ age = "half" ->
            stack' = [stack EXCEPT ![t] = Append(@, Request("ping", "post", FALSE))]
       [] OTHER -> Goto(t, "post")
  /\ UNCHANGED <<session, links, lock, outbox, result, effects, remote>>

(* disconnect: the reader is cancelled and fails every future on its way out ... *)
Reopen(t) ==
  /\ At(t, "reopen")
  /\ connected' = FALSE
  /\ open' = open \ {stream}
  /\ outbox' = {m \in outbox : m.stream # stream}
  /\ stack' = [Resolved("closed", stack) EXCEPT ![t][Len(stack[t])].at = "closing"]
  /\ UNCHANGED <<http, stream, url, age, silent, announced, expecting, lock, result, effects, remote>>
(* ... later ones are failed too, the response of that moment is closed, then the client ... *)
Closing(t) ==
  /\ At(t, "closing")
  /\ http' = IF http = "none" THEN "none" ELSE "closed"
  /\ stream' = "none"
  /\ open' = open \ {stream} /\ silent' = silent \ {stream}
  /\ outbox' = {m \in outbox : m.stream # stream}
  /\ stack' = [Through("current", "closed", Resolved("dropped", stack))
                 EXCEPT ![t][Len(stack[t])].at = "closed"]
  /\ UNCHANGED <<url, connected, age, announced, expecting, lock, result, effects, remote>>
(* ... and whatever client is there after the awaits is dropped. *)
Closed(t) ==
  /\ At(t, "closed")
  /\ http' = "none" /\ url' = "none"
  /\ stack' = [Through("current", "replaced", stack) EXCEPT ![t][Len(stack[t])].at = "connect"]
  /\ UNCHANGED <<stream, connected, age, links, lock, outbox, result, effects, remote>>

(* connect: a client, the stream, its endpoint event, the handshake. *)
Depth(t) == Cardinality({i \in 1..Len(stack[t]) : stack[t][i].what = "initialize"})
Connect(t) ==
  /\ At(t, "connect")
  /\ IF connected
       THEN Goto(t, "post") /\ UNCHANGED <<http, outbox, expecting, result>>
       ELSE IF Depth(t) = MaxDepth
         THEN Raise(t) /\ UNCHANGED http
         ELSE /\ http' = "open"
              /\ stack' = [Through("current", "replaced", stack)
                             EXCEPT ![t][Len(stack[t])].at = "opening"]
              /\ UNCHANGED <<outbox, expecting, result>>
  /\ UNCHANGED <<stream, url, connected, age, open, silent, announced, lock, effects, remote>>

Referred == open \cup {stream, url}
OpenStream(t) ==
  /\ At(t, "opening")
  /\ Streams \ Referred # {}
  /\ IF up /\ http = "open"
       THEN LET s == CHOOSE q \in Streams : q \notin Referred IN
              /\ stream' = s
              /\ open' = open \cup {s} /\ silent' = silent \ {s}
              /\ announced' = announced \ {s}
              /\ expecting' = t
              /\ Goto(t, "endpoint")
              /\ UNCHANGED <<outbox, result>>
       ELSE Raise(t) /\ UNCHANGED <<stream, open, silent, announced>>
  /\ UNCHANGED <<http, url, connected, age, lock, effects, remote>>

(* The reader resolves the future of the latest connect, whichever stream it reads. *)
Endpoint(s) ==
  /\ s \in open \ announced
  /\ announced' = announced \cup {s}
  /\ IF expecting = "none"
       THEN UNCHANGED <<url, stack>>
       ELSE /\ url' = s
            /\ stack' = [stack EXCEPT ![expecting] =
                 Append(Append(Below(expecting), [Top(expecting) EXCEPT !.at = "post"]),
                        Request("initialize", "alive", TRUE))]
  /\ expecting' = "none"
  /\ UNCHANGED <<http, stream, connected, age, open, silent, lock, outbox, result, effects, remote>>
EndpointTimeout(t) ==
  /\ At(t, "endpoint")
  /\ settled \/ "slow" \notin Hazards => ~(expecting = t /\ open \ announced # {})
  /\ Raise(t)
  /\ UNCHANGED <<session, open, silent, announced, lock, effects, remote>>

(***************************************************************************)
(* _post_sse                                                               *)
(***************************************************************************)
TakenIds == {m.id : m \in outbox} \cup
            UNION {{stack[t][i].id : i \in 1..Len(stack[t])} : t \in Tasks}
NewId == CHOOSE i \in Ids : i \notin TakenIds

Posts(t, f) ==
  IF http = "none" \/ url = "none"
    THEN Raise(t) /\ UNCHANGED lock
    ELSE /\ lock' = t
         /\ Replace(t, [f EXCEPT !.at = "flight",
                          !.via = IF http = "open" THEN "current" ELSE "closed"])
         /\ UNCHANGED <<outbox, expecting, result>>
Post(t) ==
  /\ At(t, "post")
  /\ LET f == [Top(t) EXCEPT !.id = NewId, !.future = "waiting"] IN
     IF lock = "free" THEN Posts(t, f)
                      ELSE Replace(t, [f EXCEPT !.at = "queued"])
                           /\ UNCHANGED <<lock, outbox, expecting, result>>
  /\ UNCHANGED <<session, open, silent, announced, effects, remote>>
Acquire(t) ==
  /\ At(t, "queued") /\ lock = "free"
  /\ Posts(t, Top(t))
  /\ UNCHANGED <<session, open, silent, announced, effects, remote>>

Reaches(t) == At(t, "flight") /\ up /\ Top(t).via # "closed"
Carried(t) == effects' = IF t \in Callers /\ Top(t).what = "call"
                           THEN [effects EXCEPT ![t] = @ + 1] ELSE effects
Broken(t) ==
  /\ At(t, "flight") /\ ~Reaches(t)
  /\ lock' = "free"
  /\ Raise(t)
  /\ UNCHANGED effects \/ Carried(t)
  /\ UNCHANGED <<session, open, silent, announced, remote>>

(* The server takes the request; its answer will come over the stream of its session. *)
Accepted(t) ==
  /\ Reaches(t) /\ url \in open \cup silent
  /\ lock' = "free"
  /\ Carried(t)
  /\ outbox' = IF url \in open THEN outbox \cup {[stream |-> url, id |-> Top(t).id, for |-> t]}
                               ELSE outbox
  /\ Goto(t, "await")
  /\ UNCHANGED <<session, links, result, remote>>

(* A session the server does not know, or a stream that ended: rebuild and repeat once. *)
Again(t) ==
  IF Top(t).retry
    THEN /\ stack' = [stack EXCEPT ![t] = Append(Below(t),
              [Top(t) EXCEPT !.at = "reopen", !.retry = FALSE, !.future = "none", !.id = 0])]
         /\ outbox' = Orphaned(Top(t).id)
         /\ UNCHANGED <<expecting, result>>
    ELSE Raise(t)
Refused(t) ==
  /\ Reaches(t) /\ url \notin open
  /\ lock' = "free"
  /\ Again(t)
  /\ UNCHANGED <<session, open, silent, announced, effects, remote>>
Ended(t) ==
  /\ At(t, "await") /\ Top(t).future = "closed"
  /\ Again(t)
  /\ UNCHANGED <<session, open, silent, announced, lock, effects, remote>>
TimedOut(t) ==
  /\ At(t, "await")
  /\ \/ Top(t).future = "dropped"
     \/ /\ Top(t).future = "waiting"
        /\ settled \/ "slow" \notin Hazards => ~\E m \in outbox : m.id = Top(t).id
  /\ Raise(t)
  /\ UNCHANGED <<session, open, silent, announced, lock, effects, remote>>

(* The reader: the future of this id, if there is one, gets the answer. *)
Deliver(m) ==
  /\ m \in outbox
  /\ outbox' = outbox \ {m}
  /\ stack' = [t \in Tasks |-> [i \in 1..Len(stack[t]) |->
       IF stack[t][i].id = m.id /\ stack[t][i].future = "waiting"
         THEN [stack[t][i] EXCEPT !.future = IF m.for = t THEN "answer" ELSE "foreign"]
         ELSE stack[t][i]]]
  /\ UNCHANGED <<session, links, lock, result, effects, remote>>

Answered(t) ==
  /\ At(t, "await") /\ Top(t).future \in {"answer", "foreign"}
  /\ CASE Top(t).what = "initialize" -> Goto(t, "notify") /\ UNCHANGED <<age, result>>
       [] Top(t).what = "ping" ->
            /\ stack' = [stack EXCEPT ![t] =
                 IF Nested(t) THEN [Below(t) EXCEPT ![Len(Below(t))].at = "post"] ELSE <<>>]
            /\ age' = IF t \in Pingers THEN "young" ELSE age
            /\ UNCHANGED result
       [] OTHER ->
            /\ stack' = [stack EXCEPT ![t] = <<>>]
            /\ result' = [result EXCEPT ![t] = Top(t).future]
            /\ UNCHANGED age
  /\ UNCHANGED <<http, stream, url, connected, links, lock, outbox, effects, remote>>

Notify(t) ==
  /\ At(t, "notify")
  /\ IF http # "open" \/ url = "none" \/ ~up
       THEN Raise(t) /\ UNCHANGED <<connected, age>>
       ELSE /\ lock = "free"
            /\ connected' = TRUE /\ age' = "young"
            /\ stack' = [stack EXCEPT ![t] = Below(t)]
            /\ UNCHANGED <<outbox, expecting, result>>
  /\ UNCHANGED <<http, stream, url, open, silent, announced, lock, effects, remote>>

(***************************************************************************)
(* Time, the server and the network.                                       *)
(***************************************************************************)
Aging ==
  /\ "age" \in Hazards /\ ~settled /\ age # "old"
  /\ age' = IF age = "young" THEN "half" ELSE "old"
  /\ UNCHANGED <<http, stream, url, connected, links, lock, stack, outbox, result, effects, remote>>

(* A stream breaks: its reader fails every future, also those posted over other streams. *)
StreamEnds(s) ==
  /\ ~settled /\ s \in open
  /\ open' = open \ {s}
  /\ \/ "cut" \in Hazards /\ UNCHANGED silent
     \/ "crash" \in Hazards /\ silent' = silent \cup {s}
  /\ outbox' = {m \in outbox : m.stream # s}
  /\ stack' = Resolved("closed", stack)
  /\ UNCHANGED <<session, announced, expecting, lock, result, effects, remote>>

Environment ==
  /\ ~settled
  /\ \/ "down" \in Hazards /\ up' = ~up /\ UNCHANGED settled
     \/ "settle" \in Hazards /\ settled' = TRUE /\ up' = TRUE
  /\ UNCHANGED <<session, links, lock, stack, outbox, result, effects>>

Progress(t) ==
  \/ EnsureAlive(t) \/ Reopen(t) \/ Closing(t) \/ Closed(t)
  \/ Connect(t) \/ OpenStream(t) \/ EndpointTimeout(t)
  \/ Post(t) \/ Acquire(t) \/ Broken(t) \/ Accepted(t) \/ Refused(t)
  \/ Ended(t) \/ TimedOut(t) \/ Answered(t) \/ Notify(t)
Next ==
  \/ \E c \in Callers : Call(c)
  \/ \E t \in Pingers : Ping(t)
  \/ \E t \in Tasks : Progress(t)
  \/ \E s \in Streams : Endpoint(s) \/ StreamEnds(s)
  \/ \E m \in outbox : Deliver(m)
  \/ Aging \/ Environment

Spec == Init /\ [][Next]_vars
(* Waits have timeouts, asyncio runs every ready task and its lock is fair; a server *)
(* that is left alone answers.                                                        *)
FairSpec == /\ Spec
            /\ \A t \in Tasks : SF_vars(Progress(t))
            /\ \A c \in Callers : WF_vars(Call(c))
            /\ \A s \in Streams : WF_vars(Endpoint(s))
            /\ \A t \in Tasks : WF_vars(\E m \in outbox : m.for = t /\ Deliver(m))

-----------------------------------------------------------------------------
TypeOK ==
  /\ http \in {"none", "open", "closed"}
  /\ {stream, url} \subseteq Streams \cup {"none"}
  /\ connected \in BOOLEAN /\ age \in {"young", "half", "old"}
  /\ open \subseteq Streams /\ announced \subseteq Streams /\ silent \subseteq Streams \ open
  /\ expecting \in Tasks \cup {"none"}
  /\ expecting # "none" => At(expecting, "endpoint")
  /\ \A t \in Tasks : lock = t <=> At(t, "flight")
  /\ \A m \in outbox : m.stream \in open
  /\ result \in [Callers -> {"none", "answer", "foreign", "failed"}]

(* The answer a call returns is the answer to its own request, although answers come late, *)
(* streams overlap while several tasks reconnect and every reader serves every future       *)
(* (_sse_reader: _pending by request id).                                                   *)
AnswersAreOwn == \A c \in Callers : result[c] # "foreign"

(* Every call returns, whatever happens to its session and its stream (call_tool). *)
CallsEnd == \A c \in Callers : (stack[c] # <<>>) ~> (stack[c] = <<>>)

\* A caller gets the answer to its own request, over whichever stream.
Safety ==
    /\ TypeOK
    /\ AnswersAreOwn

=============================================================================
