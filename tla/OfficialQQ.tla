----------------------------- MODULE OfficialQQ -----------------------------
(***************************************************************************)
(* OfficialQQChannel: the client of the QQ Bot API. Four kinds of tasks    *)
(* share the channel: the loop that keeps a connection to the gateway,     *)
(* its heartbeat, the loop that renews the access token, and the senders.  *)
(* stop_monitor cancels the tasks one after the other.                     *)
(*                                                                         *)
(* All of it runs on one event loop: a step ends where a coroutine waits.  *)
(* Tokens are numbered as they are issued; the first `dead` ones have      *)
(* expired.                                                                *)
(***************************************************************************)
EXTENDS Naturals, Sequences, FiniteSets

CONSTANTS
    Senders,       \* calls of send_message to one room, alike in their first 50 characters
    Durable,       \* those with a delivery_id
    MaxToken,      \* bound: tokens issued; the last one does not expire
    MaxEvent,      \* bound: messages at the gateway
    MaxStart,      \* bound: calls of start_monitor
    MaxTrouble,    \* bound: faults
    Faults,        \* of "drop", "again", "fetch", "callback", "post", "refuse", "stop"
    None

VARIABLES
    monitor,       \* "off", "on" or the task stop_monitor cancels next
    starts,        \* calls of start_monitor
    token,         \* _access_token
    issued, dead,  \* tokens issued and expired
    lock,          \* holder of _token_lock
    fetch,         \* fetcher -> where it is and the token it was given
    refresh,       \* _token_refresh_task
    loop,          \* where _ws_loop is
    heart,         \* the heartbeat task runs
    known,         \* _wss_url is known
    ws,            \* _ws refers to a connection
    link,          \* the gateway's side of the newest connection
    frames,        \* frames received and not read
    events,        \* messages at the gateway so far
    handled,       \* messages given to the callback
    sender,        \* sender -> where it is, its token and its result
    gap,           \* SEND_INTERVAL has passed since the last send
    cache,         \* the key of the senders is in _sent_msg_ids
    sent,          \* sender -> times its message was accepted by the API
    trouble        \* faults so far

auth == <<token, issued, dead, lock, fetch, refresh>>
gateway == <<loop, heart, known, ws, link, frames, events, handled>>
sending == <<sender, gap, cache, sent>>
life == <<monitor, starts>>
vars == <<life, auth, gateway, sending, trouble>>

Refresher == 0
Fetchers == Senders \cup {Refresher}
NoFetch == [at |-> "no", got |-> 0]

Init ==
    /\ monitor = "off" /\ starts = 0
    /\ token = 0 /\ issued = 0 /\ dead = 0
    /\ lock = None
    /\ fetch = [o \in Fetchers |-> NoFetch]
    /\ refresh = "gone"
    /\ loop = "gone" /\ heart = FALSE /\ known = FALSE
    /\ ws = FALSE /\ link = "none" /\ frames = <<>>
    /\ events = 0 /\ handled = {}
    /\ sender = [s \in Senders |-> [at |-> "new", token |-> 0, due |-> FALSE, result |-> None]]
    /\ gap = TRUE /\ cache = FALSE
    /\ sent = [s \in Senders |-> 0]
    /\ trouble = 0

Trouble(fault) == fault \in Faults /\ trouble < MaxTrouble /\ trouble' = trouble + 1

-----------------------------------------------------------------------------
(* start_monitor and stop_monitor. *)

\* The first token is fetched and the two loops are started.
Start ==
    /\ monitor = "off" /\ starts < MaxStart /\ issued < MaxToken /\ lock = None
    /\ monitor' = "on" /\ starts' = starts + 1
    /\ issued' = issued + 1 /\ token' = issued + 1
    /\ refresh' = "sleep"
    /\ loop' = IF known THEN "connect" ELSE "url"
    /\ UNCHANGED <<dead, lock, fetch, heart, known, ws, link, frames, events, handled, sending, trouble>>

Stop ==
    /\ monitor = "on"
    /\ Trouble("stop")
    /\ monitor' = "heartbeat"
    /\ UNCHANGED <<starts, auth, gateway, sending>>

StopHeartbeat ==
    /\ monitor = "heartbeat"
    /\ monitor' = "token_refresh"
    /\ heart' = FALSE
    /\ UNCHANGED <<starts, auth, loop, known, ws, link, frames, events, handled, sending, trouble>>

\* A task that is cancelled releases the lock it holds.
StopRefresh ==
    /\ monitor = "token_refresh"
    /\ monitor' = "reconnect"
    /\ refresh' = "gone"
    /\ fetch' = [fetch EXCEPT ![Refresher] = NoFetch]
    /\ lock' = IF lock = Refresher THEN None ELSE lock
    /\ UNCHANGED <<starts, token, issued, dead, gateway, sending, trouble>>

\* The loop is gone when it has been waited for; then the connection _ws still refers
\* to and the HTTP session are closed.  The heartbeat was cancelled before.
StopLoop ==
    /\ monitor = "reconnect"
    /\ monitor' = "off"
    /\ loop' = "gone"
    /\ ws' = FALSE /\ frames' = <<>>
    /\ link' = IF ws THEN "none" ELSE link
    /\ UNCHANGED <<starts, auth, heart, known, events, handled, sending, trouble>>

Shutdown == monitor # "on"

-----------------------------------------------------------------------------
(* _fetch_token. *)

\* Variation: without the lock.
FetchUnlocked(o) ==
    /\ fetch[o].at = "wait" /\ issued < MaxToken
    /\ lock' = lock
    /\ issued' = issued + 1
    /\ fetch' = [fetch EXCEPT ![o] = [at |-> "post", got |-> issued + 1]]
    /\ UNCHANGED <<life, token, dead, refresh, gateway, sending, trouble>>

\* One fetch at a time.
Fetch(o) ==
    /\ fetch[o].at = "wait" /\ lock = None /\ issued < MaxToken
    /\ lock' = o
    /\ issued' = issued + 1
    /\ fetch' = [fetch EXCEPT ![o] = [at |-> "post", got |-> issued + 1]]
    /\ UNCHANGED <<life, token, dead, refresh, gateway, sending, trouble>>

\* Variation: a failed refresh ends the loop.
ContinueUnlessFailed(o, fetched) ==
    /\ fetch' = [fetch EXCEPT ![o] = NoFetch]
    /\ lock' = IF lock = o THEN None ELSE lock
    /\ IF o = Refresher THEN refresh' = (IF fetched THEN "sleep" ELSE "gone") /\ UNCHANGED sender
       ELSE UNCHANGED <<refresh, sender>>

\* What the fetch was for goes on: the loop sleeps, the sender tries again or fails.
Continue(o, fetched) ==
    /\ fetch' = [fetch EXCEPT ![o] = NoFetch]
    /\ lock' = IF lock = o THEN None ELSE lock
    /\ IF o = Refresher THEN refresh' = "sleep" /\ UNCHANGED sender
       ELSE /\ sender' = [sender EXCEPT ![o] =
                  IF fetched THEN [@ EXCEPT !.at = "repost", !.token = token']
                  ELSE [@ EXCEPT !.at = "done", !.result = IF o \in Durable THEN "raised" ELSE "failed"]]
            /\ UNCHANGED refresh

Fetched(o) ==
    /\ fetch[o].at = "post"
    /\ token' = fetch[o].got
    /\ Continue(o, TRUE)
    /\ UNCHANGED <<life, issued, dead, gateway, gap, cache, sent, trouble>>

FetchFails(o) ==
    /\ fetch[o].at = "wait" /\ lock = None
    /\ Trouble("fetch")
    /\ Continue(o, FALSE)
    /\ UNCHANGED <<life, token, issued, dead, gateway, gap, cache, sent>>

\* _token_refresh_loop: every TOKEN_REFRESH_INTERVAL, whatever became of the last time.
Refresh ==
    /\ refresh = "sleep" /\ ~Shutdown /\ issued < MaxToken
    /\ refresh' = "fetch"
    /\ fetch' = [fetch EXCEPT ![Refresher].at = "wait"]
    /\ UNCHANGED <<life, token, issued, dead, lock, gateway, sending, trouble>>

Expire ==
    /\ dead < issued /\ dead < MaxToken - 1
    /\ dead' = dead + 1
    /\ UNCHANGED <<life, token, issued, lock, fetch, refresh, gateway, sending, trouble>>

-----------------------------------------------------------------------------
(* The gateway. *)

Frame(f) == frames' = Append(frames, f)

\* A message for the bot; without a session that is read nobody is told.
Event ==
    /\ events < MaxEvent
    /\ events' = events + 1
    /\ IF ws /\ link = "session" THEN Frame([kind |-> "event", event |-> events + 1]) ELSE UNCHANGED frames
    /\ UNCHANGED <<life, auth, loop, heart, known, ws, link, handled, sending, trouble>>

\* The gateway asks for another connection, OpCode 7.
Again ==
    /\ ws /\ link = "session"
    /\ Trouble("again")
    /\ Frame([kind |-> "again"])
    /\ UNCHANGED <<life, auth, loop, heart, known, ws, link, events, handled, sending>>

\* It closes a connection, sooner or later one the channel let go of.
Drop ==
    /\ link # "none"
    /\ IF ws THEN Trouble("drop") ELSE UNCHANGED trouble
    /\ link' = "none"
    /\ UNCHANGED <<life, auth, loop, heart, known, ws, frames, events, handled, sending>>

-----------------------------------------------------------------------------
(* _ws_loop. *)

\* _get_gateway_url, once; an expired token is refused.
GetUrl ==
    /\ loop = "url"
    /\ IF token > dead THEN known' = TRUE /\ loop' = "connect" ELSE UNCHANGED known /\ loop' = "sleep"
    /\ UNCHANGED <<life, auth, heart, ws, link, frames, events, handled, sending, trouble>>

Connect ==
    /\ loop = "connect"
    /\ loop' = "read"
    /\ ws' = TRUE /\ link' = "open"
    /\ frames' = <<[kind |-> "hello"]>>
    /\ UNCHANGED <<life, auth, heart, known, events, handled, sending, trouble>>

\* The next frame is read unless the channel is stopped.
Reads(kind) == loop = "read" /\ frames # <<>> /\ Head(frames).kind = kind /\ ~Shutdown

\* The loop lets go of its connection, which nobody closes, and sleeps or ends.
Breaks ==
    /\ loop' = IF Shutdown THEN "gone" ELSE "sleep"
    /\ heart' = FALSE
    /\ ws' = FALSE /\ frames' = <<>>

\* _handle_hello: a new heartbeat, and Identify with the token there is.
Hello ==
    /\ Reads("hello")
    /\ heart' = TRUE
    /\ IF link = "none" THEN link' = link /\ frames' = Tail(frames)
       ELSE IF token > dead THEN link' = "session" /\ frames' = Append(Tail(frames), [kind |-> "ready"])
       ELSE link' = link /\ frames' = Append(Tail(frames), [kind |-> "invalid"])
    /\ UNCHANGED <<life, auth, loop, known, ws, events, handled, sending, trouble>>

ReadReady ==
    /\ Reads("ready")
    /\ frames' = Tail(frames)
    /\ UNCHANGED <<life, auth, loop, heart, known, ws, link, events, handled, sending, trouble>>

\* OpCode 9 or 7.
Invalid ==
    /\ Reads("invalid") \/ Reads("again")
    /\ Breaks
    /\ UNCHANGED <<life, auth, known, link, events, handled, sending, trouble>>

\* _handle_dispatch: the loop waits for the callback.
Dispatch ==
    /\ Reads("event")
    /\ loop' = "dispatch"
    /\ UNCHANGED <<life, auth, heart, known, ws, link, frames, events, handled, sending, trouble>>

\* An error of the callback is logged and the message is dropped.
Dispatched ==
    /\ loop = "dispatch"
    /\ loop' = "read"
    /\ frames' = Tail(frames)
    /\ \/ handled' = handled \cup {Head(frames).event} /\ UNCHANGED trouble
       \/ Trouble("callback") /\ UNCHANGED handled
    /\ UNCHANGED <<life, auth, heart, known, ws, link, events, sending>>

\* The connection is closed, or a frame is read while the channel is being stopped.
Closed ==
    /\ loop = "read"
    /\ (link = "none" /\ frames = <<>>) \/ (Shutdown /\ frames # <<>>)
    /\ Breaks
    /\ UNCHANGED <<life, auth, known, link, events, handled, sending, trouble>>

\* The delay before the next connection is over.
Reconnect ==
    /\ loop = "sleep"
    /\ loop' = IF Shutdown THEN "gone" ELSE IF known THEN "connect" ELSE "url"
    /\ UNCHANGED <<life, auth, heart, known, ws, link, frames, events, handled, sending, trouble>>

-----------------------------------------------------------------------------
(* send_message. *)

\* _rate_limit: the delay is computed from the last send and slept through.
Rate(s) ==
    /\ sender[s].at = "new" /\ starts > 0
    /\ IF gap THEN sender' = [sender EXCEPT ![s].at = "build"] /\ gap' = FALSE
       ELSE sender' = [sender EXCEPT ![s].at = "sleep"] /\ UNCHANGED gap
    /\ UNCHANGED <<life, auth, gateway, cache, sent, trouble>>

Wake(s) ==
    /\ sender[s].at = "sleep" /\ sender[s].due
    /\ sender' = [sender EXCEPT ![s].at = "build"]
    /\ gap' = FALSE
    /\ UNCHANGED <<life, auth, gateway, cache, sent, trouble>>

Interval ==
    /\ ~gap
    /\ gap' = TRUE
    /\ sender' = [s \in Senders |-> IF sender[s].at = "sleep" THEN [sender[s] EXCEPT !.due = TRUE] ELSE sender[s]]
    /\ UNCHANGED <<life, auth, gateway, cache, sent, trouble>>

Done(s, result) == sender' = [sender EXCEPT ![s].at = "done", ![s].result = result]

\* A reply like one sent before is skipped; a delivery never is.
Duplicate(s) == s \notin Durable /\ cache

Post(s) ==
    /\ sender[s].at = "build"
    /\ IF Duplicate(s) THEN Done(s, "accepted")
       ELSE sender' = [sender EXCEPT ![s].at = "post", ![s].token = token]
    /\ UNCHANGED <<life, auth, gateway, gap, cache, sent, trouble>>

Posting(s) == sender[s].at \in {"post", "repost"}
Sent(s) == sent' = [sent EXCEPT ![s] = @ + 1]

Accepted(s) ==
    /\ Posting(s) /\ sender[s].token > dead /\ monitor # "off"
    /\ Sent(s)
    /\ cache' = (cache \/ s \notin Durable)
    /\ Done(s, "accepted")
    /\ UNCHANGED <<life, auth, gateway, gap, trouble>>

\* 401: the token is fetched anew and the request repeated, once.
Unauthorized(s) ==
    /\ Posting(s) /\ sender[s].token <= dead /\ monitor # "off"
    /\ IF sender[s].at = "post"
       THEN /\ fetch' = [fetch EXCEPT ![s].at = "wait"]
            /\ sender' = [sender EXCEPT ![s].at = "fetch"]
       ELSE Done(s, "failed") /\ UNCHANGED fetch
    /\ UNCHANGED <<life, token, issued, dead, lock, refresh, gateway, gap, cache, sent, trouble>>

\* Another status: the API did not take the message.
Refused(s) ==
    /\ Posting(s) /\ monitor # "off"
    /\ Trouble("refuse")
    /\ Done(s, "failed")
    /\ UNCHANGED <<life, auth, gateway, gap, cache, sent>>

\* What an error means: of a delivery it is raised, nobody knows whether it was sent.
ErrorResult(s) == IF s \in Durable THEN "raised" ELSE "failed"

\* No answer, or the session is closed.
PostError(s) ==
    /\ Posting(s)
    /\ \/ Trouble("post") /\ sender[s].token > dead /\ (Sent(s) \/ UNCHANGED sent)
       \/ monitor = "off" /\ UNCHANGED <<sent, trouble>>
    /\ Done(s, ErrorResult(s))
    /\ UNCHANGED <<life, auth, gateway, gap, cache>>

\* _clean_dedup_cache, DEDUP_TTL later.
Forget ==
    /\ cache
    /\ cache' = FALSE
    /\ UNCHANGED <<life, auth, gateway, sender, gap, sent, trouble>>

-----------------------------------------------------------------------------
Loop == GetUrl \/ Connect \/ Hello \/ ReadReady \/ Invalid \/ Dispatch \/ Dispatched \/ Closed \/ Reconnect
Stopping == Stop \/ StopHeartbeat \/ StopRefresh \/ StopLoop
Fetching(o) == Fetch(o) \/ Fetched(o) \/ FetchFails(o)
Sending(s) == Rate(s) \/ Wake(s) \/ Post(s) \/ Accepted(s) \/ Unauthorized(s) \/ Refused(s) \/ PostError(s)

Next ==
    \/ Start \/ Stopping
    \/ \E o \in Fetchers : Fetching(o)
    \/ Refresh \/ Expire
    \/ Event \/ Again \/ Drop
    \/ Loop
    \/ \E s \in Senders : Sending(s)
    \/ Interval \/ Forget

Spec == Init /\ [][Next]_vars

\* The event loop runs its tasks, time passes, asyncio.Lock is fair; the token
\* endpoint and the gateway answer.
FairSpec ==
    /\ Spec
    /\ WF_vars(Start) /\ WF_vars(Loop) /\ WF_vars(Refresh)
    /\ \A o \in Fetchers : SF_vars(Fetch(o)) /\ WF_vars(Fetched(o))

-----------------------------------------------------------------------------
\* The tasks' places: who fetches holds the lock, one task at a time; a stopped
\* channel has no loops; a sender has a result when it is done.
TypeOK ==
    /\ monitor \in {"off", "on", "heartbeat", "token_refresh", "reconnect"}
    /\ refresh \in {"gone", "sleep", "fetch"}
    /\ (refresh = "fetch") = (fetch[Refresher].at # "no")
    /\ \A o \in Fetchers : (fetch[o].at = "post") = (lock = o)
    /\ loop \in {"gone", "url", "connect", "read", "dispatch", "sleep"}
    /\ monitor = "on" => loop # "gone" /\ refresh # "gone"
    /\ loop = "connect" => known
    /\ ws = (loop \in {"read", "dispatch"})
    /\ \A s \in Senders : (sender[s].at = "done") = (sender[s].result # None)

\* stop_monitor: a stopped channel leaves no task behind and no connection it refers
\* to, whatever the tasks did while it cancelled them one by one.  A connection the
\* loop let go of before may still be open.
StopIsComplete == monitor = "off" => ~heart /\ loop = "gone" /\ refresh = "gone" /\ ~ws

\* _ws_loop: a heartbeat beats for a connection only.
HeartHasLoop == heart => loop \in {"read", "dispatch"}

\* _fetch_token: renewed by a timer and by several senders at once, the token
\* is never replaced by an older one.
TokenIsNewer == token' >= token

\* send_message: a delivery said to be sent was sent, once.
DeliveryIsSent == \A s \in Durable : sender[s].result = "accepted" => sent[s] = 1

\* send_message: a delivery said to have failed was not sent and may be repeated;
\* none is sent twice by its retry with a new token.
FailedIsNotSent == \A s \in Durable : sent[s] <= 1 /\ (sender[s].result = "failed" => sent[s] = 0)

\* _ws_loop, _token_refresh_loop: tokens expire, the gateway and the token
\* endpoint fail; in the end the channel has a session and reads it.
Recovers == <>[](ws /\ link = "session")

\* A stop is complete, a heart has its loop, and a sender was told what happened.
Safety ==
    /\ TypeOK
    /\ StopIsComplete
    /\ HeartHasLoop
    /\ DeliveryIsSent
    /\ FailedIsNotSent

=============================================================================
