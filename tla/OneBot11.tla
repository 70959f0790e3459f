------------------------------ MODULE OneBot11 ------------------------------
(***************************************************************************)
(* OneBot11Channel: the reverse WebSocket server a QQ bot connects to.     *)
(* A connection is probed, becomes the current one, is polled for its      *)
(* status and is replaced by a newer one; its reader resolves the answers  *)
(* to the channel's requests and queues the bot's messages; senders share  *)
(* one outstanding request.                                                 *)
(*                                                                         *)
(* All of it runs on one event loop: a step ends where a coroutine waits.  *)
(* An answer is put into a future by the reader in one step and used by    *)
(* the coroutine that waits for it in a later one.                         *)
(***************************************************************************)
EXTENDS Naturals, Sequences, FiniteSets

CONSTANTS
    MaxConn,       \* bound: connections the bot opens; a connection is its epoch
    Senders,       \* calls of send_with_receipt
    QueueSize,     \* ingress_queue_size
    MaxEvent,      \* bound: messages the bot reports
    MaxTrouble,    \* bound: faults
    Faults,        \* of "replace", "drop", "slow", "mute", "odd", "offline", "old"
    None

VARIABLES
    conn,          \* connection -> its handler and what it knows of the bot
    call,          \* handler or sender -> the request it waits for
    wire,          \* connection -> requests on the way to the bot
    frames,        \* connection -> frames received and not read
    current,       \* _connection
    queue,         \* ingress queue: <<connection, event>>
    handled,       \* events handed to the callback
    sender,        \* sender -> where it is, its connection and its result
    lock,          \* holder of _send_lock
    cool,          \* the send interval is over
    done,          \* requests the bot carried out
    real,          \* the bot is online
    events,        \* messages reported so far
    trouble        \* faults so far

vars == <<conn, call, wire, frames, current, queue, handled, sender, lock, cool, done, real,
          events, trouble>>
sending == <<sender, lock, cool>>
ingress == <<queue, handled>>
bot == <<done, real, events>>

Conns == 1..MaxConn
Owners == Conns \cup Senders
NewConn == [at |-> "none", verified |-> FALSE, up |-> FALSE, fresh |-> FALSE, open |-> FALSE,
            reading |-> FALSE]
NoCall == [conn |-> None, echo |-> None, state |-> "none"]

Init ==
    /\ conn = [c \in Conns |-> NewConn]
    /\ call = [o \in Owners |-> NoCall]
    /\ wire = [c \in Conns |-> {}]
    /\ frames = [c \in Conns |-> <<>>]
    /\ current = None
    /\ queue = <<>>
    /\ handled = {}
    /\ sender = [s \in Senders |-> [at |-> "new", conn |-> None, result |-> None]]
    /\ lock = None
    /\ cool = TRUE
    /\ done = {}
    /\ real = TRUE
    /\ events = 0
    /\ trouble = 0

\* One more fault of this kind.
Trouble(fault) == fault \in Faults /\ trouble < MaxTrouble /\ trouble' = trouble + 1

Connections == {c \in Conns : conn[c].at \notin {"none", "gone"}}

Ready == current # None /\ conn[current].verified /\ conn[current].up /\ conn[current].fresh

-----------------------------------------------------------------------------
(* Requests and answers. *)

\* The id of a request, its own for every attempt.
Echo(o) == o

\* _rpc: the future is registered and the request sent.
Asks(o, c) ==
    /\ call' = [call EXCEPT ![o] = [conn |-> c, echo |-> Echo(o), state |-> "waiting"]]
    /\ wire' = IF conn[c].open THEN [wire EXCEPT ![c] = @ \cup {[from |-> o, echo |-> Echo(o)]}] ELSE wire

\* The coroutines that wait for this answer.
Waiting(c, echo) ==
    {o \in Owners : call[o].conn = c /\ call[o].echo = echo /\ call[o].state = "waiting"}

\* The coroutine goes on after its request and unregisters it.
Returns(o) == call' = [call EXCEPT ![o] = NoCall]

\* Whatever waits on the connection waits no longer.
Broken(c) == call' = [o \in Owners |-> IF call[o].conn = c /\ call[o].state = "waiting"
                                       THEN [call[o] EXCEPT !.state = "broken"] ELSE call[o]]

\* An answer is on its way.
Expected(o) == LET c == call[o].conn IN
    \/ \E r \in wire[c] : r.echo = call[o].echo
    \/ \E i \in DOMAIN frames[c] : frames[c][i].kind = "answer" /\ frames[c][i].echo = call[o].echo

\* The answer does not come in time, or never.
TimeOut(o) ==
    /\ call[o].state = "waiting"
    /\ IF Expected(o) THEN Trouble("slow") ELSE UNCHANGED trouble
    /\ call' = [call EXCEPT ![o].state = "broken"]
    /\ UNCHANGED <<conn, wire, frames, current, ingress, sending, bot>>

-----------------------------------------------------------------------------
(* The bot and the network. *)

\* The bot reconnects, at times beside a connection that is open; the handshake and the
\* handler admit two.
Connect(c) ==
    /\ conn[c].at = "none"
    /\ \A d \in Conns : d < c => conn[d].at # "none"
    /\ Cardinality(Connections) < 2
    /\ IF \E d \in Conns : conn[d].open THEN Trouble("replace") ELSE UNCHANGED trouble
    /\ conn' = [conn EXCEPT ![c] = [NewConn EXCEPT !.at = "login", !.open = TRUE, !.reading = TRUE]]
    /\ UNCHANGED <<call, wire, frames, current, ingress, sending, bot>>

Frame(c, f) == frames' = [frames EXCEPT ![c] = Append(@, f)]

\* What the bot may answer: a message is sent, or refused before it is.
Answers(r) == IF r.from \in Conns THEN {IF real THEN "ok" ELSE "down"} ELSE {"ok", "rejected"}

Answer(c, o) == \E r \in wire[c] : \E value \in Answers(r) :
    /\ conn[c].open /\ r.from = o
    /\ wire' = [wire EXCEPT ![c] = @ \ {r}]
    /\ Frame(c, [kind |-> "answer", echo |-> r.echo, value |-> value])
    /\ done' = IF r.from \in Senders /\ value = "ok" THEN done \cup {r.from} ELSE done
    /\ UNCHANGED <<conn, call, current, ingress, sending, real, events, trouble>>

\* An answer that is not one of the protocol; a message may be sent all the same.
Odd(c) == \E r \in wire[c] : \E sent \in {{}, {r.from} \cap Senders} :
    /\ conn[c].open
    /\ Trouble("odd")
    /\ wire' = [wire EXCEPT ![c] = @ \ {r}]
    /\ Frame(c, [kind |-> "answer", echo |-> r.echo, value |-> "odd"])
    /\ done' = done \cup sent
    /\ UNCHANGED <<conn, call, current, ingress, sending, real, events>>

\* The bot sends the message and its answer is lost.
Mute(c) == \E r \in wire[c] :
    /\ r.from \in Senders
    /\ Trouble("mute")
    /\ wire' = [wire EXCEPT ![c] = @ \ {r}]
    /\ done' = done \cup {r.from}
    /\ UNCHANGED <<conn, call, frames, current, ingress, sending, real, events>>

\* The bot reports a message, on any of its connections.
Event(c) ==
    /\ conn[c].open /\ events < MaxEvent
    /\ events' = events + 1
    /\ Frame(c, [kind |-> "message", event |-> events + 1])
    /\ UNCHANGED <<conn, call, wire, current, ingress, sending, done, real, trouble>>

Offline(c) ==
    /\ conn[c].open /\ real
    /\ Trouble("offline")
    /\ real' = FALSE
    /\ Frame(c, [kind |-> "offline"])
    /\ UNCHANGED <<conn, call, wire, current, ingress, sending, done, events>>

Online ==
    /\ ~real
    /\ real' = TRUE
    /\ UNCHANGED <<conn, call, wire, frames, current, ingress, sending, done, events, trouble>>

Drop(c) ==
    /\ conn[c].open
    /\ Trouble("drop")
    /\ conn' = [conn EXCEPT ![c].open = FALSE]
    /\ UNCHANGED <<call, wire, frames, current, ingress, sending, bot>>

-----------------------------------------------------------------------------
(* The reader of a connection. *)

ReadAnswer(c) == LET f == Head(frames[c]) IN
    /\ conn[c].reading /\ frames[c] # <<>> /\ f.kind = "answer"
    /\ frames' = [frames EXCEPT ![c] = Tail(@)]
    /\ call' = [o \in Owners |-> IF o \in Waiting(c, f.echo)
                                 THEN [call[o] EXCEPT !.state = f.value] ELSE call[o]]
    /\ UNCHANGED <<conn, wire, current, ingress, sending, bot, trouble>>

\* A negative status counts at once.
ReadOffline(c) ==
    /\ conn[c].reading /\ frames[c] # <<>> /\ Head(frames[c]).kind = "offline"
    /\ frames' = [frames EXCEPT ![c] = Tail(@)]
    /\ conn' = [conn EXCEPT ![c].up = FALSE]
    /\ UNCHANGED <<call, wire, current, ingress, sending, bot, trouble>>

\* A message of a connection that is not ready is dropped; a full queue closes it.
ReadMessage(c) == LET f == Head(frames[c]) IN
    /\ conn[c].reading /\ frames[c] # <<>> /\ f.kind = "message"
    /\ frames' = [frames EXCEPT ![c] = Tail(@)]
    /\ IF c # current \/ ~Ready THEN UNCHANGED <<queue, conn>>
       ELSE IF Len(queue) < QueueSize
            THEN queue' = Append(queue, <<c, f.event>>) /\ UNCHANGED conn
       ELSE conn' = [conn EXCEPT ![c].open = FALSE] /\ UNCHANGED queue
    /\ UNCHANGED <<call, wire, current, handled, sending, bot, trouble>>

\* The reader ends with its connection: nobody waits for it any longer.
ReaderEnds(c) ==
    /\ conn[c].reading /\ ~conn[c].open
    /\ conn' = [conn EXCEPT ![c].reading = FALSE, ![c].up = FALSE]
    /\ Broken(c)
    /\ frames' = [frames EXCEPT ![c] = <<>>]
    /\ wire' = [wire EXCEPT ![c] = {}]
    /\ UNCHANGED <<current, ingress, sending, bot, trouble>>

-----------------------------------------------------------------------------
(* The handler of a connection. *)

\* The handler is at this place, and its request is answered or broken.
Handling(c, at) == conn[c].at = at /\ call[c].state # "waiting"

\* It gives the connection up and closes it.
Leaves(c) ==
    /\ current' = IF current = c THEN None ELSE current
    /\ conn' = [conn EXCEPT ![c].at = "closing", ![c].open = FALSE]

\* The probe asks who is logged in, ...
Login(c) ==
    /\ conn[c].at = "login"
    /\ Asks(c, c)
    /\ conn' = [conn EXCEPT ![c].at = "probing"]
    /\ UNCHANGED <<frames, current, ingress, sending, bot, trouble>>

\* An answer to the probe is as it should be.
Right(c) == call[c].state \in {"ok", "down"}

\* ... whatever the answer which version runs, ...
LoggedIn(c) ==
    /\ Handling(c, "probing")
    /\ IF call[c].state # "broken"
       THEN /\ Asks(c, c)
            /\ conn' = [conn EXCEPT ![c].at = IF Right(c) THEN "version" ELSE "mismatch"]
            /\ UNCHANGED current
       ELSE Leaves(c) /\ Returns(c) /\ UNCHANGED wire
    /\ UNCHANGED <<frames, ingress, sending, bot, trouble>>

\* ... and then, when both are right, for the status.
Probed(c) ==
    /\ Handling(c, "version") \/ Handling(c, "mismatch")
    /\ IF conn[c].at = "version" /\ Right(c)
       THEN /\ Asks(c, c)
            /\ conn' = [conn EXCEPT ![c].at = "status"]
            /\ UNCHANGED current
       ELSE Leaves(c) /\ Returns(c) /\ UNCHANGED wire
    /\ UNCHANGED <<frames, ingress, sending, bot, trouble>>

\* _status: what the connection knows after the answer.
Known(c) == [conn[c] EXCEPT !.up = (call[c].state = "ok"), !.fresh = TRUE, !.at = "serving"]

\* A newer connection is verified already.
Superseded(c) == current # None /\ current > c

\* The connection becomes the current one, the previous one is closed.
Verify(c) ==
    /\ Handling(c, "status")
    /\ Returns(c)
    /\ IF call[c].state \in {"broken", "odd"} \/ ~conn[c].reading \/ Superseded(c) THEN Leaves(c)
       ELSE /\ current' = c
            /\ conn' = [d \in Conns |-> IF d = c THEN [Known(c) EXCEPT !.verified = TRUE]
                                        ELSE IF d = current THEN [conn[d] EXCEPT !.open = FALSE]
                                        ELSE conn[d]]
    /\ UNCHANGED <<wire, frames, ingress, sending, bot, trouble>>

Poll(c) ==
    /\ conn[c].at = "serving" /\ conn[c].reading
    /\ Asks(c, c)
    /\ conn' = [conn EXCEPT ![c].at = "polling"]
    /\ UNCHANGED <<frames, current, ingress, sending, bot, trouble>>

\* A poll without an answer, and a reader that has ended, end the connection.
Polled(c) ==
    /\ Handling(c, "polling")
    /\ Returns(c)
    /\ IF call[c].state \in {"broken", "odd"} \/ ~conn[c].reading THEN Leaves(c)
       ELSE conn' = [conn EXCEPT ![c] = Known(c)] /\ UNCHANGED current
    /\ UNCHANGED <<wire, frames, ingress, sending, bot, trouble>>

\* The status grows old while a poll takes its time.
Stale(c) ==
    /\ conn[c].fresh /\ conn[c].at = "polling"
    /\ Trouble("old")
    /\ conn' = [conn EXCEPT ![c].fresh = FALSE]
    /\ UNCHANGED <<call, wire, frames, current, ingress, sending, bot>>

Finish(c) ==
    /\ conn[c].at = "serving" /\ ~conn[c].reading
    /\ Leaves(c)
    /\ UNCHANGED <<call, wire, frames, ingress, sending, bot, trouble>>

\* The socket is closed: the reader is cancelled and the place is free again.
Discard(c) ==
    /\ conn[c].at = "closing"
    /\ conn' = [conn EXCEPT ![c].at = "gone", ![c].reading = FALSE, ![c].up = FALSE]
    /\ Broken(c)
    /\ frames' = [frames EXCEPT ![c] = <<>>]
    /\ wire' = [wire EXCEPT ![c] = {}]
    /\ UNCHANGED <<current, ingress, sending, bot, trouble>>

-----------------------------------------------------------------------------
(* The consumer of the queue. *)

Consume == LET c == Head(queue)[1] IN
    /\ queue # <<>>
    /\ queue' = Tail(queue)
    /\ handled' = IF c = current /\ conn[c].verified THEN handled \cup {Head(queue)[2]} ELSE handled
    /\ UNCHANGED <<conn, call, wire, frames, current, sending, bot, trouble>>

-----------------------------------------------------------------------------
(* send_with_receipt. *)

Result(s, result) == sender' = [sender EXCEPT ![s].at = "done", ![s].result = result]

Send(s) ==
    /\ sender[s].at = "new"
    /\ IF Ready THEN sender' = [sender EXCEPT ![s].at = "lock", ![s].conn = current]
       ELSE Result(s, "failed")
    /\ UNCHANGED <<conn, call, wire, frames, current, ingress, lock, cool, bot, trouble>>

Acquire(s) ==
    /\ sender[s].at = "lock" /\ lock = None
    /\ lock' = s
    /\ sender' = [sender EXCEPT ![s].at = "interval"]
    /\ UNCHANGED <<conn, call, wire, frames, current, ingress, cool, bot, trouble>>

Release(s) == lock' = IF lock = s THEN None ELSE lock

\* After the interval the connection is looked at again.
Dispatch(s) ==
    /\ sender[s].at = "interval" /\ cool
    /\ IF sender[s].conn = current /\ Ready
       THEN /\ Asks(s, current)
            /\ cool' = FALSE
            /\ sender' = [sender EXCEPT ![s].at = "rpc"]
            /\ UNCHANGED lock
       ELSE Result(s, "failed") /\ Release(s) /\ UNCHANGED <<call, wire, cool>>
    /\ UNCHANGED <<conn, frames, current, ingress, bot, trouble>>

Cool ==
    /\ ~cool
    /\ cool' = TRUE
    /\ UNCHANGED <<conn, call, wire, frames, current, ingress, sender, lock, bot, trouble>>

\* Only a refusal before the execution is a failure.
Outcome(state) == CASE state = "ok" -> "accepted"
                    [] state = "rejected" -> "failed"
                    [] OTHER -> "uncertain"

Receive(s) ==
    /\ sender[s].at = "rpc" /\ call[s].state # "waiting"
    /\ Result(s, Outcome(call[s].state))
    /\ Release(s)
    /\ Returns(s)
    /\ UNCHANGED <<conn, wire, frames, current, ingress, cool, bot, trouble>>

-----------------------------------------------------------------------------
Loop ==
    \/ \E c \in Conns :
        \/ ReadAnswer(c) \/ ReadOffline(c) \/ ReadMessage(c) \/ ReaderEnds(c)
        \/ Login(c) \/ LoggedIn(c) \/ Probed(c) \/ Verify(c) \/ Poll(c) \/ Polled(c)
        \/ Finish(c) \/ Discard(c)
    \/ Consume
    \/ \E s \in Senders : Send(s) \/ Acquire(s) \/ Dispatch(s) \/ Receive(s)

Bot ==
    \/ \E c \in Conns :
        Connect(c) \/ (\E o \in Owners : Answer(c, o)) \/ Odd(c) \/ Mute(c) \/ Event(c) \/ Offline(c) \/ Drop(c) \/ Stale(c)
    \/ Online \/ Cool
    \/ \E o \in Owners : TimeOut(o)

Next == Loop \/ Bot

Spec == Init /\ [][Next]_vars

\* The event loop runs every coroutine that can go on, asyncio.Lock is fair; the
\* bot reconnects, answers and comes back; time passes.
FairSpec ==
    /\ Spec
    /\ \A c \in Conns :
        /\ WF_vars(ReadAnswer(c) \/ ReadOffline(c) \/ ReadMessage(c) \/ ReaderEnds(c))
        /\ WF_vars(Login(c) \/ LoggedIn(c) \/ Probed(c) \/ Verify(c) \/ Poll(c) \/ Polled(c)
                    \/ Finish(c) \/ Discard(c))
        /\ WF_vars(Connect(c) /\ UNCHANGED trouble) /\ \A o \in Owners : WF_vars(Answer(c, o))
    /\ \A s \in Senders : WF_vars(Send(s) \/ Dispatch(s) \/ Receive(s)) /\ SF_vars(Acquire(s))
    /\ \A o \in Owners : WF_vars(TimeOut(o) /\ UNCHANGED trouble)
    /\ WF_vars(Consume) /\ WF_vars(Online) /\ WF_vars(Cool)

-----------------------------------------------------------------------------
\* The places of the handlers, the bounds of the connections, of the queue and
\* of the requests of a connection, and the results of the senders.
TypeOK ==
    /\ current \in Conns \cup {None}
    /\ current # None => conn[current].verified /\ conn[current].at \in {"serving", "polling"}
    /\ \A c \in Conns : conn[c].at \in {"none", "login", "probing", "version", "mismatch", "status",
                                        "serving", "polling", "closing", "gone"}
    /\ Cardinality(Connections) <= 2
    /\ Len(queue) <= QueueSize
    /\ \A c \in Conns : Cardinality({o \in Owners : call[o].conn = c}) <= 2
    /\ \A s \in Senders : (sender[s].at = "done") = (sender[s].result # None)

\* send_with_receipt: one send is outstanding for the bot, whatever its
\* connections do meanwhile.
OneOutstanding == Cardinality({s \in Senders : sender[s].at \in {"interval", "rpc"}}) <= 1

\* send_with_receipt: a send reported as failed had no effect and never will:
\* the delivery may be sent again.
FailedHasNoEffect == \A s \in Senders : sender[s].result = "failed" =>
    s \notin done /\ \A c \in Conns : \A r \in wire[c] : r.from # s

\* _rpc: a send reported as accepted was carried out; it was not another one's
\* late answer that told so.
AcceptedIsDone == \A s \in Senders : sender[s].result = "accepted" => s \in done

\* _handle_connection: a newer verified connection is never given up for an older one.
NewestWins == current # None =>
    \A d \in Conns : d > current => ~(conn[d].verified /\ conn[d].at \in {"serving", "polling"})

\* ready: the channel is never ready on a connection that nobody reads.
ReadyIsRead == Ready => conn[current].reading

\* send_with_receipt: every send ends with a result.
SendsEnd == \A s \in Senders : <>(sender[s].at = "done")

\* When the faults cease, the bot has a connection on which it is served.
Recovers == <>[](current # None /\ conn[current].open)

\* One request at a time, and a sender was told what happened.
Safety ==
    /\ TypeOK
    /\ OneOutstanding
    /\ FailedHasNoEffect
    /\ AcceptedIsDone
    /\ NewestWins
    /\ ReadyIsRead

=============================================================================
