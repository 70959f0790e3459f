------------------------------- MODULE RunFeed -------------------------------
(***************************************************************************)
(* The live view of one chat Run.  Activities of the Agent Workers publish  *)
(* online events through a sink per Worker; the terminal publisher repeats  *)
(* the committed end of the Run from its Outbox row; the SSE gateway        *)
(* subscribes, sends the committed snapshot and forwards what it hears; the *)
(* browser orders the events, and polls the Run once its stream degraded.   *)
(* Redis forgets: a message reaches the connections subscribed when it is   *)
(* published.  An online event is named by its stream and sequence number,  *)
(* a message size counts as one byte.                                       *)
(***************************************************************************)
EXTENDS Naturals, Sequences, FiniteSets

CONSTANTS
    Conns,            \* browser tabs that follow the Run, one connection each
    Workers, Publishers,
    MaxConnections,   \* sse_max_connections
    Buffer, Bytes,    \* sse_handshake_buffer_events, sse_handshake_buffer_bytes
    MaxGap,           \* reordering window of the browser
    Streams, Events,  \* bounds on sinks and on online events of the Run
    Failures, Sweeps, \* bounds on failing calls, and on leases that expire under a live publisher
    Losses,           \* bound on messages the Redis connection loses while it reconnects
    Cuts              \* bound on connections whose task is cancelled before it returned its slot

RunFeedAssumption ==
    /\ MaxConnections \in Nat \ {0} /\ Buffer \in Nat \ {0} /\ Bytes \in Nat
    /\ {MaxGap, Streams, Events, Failures, Sweeps, Losses, Cuts} \subseteq Nat

VARIABLES
    run,      \* the committed Run: "running" or "terminal"
    row,      \* status of its publish_terminal_event row, "none" before the end
    ppc,      \* publishers
    sinks,    \* every sink: [seq, st]
    cache,    \* the sink a Worker keeps for the Run, 0 for none
    held,     \* the sink its Activity works with
    inflight, \* online events whose publish is awaited
    active,   \* SSEGateway._active
    gate,     \* the connection's endpoint and generator
    sub, wire, reader, queue, used, reason, seen,   \* its subscription, reader task and buffer
    frames,   \* on the way to the browser
    feed,     \* "idle", "open", or how it ended
    order,    \* StreamSequencer: [stream, next, buffered]
    shown,    \* history: the online events handed to the store
    view,     \* the Run status the browser shows
    poll,     \* the polling loop, or the answer it has read
    failures, sweeps, losses

backend == <<run, row, ppc, sweeps>>
online == <<sinks, cache, held, inflight>>
conn == <<active, gate, sub, reader, queue, used, reason, seen>>
browser == <<feed, order, shown, view, poll>>
vars == <<backend, online, conn, wire, frames, browser, failures, losses>>

Event == [kind : {"online"}, stream : 1 .. Streams, seq : 1 .. Events]
Plain(k) == [kind |-> k, stream |-> 0, seq |-> 0]
Message == Event \cup {Plain("terminal"), Plain("wake")}
Frame == Event \cup {Plain(k) : k \in {"snapshot", "snapshot_terminal", "terminal", "degraded", "expired"}}
Serving == {"subscribed", "top", "get"}
Holding == {"checking", "granted", "closing", "releasing"} \cup Serving

TypeOK ==
    /\ run \in {"running", "terminal"} /\ row \in {"none", "pending", "processing", "processed"}
    /\ ppc \in [Publishers -> {"idle", "claimed", "loaded", "sent", "failed"}]
    /\ \A i \in DOMAIN sinks : sinks[i] \in [seq : 0 .. Events, st : {"open", "degraded", "closed"}]
    /\ Len(sinks) <= Streams /\ cache \in [Workers -> 0 .. Streams] /\ held \in [Workers -> 0 .. Streams]
    /\ inflight \subseteq Event /\ active \in 0 .. MaxConnections
    /\ gate \in [Conns -> {"none", "refused", "closed", "lost"} \cup Holding]
    /\ sub \in [Conns -> BOOLEAN] /\ reader \in [Conns -> BOOLEAN] /\ used \in [Conns -> Nat]
    /\ \A c \in Conns : \A i \in DOMAIN wire[c] : wire[c][i] \in Message
    /\ \A c \in Conns : Len(queue[c]) <= Buffer /\ \A i \in DOMAIN queue[c] : queue[c][i] \in Message
    /\ reason \in [Conns -> {"none", "redis_unavailable", "overflow"}] /\ seen \in [Conns -> SUBSET (1 .. Streams)]
    /\ \A c \in Conns : \A i \in DOMAIN frames[c] : frames[c][i] \in Frame
    /\ feed \in [Conns -> {"idle", "open", "degraded", "terminal", "expired", "closed"}]
    /\ order \in [Conns -> [stream : 0 .. Streams, next : 0 .. Events + 1, buffered : SUBSET (1 .. Events)]]
    /\ view \in [Conns -> {"none", "running", "terminal"}]
    /\ poll \in [Conns -> {"off", "wait", "running", "terminal"}]
    /\ failures \in 0 .. Failures /\ sweeps \in 0 .. Sweeps /\ losses \in 0 .. Losses

Each(v) == [c \in Conns |-> v]
Init ==
    /\ run = "running" /\ row = "none" /\ ppc = [p \in Publishers |-> "idle"] /\ sweeps = 0
    /\ sinks = <<>> /\ cache = [w \in Workers |-> 0] /\ held = cache /\ inflight = {}
    /\ active = 0 /\ gate = Each("none") /\ sub = Each(FALSE) /\ reader = Each(FALSE)
    /\ wire = Each(<<>>) /\ queue = wire /\ frames = wire /\ shown = wire
    /\ used = Each(0) /\ reason = Each("none") /\ seen = Each({})
    /\ feed = Each("idle") /\ order = Each([stream |-> 0, next |-> 0, buffered |-> {}])
    /\ view = Each("none") /\ poll = Each("off") /\ failures = 0 /\ losses = 0

Fails == failures < Failures /\ failures' = failures + 1

---------------------------------------------------------------------------
(* Redis pub/sub. *)

Publish(m) == wire' = [c \in Conns |-> IF sub[c] THEN Append(wire[c], m) ELSE wire[c]]

\* External: the subscriber's Redis connection breaks and is resubscribed.
LoseMessages(c) ==
    /\ losses < Losses /\ sub[c] /\ wire[c] # <<>>
    /\ wire' = [wire EXCEPT ![c] = <<>>] /\ losses' = losses + 1
    /\ UNCHANGED <<backend, online, conn, frames, browser, failures>>

---------------------------------------------------------------------------
(* The sinks: for_run, the event methods of one Activity, the end of the Run. *)

NewSink == [seq |-> 0, st |-> "open"]

\* TracingWebEventSinkFactory.for_run at the start of an Activity.
ForRun(w) ==
    /\ held[w] = 0
    /\ IF cache[w] # 0
       THEN held' = [held EXCEPT ![w] = cache[w]] /\ UNCHANGED <<sinks, cache>>
       ELSE /\ Len(sinks) < Streams /\ sinks' = Append(sinks, NewSink)
            /\ cache' = [cache EXCEPT ![w] = Len(sinks) + 1] /\ held' = [held EXCEPT ![w] = Len(sinks) + 1]
    /\ UNCHANGED <<backend, inflight, conn, wire, frames, browser, failures, losses>>

Emitted == LET sum[i \in 0 .. Len(sinks)] == IF i = 0 THEN 0 ELSE sum[i - 1] + sinks[i].seq IN sum[Len(sinks)]
Publishing(s) == sinks[s].st = "open"

\* progress, trace_start, trace_end: the number is taken even by an event that is not published.
Emit(w) ==
    LET s == held[w] IN
    /\ s # 0 /\ Emitted < Events
    /\ sinks' = [sinks EXCEPT ![s].seq = @ + 1]
    /\ inflight' = IF Publishing(s)
                   THEN inflight \cup {[kind |-> "online", stream |-> s, seq |-> sinks[s].seq + 1]} ELSE inflight
    /\ UNCHANGED <<backend, cache, held, conn, wire, frames, browser, failures, losses>>

Published(e) ==
    /\ e \in inflight /\ inflight' = inflight \ {e} /\ Publish(e)
    /\ UNCHANGED <<backend, sinks, cache, held, conn, frames, browser, failures, losses>>

PublishFails(e) ==
    /\ e \in inflight /\ inflight' = inflight \ {e} /\ Fails
    /\ sinks' = [sinks EXCEPT ![e.stream].st = IF @ = "open" THEN "degraded" ELSE @]
    /\ UNCHANGED <<backend, cache, held, conn, wire, frames, browser, losses>>

\* The Activity returns; a kept sink stays open.
ActivityEnds(w) ==
    /\ held[w] # 0 /\ held' = [held EXCEPT ![w] = 0]
    /\ UNCHANGED <<backend, sinks, cache, inflight, conn, wire, frames, browser, failures, losses>>

\* The last Activity commits the end of the Run and its Outbox row; the observer detaches the sink.
Finish(w) ==
    /\ run = "running" /\ run' = "terminal" /\ row' = "pending"
    /\ cache' = [cache EXCEPT ![w] = 0]
    /\ UNCHANGED <<ppc, sweeps, sinks, held, inflight, conn, wire, frames, browser, failures, losses>>

\* It then ends the root trace node, which closes the sink.
EndRoot(w) ==
    /\ run = "terminal" /\ held[w] # 0
    /\ sinks' = [sinks EXCEPT ![held[w]].st = "closed"]
    /\ cache' = [cache EXCEPT ![w] = 0] /\ held' = [held EXCEPT ![w] = 0]
    /\ UNCHANGED <<backend, inflight, conn, wire, frames, browser, failures, losses>>

---------------------------------------------------------------------------
(* TerminalEventPublisher._run and _publish_one.  Every publisher claims as
   "terminal-publisher", so the row does not tell them apart. *)

Restore == <<run, online, conn, frames, browser, losses>>

Claim(p) ==
    /\ ppc[p] = "idle" /\ row = "pending" /\ row' = "processing" /\ ppc' = [ppc EXCEPT ![p] = "claimed"]
    /\ UNCHANGED <<Restore, sweeps, wire, failures>>

Load(p) ==
    /\ ppc[p] = "claimed"
    /\ \/ ppc' = [ppc EXCEPT ![p] = "loaded"] /\ UNCHANGED failures
       \/ ppc' = [ppc EXCEPT ![p] = "failed"] /\ Fails
    /\ UNCHANGED <<Restore, row, sweeps, wire>>

AfterFailure == "failed"

Send(p) ==
    /\ ppc[p] = "loaded"
    /\ \/ ppc' = [ppc EXCEPT ![p] = "sent"] /\ Publish(Plain("terminal")) /\ UNCHANGED failures
       \/ ppc' = [ppc EXCEPT ![p] = AfterFailure] /\ Fails /\ UNCHANGED wire
    /\ UNCHANGED <<Restore, row, sweeps>>

MarkProcessed(p) ==
    /\ ppc[p] = "sent" /\ ppc' = [ppc EXCEPT ![p] = "idle"]
    /\ row' = IF row = "processing" THEN "processed" ELSE row
    /\ UNCHANGED <<Restore, sweeps, wire, failures>>

MarkRetryable(p) ==
    /\ ppc[p] = "failed" /\ ppc' = [ppc EXCEPT ![p] = "idle"]
    /\ row' = IF row = "processing" THEN "pending" ELSE row
    /\ UNCHANGED <<Restore, sweeps, wire, failures>>

\* recover_expired: the owner is gone, or too slow for its lease of 120 s.
Sweep ==
    /\ row = "processing" /\ row' = "pending"
    /\ IF \A p \in Publishers : ppc[p] = "idle" THEN UNCHANGED sweeps ELSE sweeps < Sweeps /\ sweeps' = sweeps + 1
    /\ UNCHANGED <<Restore, ppc, wire, failures>>

Crash(p) ==
    /\ ppc[p] # "idle" /\ ppc' = [ppc EXCEPT ![p] = "idle"] /\ Fails
    /\ UNCHANGED <<Restore, row, sweeps, wire>>

---------------------------------------------------------------------------
(* The gateway. *)

Network == <<backend, online, losses>>
Buffers == <<sub, reader, queue, used, reason, seen>>
To(c, g) == gate' = [gate EXCEPT ![c] = g]
Tell(c, fs) == frames' = [frames EXCEPT ![c] = @ \o fs]
Degrading(f) == IF f = "open" THEN "degraded" ELSE f

\* openRunFeed.degrade and onDegraded: the feed ends, the store polls.
Degrade(c) ==
    /\ feed' = [feed EXCEPT ![c] = Degrading(@)]
    /\ poll' = [poll EXCEPT ![c] = "wait"]

\* The browser opens its feed; the endpoint takes a slot or answers 503.
Connect(c) ==
    /\ gate[c] = "none" /\ feed' = [feed EXCEPT ![c] = "open"]
    /\ IF active < MaxConnections
       THEN To(c, "checking") /\ active' = active + 1
       ELSE To(c, "refused") /\ UNCHANGED active
    /\ UNCHANGED <<Network, Buffers, wire, frames, order, shown, view, poll, failures>>

Released(n) == n - 1

\* The ownership check of the endpoint.
Check(c) ==
    /\ gate[c] = "checking"
    /\ \/ To(c, "granted") /\ UNCHANGED <<active, failures>>
       \/ To(c, "refused") /\ active' = Released(active) /\ Fails
    /\ UNCHANGED <<Network, Buffers, wire, frames, browser>>

Subscribe(c) ==
    /\ gate[c] = "granted" /\ To(c, "subscribed")
    /\ \/ /\ sub' = [sub EXCEPT ![c] = TRUE] /\ reader' = [reader EXCEPT ![c] = TRUE]
          /\ UNCHANGED <<reason, failures>>
       \/ reason' = [reason EXCEPT ![c] = "redis_unavailable"] /\ Fails /\ UNCHANGED <<sub, reader>>
    /\ UNCHANGED <<Network, active, queue, used, seen, wire, frames, browser>>

\* The committed snapshot is the first frame.
SendSnapshot(c) ==
    /\ gate[c] = "subscribed"
    /\ \/ run = "terminal" /\ Tell(c, <<Plain("snapshot_terminal")>>) /\ To(c, "closing")
       \/ run = "running" /\ ~reader[c] /\ Tell(c, <<Plain("snapshot"), Plain("degraded")>>) /\ To(c, "closing")
       \/ run = "running" /\ reader[c] /\ Tell(c, <<Plain("snapshot")>>) /\ To(c, "top")
    /\ UNCHANGED <<Network, active, Buffers, wire, browser, failures>>

Woken(q) == IF Len(q) < Buffer THEN Append(q, Plain("wake")) ELSE q

Overflow(c) ==
    /\ reason' = [reason EXCEPT ![c] = "overflow"] /\ queue' = [queue EXCEPT ![c] = Woken(@)]

\* _read_pubsub: one message, counted against the bytes the connection may buffer.
Read(c) ==
    /\ reader[c] /\ gate[c] \in Serving /\ reason[c] = "none" /\ wire[c] # <<>>
    /\ wire' = [wire EXCEPT ![c] = Tail(@)] /\ used' = [used EXCEPT ![c] = @ + 1]
    /\ IF used[c] + 1 > Bytes \/ Len(queue[c]) >= Buffer
       THEN Overflow(c)
       ELSE queue' = [queue EXCEPT ![c] = Append(@, Head(wire[c]))] /\ UNCHANGED reason
    /\ UNCHANGED <<Network, active, gate, sub, reader, seen, frames, browser, failures>>

ReadFails(c) ==
    /\ reader[c] /\ gate[c] \in Serving /\ reason[c] = "none" /\ Fails
    /\ reason' = [reason EXCEPT ![c] = "redis_unavailable"] /\ queue' = [queue EXCEPT ![c] = Woken(@)]
    /\ UNCHANGED <<Network, active, gate, sub, reader, used, seen, wire, frames, browser>>

\* The top of the loop.
Turn(c) ==
    /\ gate[c] = "top"
    /\ IF reason[c] # "none" THEN Tell(c, <<Plain("degraded")>>) /\ To(c, "closing")
                             ELSE To(c, "get") /\ UNCHANGED frames
    /\ UNCHANGED <<Network, active, Buffers, wire, browser, failures>>

\* A message of the buffer: an online event, a terminal notice, or a wakeup.
Forward(c) ==
    LET m == Head(queue[c])
        ids == IF m.stream = 0 THEN seen[c] ELSE seen[c] \cup {m.stream} IN
    /\ gate[c] = "get" /\ queue[c] # <<>> /\ queue' = [queue EXCEPT ![c] = Tail(@)]
    /\ seen' = [seen EXCEPT ![c] = ids]
    /\ \/ Cardinality(ids) > 1 /\ Tell(c, <<Plain("degraded")>>) /\ To(c, "closing")
       \/ Cardinality(ids) <= 1 /\ m.kind = "online" /\ Tell(c, <<m>>) /\ To(c, "top")
       \/ m.kind = "terminal" /\ run = "terminal" /\ Tell(c, <<m>>) /\ To(c, "closing")
       \/ (m.kind = "wake" \/ (m.kind = "terminal" /\ run # "terminal")) /\ To(c, "top") /\ UNCHANGED frames
    /\ UNCHANGED <<Network, active, sub, reader, used, reason, wire, browser, failures>>

\* The keepalive tick: the session is still valid, or not.
Keepalive(c) ==
    /\ gate[c] = "get" /\ queue[c] = <<>>
    /\ \/ To(c, "top") /\ UNCHANGED <<frames, failures>>
       \/ Tell(c, <<Plain("expired")>>) /\ To(c, "closing") /\ Fails
    /\ UNCHANGED <<Network, active, Buffers, wire, browser>>

\* The browser is gone: the generator is closed where it waits.
Disconnected(c) ==
    /\ gate[c] \in Serving \cup {"granted"} /\ feed[c] # "open" /\ To(c, "closing")
    /\ UNCHANGED <<Network, active, Buffers, wire, frames, browser, failures>>

\* finally: the reader stops and the subscription is returned, ...
Close(c) ==
    /\ gate[c] = "closing" /\ To(c, "releasing")
    /\ sub' = [sub EXCEPT ![c] = FALSE] /\ reader' = [reader EXCEPT ![c] = FALSE]
    /\ wire' = [wire EXCEPT ![c] = <<>>] /\ queue' = [queue EXCEPT ![c] = <<>>]
    /\ used' = [used EXCEPT ![c] = 0] /\ reason' = [reason EXCEPT ![c] = "none"] /\ seen' = [seen EXCEPT ![c] = {}]
    /\ UNCHANGED <<Network, active, frames, browser, failures>>

\* ... and then the slot.
Release(c) ==
    /\ gate[c] = "releasing" /\ To(c, "closed") /\ active' = Released(active)
    /\ UNCHANGED <<Network, Buffers, wire, frames, browser, failures>>

\* The browser is gone and the task is cancelled where nothing returns the slot: in the
\* ownership check, before the generator runs, or in its finally.
Cut(c) ==
    /\ gate[c] \in {"checking", "granted", "closing", "releasing"} /\ feed[c] # "open" /\ To(c, "lost")
    /\ Cardinality({d \in Conns : gate[d] = "lost"}) < Cuts
    /\ reader' = [reader EXCEPT ![c] = FALSE]
    /\ UNCHANGED <<Network, active, sub, queue, used, reason, seen, wire, frames, browser, failures>>

---------------------------------------------------------------------------
(* The browser: openRunFeed and createRunMonitor. *)

System == <<backend, online, conn, wire, failures, losses>>

\* StreamSequencer.accept: the events it delivers, and its next state; "gap" degrades.
Successors(o, s) ==
    LET last == CHOOSE n \in s .. s + Cardinality(o.buffered) :
                    (s + 1) .. n \subseteq o.buffered /\ n + 1 \notin o.buffered
    IN s .. last

\* Variation: a later event of the window is delivered at once.
AcceptAhead(o, e) ==
    IF o.stream # 0 /\ e.stream # o.stream THEN [res |-> "gap", to |-> 0, o |-> o]
    ELSE IF o.stream # 0 /\ e.seq < o.next THEN [res |-> "skip", to |-> 0, o |-> o]
    ELSE [res |-> "deliver", to |-> e.seq, o |-> [o EXCEPT !.stream = e.stream, !.next = e.seq + 1]]

Accept(o, e) ==
    IF o.stream = 0
    THEN [res |-> "deliver", to |-> e.seq, o |-> [o EXCEPT !.stream = e.stream, !.next = e.seq + 1]]
    ELSE IF e.stream # o.stream THEN [res |-> "gap", to |-> 0, o |-> o]
    ELSE IF e.seq < o.next THEN [res |-> "skip", to |-> 0, o |-> o]
    ELSE IF e.seq = o.next
    THEN LET run_ == Successors(o, e.seq) top == CHOOSE n \in run_ : \A k \in run_ : k <= n
         IN [res |-> "deliver", to |-> top, o |-> [o EXCEPT !.next = top + 1, !.buffered = @ \ run_]]
    ELSE IF e.seq - o.next > MaxGap \/ e.seq \in o.buffered \/ Cardinality(o.buffered) >= MaxGap
    THEN [res |-> "gap", to |-> 0, o |-> o]
    ELSE [res |-> "skip", to |-> 0, o |-> [o EXCEPT !.buffered = @ \cup {e.seq}]]

Delivered(e, to) == [i \in 1 .. to - e.seq + 1 |-> [e EXCEPT !.seq = e.seq + i - 1]]

Pop(c) == frames[c] # <<>> /\ frames' = [frames EXCEPT ![c] = Tail(@)]

\* An online event of the open feed.
Receive(c) ==
    /\ Pop(c) /\ feed[c] = "open" /\ Head(frames[c]).kind = "online"
    /\ LET e == Head(frames[c]) a == Accept(order[c], e) IN
       /\ order' = [order EXCEPT ![c] = a.o]
       /\ shown' = IF a.res = "deliver" THEN [shown EXCEPT ![c] = @ \o Delivered(e, a.to)] ELSE shown
       /\ IF a.res = "gap" THEN Degrade(c) ELSE UNCHANGED <<feed, poll>>
    /\ UNCHANGED <<System, view>>

Snapshot(c) ==
    /\ Pop(c) /\ feed[c] = "open"
    /\ \/ Head(frames[c]).kind = "snapshot" /\ view' = [view EXCEPT ![c] = "running"]
       \/ Head(frames[c]).kind = "snapshot_terminal" /\ view' = [view EXCEPT ![c] = "terminal"]
    /\ UNCHANGED <<System, feed, order, shown, poll>>

Terminal(c) ==
    /\ Pop(c) /\ feed[c] = "open" /\ Head(frames[c]).kind = "terminal"
    /\ feed' = [feed EXCEPT ![c] = "terminal"] /\ view' = [view EXCEPT ![c] = "terminal"]
    /\ UNCHANGED <<System, order, shown, poll>>

Control(c) ==
    /\ Pop(c) /\ feed[c] = "open"
    /\ \/ Head(frames[c]).kind = "degraded" /\ Degrade(c)
       \/ /\ Head(frames[c]).kind = "expired" /\ feed' = [feed EXCEPT ![c] = "expired"]
          /\ UNCHANGED poll
    /\ UNCHANGED <<System, order, shown, view>>

\* A frame of a feed that has ended.
Ignore(c) == Pop(c) /\ feed[c] # "open" /\ UNCHANGED <<System, browser>>

\* The response ends, or never was a stream, before the feed decided.
EndOfStream(c) ==
    /\ gate[c] \in {"refused", "closed"} /\ feed[c] = "open" /\ frames[c] = <<>> /\ Degrade(c)
    /\ UNCHANGED <<System, frames, order, shown, view>>

\* startPolling: wait, read the Run, apply what was read.
PollRead(c) ==
    /\ poll[c] = "wait"
    /\ poll' = [poll EXCEPT ![c] = IF view[c] = "terminal" THEN "off" ELSE run]
    /\ UNCHANGED <<System, frames, feed, order, shown, view>>
PollApply(c) ==
    /\ poll[c] \in {"running", "terminal"} /\ view' = [view EXCEPT ![c] = poll[c]]
    /\ poll' = [poll EXCEPT ![c] = IF poll[c] = "terminal" THEN "off" ELSE "wait"]
    /\ UNCHANGED <<System, frames, feed, order, shown>>

\* The user leaves the conversation: closeFeed, and a new generation stops the polling.
Leave(c) ==
    /\ feed[c] # "closed" /\ gate[c] # "none"
    /\ feed' = [feed EXCEPT ![c] = "closed"] /\ poll' = [poll EXCEPT ![c] = "off"]
    /\ view' = [view EXCEPT ![c] = "none"] /\ shown' = [shown EXCEPT ![c] = <<>>]
    /\ order' = [order EXCEPT ![c] = [stream |-> 0, next |-> 0, buffered |-> {}]]
    /\ UNCHANGED <<System, frames>>

---------------------------------------------------------------------------
Publisher(p) == Claim(p) \/ Load(p) \/ Send(p) \/ MarkProcessed(p) \/ MarkRetryable(p)
Gateway(c) ==
    \/ Check(c) \/ Subscribe(c) \/ SendSnapshot(c) \/ Turn(c) \/ Forward(c) \/ Disconnected(c)
    \/ Close(c) \/ Release(c)
Browser(c) ==
    \/ Receive(c) \/ Snapshot(c) \/ Terminal(c) \/ Control(c) \/ Ignore(c) \/ EndOfStream(c)
    \/ PollRead(c) \/ PollApply(c)
Sink(w) == ForRun(w) \/ Emit(w) \/ ActivityEnds(w) \/ Finish(w) \/ EndRoot(w)

Next ==
    \/ \E w \in Workers : Sink(w)
    \/ \E e \in inflight : Published(e) \/ PublishFails(e)
    \/ \E p \in Publishers : Publisher(p) \/ Crash(p)
    \/ Sweep
    \/ \E c \in Conns :
        Gateway(c) \/ Connect(c) \/ Read(c) \/ ReadFails(c) \/ Keepalive(c) \/ Browser(c) \/ Leave(c)
        \/ Cut(c) \/ LoseMessages(c)

Spec == Init /\ [][Next]_vars

\* The publisher's loop, the generator and its reader, the browser's callbacks and timer go on.
FairSpec ==
    /\ Spec /\ WF_vars(Sweep)
    /\ \A p \in Publishers : WF_vars(Publisher(p))
    /\ \A c \in Conns : WF_vars(Gateway(c)) /\ WF_vars(Read(c)) /\ WF_vars(Keepalive(c)) /\ WF_vars(Browser(c))

---------------------------------------------------------------------------
\* What a tab has been shown is a stretch of one stream without holes, however the publishes
\* of a sink overtake each other, the Run changes Workers or messages are lost (StreamSequencer).
OnlineInOrder ==
    \A c \in Conns : \A i \in 1 .. Len(shown[c]) - 1 :
        shown[c][i + 1] = [shown[c][i] EXCEPT !.seq = @ + 1]

\* As long as Redis loses nothing, a tab that waits for the end of the Run will hear of it: the
\* notice is not published yet, or it is on the way to this tab (subscribe before the snapshot,
\* publish before processed).
NoticeIsOnItsWay ==
    \A c \in Conns :
        gate[c] \in {"top", "get"} /\ reader[c] /\ reason[c] = "none" /\ row = "processed" /\ losses = 0
        => \E i \in DOMAIN (queue[c] \o wire[c]) : (queue[c] \o wire[c])[i].kind = "terminal"

\* A tab that shows the end of the Run never shows it running again (one source at a time:
\* the feed until it ends, the polling loop after).
EndIsShownForGood == \A c \in Conns : view[c] = "terminal" => view'[c] # "running"

\* The gateway counts every connection it serves, each once, whichever of endpoint and generator
\* returns the slot; the others it counts are those whose task was cut off before it could.
SlotsMatch == active = Cardinality({c \in Conns : gate[c] \in Holding \cup {"lost"}})

\* A tab that follows a Run shows its end, unless it left or lost its session: through the feed,
\* or through polling once the stream degraded.
EndIsShown ==
    \A c \in Conns :
        gate[c] # "none" /\ run = "terminal" ~> view[c] = "terminal" \/ feed[c] \in {"closed", "expired"}

\* A tab sees the events in order, its slot is counted, and the end will reach it.
Safety ==
    /\ TypeOK
    /\ OnlineInOrder
    /\ NoticeIsOnItsWay
    /\ SlotsMatch

=============================================================================
