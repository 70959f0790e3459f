--------------------------- MODULE QqIngressProof ---------------------------
(***************************************************************************)
(* However many messages, accounts, handlers, redeliveries and restarts:   *)
(* a message runs once in an account, a cancellation stops one run, a      *)
(* Conversation has one live run, and a refusal is final.                   *)
(***************************************************************************)
EXTENDS QqIngress, SequenceTheorems, TLAPS

Steps == {"idle", "append", "window", "accept", "identify", "lock", "commit", "reply"}
Statuses == Live \cup {"succeeded", "failed", "cancelled"}
Calls == [at : Steps, message : Messages \cup {None}, context : Seq(Messages),
          account : Accounts \cup {None},
          code : Codes \cup {"invalid", "unbound", "unavailable", None}, number : Nat]
RunRows == [account : Accounts, route : Routes, by : Messages \cup {"web"}, status : Statuses,
            context : Seq(Messages), cancelledBy : SUBSET (Accounts \X Messages)]
Rows == [account : Accounts, key : Messages, code : Codes]
Row(a, m, c) == [account |-> a, key |-> m, code |-> c]

WindowsOK ==
  /\ window \in [Routes -> Seq(Messages)]
  /\ \A r \in Routes : Len(window[r]) <= WindowSize /\ (r \notin Groups => window[r] = <<>>)

\* A call that has found no receipt under its lock finds none until it is over.
CallOK(h) ==
  /\ handler[h].at # "idle" => handler[h].message \in Messages
  /\ handler[h].at = "append" => RouteOf[handler[h].message] \in Groups
  /\ handler[h].at \in {"lock", "commit"} => handler[h].account \in Accounts
  /\ handler[h].at = "commit" =>
       \A r \in receipts : ~(r.account = handler[h].account /\ r.key = handler[h].message)
  /\ handler[h].at = "reply" /\ handler[h].code = "conversation_busy" =>
       Row(handler[h].account, handler[h].message, "conversation_busy") \in receipts

\* The advisory locks are those of the transactions that are going on, one each.
LocksOK ==
  /\ locks = {<<handler[h].account, Key(h)>> : h \in {x \in Handlers : handler[x].at = "commit"}}
  /\ \A g, h \in Handlers :
       /\ handler[g].at = "commit" /\ handler[h].at = "commit"
       /\ handler[g].account = handler[h].account /\ handler[g].message = handler[h].message
       => g = h

\* One receipt for each account and message.
ReceiptsOK ==
  /\ receipts \subseteq Rows
  /\ \A r, s \in receipts : r.account = s.account /\ r.key = s.key => r = s

\* A run, and a cancellation, comes from a message with its receipt.
RunOK(i) ==
  /\ <<runs[i].account, runs[i].route>> \in bound
  /\ runs[i].by # "web" => Row(runs[i].account, runs[i].by, "accepted") \in receipts
  /\ \A c \in runs[i].cancelledBy : Row(c[1], c[2], "cancelled") \in receipts

RunsOK == /\ runs \in Seq(RunRows) /\ bound \subseteq Accounts \X Routes
          /\ \A i \in DOMAIN runs : RunOK(i)
          /\ OncePerAccount /\ CancelOnce /\ OneLiveRun

\* Who was told that a Conversation is busy has the receipt that says so.
ToldOK ==
  /\ delivered \in [Messages -> Nat]
  /\ \A t \in told : t[3] = "conversation_busy" => Row(t[2], t[1], "conversation_busy") \in receipts

\* The inductive invariant.
Sound ==
  /\ account \in [Subjects -> Accounts \cup {None}]
  /\ handler \in [Handlers -> Calls] /\ \A h \in Handlers : CallOK(h)
  /\ WindowsOK /\ LocksOK /\ ReceiptsOK /\ RunsOK /\ ToldOK
-----------------------------------------------------------------------------
LEMMA SoundIsSafe == Sound => Safety
<1> SUFFICES ASSUME Sound PROVE Safety
  OBVIOUS
<1>1. TypeOK
  BY DEF Sound, TypeOK, WindowsOK, LocksOK, ReceiptsOK, RunsOK, RunOK, Rows
<1>2. RefusalIsFinal
  <2> SUFFICES ASSUME NEW t \in told, t[3] = "conversation_busy",
                      NEW i \in DOMAIN runs, runs[i].by = t[1], runs[i].account = t[2]
               PROVE  FALSE
    BY DEF RefusalIsFinal
  <2>1. Row(t[2], t[1], "conversation_busy") \in receipts
    BY DEF Sound, ToldOK
  <2>2. t[1] \in Messages
    BY <2>1 DEF Sound, ReceiptsOK, Rows, Row
  <2>3. runs[i].by # "web"
    BY <2>2, IngressAssumption
  <2>4. Row(t[2], t[1], "accepted") \in receipts
    BY <2>3 DEF Sound, RunsOK, RunOK
  <2> QED
    BY <2>1, <2>4 DEF Sound, ReceiptsOK, Row
<1> QED
  BY <1>1, <1>2 DEF Sound, Safety, RunsOK

\* The call of h moves on, the others stand still.
Alone(h) == /\ handler' \in [Handlers -> Calls]
            /\ \A g \in Handlers \ {h} : handler'[g] = handler[g]

\* A call moves outside its transaction.
LEMMA CallMoves ==
  ASSUME Sound, NEW h \in Handlers, Alone(h), CallOK(h)',
         handler[h].at # "commit", handler'[h].at # "commit",
         UNCHANGED <<account, tables, locks>>, WindowsOK', ToldOK'
  PROVE  Sound'
<1>1. \A g \in Handlers : CallOK(g)'
  BY DEF Sound, Alone, CallOK, tables
<1>2. LocksOK'
  <2>1. {x \in Handlers : handler'[x].at = "commit"} = {x \in Handlers : handler[x].at = "commit"}
    BY DEF Alone
  <2>2. \A g \in {x \in Handlers : handler[x].at = "commit"} : handler'[g] = handler[g]
    BY DEF Alone
  <2>3. locks = {<<handler[g].account, handler[g].message>> :
                   g \in {x \in Handlers : handler[x].at = "commit"}}
    BY DEF Sound, LocksOK, Key, MessageOf
  <2>4. locks' = {<<handler'[g].account, handler'[g].message>> :
                   g \in {x \in Handlers : handler'[x].at = "commit"}}
    BY <2>1, <2>2, <2>3
  <2>5. \A f, g \in Handlers :
          (/\ handler'[f].at = "commit" /\ handler'[g].at = "commit"
           /\ handler'[f].account = handler'[g].account /\ handler'[f].message = handler'[g].message)
          => f = g
    BY DEF Sound, LocksOK, Alone
  <2> QED
    BY <2>4, <2>5 DEF LocksOK, Key, MessageOf
<1>3. ReceiptsOK' /\ RunsOK'
  BY DEF Sound, tables, ReceiptsOK, RunsOK, RunOK, OncePerAccount, CancelOnce, OneLiveRun
<1> QED
  BY <1>1, <1>2, <1>3 DEF Sound, Alone
-----------------------------------------------------------------------------
(* The steps of a call before and after its transaction.                    *)

LEMMA PushedKeepsSize ==
  ASSUME NEW list \in Seq(Messages), NEW m \in Messages
  PROVE  Pushed(list, m) \in Seq(Messages) /\ Len(Pushed(list, m)) <= WindowSize
<1> DEFINE all == Append(list, m)
           from == IF Len(all) > WindowSize THEN Len(all) - WindowSize + 1 ELSE 1
<1>1. all \in Seq(Messages) /\ Len(all) \in Nat /\ Len(all) = Len(list) + 1
  OBVIOUS
<1>2. WindowSize \in Nat \ {0}
  BY IngressAssumption
<1>3. from \in 1 .. Len(all) /\ Len(all) - from + 1 <= WindowSize
  BY <1>1, <1>2
<1>4. Pushed(list, m) = SubSeq(all, from, Len(all))
  BY DEF Pushed
<1> HIDE DEF all, from
<1>5. /\ SubSeq(all, from, Len(all)) \in Seq(Messages)
      /\ Len(SubSeq(all, from, Len(all))) = Len(all) - from + 1
  BY <1>1, <1>3, SubSeqProperties
<1> QED
  BY <1>3, <1>4, <1>5

\* What a call knows of itself.
LEMMA Itself ==
  ASSUME Sound, NEW h \in Handlers
  PROVE  /\ handler \in [Handlers -> Calls] /\ handler[h] \in Calls /\ CallOK(h)
         /\ WindowsOK /\ ToldOK
BY DEF Sound

LEMMA IdleIsACall == Idle \in Calls
<1>1. <<>> \in Seq(Messages)
  OBVIOUS
<1> QED
  BY <1>1 DEF Idle, Calls, Steps

LEMMA DeliverSound ==
  ASSUME Sound, NEW h \in Handlers, NEW m \in Messages, Deliver(h, m)
  PROVE  Sound'
<1> DEFINE at == IF RouteOf[m] \in Groups THEN "append" ELSE "accept"
<1>1. /\ handler[h].at = "idle" /\ UNCHANGED <<account, told, used, redis, tables, locks>>
      /\ delivered' = [delivered EXCEPT ![m] = @ + 1]
      /\ handler' = [handler EXCEPT ![h] =
           [Idle EXCEPT !.at = at, !.message = m, !.number = delivered[m] + 1]]
  BY DEF Deliver
<1>2. delivered[m] \in Nat /\ at \in {"append", "accept"} /\ (at = "append" => RouteOf[m] \in Groups)
  BY Itself DEF ToldOK
<1> HIDE DEF at
<1>3. CallOK(h)' /\ Alone(h) /\ handler'[h].at # "commit"
  <2>1. [Idle EXCEPT !.at = at, !.message = m, !.number = delivered[m] + 1] \in Calls
    <3> DEFINE n == delivered[m] + 1
    <3>1. n \in Nat /\ at \in Steps
      BY <1>2 DEF Steps
    <3> HIDE DEF n
    <3>2. [Idle EXCEPT !.at = at, !.message = m, !.number = n] \in Calls
      BY <3>1, IdleIsACall DEF Calls
    <3> QED
      BY <3>2 DEF n
  <2> DEFINE new == [Idle EXCEPT !.at = at, !.message = m, !.number = delivered[m] + 1]
  <2>2. new.at = at /\ new.message = m
    BY DEF Idle
  <2>3. handler' = [handler EXCEPT ![h] = new] /\ new \in Calls
    BY <1>1, <2>1
  <2> HIDE DEF new
  <2> QED
    BY <1>1, <1>2, <2>2, <2>3, Itself DEF CallOK, Alone
<1>4. WindowsOK' /\ ToldOK'
  BY <1>1, Itself DEF WindowsOK, ToldOK, redis, tables
<1> QED
  BY <1>1, <1>3, <1>4, CallMoves

LEMMA AppendSound ==
  ASSUME Sound, NEW h \in Handlers, AppendWindow(h)
  PROVE  Sound'
<1> DEFINE m == MessageOf(h)
<1>1. /\ handler[h].at = "append" /\ m \in Messages /\ RouteOf[m] \in Groups /\ RouteOf[m] \in Routes
      /\ UNCHANGED <<outside, replies, tables, locks>>
  BY Itself DEF AppendWindow, CallOK, MessageOf, Routes
<1>2. CallOK(h)' /\ Alone(h) /\ handler'[h].at # "commit"
  <2>1. \/ handler' = [handler EXCEPT ![h].at = "window"]
        \/ handler' = [handler EXCEPT ![h] = Idle]
    BY DEF AppendWindow, To, Done
  <2>2. CASE handler' = [handler EXCEPT ![h].at = "window"]
    BY <1>1, <2>2, Itself DEF CallOK, Alone, Calls, Steps
  <2>3. CASE handler' = [handler EXCEPT ![h] = Idle]
    BY <1>1, <2>3, Itself DEF CallOK, Alone, Calls, Steps, Idle
  <2> QED
    BY <2>1, <2>2, <2>3
<1>3. WindowsOK'
  <2>1. window' = window \/ window' = [window EXCEPT ![RouteOf[m]] = Pushed(@, m)]
    BY DEF AppendWindow
  <2>2. window[RouteOf[m]] \in Seq(Messages)
    BY <1>1, Itself DEF WindowsOK
  <2> DEFINE new == Pushed(window[RouteOf[m]], m)
  <2>3. new \in Seq(Messages) /\ Len(new) <= WindowSize
    BY <1>1, <2>2, PushedKeepsSize
  <2>4. window' = window \/ window' = [window EXCEPT ![RouteOf[m]] = new]
    BY <2>1
  <2> HIDE DEF new, m
  <2> QED
    BY <1>1, <2>3, <2>4, Itself DEF WindowsOK
<1>4. ToldOK'
  BY <1>1, Itself DEF ToldOK, outside, tables
<1> QED
  BY <1>1, <1>2, <1>3, <1>4, CallMoves DEF outside

LEMMA ReadSound ==
  ASSUME Sound, NEW h \in Handlers, ReadWindow(h)
  PROVE  Sound'
<1>1. handler[h].at = "window" /\ UNCHANGED <<outside, redis, tables, locks>>
  BY DEF ReadWindow
<1>2. PICK c \in {window[RouteOf[MessageOf(h)]]} \cup (IF "redis" \in Faults THEN {<<>>} ELSE {}) :
        handler' = [handler EXCEPT ![h].at = "accept", ![h].context = c]
  BY DEF ReadWindow
<1>3. c \in Seq(Messages)
  <2>1. MessageOf(h) \in Messages
    BY <1>1, Itself DEF CallOK, MessageOf
  <2>2. RouteOf[MessageOf(h)] \in Routes
    BY <2>1 DEF Routes
  <2>3. window[RouteOf[MessageOf(h)]] \in Seq(Messages)
    BY <2>2, Itself DEF WindowsOK
  <2>4. <<>> \in Seq(Messages)
    OBVIOUS
  <2> QED
    BY <2>3, <2>4
<1>4. CallOK(h)' /\ Alone(h) /\ handler'[h].at # "commit"
  <2> DEFINE new == [handler[h] EXCEPT !.at = "accept", !.context = c]
  <2>1. new \in Calls /\ new.at = "accept" /\ new.message = handler[h].message
    BY <1>3, Itself DEF Calls, Steps
  <2>2. handler' = [handler EXCEPT ![h] = new]
    BY <1>2
  <2> HIDE DEF new
  <2> QED
    BY <1>1, <2>1, <2>2, Itself DEF CallOK, Alone
<1>5. WindowsOK' /\ ToldOK'
  BY <1>1, Itself DEF WindowsOK, ToldOK, outside, redis, tables
<1> QED
  BY <1>1, <1>4, <1>5, CallMoves DEF outside

\* An answer that is not a receipt's, or only of the given code.
LEMMA AnswerSound ==
  ASSUME Sound, NEW h \in Handlers, NEW code, Answers(h, code),
         code \in Codes \cup {"invalid", "unbound", "unavailable"},
         code = "conversation_busy" => Row(handler[h].account, handler[h].message, code) \in receipts,
         handler[h].at \notin {"idle", "commit"},
         UNCHANGED <<outside, redis, tables, locks>>
  PROVE  Sound'
<1>1. handler' = [handler EXCEPT ![h].at = "reply", ![h].code = code]
  BY DEF Answers
<1>2. CallOK(h)' /\ Alone(h) /\ handler'[h].at # "commit"
  BY <1>1, Itself DEF CallOK, Alone, Calls, Steps, tables
<1>3. WindowsOK' /\ ToldOK'
  BY Itself DEF WindowsOK, ToldOK, outside, redis, tables
<1> QED
  BY <1>2, <1>3, CallMoves DEF outside

LEMMA AcceptSound ==
  ASSUME Sound, NEW h \in Handlers, Accept(h)
  PROVE  Sound'
<1>1. handler[h].at = "accept" /\ UNCHANGED <<outside, redis, tables, locks>>
  BY DEF Accept
<1>2. CASE Answers(h, "invalid")
  BY <1>1, <1>2, AnswerSound
<1>3. CASE To(h, "identify")
  <2>1. handler' = [handler EXCEPT ![h].at = "identify"]
    BY <1>3 DEF To
  <2>2. CallOK(h)' /\ Alone(h) /\ handler'[h].at # "commit"
    BY <1>1, <2>1, Itself DEF CallOK, Alone, Calls, Steps
  <2>3. WindowsOK' /\ ToldOK'
    BY <1>1, Itself DEF WindowsOK, ToldOK, outside, redis, tables
  <2> QED
    BY <1>1, <2>2, <2>3, CallMoves DEF outside
<1> QED
  BY <1>2, <1>3 DEF Accept

LEMMA IdentifySound ==
  ASSUME Sound, NEW h \in Handlers, Identify(h)
  PROVE  Sound'
<1> DEFINE a == account[SenderOf[MessageOf(h)]]
<1>1. handler[h].at = "identify" /\ UNCHANGED <<outside, redis, tables, locks>>
  BY DEF Identify
<1>2. CASE a = None
  <2>1. Answers(h, "unbound")
    BY <1>2 DEF Identify
  <2> QED
    BY <1>1, <2>1, AnswerSound
<1>3. CASE a # None
  <2>1. handler' = [handler EXCEPT ![h].at = "lock", ![h].account = a]
    BY <1>3 DEF Identify
  <2>2. a \in Accounts
    <3>1. SenderOf[MessageOf(h)] \in Subjects
      BY <1>1, Itself DEF CallOK, MessageOf, Subjects
    <3> QED
      BY <1>3, <3>1 DEF Sound
  <2>3. CallOK(h)' /\ Alone(h) /\ handler'[h].at # "commit"
    <3> HIDE DEF a
    <3> QED
      BY <1>1, <2>1, <2>2, Itself DEF CallOK, Alone, Calls, Steps
  <2>4. WindowsOK' /\ ToldOK'
    BY <1>1, Itself DEF WindowsOK, ToldOK, outside, redis, tables
  <2> QED
    BY <1>1, <2>3, <2>4, CallMoves DEF outside
<1> QED
  BY <1>2, <1>3

LEMMA ReplySound ==
  ASSUME Sound, NEW h \in Handlers, Reply(h)
  PROVE  Sound'
<1>1. /\ handler[h].at = "reply" /\ handler' = [handler EXCEPT ![h] = Idle]
      /\ UNCHANGED <<account, delivered, used, window, tables, locks>>
  BY DEF Reply, Done
<1>2. CallOK(h)' /\ Alone(h) /\ handler'[h].at # "commit"
  BY <1>1, Itself DEF CallOK, Alone, Calls, Steps, Idle
<1>3. WindowsOK'
  BY <1>1, Itself DEF WindowsOK
<1>4. told' \subseteq told \cup {<<MessageOf(h), handler[h].account, handler[h].code>>}
  BY DEF Reply
<1>5. ToldOK'
  BY <1>1, <1>4, Itself DEF ToldOK, CallOK, MessageOf, tables
<1> QED
  BY <1>1, <1>2, <1>3, <1>5, CallMoves
-----------------------------------------------------------------------------
(* The transaction.                                                         *)

\* A receipt found is replayed; a call that found none holds its lock.
LEMMA LookupSound ==
  ASSUME Sound, NEW h \in Handlers, Lookup(h)
  PROVE  Sound'
<1>1. /\ handler[h].at = "lock" /\ UNCHANGED <<outside, redis, tables>>
      /\ handler[h].message \in Messages /\ handler[h].account \in Accounts
      /\ <<handler[h].account, handler[h].message>> \notin locks
  BY Itself DEF Lookup, CallOK, Key, MessageOf
<1>2. CASE Receipt(h) # {}
  <2>1. PICK r \in Receipt(h) : Answers(h, r.code) /\ UNCHANGED locks
    BY <1>2 DEF Lookup
  <2>2. /\ r \in receipts /\ r \in Rows
        /\ r.account = handler[h].account /\ r.key = handler[h].message
    BY <2>1 DEF Receipt, Key, MessageOf, Sound, ReceiptsOK
  <2>3. r = Row(handler[h].account, handler[h].message, r.code) /\ r.code \in Codes
    BY <2>2 DEF Rows, Row
  <2> QED
    BY <1>1, <2>1, <2>2, <2>3, AnswerSound
<1>3. CASE Receipt(h) = {}
  <2>1. /\ handler' = [handler EXCEPT ![h].at = "commit"]
        /\ locks' = locks \cup {<<handler[h].account, handler[h].message>>}
    BY <1>3 DEF Lookup, To, Key, MessageOf
  <2>2. \A r \in receipts : ~(r.account = handler[h].account /\ r.key = handler[h].message)
    BY <1>3 DEF Receipt, Key, MessageOf
  <2>3. Alone(h) /\ handler'[h].at = "commit"
        /\ handler'[h].account = handler[h].account /\ handler'[h].message = handler[h].message
    BY <2>1, Itself DEF Alone, Calls, Steps
  <2>4. \A g \in Handlers : CallOK(g)'
    BY <1>1, <2>2, <2>3 DEF Sound, Alone, CallOK, tables
  <2>5. LocksOK'
    <3>1. locks = {<<handler[g].account, handler[g].message>> :
                     g \in {x \in Handlers : handler[x].at = "commit"}}
      BY DEF Sound, LocksOK, Key, MessageOf
    <3>2. locks' = {<<handler'[g].account, handler'[g].message>> :
                     g \in {x \in Handlers : handler'[x].at = "commit"}}
      BY <1>1, <2>1, <2>3, <3>1 DEF Alone
    <3>3. \A g \in Handlers \ {h} : handler[g].at = "commit" =>
            ~(handler[g].account = handler[h].account /\ handler[g].message = handler[h].message)
      BY <1>1, <3>1
    <3>4. \A f, g \in Handlers :
            (/\ handler'[f].at = "commit" /\ handler'[g].at = "commit"
             /\ handler'[f].account = handler'[g].account /\ handler'[f].message = handler'[g].message)
            => f = g
      BY <2>3, <3>3 DEF Sound, LocksOK, Alone
    <3> QED
      BY <3>2, <3>4 DEF LocksOK, Key, MessageOf
  <2>6. WindowsOK' /\ ReceiptsOK' /\ RunsOK' /\ ToldOK'
    BY <1>1 DEF Sound, WindowsOK, ReceiptsOK, RunsOK, RunOK, OncePerAccount, CancelOnce, OneLiveRun,
                ToldOK, outside, redis, tables
  <2> QED
    BY <1>1, <2>3, <2>4, <2>5, <2>6 DEF Sound, Alone, outside
<1> QED
  BY <1>2, <1>3

\* A transaction ends: its call answers and its lock is free.
LEMMA Unlocks ==
  ASSUME Sound, NEW h \in Handlers, handler[h].at = "commit",
         Alone(h), handler'[h].at # "commit",
         locks' = locks \ {<<handler[h].account, Key(h)>>}
  PROVE  LocksOK'
<1>1. locks = {<<handler[g].account, handler[g].message>> :
                 g \in {x \in Handlers : handler[x].at = "commit"}}
  BY DEF Sound, LocksOK, Key, MessageOf
<1>2. \A g \in Handlers \ {h} : handler[g].at = "commit" =>
        <<handler[g].account, handler[g].message>> # <<handler[h].account, handler[h].message>>
  BY DEF Sound, LocksOK
<1>3. locks' = {<<handler'[g].account, handler'[g].message>> :
                 g \in {x \in Handlers : handler'[x].at = "commit"}}
  BY <1>1, <1>2 DEF Alone, Key, MessageOf
<1>4. \A f, g \in Handlers :
        (/\ handler'[f].at = "commit" /\ handler'[g].at = "commit"
         /\ handler'[f].account = handler'[g].account /\ handler'[f].message = handler'[g].message)
        => f = g
  BY DEF Sound, LocksOK, Alone
<1> QED
  BY <1>3, <1>4 DEF LocksOK, Key, MessageOf

LEMMA FailsSound ==
  ASSUME Sound, NEW h \in Handlers, DatabaseFails(h)
  PROVE  Sound'
<1>1. /\ handler[h].at \in {"identify", "lock", "commit"} /\ Answers(h, "unavailable")
      /\ UNCHANGED <<outside, redis, tables>>
  BY DEF DatabaseFails
<1>2. CASE handler[h].at # "commit"
  BY <1>1, <1>2, AnswerSound DEF DatabaseFails
<1>3. CASE handler[h].at = "commit"
  <2>1. /\ handler' = [handler EXCEPT ![h].at = "reply", ![h].code = "unavailable"]
        /\ locks' = locks \ {<<handler[h].account, Key(h)>>}
    BY <1>1, <1>3 DEF DatabaseFails, Answers
  <2>2. Alone(h) /\ CallOK(h)' /\ handler'[h].at # "commit"
    BY <1>1, <2>1, Itself DEF CallOK, Alone, Calls, Steps
  <2>3. \A g \in Handlers : CallOK(g)'
    BY <1>1, <2>2 DEF Sound, Alone, CallOK, tables
  <2>4. LocksOK'
    BY <1>3, <2>1, <2>2, Unlocks
  <2>5. WindowsOK' /\ ReceiptsOK' /\ RunsOK' /\ ToldOK'
    BY <1>1 DEF Sound, WindowsOK, ReceiptsOK, RunsOK, RunOK, OncePerAccount, CancelOnce, OneLiveRun,
                ToldOK, outside, redis, tables
  <2> QED
    BY <1>1, <2>2, <2>3, <2>4, <2>5 DEF Sound, Alone, outside
<1> QED
  BY <1>2, <1>3

\* A new run in a Conversation without a live one.
LEMMA RunsGrow ==
  ASSUME RunsOK, NEW row \in RunRows, runs' = Append(runs, row),
         row.cancelledBy = {},
         receipts \subseteq receipts', bound \subseteq bound',
         bound' \subseteq Accounts \X Routes, <<row.account, row.route>> \in bound',
         \A i \in DOMAIN runs : runs[i].account = row.account /\ runs[i].route = row.route
                                => runs[i].status \notin Live,
         row.by # "web" =>
           (/\ Row(row.account, row.by, "accepted") \in receipts'
            /\ Row(row.account, row.by, "accepted") \notin receipts)
  PROVE  RunsOK'
<1> DEFINE n == Len(runs)
<1>1. runs \in Seq(RunRows) /\ n \in Nat /\ DOMAIN runs = 1 .. n
  BY DEF RunsOK
<1>2. /\ runs' \in Seq(RunRows) /\ DOMAIN runs' = 1 .. n + 1
      /\ \A i \in 1 .. n : runs'[i] = runs[i]
      /\ runs'[n + 1] = row
  BY <1>1
<1> HIDE DEF n
<1>3. DOMAIN runs' = DOMAIN runs \cup {n + 1} /\ n + 1 \notin DOMAIN runs
  BY <1>1, <1>2
<1>4. \A i \in DOMAIN runs' : RunOK(i)'
  BY <1>1, <1>2, <1>3 DEF RunsOK, RunOK
<1>5. OncePerAccount'
  <2>1. \A i \in DOMAIN runs : row.by # "web" => ~(runs[i].by = row.by /\ runs[i].account = row.account)
    BY DEF RunsOK, RunOK
  <2> QED
    BY <1>1, <1>2, <1>3, <2>1 DEF RunsOK, OncePerAccount
<1>6. CancelOnce'
  BY <1>1, <1>2, <1>3 DEF RunsOK, CancelOnce
<1>7. OneLiveRun'
  BY <1>1, <1>2, <1>3 DEF RunsOK, OneLiveRun
<1> QED
  BY <1>2, <1>4, <1>5, <1>6, <1>7 DEF RunsOK

\* Runs keep their message and their Conversation, and none comes back to life.
LEMMA RunsMove ==
  ASSUME RunsOK, runs' \in Seq(RunRows), DOMAIN runs' = DOMAIN runs,
         \A i \in DOMAIN runs : /\ runs'[i].account = runs[i].account
                                /\ runs'[i].route = runs[i].route /\ runs'[i].by = runs[i].by
                                /\ runs'[i].status \in Live => runs[i].status \in Live,
         receipts \subseteq receipts', bound \subseteq bound', bound' \subseteq Accounts \X Routes,
         \A i \in DOMAIN runs : \A c \in runs'[i].cancelledBy \ runs[i].cancelledBy :
           /\ Row(c[1], c[2], "cancelled") \in receipts'
           /\ \A j \in DOMAIN runs : c \in runs'[j].cancelledBy => j = i
  PROVE  RunsOK'
<1>1. \A i \in DOMAIN runs' : RunOK(i)'
  BY DEF RunsOK, RunOK
<1>2. OncePerAccount' /\ OneLiveRun'
  BY DEF RunsOK, OncePerAccount, OneLiveRun
<1>3. CancelOnce'
  BY DEF RunsOK, CancelOnce
<1> QED
  BY <1>1, <1>2, <1>3 DEF RunsOK

\* At most one run is cancelled by a message.
LEMMA FoundIsOne ==
  ASSUME Sound, NEW h \in Handlers, NEW i, NEW j,
         {i, j} \subseteq Current(h) \/ {i, j} \subseteq Named(h),
         handler[h].message \in Messages
  PROVE  i = j
<1>1. CASE {i, j} \subseteq Current(h)
  BY <1>1 DEF Current, Here, Sound, RunsOK, OneLiveRun
<1>2. CASE {i, j} \subseteq Named(h)
  <2>1. TargetOf[MessageOf(h)] # "web"
    BY IngressAssumption DEF MessageOf
  <2> QED
    BY <1>2, <2>1 DEF Named, Here, Sound, RunsOK, OncePerAccount
<1> QED
  BY <1>1, <1>2

\* The effect of the operation on the runs, with its receipt.
LEMMA EffectKeepsRuns ==
  ASSUME Sound, NEW h \in Handlers, handler[h].at = "commit", NEW code \in Codes, Effect(h, code),
         receipts' = receipts \cup {Row(handler[h].account, handler[h].message, code)},
         bound' = bound \cup {<<handler[h].account, RouteOf[MessageOf(h)]>>}
  PROVE  RunsOK'
<1> DEFINE a == handler[h].account
           m == handler[h].message
           found == IF OpOf[m] = "cancel" THEN Current(h) ELSE Named(h)
<1>1. /\ a \in Accounts /\ m \in Messages /\ RouteOf[m] \in Routes /\ RunsOK
      /\ handler[h].context \in Seq(Messages)
      /\ \A r \in receipts : ~(r.account = a /\ r.key = m)
  BY Itself DEF Sound, CallOK, Routes, Calls
<1>2. bound' \subseteq Accounts \X Routes /\ bound \subseteq bound' /\ <<a, RouteOf[m]>> \in bound'
  BY <1>1 DEF RunsOK, MessageOf
<1>3. \A c \in Codes : Row(a, m, c) \notin receipts
  BY <1>1 DEF Row
<1>4. CASE runs' = runs
  BY <1>1, <1>2, <1>4 DEF RunsOK, RunOK, OncePerAccount, CancelOnce, OneLiveRun
<1>5. CASE code = "accepted" /\ code = Send(h) /\ runs' = Append(runs, NewRun(h))
  <2>1. Current(h) = {}
    BY <1>5 DEF Send
  <2> DEFINE row == NewRun(h)
  <2>2. /\ row \in RunRows /\ row.cancelledBy = {} /\ row.account = a /\ row.route = RouteOf[m]
        /\ row.by = m
    BY <1>1 DEF NewRun, RunRows, MessageOf, Statuses, Live
  <2>3. \A i \in DOMAIN runs : runs[i].account = row.account /\ runs[i].route = row.route
                               => runs[i].status \notin Live
    BY <2>1, <2>2 DEF Current, Here, MessageOf
  <2>4. /\ Row(row.account, row.by, "accepted") \in receipts'
        /\ Row(row.account, row.by, "accepted") \notin receipts
    BY <1>3, <1>5, <2>2
  <2>5. runs' = Append(runs, row) /\ <<row.account, row.route>> \in bound'
    BY <1>2, <1>5, <2>2
  <2> HIDE DEF row, a, m
  <2> QED
    BY <1>1, <1>2, <2>2, <2>3, <2>4, <2>5, RunsGrow
<1>6. CASE code = "cancelled" /\ code = Cancel(h, found) /\ Cancelled(h, found)
  <2> DEFINE c == <<a, m>>
             new == [i \in DOMAIN runs |->
                       IF i \notin found THEN runs[i]
                       ELSE [runs[i] EXCEPT
                               !.status = IF @ \in {"queued", "cancelled"} THEN "cancelled"
                                          ELSE "cancelling",
                               !.cancelledBy = IF runs[i].status \in Live THEN @ \cup {c} ELSE @]]
  <2>1. runs' = new
    BY <1>6 DEF Cancelled, MessageOf
  <2>2. \A i, j \in found : i = j
    BY <1>1, FoundIsOne
  <2>3. runs \in Seq(RunRows) /\ \A i \in DOMAIN runs : runs[i] \in RunRows
    BY <1>1 DEF RunsOK
  <2>4. c \in Accounts \X Messages
    BY <1>1
  <2> HIDE DEF c, found
  <2>5. /\ DOMAIN runs' = DOMAIN runs
        /\ \A i \in DOMAIN runs \ found : runs'[i] = runs[i]
        /\ \A i \in DOMAIN runs \cap found :
             runs'[i] = [runs[i] EXCEPT
                           !.status = IF @ \in {"queued", "cancelled"} THEN "cancelled"
                                      ELSE "cancelling",
                           !.cancelledBy = IF runs[i].status \in Live THEN @ \cup {c} ELSE @]
    BY <2>1
  <2> HIDE DEF new
  <2>6. \A i \in DOMAIN runs \cap found :
          /\ runs'[i] \in RunRows /\ runs'[i].account = runs[i].account
          /\ runs'[i].route = runs[i].route /\ runs'[i].by = runs[i].by
          /\ runs'[i].status = IF runs[i].status \in {"queued", "cancelled"} THEN "cancelled"
                               ELSE "cancelling"
          /\ runs'[i].cancelledBy \subseteq runs[i].cancelledBy \cup {c}
    <3> SUFFICES ASSUME NEW i \in DOMAIN runs \cap found
                 PROVE  /\ runs'[i] \in RunRows /\ runs'[i].account = runs[i].account
                        /\ runs'[i].route = runs[i].route /\ runs'[i].by = runs[i].by
                        /\ runs'[i].status = IF runs[i].status \in {"queued", "cancelled"}
                                             THEN "cancelled" ELSE "cancelling"
                        /\ runs'[i].cancelledBy \subseteq runs[i].cancelledBy \cup {c}
      OBVIOUS
    <3> DEFINE st == IF runs[i].status \in {"queued", "cancelled"} THEN "cancelled" ELSE "cancelling"
               by == IF runs[i].status \in Live THEN runs[i].cancelledBy \cup {c}
                     ELSE runs[i].cancelledBy
    <3>1. runs[i] \in RunRows /\ runs'[i] = [runs[i] EXCEPT !.status = st, !.cancelledBy = by]
      BY <2>3, <2>5
    <3>2. by \subseteq runs[i].cancelledBy \cup {c} /\ by \in SUBSET (Accounts \X Messages)
      BY <2>4, <3>1 DEF RunRows
    <3>3. st \in Statuses
      BY DEF Statuses, Live
    <3> HIDE DEF by
    <3>4. runs'[i] \in RunRows
      <4> HIDE DEF st
      <4> QED
        BY <3>1, <3>2, <3>3 DEF RunRows
    <3> QED
      BY <3>1, <3>2, <3>4 DEF RunRows
  <2>7. \A i \in DOMAIN runs \cap found : runs[i].status \notin {"succeeded", "failed"}
    BY <1>6 DEF Cancel
  <2>8. \A i \in DOMAIN runs : /\ runs'[i].account = runs[i].account
                               /\ runs'[i].route = runs[i].route /\ runs'[i].by = runs[i].by
                               /\ runs'[i].status \in Live => runs[i].status \in Live
    <3>1. \A i \in DOMAIN runs : runs[i].status \in Statuses
      BY <2>3 DEF RunRows
    <3> QED
      BY <2>5, <2>6, <2>7, <3>1 DEF Live, Statuses
  <2>9. runs' \in Seq(RunRows)
    <3>1. DOMAIN runs = 1 .. Len(runs) /\ Len(runs) \in Nat
      BY <2>3
    <3>2. \A i \in DOMAIN runs : runs'[i] \in RunRows
      BY <2>3, <2>5, <2>6
    <3>3. runs' \in [1 .. Len(runs) -> RunRows]
      BY <2>1, <3>1, <3>2 DEF new
    <3> QED
      BY <3>1, <3>3, SeqDef
  <2>10. \A i \in DOMAIN runs : c \notin runs[i].cancelledBy
    <3>1. \A i \in DOMAIN runs : \A d \in runs[i].cancelledBy : Row(d[1], d[2], "cancelled") \in receipts
      BY <1>1 DEF RunsOK, RunOK
    <3>2. c[1] = a /\ c[2] = m
      BY DEF c
    <3>3. Row(a, m, "cancelled") \notin receipts
      BY <1>3 DEF Codes
    <3> QED
      BY <3>1, <3>2, <3>3
  <2>11. \A i \in DOMAIN runs : \A d \in runs'[i].cancelledBy \ runs[i].cancelledBy :
           /\ Row(d[1], d[2], "cancelled") \in receipts'
           /\ \A j \in DOMAIN runs : d \in runs'[j].cancelledBy => j = i
    <3> SUFFICES ASSUME NEW i \in DOMAIN runs, NEW d \in runs'[i].cancelledBy \ runs[i].cancelledBy
                 PROVE  /\ Row(d[1], d[2], "cancelled") \in receipts'
                        /\ \A j \in DOMAIN runs : d \in runs'[j].cancelledBy => j = i
      OBVIOUS
    <3>1. i \in found /\ d = c
      BY <2>5, <2>6
    <3>2. Row(d[1], d[2], "cancelled") \in receipts'
      BY <1>6, <3>1 DEF c
    <3>3. \A j \in DOMAIN runs : d \in runs'[j].cancelledBy => j = i
      BY <2>2, <2>5, <2>10, <3>1
    <3> QED
      BY <3>2, <3>3
  <2> QED
    BY <1>1, <1>2, <2>5, <2>8, <2>9, <2>11, RunsMove
<1> QED
  BY <1>4, <1>5, <1>6 DEF Effect, MessageOf

LEMMA CommitSound ==
  ASSUME Sound, NEW h \in Handlers, Commit(h)
  PROVE  Sound'
<1>1. PICK code \in Codes :
        /\ handler[h].at = "commit" /\ Effect(h, code) /\ Receipted(h, code) /\ Unlocked(h)
        /\ bound' = bound \cup {<<handler[h].account, RouteOf[MessageOf(h)]>>}
        /\ Answers(h, code) \/ Answers(h, "unavailable")
        /\ UNCHANGED <<outside, redis>>
  BY DEF Commit
<1> DEFINE a == handler[h].account
           m == handler[h].message
<1>2. a \in Accounts /\ m \in Messages /\ \A r \in receipts : ~(r.account = a /\ r.key = m)
  BY <1>1, Itself DEF CallOK
<1>3. receipts' = receipts \cup {Row(a, m, code)}
  BY <1>1 DEF Receipted, Key, MessageOf, Row
<1>4. PICK answer \in {code, "unavailable"} :
        handler' = [handler EXCEPT ![h].at = "reply", ![h].code = answer]
  BY <1>1 DEF Answers
<1>5. /\ Alone(h) /\ handler'[h].at = "reply" /\ handler'[h].code = answer
      /\ handler'[h].account = a /\ handler'[h].message = m
  BY <1>4, Itself DEF Alone, Calls, Steps
<1>6. RunsOK'
  BY <1>1, <1>3, EffectKeepsRuns
<1>7. ReceiptsOK'
  BY <1>2, <1>3 DEF Sound, ReceiptsOK, Rows, Row
<1>8. LocksOK'
  BY <1>1, <1>5, Unlocks DEF Unlocked
<1>9. \A g \in Handlers : CallOK(g)'
  <2>1. CallOK(h)'
    BY <1>2, <1>3, <1>5 DEF CallOK
  <2>2. ASSUME NEW g \in Handlers \ {h}
        PROVE  CallOK(g)'
    <3>1. handler'[g] = handler[g] /\ CallOK(g)
      BY <1>5 DEF Alone, Sound
    <3>2. handler[g].at = "commit" => ~(handler[g].account = a /\ handler[g].message = m)
      BY <1>1 DEF Sound, LocksOK
    <3>3. Row(a, m, code).account = a /\ Row(a, m, code).key = m
      BY DEF Row
    <3> HIDE DEF a, m
    <3> QED
      BY <1>3, <3>1, <3>2, <3>3 DEF CallOK
  <2> QED
    BY <2>1, <2>2
<1>10. WindowsOK' /\ ToldOK'
  BY <1>1, <1>3, Itself DEF WindowsOK, ToldOK, outside, redis
<1> QED
  BY <1>1, <1>5, <1>6, <1>7, <1>8, <1>9, <1>10 DEF Sound, Alone, outside
-----------------------------------------------------------------------------
(* The surroundings.                                                        *)

\* Runs move, or a binding, and the handlers stand still.
LEMMA OutsideSound ==
  ASSUME Sound, UNCHANGED <<told, delivered, redis, receipts, locks, handler>>,
         account' \in [Subjects -> Accounts \cup {None}], RunsOK'
  PROVE  Sound'
<1>1. (\A h \in Handlers : CallOK(h)') /\ handler' \in [Handlers -> Calls]
  BY DEF Sound, CallOK
<1>2. LocksOK'
  BY DEF Sound, LocksOK, Key, MessageOf
<1>3. WindowsOK' /\ ReceiptsOK' /\ ToldOK'
  BY DEF Sound, WindowsOK, ReceiptsOK, ToldOK, redis
<1> QED
  BY <1>1, <1>2, <1>3 DEF Sound

LEMMA StatusMoves ==
  ASSUME Sound, NEW i \in DOMAIN runs, runs[i].status \in Live, NEW status \in Statuses,
         runs' = [runs EXCEPT ![i].status = status],
         UNCHANGED <<outside, redis, bound, receipts, locks, handler>>
  PROVE  Sound'
<1>1. RunsOK /\ runs \in Seq(RunRows) /\ runs[i] \in RunRows
  BY DEF Sound, RunsOK
<1> DEFINE row == [runs[i] EXCEPT !.status = status]
<1>2. /\ row \in RunRows /\ row.account = runs[i].account /\ row.route = runs[i].route
      /\ row.by = runs[i].by /\ row.cancelledBy = runs[i].cancelledBy
  BY <1>1 DEF RunRows
<1>3. runs' = [runs EXCEPT ![i] = row]
  OBVIOUS
<1> HIDE DEF row
<1>4. /\ runs' \in Seq(RunRows) /\ DOMAIN runs' = DOMAIN runs
      /\ \A j \in DOMAIN runs : runs'[j] = IF j = i THEN row ELSE runs[j]
  BY <1>1, <1>2, <1>3
<1>5. RunsOK'
  <2>1. \A j \in DOMAIN runs : /\ runs'[j].account = runs[j].account
                               /\ runs'[j].route = runs[j].route /\ runs'[j].by = runs[j].by
                               /\ runs'[j].status \in Live => runs[j].status \in Live
                               /\ runs'[j].cancelledBy = runs[j].cancelledBy
    BY <1>2, <1>4
  <2>2. bound' \subseteq Accounts \X Routes /\ bound' = bound /\ receipts' = receipts
    BY <1>1 DEF RunsOK
  <2> QED
    BY <1>1, <1>4, <2>1, <2>2, RunsMove
<1> QED
  BY <1>5, OutsideSound DEF Sound, outside

LEMMA WebSound ==
  ASSUME Sound, NEW a \in Accounts, NEW r \in Routes, WebSends(a, r)
  PROVE  Sound'
<1> DEFINE row == [account |-> a, route |-> r, by |-> "web", status |-> "queued",
                   context |-> <<>>, cancelledBy |-> {}]
<1>1. <<>> \in Seq(Messages)
  OBVIOUS
<1>2. /\ row \in RunRows /\ row.cancelledBy = {} /\ row.account = a /\ row.route = r
      /\ row.by = "web"
  BY <1>1 DEF RunRows, Statuses, Live
<1>3. /\ <<a, r>> \in bound /\ UNCHANGED <<outside, redis, bound, receipts, locks, handler>>
      /\ runs' = Append(runs, row)
      /\ \A i \in DOMAIN runs : runs[i].account = a /\ runs[i].route = r => runs[i].status \notin Live
  BY DEF WebSends
<1> HIDE DEF row
<1>4. RunsOK /\ bound' \subseteq Accounts \X Routes /\ bound' = bound /\ receipts' = receipts
  BY <1>3 DEF Sound, RunsOK
<1>5. RunsOK'
  BY <1>2, <1>3, <1>4, RunsGrow
<1> QED
  BY <1>3, <1>5, OutsideSound DEF Sound, outside

LEMMA RebindSound ==
  ASSUME Sound, NEW s \in Subjects, Rebind(s)
  PROVE  Sound'
<1>1. PICK a \in Accounts \cup {None} :
        /\ account' = [account EXCEPT ![s] = a]
        /\ UNCHANGED <<told, delivered, redis, tables, locks, handler>>
  BY DEF Rebind
<1>2. account' \in [Subjects -> Accounts \cup {None}]
  BY <1>1 DEF Sound
<1>3. RunsOK'
  BY <1>1 DEF Sound, RunsOK, RunOK, OncePerAccount, CancelOnce, OneLiveRun, tables
<1> QED
  BY <1>1, <1>2, <1>3, OutsideSound DEF tables

LEMMA CrashSound ==
  ASSUME Sound, Crash
  PROVE  Sound'
<1>1. /\ handler' = [h \in Handlers |-> Idle] /\ locks' = {}
      /\ UNCHANGED <<account, told, delivered, redis, tables>>
  BY DEF Crash
<1>2. handler' \in [Handlers -> Calls] /\ \A h \in Handlers : handler'[h].at = "idle"
  <2>1. Idle.at = "idle"
    BY DEF Idle
  <2> QED
    BY <1>1, <2>1, IdleIsACall
<1>3. (\A h \in Handlers : CallOK(h)') /\ LocksOK'
  BY <1>1, <1>2 DEF CallOK, LocksOK
<1>4. WindowsOK' /\ ReceiptsOK' /\ RunsOK' /\ ToldOK'
  BY <1>1 DEF Sound, WindowsOK, ReceiptsOK, RunsOK, RunOK, OncePerAccount, CancelOnce, OneLiveRun,
              ToldOK, redis, tables
<1> QED
  BY <1>1, <1>2, <1>3, <1>4 DEF Sound
-----------------------------------------------------------------------------
LEMMA InitSound == Init => Sound
<1> SUFFICES ASSUME Init PROVE Sound
  OBVIOUS
<1>1. \A h \in Handlers : handler[h].at = "idle"
  BY DEF Init, Idle
<1>2. handler \in [Handlers -> Calls] /\ account \in [Subjects -> Accounts \cup {None}]
  BY IdleIsACall, IngressAssumption DEF Init, Subjects
<1>3. (\A h \in Handlers : CallOK(h)) /\ LocksOK
  BY <1>1 DEF CallOK, LocksOK, Init
<1>4. WindowsOK
  <2>1. <<>> \in Seq(Messages) /\ Len(<<>>) <= WindowSize
    BY IngressAssumption
  <2> QED
    BY <2>1 DEF WindowsOK, Init
<1>5. ReceiptsOK /\ ToldOK
  BY DEF ReceiptsOK, ToldOK, Init
<1>6. RunsOK
  BY DEF RunsOK, OncePerAccount, CancelOnce, OneLiveRun, Init
<1> QED
  BY <1>2, <1>3, <1>4, <1>5, <1>6 DEF Sound

LEMMA StepSound == Sound /\ [Next]_vars => Sound'
<1> SUFFICES ASSUME Sound, [Next]_vars PROVE Sound'
  OBVIOUS
<1>1. ASSUME NEW h \in Handlers, Handles(h) \/ DatabaseFails(h)
      PROVE  Sound'
  BY <1>1, AppendSound, ReadSound, AcceptSound, IdentifySound, LookupSound, CommitSound, ReplySound,
     FailsSound DEF Handles
<1>2. ASSUME NEW h \in Handlers, NEW m \in Messages, Deliver(h, m)
      PROVE  Sound'
  BY <1>2, DeliverSound
<1>3. ASSUME NEW i \in DOMAIN runs, RunStarts(i)
      PROVE  Sound'
  BY <1>3, StatusMoves DEF RunStarts, Live, Statuses
<1>4. ASSUME NEW i \in DOMAIN runs, RunEnds(i)
      PROVE  Sound'
  <2>1. PICK status \in {"succeeded", "failed", "cancelled"} :
          /\ runs[i].status \in {"running", "cancelling"}
          /\ runs' = [runs EXCEPT ![i].status = status]
          /\ UNCHANGED <<outside, redis, bound, receipts, locks, handler>>
    BY <1>4 DEF RunEnds
  <2> QED
    BY <2>1, StatusMoves DEF Live, Statuses
<1>5. ASSUME NEW a \in Accounts, NEW r \in Routes, WebSends(a, r)
      PROVE  Sound'
  BY <1>5, WebSound
<1>6. ASSUME NEW s \in Subjects, Rebind(s)
      PROVE  Sound'
  BY <1>6, RebindSound
<1>7. CASE Crash
  BY <1>7, CrashSound
<1>8. CASE UNCHANGED vars
  <2>1. RunsOK'
    BY <1>8 DEF Sound, RunsOK, RunOK, OncePerAccount, CancelOnce, OneLiveRun, vars
  <2> QED
    BY <1>8, <2>1, OutsideSound DEF Sound, vars, redis
<1> QED
  BY <1>1, <1>2, <1>3, <1>4, <1>5, <1>6, <1>7, <1>8 DEF Next

\* One receipt for each account and message, and one transaction under each lock.
THEOREM AlwaysSound == Spec => []Sound
<1>1. Init => Sound
  BY InitSound
<1>2. Sound /\ [Next]_vars => Sound'
  BY StepSound
<1> QED
  BY <1>1, <1>2, PTL DEF Spec

\* A message runs once in an account, a cancellation stops one run, a Conversation has one
\* live run and a refusal is final (ConversationService.accept, SurfaceConversationCommands).
THEOREM MessagesRunOnce == Spec => []Safety
<1>1. Sound => Safety
  BY SoundIsSafe
<1> QED
  BY <1>1, AlwaysSound, PTL
=============================================================================
