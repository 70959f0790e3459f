----------------------------- MODULE QqIngress -----------------------------
(***************************************************************************)
(* The way of a QQ message into the system: MessageIngressService.handle   *)
(* with the group window in Redis, ConversationService.accept and the      *)
(* transaction of SurfaceConversationCommands.execute, and the control     *)
(* reply of ReplyService.  A handler is one call of handle(); a provider   *)
(* may deliver a message again, the Worker may restart, the database and   *)
(* Redis may fail.                                                          *)
(*                                                                         *)
(* The transaction is two steps: up to the receipt it looks for under the  *)
(* advisory lock, and from there, under the Conversation's row lock, to    *)
(* its commit.                                                              *)
(***************************************************************************)
EXTENDS Naturals, Sequences, FiniteSets

CONSTANTS
    Messages,      \* external message ids
    RouteOf,       \* message -> the room it was sent in
    SenderOf,      \* message -> QQ subject
    OpOf,          \* message -> "message", "cancel", "cancelRun", "work", "malformed"
    TargetOf,      \* "cancelRun" message -> the message whose run it names
    Groups,        \* routes that are groups
    Untriggered,   \* messages in groups that do not address the bot
    Accounts,
    FirstAccount,  \* subject -> the account it is bound to, or None
    Handlers,
    WindowSize,    \* messages a window keeps
    MaxDelivery,   \* bound: deliveries of a message
    MaxWeb,        \* bound: messages the Web sends to these Conversations
    MaxRebind,     \* bound: changes of a binding
    MaxCrash,      \* bound: restarts of the Worker
    Faults,        \* of "redis", "database", "lost", "channel": what may fail
    None

ASSUME IngressAssumption ==
    /\ FirstAccount \in [{SenderOf[m] : m \in Messages} -> Accounts \cup {None}] /\ None \notin Accounts
    /\ TargetOf \in [Messages -> Messages \cup {None}] /\ "web" \notin Messages \cup {None}
    /\ WindowSize \in Nat \ {0}

VARIABLES
    account,       \* subject -> account or None
    window,        \* route -> messages in its Redis list, oldest first
    replies,       \* route -> bot messages listed under the raw group number
    bound,         \* <<account, route>> with a Conversation
    receipts,      \* conversation_ingress_receipts
    runs,          \* runs of these Conversations, in the order of their creation
    locks,         \* advisory locks held: <<account, key>>
    handler,       \* handler -> the call it carries out
    told,          \* <<message, account, code>> answered to the sender
    delivered,     \* message -> deliveries
    used           \* bound: rebindings and restarts so far

vars == <<account, window, replies, bound, receipts, runs, locks, handler, told, delivered, used>>
redis == <<window, replies>>
tables == <<bound, receipts, runs>>
outside == <<account, told, delivered, used>>

Subjects == {SenderOf[m] : m \in Messages}
Routes == {RouteOf[m] : m \in Messages}
Idle == [at |-> "idle", message |-> None, context |-> <<>>, account |-> None, code |-> None,
         number |-> 0]

Init ==
    /\ account = FirstAccount
    /\ window = [r \in Routes |-> <<>>]
    /\ replies = [r \in Routes |-> <<>>]
    /\ bound = {}
    /\ receipts = {}
    /\ runs = <<>>
    /\ locks = {}
    /\ handler = [h \in Handlers |-> Idle]
    /\ told = {}
    /\ delivered = [m \in Messages |-> 0]
    /\ used = [rebind |-> 0, crash |-> 0]

MessageOf(h) == handler[h].message
Triggered(m) == RouteOf[m] \in Groups => m \notin Untriggered

\* Variation: the id generated for the UnifiedMessage.
KeyPerDelivery(h) == <<MessageOf(h), handler[h].number>>

\* The provider's id of the message, the same at every delivery.
Key(h) == MessageOf(h)

To(h, at) == handler' = [handler EXCEPT ![h].at = at]
Answers(h, code) == handler' = [handler EXCEPT ![h].at = "reply", ![h].code = code]
Done(h) == handler' = [handler EXCEPT ![h] = Idle]

-----------------------------------------------------------------------------
(* handle(): the group window. *)

Deliver(h, m) ==
    /\ handler[h].at = "idle" /\ delivered[m] < MaxDelivery
    /\ delivered' = [delivered EXCEPT ![m] = @ + 1]
    /\ handler' = [handler EXCEPT ![h] =
           [Idle EXCEPT !.at = IF RouteOf[m] \in Groups THEN "append" ELSE "accept",
                        !.message = m, !.number = delivered[m] + 1]]
    /\ UNCHANGED <<account, told, used, redis, tables, locks>>

\* The newest WindowSize entries are kept.
Pushed(list, entry) ==
    LET all == Append(list, entry)
    IN  SubSeq(all, IF Len(all) > WindowSize THEN Len(all) - WindowSize + 1 ELSE 1, Len(all))

\* A failure of Redis is logged.
AppendWindow(h) == LET m == MessageOf(h) IN
    /\ handler[h].at = "append"
    /\ \/ window' = [window EXCEPT ![RouteOf[m]] = Pushed(@, m)]
       \/ "redis" \in Faults /\ UNCHANGED window
    /\ IF Triggered(m) THEN To(h, "window") ELSE Done(h)
    /\ UNCHANGED <<outside, replies, tables, locks>>

\* The text is frozen here; execution does not read Redis again.
ReadWindow(h) ==
    /\ handler[h].at = "window"
    /\ \E context \in {window[RouteOf[MessageOf(h)]]}
                      \cup (IF "redis" \in Faults THEN {<<>>} ELSE {}) :
          handler' = [handler EXCEPT ![h].at = "accept", ![h].context = context]
    /\ UNCHANGED <<outside, redis, tables, locks>>

-----------------------------------------------------------------------------
(* accept() and execute(). *)

\* accept(): a malformed command is refused before the database is asked.
Accept(h) ==
    /\ handler[h].at = "accept"
    /\ IF OpOf[MessageOf(h)] = "malformed" THEN Answers(h, "invalid") ELSE To(h, "identify")
    /\ UNCHANGED <<outside, redis, tables, locks>>

Identify(h) == LET a == account[SenderOf[MessageOf(h)]] IN
    /\ handler[h].at = "identify"
    /\ IF a = None THEN Answers(h, "unbound")
       ELSE handler' = [handler EXCEPT ![h].at = "lock", ![h].account = a]
    /\ UNCHANGED <<outside, redis, tables, locks>>

Receipt(h) == {r \in receipts : r.account = handler[h].account /\ r.key = Key(h)}

\* Under the advisory lock of account and message: a receipt is replayed.
Lookup(h) == LET lock == <<handler[h].account, Key(h)>> IN
    /\ handler[h].at = "lock"
    /\ lock \notin locks
    /\ IF Receipt(h) # {}
       THEN \E r \in Receipt(h) : Answers(h, r.code) /\ UNCHANGED locks
       ELSE To(h, "commit") /\ locks' = locks \cup {lock}
    /\ UNCHANGED <<outside, redis, tables>>

Live == {"queued", "running", "cancelling"}
Here(h, i) == runs[i].account = handler[h].account /\ runs[i].route = RouteOf[MessageOf(h)]
Current(h) == {i \in DOMAIN runs : Here(h, i) /\ runs[i].status \in Live}
Named(h) == {i \in DOMAIN runs : Here(h, i) /\ runs[i].by = TargetOf[MessageOf(h)]}

NewRun(h) == [account |-> handler[h].account, route |-> RouteOf[MessageOf(h)],
              by |-> MessageOf(h), status |-> "queued", context |-> handler[h].context,
              cancelledBy |-> {}]

\* send.execute_in_uow: one live run per Conversation.
Send(h) == IF Current(h) # {} THEN "conversation_busy" ELSE "accepted"

\* cancel.execute_in_uow, on the live run or on the run that is named.
Cancel(h, found) ==
    IF found = {} THEN "no_matching_run"
    ELSE IF \E i \in found : runs[i].status \in {"succeeded", "failed"} THEN "run_not_cancellable"
    ELSE "cancelled"

\* A queued run without a Workflow ends at once.
Cancelled(h, found) ==
    runs' = [i \in DOMAIN runs |->
        IF i \notin found THEN runs[i]
        ELSE [runs[i] EXCEPT !.status = IF @ \in {"queued", "cancelled"} THEN "cancelled"
                                        ELSE "cancelling",
                             !.cancelledBy = IF runs[i].status \in Live
                                             THEN @ \cup {<<handler[h].account, MessageOf(h)>>} ELSE @]]

\* The effect of an operation and the code of its answer.
Effect(h, code) == LET op == OpOf[MessageOf(h)]
                       found == IF op = "cancel" THEN Current(h) ELSE Named(h) IN
    \/ /\ op = "message" /\ code = Send(h)
       /\ runs' = IF code = "accepted" THEN Append(runs, NewRun(h)) ELSE runs
    \/ /\ op \in {"cancel", "cancelRun"} /\ code = Cancel(h, found)
       /\ IF code = "cancelled" THEN Cancelled(h, found) ELSE UNCHANGED runs
    \/ /\ op = "work" /\ code \in {"work_control", "work_conflict"}
       /\ UNCHANGED runs

\* Rejections are receipted as well.
Receipted(h, code) ==
    receipts' = receipts \cup {[account |-> handler[h].account, key |-> Key(h), code |-> code]}

\* Variation: the lock belongs to the connection, which returns to the pool.
UnlockedNot(h) == locks' = locks

Unlocked(h) == locks' = locks \ {<<handler[h].account, Key(h)>>}

Codes == {"accepted", "conversation_busy", "no_matching_run", "run_not_cancellable", "cancelled",
          "work_control", "work_conflict"}

\* The connection may be lost after the commit: the answer is unknown.
Commit(h) == \E code \in Codes :
    /\ handler[h].at = "commit"
    /\ Effect(h, code)
    /\ Receipted(h, code)
    /\ bound' = bound \cup {<<handler[h].account, RouteOf[MessageOf(h)]>>}
    /\ Unlocked(h)
    /\ \/ Answers(h, code)
       \/ "lost" \in Faults /\ Answers(h, "unavailable")
    /\ UNCHANGED <<outside, redis>>

\* psycopg.Error: rolled back.
DatabaseFails(h) ==
    /\ "database" \in Faults
    /\ handler[h].at \in {"identify", "lock", "commit"}
    /\ locks' = IF handler[h].at = "commit" THEN locks \ {<<handler[h].account, Key(h)>>} ELSE locks
    /\ Answers(h, "unavailable")
    /\ UNCHANGED <<outside, redis, tables>>

-----------------------------------------------------------------------------
(* The answer; an accepted message is answered by its run. *)

Silent == {"accepted", "work_conflict"}

Reply(h) == LET m == MessageOf(h)
                route == RouteOf[m] IN
    /\ handler[h].at = "reply"
    /\ \/ /\ handler[h].code \in Silent
          /\ UNCHANGED <<told, replies>>
       \/ /\ handler[h].code \notin Silent
          /\ told' = told \cup {<<m, handler[h].account, handler[h].code>>}
          /\ replies' = IF route \in Groups THEN [replies EXCEPT ![route] = Pushed(@, "bot")]
                        ELSE replies
       \/ /\ "channel" \in Faults /\ handler[h].code \notin Silent
          /\ UNCHANGED <<told, replies>>
    /\ Done(h)
    /\ UNCHANGED <<account, delivered, used, window, tables, locks>>

-----------------------------------------------------------------------------
(* The surroundings. *)

RunStarts(i) ==
    /\ runs[i].status = "queued"
    /\ runs' = [runs EXCEPT ![i].status = "running"]
    /\ UNCHANGED <<outside, redis, bound, receipts, locks, handler>>

RunEnds(i) == \E status \in {"succeeded", "failed", "cancelled"} :
    /\ runs[i].status \in {"running", "cancelling"}
    /\ status = "cancelled" => runs[i].status = "cancelling"
    /\ runs' = [runs EXCEPT ![i].status = status]
    /\ UNCHANGED <<outside, redis, bound, receipts, locks, handler>>

\* The account's user sends to the same Conversation from the Web.
WebSends(a, r) ==
    /\ <<a, r>> \in bound
    /\ Cardinality({i \in DOMAIN runs : runs[i].by = "web"}) < MaxWeb
    /\ \A i \in DOMAIN runs : runs[i].account = a /\ runs[i].route = r => runs[i].status \notin Live
    /\ runs' = Append(runs, [account |-> a, route |-> r, by |-> "web", status |-> "queued",
                             context |-> <<>>, cancelledBy |-> {}])
    /\ UNCHANGED <<outside, redis, bound, receipts, locks, handler>>

Rebind(s) == \E a \in Accounts \cup {None} :
    /\ used.rebind < MaxRebind /\ a # account[s]
    /\ account' = [account EXCEPT ![s] = a]
    /\ used' = [used EXCEPT !.rebind = @ + 1]
    /\ UNCHANGED <<told, delivered, redis, tables, locks, handler>>

\* The handlers and their transactions are gone.
Crash ==
    /\ used.crash < MaxCrash
    /\ used' = [used EXCEPT !.crash = @ + 1]
    /\ handler' = [h \in Handlers |-> Idle]
    /\ locks' = {}
    /\ UNCHANGED <<account, told, delivered, redis, tables>>

Handles(h) ==
    \/ AppendWindow(h) \/ ReadWindow(h) \/ Accept(h) \/ Identify(h) \/ Lookup(h)
    \/ Commit(h) \/ Reply(h)

Next ==
    \/ \E h \in Handlers : Handles(h) \/ DatabaseFails(h) \/ \E m \in Messages : Deliver(h, m)
    \/ \E i \in DOMAIN runs : RunStarts(i) \/ RunEnds(i)
    \/ \E a \in Accounts, r \in Routes : WebSends(a, r)
    \/ \E s \in Subjects : Rebind(s)
    \/ Crash

Spec == Init /\ [][Next]_vars
\* The event loop and its threads run.
FairSpec == Spec /\ \A h \in Handlers : WF_vars(Handles(h))

-----------------------------------------------------------------------------
TypeOK ==
    /\ account \in [Subjects -> Accounts \cup {None}]
    /\ \A r \in Routes : Len(window[r]) <= WindowSize /\ (r \notin Groups => window[r] = <<>>)
    /\ bound \subseteq Accounts \X Routes
    /\ \A r \in receipts : r.account \in Accounts /\ r.code \in Codes
    /\ \A i \in DOMAIN runs : <<runs[i].account, runs[i].route>> \in bound
    /\ locks = {<<handler[h].account, Key(h)>> : h \in {x \in Handlers : handler[x].at = "commit"}}

\* However often a provider delivers a message, concurrently, after a restart or
\* after an answer nobody saw, an account runs it once.
OncePerAccount == \A i, j \in DOMAIN runs :
    runs[i].by = runs[j].by /\ runs[i].by # "web" /\ runs[i].account = runs[j].account => i = j

\* A cancel message stops one run at most: a redelivery never hits a later one.
CancelOnce == \A i, j \in DOMAIN runs : runs[i].cancelledBy \cap runs[j].cancelledBy # {} => i = j

\* A Conversation has one live run, whoever sends to it.
OneLiveRun == \A i, j \in DOMAIN runs :
    /\ runs[i].account = runs[j].account /\ runs[i].route = runs[j].route
    /\ runs[i].status \in Live /\ runs[j].status \in Live
    => i = j

\* A sender who was told that the Conversation is busy may send anew: the message
\* refused does not run later.
RefusalIsFinal == \A t \in told : t[3] = "conversation_busy" =>
    \A i \in DOMAIN runs : ~(runs[i].by = t[1] /\ runs[i].account = t[2])

\* handle() returns.
HandlersEnd == \A h \in Handlers : handler[h].at # "idle" ~> handler[h].at = "idle"

\* However often a message comes it runs once, one Run at a time in a conversation,
\* and a refusal is final (qq_ingress.py).
Safety ==
    /\ TypeOK
    /\ OncePerAccount
    /\ CancelOnce
    /\ OneLiveRun
    /\ RefusalIsFinal

=============================================================================
