----------------------------- MODULE MCChannels -----------------------------
(*****************************************************************************)
(* The channels side by side: messages from QQ, the binding of a QQ identity *)
(* to a Web account, the two links to QQ, and the feed of a Run to its tabs. *)
(* One part is chosen at the start and the others stand still.               *)
(*****************************************************************************)
EXTENDS QqIngress, TLC

CONSTANTS Parts, x1, x2, w1
VARIABLES part, status, web, qq, credentials, session, challenge, owned, invited,
          redemptions, task, rows, begun, conn, call, wire, frames, current, queue, handled,
          sender, lock, cool, done, real, events, trouble, monitor, starts, token, issued,
          dead, fetch, refresh, loop, heart, known, ws, link, gap, cache, sent, run, row, ppc,
          sinks, held, inflight, active, gate, sub, reader, feedUsed, reason, seen, feed,
          order, shown, view, poll, failures, sweeps, losses

\* One sender in one private room: "m1" is a message, "d" cancels its run by its id.
InRoom == [m \in Messages |-> "room"]
BySame == [m \in Messages |-> "s1"]
Mixed == [m \in Messages |-> CASE m = "c" -> "cancel" [] m = "d" -> "cancelRun" [] m = "w" -> "work"
                                [] m = "x" -> "malformed" [] OTHER -> "message"]
FirstMessage == [m \in Messages |-> IF m = "d" THEN "m1" ELSE None]
FirstOfSender == [s \in {"s1"} |-> "a1"]

\* The QQ subjects that have an account of their own at first.
NoOne == [s \in {} |-> None]
OneQqAccount == [s \in {"s1"} |-> None]

Binding == INSTANCE IdentityBinding WITH
    None <- None, Users <- {"u1", "u2"}, Subjects <- {"s1", "s2"},
    Accounts <- {"a1", "a2", "a3"}, Codes <- {"c1", "c2"}, Tasks <- {x1, x2},
    MaxInvite <- 1, MaxTask <- 6, Holder <- OneQqAccount,
    Offered <- {"register", "issue", "consume"}
Web == INSTANCE IdentityBinding WITH
    None <- None, Users <- {"u1"}, Subjects <- {"s1"}, Accounts <- {"a1", "a2"},
    Codes <- {"c1"}, Tasks <- {x1, x2}, MaxInvite <- 1, MaxTask <- 6,
    Holder <- OneQqAccount,
    Offered <- {"register", "login", "logout", "issue", "consume", "open", "directory", "upload", "converse"}
Admin == INSTANCE IdentityBinding WITH
    None <- None, Users <- {"u1", "u2"}, Subjects <- {"s1", "s2"},
    Accounts <- {"a1", "a2", "a3"}, Codes <- {"c1"}, Tasks <- {x1, x2},
    MaxInvite <- 1, MaxTask <- 4, Holder <- NoOne,
    Offered <- {"register", "login", "issue", "consume", "bootstrap"}
Link == INSTANCE OneBot11 WITH
    None <- None, MaxConn <- 2, Senders <- {}, QueueSize <- 1, MaxEvent <- 2,
    MaxTrouble <- 2, Faults <- {"replace", "drop", "old"}
Sends == INSTANCE OneBot11 WITH
    None <- None, MaxConn <- 2, Senders <- {x1, x2}, QueueSize <- 1, MaxEvent <- 0,
    MaxTrouble <- 1, Faults <- {"replace", "drop", "slow", "mute", "odd", "offline"}
Official == INSTANCE OfficialQQ WITH
    None <- None, Senders <- {x1, w1}, Durable <- {x1}, MaxToken <- 3, MaxEvent <- 0,
    MaxStart <- 1, MaxTrouble <- 1, Faults <- {"post", "refuse", "fetch"}
Gateway == INSTANCE OfficialQQ WITH
    None <- None, Senders <- {x1}, Durable <- {x1}, MaxToken <- 2, MaxEvent <- 1,
    MaxStart <- 2, MaxTrouble <- 2,
    Faults <- {"stop", "drop", "again", "fetch", "callback"}
Order == INSTANCE RunFeed WITH
    Conns <- {"x1"}, Workers <- {x1, x2}, Publishers <- {}, MaxConnections <- 1,
    Buffer <- 2, Bytes <- 9, MaxGap <- 2, Streams <- 2, Events <- 2, Failures <- 0,
    Sweeps <- 0, Losses <- 1, Cuts <- 0, used <- feedUsed
Window == INSTANCE RunFeed WITH
    Conns <- {"x1"}, Workers <- {"w1"}, Publishers <- {}, MaxConnections <- 1,
    Buffer <- 2, Bytes <- 9, MaxGap <- 1, Streams <- 1, Events <- 3, Failures <- 0,
    Sweeps <- 0, Losses <- 1, Cuts <- 0, used <- feedUsed
Gap == INSTANCE RunFeed WITH
    Conns <- {"x1"}, Workers <- {"w1"}, Publishers <- {}, MaxConnections <- 1,
    Buffer <- 2, Bytes <- 9, MaxGap <- 0, Streams <- 1, Events <- 3, Failures <- 0,
    Sweeps <- 0, Losses <- 1, Cuts <- 0, used <- feedUsed
Notice == INSTANCE RunFeed WITH
    Conns <- {"w1"}, Workers <- {"w2"}, Publishers <- {x1, x2}, MaxConnections <- 1,
    Buffer <- 2, Bytes <- 9, MaxGap <- 1, Streams <- 1, Events <- 1, Failures <- 1,
    Sweeps <- 1, Losses <- 0, Cuts <- 0, used <- feedUsed
View == INSTANCE RunFeed WITH
    Conns <- {"x1"}, Workers <- {"w1"}, Publishers <- {"x2"}, MaxConnections <- 1,
    Buffer <- 2, Bytes <- 9, MaxGap <- 0, Streams <- 1, Events <- 2, Failures <- 0,
    Sweeps <- 0, Losses <- 0, Cuts <- 0, used <- feedUsed
Slots == INSTANCE RunFeed WITH
    Conns <- {x1, x2}, Workers <- {"w1"}, Publishers <- {}, MaxConnections <- 1,
    Buffer <- 1, Bytes <- 9, MaxGap <- 1, Streams <- 1, Events <- 0, Failures <- 1,
    Sweeps <- 0, Losses <- 0, Cuts <- 1, used <- feedUsed

ASSUME Order!RunFeedAssumption
ASSUME Window!RunFeedAssumption
ASSUME Gap!RunFeedAssumption
ASSUME Notice!RunFeedAssumption
ASSUME View!RunFeedAssumption
ASSUME Slots!RunFeedAssumption

sideVars == <<part, account, window, replies, bound, receipts, runs, locks, handler, told,
              delivered, used, status, web, qq, credentials, session, challenge, owned,
              invited, redemptions, task, rows, begun, conn, call, wire, frames, current,
              queue, handled, sender, lock, cool, done, real, events, trouble, monitor,
              starts, token, issued, dead, fetch, refresh, loop, heart, known, ws, link, gap,
              cache, sent, run, row, ppc, sinks, held, inflight, active, gate, sub,
              reader, feedUsed, reason, seen, feed, order, shown, view, poll, failures,
              sweeps, losses>>

\* A variable is idle in the parts that do not have it, and stays so.
Only(parts, v) == IF part \in parts THEN TRUE ELSE v = None
Still(parts, vs) == IF part \in parts THEN TRUE ELSE UNCHANGED vs

\* The parts of each component.
QqIngressParts == {"qq"}
IdentityBindingParts == {"binding", "web", "admin"}
OneBot11Parts == {"link", "send"}
OfficialQQParts == {"official", "gateway"}
RunFeedParts == {"order", "window", "gap", "notice", "view", "slots"}

SideInit ==
    /\ part \in Parts
    /\ Init
    /\ part = "binding" => Binding!Init
    /\ part = "web" => Web!Init
    /\ part = "admin" => Admin!Init
    /\ part = "link" => Link!Init
    /\ part = "send" => Sends!Init
    /\ part = "official" => Official!Init
    /\ part = "gateway" => Gateway!Init
    /\ part = "order" => Order!Init
    /\ part = "window" => Window!Init
    /\ part = "gap" => Gap!Init
    /\ part = "notice" => Notice!Init
    /\ part = "view" => View!Init
    /\ part = "slots" => Slots!Init
    /\ Only(IdentityBindingParts, status) /\ Only(IdentityBindingParts, web)
    /\ Only(IdentityBindingParts, qq) /\ Only(IdentityBindingParts, credentials)
    /\ Only(IdentityBindingParts, session) /\ Only(IdentityBindingParts, challenge)
    /\ Only(IdentityBindingParts, owned) /\ Only(IdentityBindingParts, invited)
    /\ Only(IdentityBindingParts, redemptions) /\ Only(IdentityBindingParts, task)
    /\ Only(IdentityBindingParts, rows) /\ Only(IdentityBindingParts, begun)
    /\ Only(OneBot11Parts, conn) /\ Only(OneBot11Parts, call) /\ Only(OneBot11Parts, current)
    /\ Only(OneBot11Parts, cool) /\ Only(OneBot11Parts, done) /\ Only(OneBot11Parts, real)
    /\ Only(OneBot11Parts \cup RunFeedParts, wire)
    /\ Only(OneBot11Parts \cup RunFeedParts, queue)
    /\ Only(OneBot11Parts \cup OfficialQQParts \cup RunFeedParts, frames)
    /\ Only(OneBot11Parts \cup OfficialQQParts, handled)
    /\ Only(OneBot11Parts \cup OfficialQQParts, sender)
    /\ Only(OneBot11Parts \cup OfficialQQParts, lock)
    /\ Only(OneBot11Parts \cup OfficialQQParts, events)
    /\ Only(OneBot11Parts \cup OfficialQQParts, trouble)
    /\ Only(OfficialQQParts, monitor) /\ Only(OfficialQQParts, starts)
    /\ Only(OfficialQQParts, token) /\ Only(OfficialQQParts, issued)
    /\ Only(OfficialQQParts, dead) /\ Only(OfficialQQParts, fetch)
    /\ Only(OfficialQQParts, refresh) /\ Only(OfficialQQParts, loop)
    /\ Only(OfficialQQParts, heart) /\ Only(OfficialQQParts, known)
    /\ Only(OfficialQQParts, ws) /\ Only(OfficialQQParts, link)
    /\ Only(OfficialQQParts, gap) /\ Only(OfficialQQParts, sent)
    /\ Only(OfficialQQParts \cup RunFeedParts, cache)
    /\ Only(RunFeedParts, run) /\ Only(RunFeedParts, row) /\ Only(RunFeedParts, ppc)
    /\ Only(RunFeedParts, sinks) /\ Only(RunFeedParts, held) /\ Only(RunFeedParts, inflight)
    /\ Only(RunFeedParts, active) /\ Only(RunFeedParts, gate) /\ Only(RunFeedParts, sub)
    /\ Only(RunFeedParts, reader) /\ Only(RunFeedParts, feedUsed) /\ Only(RunFeedParts, reason)
    /\ Only(RunFeedParts, seen) /\ Only(RunFeedParts, feed) /\ Only(RunFeedParts, order)
    /\ Only(RunFeedParts, shown) /\ Only(RunFeedParts, view) /\ Only(RunFeedParts, poll)
    /\ Only(RunFeedParts, failures) /\ Only(RunFeedParts, sweeps) /\ Only(RunFeedParts, losses)

SideNext ==
    /\ \/ part = "qq" /\ Next
       \/ part = "binding" /\ Binding!Next
       \/ part = "web" /\ Web!Next
       \/ part = "admin" /\ Admin!Next
       \/ part = "link" /\ Link!Next
       \/ part = "send" /\ Sends!Next
       \/ part = "official" /\ Official!Next
       \/ part = "gateway" /\ Gateway!Next
       \/ part = "order" /\ Order!Next
       \/ part = "window" /\ Window!Next
       \/ part = "gap" /\ Gap!Next
       \/ part = "notice" /\ Notice!Next
       \/ part = "view" /\ View!Next
       \/ part = "slots" /\ Slots!Next
    /\ Still(QqIngressParts, <<account, window, replies, bound, receipts, runs, locks,
                                  handler, told, delivered, used>>)
    /\ Still(IdentityBindingParts, <<status, web, qq, credentials, session, challenge,
                                        owned, invited, redemptions, task, rows, begun>>)
    /\ Still(OneBot11Parts, <<conn, call, current, cool, done, real>>)
    /\ Still(OneBot11Parts \cup RunFeedParts, <<wire, queue>>)
    /\ Still(OneBot11Parts \cup OfficialQQParts \cup RunFeedParts, <<frames>>)
    /\ Still(OneBot11Parts \cup OfficialQQParts, <<handled, sender, lock, events, trouble>>)
    /\ Still(OfficialQQParts, <<monitor, starts, token, issued, dead, fetch, refresh,
                                   loop, heart, known, ws, link, gap, sent>>)
    /\ Still(OfficialQQParts \cup RunFeedParts, <<cache>>)
    /\ Still(RunFeedParts, <<run, row, ppc, sinks, held, inflight, active, gate, sub,
                                reader, feedUsed, reason, seen, feed, order, shown, view,
                                poll, failures, sweeps, losses>>)
    /\ UNCHANGED part

SideSpec == SideInit /\ [][SideNext]_sideVars

-----------------------------------------------------------------------------
\* Senders, publishers, tabs, Workers and threads: no part tells x1 and x2 apart.
Symmetry == Permutations({x1, x2})

\* A QQ identity has one account, and a completed binding is bound (IdentityBinding).
IdentitySafe == /\ part = "binding" => Binding!Safety
                /\ part = "web" => Web!Safety
                /\ part = "admin" => Admin!TypeOK /\ Admin!CompletedIsBound /\ Admin!SessionFollows
                                    /\ Admin!ConversationsAreKept /\ Admin!InviteIsExact

\* The newest connection is the one that is read, and what a sender was told happened
\* (OneBot11, OfficialQQ).
LinksSafe == /\ part = "link" => Link!Safety
             /\ part = "send" => Sends!Safety
             /\ part = "official" => Official!Safety
             /\ part = "gateway" => Gateway!Safety

\* A tab is shown the events in order, and the notice of the end is on its way (RunFeed).
FeedSafe == /\ part = "order" => Order!Safety
            /\ part = "window" => Window!Safety
            /\ part = "gap" => Gap!Safety
            /\ part = "notice" => Notice!Safety
            /\ part = "view" => View!Safety
            /\ part = "slots" => Slots!Safety

\* Everything between a Run and the people who read it.
WiresSafe == LinksSafe /\ FeedSafe

\* What no step may do: go back to an older token, take the end of a Run from a tab.
ChannelSteps == [][/\ part = "official" => Official!TokenIsNewer
                   /\ part = "view" => View!EndIsShownForGood]_sideVars
=============================================================================
