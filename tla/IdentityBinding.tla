-------------------------- MODULE IdentityBinding --------------------------
(***************************************************************************)
(* Accounts and the identities bound to them: Web registration (with an    *)
(* invite), login and sessions, the challenge that proves the ownership of *)
(* a QQ identity, the consolidation of an empty Web account into the       *)
(* account the QQ identity already has, the administrator's bootstrap, and *)
(* the Web commands that run meanwhile.                                     *)
(*                                                                         *)
(* A task is a thread of the API or the Worker.  Transactions run under    *)
(* READ COMMITTED: a task reads what is committed at that statement, and    *)
(* rows[t] are the row locks its transaction holds to its end.  A step      *)
(* that writes is the transaction's last one and commits.                   *)
(***************************************************************************)
EXTENDS Naturals, FiniteSets

CONSTANTS
    Users,         \* Web usernames
    Subjects,      \* normalized QQ subjects
    Accounts,      \* account ids
    Codes,         \* challenge codes, each issued at most once
    Tasks,         \* threads
    MaxInvite,     \* redemptions the invite allows
    MaxTask,       \* bound: the operations all the tasks begin
    Holder,        \* subject -> the username, or None, of the account it had before;
                   \* its domain are the subjects with such an account
    Offered,       \* operations tasks begin
    None

VARIABLES
    status,        \* account -> "none", "active" or "disabled"
    web,           \* username -> the account of its active Web binding
    qq,            \* subject -> the account of its active QQ binding
    credentials,   \* usernames with a password
    session,       \* username -> account in its live session
    challenge,     \* code -> the challenge row
    owned,         \* account -> kinds of data its tables hold
    invited,       \* accounts provisioned by the invite
    redemptions,   \* its redemption_count
    task,          \* task -> what it is doing
    rows,          \* task -> rows its transaction has locked
    begun          \* bound: operations begun so far

vars == <<status, web, qq, credentials, session, challenge, owned, invited, redemptions,
          task, rows, begun>>
binds == <<web, qq, session>>
people == <<credentials, invited, redemptions>>

Kinds == {"workspace", "directory", "upload", "conversation"}
NoChallenge == [status |-> "none", account |-> None, subject |-> None, late |-> FALSE]
Idle == [at |-> "idle", account |-> None, user |-> None, subject |-> None, code |-> None,
         attempt |-> 0, owner |-> None]

Legacy == DOMAIN Holder
Former == CHOOSE f \in [Legacy -> Accounts] : \A r, s \in Legacy : f[r] = f[s] => r = s

Init ==
    /\ status = [a \in Accounts |-> IF \E s \in Legacy : Former[s] = a THEN "active" ELSE "none"]
    /\ qq = [s \in Subjects |-> IF s \in Legacy THEN Former[s] ELSE None]
    /\ web = [u \in Users |-> IF \E s \in Legacy : Holder[s] = u
                             THEN Former[CHOOSE s \in Legacy : Holder[s] = u] ELSE None]
    /\ session = web
    /\ credentials = {u \in Users : web[u] # None}
    /\ challenge = [c \in Codes |-> NoChallenge]
    /\ owned = [a \in Accounts |-> {}]
    /\ invited = {}
    /\ redemptions = 0
    /\ task = [t \in Tasks |-> Idle]
    /\ rows = [t \in Tasks |-> {}]
    /\ begun = 0

Active(a) == a # None /\ status[a] = "active"
Fresh(a) == status[a] = "none"

\* The row is not locked by another transaction.
Free(t, row) == \A o \in Tasks \ {t} : row \notin rows[o]

Begin(t, op) ==
    /\ op \in Offered
    /\ task[t].at = "idle"
    /\ begun < MaxTask
    /\ begun' = begun + 1

To(t, at) == task' = [task EXCEPT ![t].at = at]
Locking(t, more) == rows' = [rows EXCEPT ![t] = @ \cup more]

\* The transaction ends and the thread has answered.
Ends(t) ==
    /\ task' = [task EXCEPT ![t] = Idle]
    /\ rows' = [rows EXCEPT ![t] = {}]

-----------------------------------------------------------------------------
(* Registration, login, logout. *)

\* The invite's row is locked from this look to the end of the registration.
Redeemable == redemptions < MaxInvite

\* One transaction: a taken username rolls the redemption back too.  The route
\* logs the user in right after; the registration stands when that fails.
Register(t) == \E u \in Users, withInvite, signedIn \in BOOLEAN :
    /\ Begin(t, "register")
    /\ withInvite => Redeemable
    /\ IF web[u] # None
       THEN UNCHANGED <<status, web, session, credentials, invited, redemptions>>
       ELSE \E a \in Accounts :
            /\ Fresh(a)
            /\ status' = [status EXCEPT ![a] = "active"]
            /\ web' = [web EXCEPT ![u] = a]
            /\ credentials' = credentials \cup {u}
            /\ session' = IF signedIn THEN [session EXCEPT ![u] = a] ELSE session
            /\ invited' = IF withInvite THEN invited \cup {a} ELSE invited
            /\ redemptions' = redemptions + (IF withInvite THEN 1 ELSE 0)
    /\ UNCHANGED <<qq, challenge, owned, task, rows>>

\* A new session revokes the binding's earlier ones.
Login(t) == \E u \in credentials :
    /\ Begin(t, "login")
    /\ Active(web[u]) /\ Free(t, <<"web", u>>)
    /\ session' = [session EXCEPT ![u] = web[u]]
    /\ UNCHANGED <<status, web, qq, people, challenge, owned, task, rows>>

Logout(t) == \E u \in Users :
    /\ Begin(t, "logout")
    /\ Active(session[u])
    /\ session' = [session EXCEPT ![u] = None]
    /\ UNCHANGED <<status, web, qq, people, challenge, owned, task, rows>>

-----------------------------------------------------------------------------
(* A Web request: it is authenticated in a transaction of its own and works *)
(* with the account id read there.                                          *)

Authenticate(t) == \E u \in Users, op \in {"issue", "open", "directory", "upload", "converse"} :
    /\ Begin(t, op)
    /\ Active(session[u]) /\ web[u] = session[u]
    /\ task' = [task EXCEPT ![t] = [Idle EXCEPT !.at = op, !.account = session[u]]]
    /\ UNCHANGED <<status, binds, people, challenge, owned, rows>>

\* create_qq_challenge: the account is read without a lock on its row.
IssueReads(t) == LET a == task[t].account IN
    /\ task[t].at = "issue"
    /\ Free(t, <<"advisory", a>>)
    /\ IF Active(a) THEN To(t, "insert") /\ Locking(t, {<<"advisory", a>>})
       ELSE Ends(t)
    /\ UNCHANGED <<status, binds, people, challenge, owned, begun>>

\* Pending ones are cancelled and the new one refers to the account's row.
Issue(t) == LET a == task[t].account
                Pending(c) == challenge[c].status = "pending" /\ challenge[c].account = a IN
    /\ task[t].at = "insert"
    /\ Free(t, <<"account", a>>)
    /\ \A c \in Codes : Pending(c) => Free(t, <<"challenge", c>>)
    /\ \E new \in Codes :
        /\ challenge[new].status = "none"
        /\ challenge' = [c \in Codes |->
               IF c = new THEN [NoChallenge EXCEPT !.status = "pending", !.account = a]
               ELSE IF Pending(c) THEN [challenge[c] EXCEPT !.status = "cancelled"]
               ELSE challenge[c]]
    /\ Ends(t)
    /\ UNCHANGED <<status, binds, people, owned, begun>>

Expire(c) ==
    /\ challenge[c].status = "pending" /\ ~challenge[c].late
    /\ challenge' = [challenge EXCEPT ![c].late = TRUE]
    /\ UNCHANGED <<status, binds, people, owned, task, rows, begun>>

\* The rows of a command refer to the account: the insert waits for its lock.
Stores(t, kind) == LET a == task[t].account IN
    owned' = [owned EXCEPT ![a] = @ \cup {kind}]

\* WorkspaceCatalog.initialize, at the first look at the workspace.
OpenReads(t) == LET a == task[t].account IN
    /\ task[t].at \in {"open", "upload"}
    /\ "workspace" \notin owned[a]
    /\ Free(t, <<"catalog", a>>)
    /\ IF Active(a)
       THEN /\ To(t, IF task[t].at = "open" THEN "opening" ELSE "uploadOpening")
            /\ Locking(t, {<<"catalog", a>>})
       ELSE Ends(t)
    /\ UNCHANGED <<status, binds, people, challenge, owned, begun>>

Open(t) == LET a == task[t].account IN
    /\ task[t].at \in {"opening", "uploadOpening"}
    /\ Free(t, <<"account", a>>)
    /\ Stores(t, "workspace")
    /\ IF task[t].at = "opening" THEN Ends(t)
       ELSE To(t, "uploading") /\ rows' = [rows EXCEPT ![t] = {}]
    /\ UNCHANGED <<status, binds, people, challenge, begun>>

Opened(t) == LET a == task[t].account IN
    /\ task[t].at \in {"open", "upload"}
    /\ "workspace" \in owned[a]
    /\ IF task[t].at = "open" THEN Ends(t) ELSE To(t, "uploading") /\ UNCHANGED rows
    /\ UNCHANGED <<status, binds, people, challenge, owned, begun>>

\* create_directory: only the workspace is looked up.
CreateDirectory(t) == LET a == task[t].account IN
    /\ task[t].at = "directory"
    /\ IF "workspace" \in owned[a] THEN Stores(t, "directory") ELSE UNCHANGED owned
    /\ Ends(t)
    /\ UNCHANGED <<status, binds, people, challenge, begun>>

\* create_workspace_upload, its second transaction.
CreateUpload(t) == LET a == task[t].account IN
    /\ task[t].at = "uploading"
    /\ Free(t, <<"account", a>>)
    /\ Stores(t, "upload")
    /\ Ends(t)
    /\ UNCHANGED <<status, binds, people, challenge, begun>>

\* create_conversation: the claim of the key refers to the account's row, and
\* the account is read after that.
Claim(t) == LET a == task[t].account IN
    /\ task[t].at = "converse"
    /\ Free(t, <<"account", a>>)
    /\ To(t, "claimed")
    /\ Locking(t, {<<"shared", a>>})
    /\ UNCHANGED <<status, binds, people, challenge, owned, begun>>

Check(t) ==
    /\ task[t].at = "claimed"
    /\ IF Active(task[t].account) THEN To(t, "checked") /\ UNCHANGED rows ELSE Ends(t)
    /\ UNCHANGED <<status, binds, people, challenge, owned, begun>>

CreateConversation(t) ==
    /\ task[t].at = "checked"
    /\ Stores(t, "conversation")
    /\ Ends(t)
    /\ UNCHANGED <<status, binds, people, challenge, begun>>

-----------------------------------------------------------------------------
(* consume_qq_challenge, on the message that carries the code. *)

Consume(t) == \E c \in Codes, s \in Subjects :
    /\ Begin(t, "consume")
    /\ challenge[c].status # "none"
    /\ task' = [task EXCEPT ![t] =
           [Idle EXCEPT !.at = "consume", !.code = c, !.subject = s, !.attempt = 1]]
    /\ UNCHANGED <<status, binds, people, challenge, owned, rows>>

\* The challenge row is locked; a code that was used, cancelled or expired ends here.
Lookup(t) == LET c == task[t].code IN
    /\ task[t].at = "consume"
    /\ Free(t, <<"challenge", c>>)
    /\ IF challenge[c].status = "pending" /\ ~challenge[c].late
       THEN /\ To(t, "source")
            /\ Locking(t, {<<"challenge", c>>})
            /\ UNCHANGED challenge
       ELSE /\ Ends(t)
            /\ challenge' = IF challenge[c].status = "pending"
                            THEN [challenge EXCEPT ![c].status = "cancelled"] ELSE challenge
    /\ UNCHANGED <<status, binds, people, owned, begun>>

\* The account's row is locked for update: commands in progress end before.
Lockable(t, a) == Free(t, <<"account", a>>) /\ Free(t, <<"shared", a>>)

LockSource(t) == LET a == challenge[task[t].code].account IN
    /\ task[t].at = "source"
    /\ Lockable(t, a)
    /\ IF Active(a)
       THEN /\ task' = [task EXCEPT ![t].at = "subject", ![t].account = a]
            /\ Locking(t, {<<"account", a>>})
       ELSE Ends(t)
    /\ UNCHANGED <<status, binds, people, challenge, owned, begun>>

HasQq(a) == \E s \in Subjects : qq[s] = a

\* The subject's binding is locked when there is one; the account of a new one
\* must not have a QQ identity.
LockSubject(t) == LET s == task[t].subject
                      a == task[t].account IN
    /\ task[t].at = "subject"
    /\ qq[s] # None => Free(t, <<"qq", s>>)
    /\ CASE qq[s] = None /\ HasQq(a) -> Ends(t)
         [] qq[s] = None /\ ~HasQq(a) -> To(t, "bind") /\ UNCHANGED rows
         [] qq[s] # None -> /\ task' = [task EXCEPT ![t].at = IF qq[s] = a THEN "bind" ELSE "target",
                                                   ![t].owner = qq[s]]
                            /\ Locking(t, {<<"qq", s>>})
    /\ UNCHANGED <<status, binds, people, challenge, owned, begun>>

Completed(c, s, a) ==
    challenge' = [challenge EXCEPT ![c].status = "completed", ![c].subject = s, ![c].account = a]

\* Variation: the binding is written over the one made meanwhile.
BindOver(t) == LET s == task[t].subject
                   a == task[t].account IN
    /\ task[t].at = "bind"
    /\ qq' = [qq EXCEPT ![s] = a] /\ Completed(task[t].code, s, a)
    /\ Ends(t)
    /\ UNCHANGED <<status, web, session, people, owned, begun>>

\* The unique index refuses a binding made meanwhile: the transaction is rolled back.
Bind(t) == LET s == task[t].subject
               a == task[t].account IN
    /\ task[t].at = "bind"
    /\ IF qq[s] = task[t].owner
       THEN qq' = [qq EXCEPT ![s] = a] /\ Completed(task[t].code, s, a)
       ELSE UNCHANGED <<qq, challenge>>
    /\ Ends(t)
    /\ UNCHANGED <<status, web, session, people, owned, begun>>

\* Kinds whose tables are asked; a directory is in none of them.
Recorded == {"upload", "conversation"}

\* The one identity of the source is a Web one with a password, the target has
\* none, and the tables that are asked hold nothing of the source.
MayConsolidate(a, target, u) ==
    /\ Active(target)
    /\ web[u] = a /\ u \in credentials /\ ~HasQq(a)
    /\ \A v \in Users : web[v] # target /\ (web[v] = a => v = u)
    /\ owned[a] \cap Recorded = {}

\* The Web binding and its sessions move, the source is disabled.
Consolidate(t, a, target, u) ==
    /\ web' = [web EXCEPT ![u] = target]
    /\ session' = [session EXCEPT ![u] = IF @ = a THEN target ELSE @]
    /\ status' = [status EXCEPT ![a] = "disabled"]
    /\ LET c == task[t].code IN
       challenge' = [x \in Codes |->
           IF x = c THEN [challenge[c] EXCEPT !.status = "completed", !.account = target,
                                              !.subject = task[t].subject]
           ELSE IF challenge[x].account = a /\ challenge[x].status = "pending"
                THEN [challenge[x] EXCEPT !.status = "cancelled"]
           ELSE challenge[x]]

Target(t) == LET a == task[t].account
                 target == task[t].owner IN
    /\ task[t].at = "target"
    /\ Lockable(t, target)
    /\ IF \E u \in Users : MayConsolidate(a, target, u)
       THEN \E u \in Users : MayConsolidate(a, target, u) /\ Consolidate(t, a, target, u)
       ELSE UNCHANGED <<status, web, session, challenge>>
    /\ Ends(t)
    /\ UNCHANGED <<qq, people, owned, begun>>

\* The row a consume waits for.
Wanted(t) == CASE task[t].at = "consume" -> {<<"challenge", task[t].code>>}
               [] task[t].at = "source" ->
                    {<<r, challenge[task[t].code].account>> : r \in {"account", "shared"}}
               [] task[t].at = "subject" -> {<<"qq", task[t].subject>>}
               [] task[t].at = "target" -> {<<r, task[t].owner>> : r \in {"account", "shared"}}
               [] task[t].at = "insert" ->
                    {<<"account", task[t].account>>} \cup
                    {<<"challenge", c>> : c \in {x \in Codes : challenge[x].account = task[t].account
                                                            /\ challenge[x].status = "pending"}}
               [] OTHER -> {}
WaitsFor(t, o) == Wanted(t) \cap rows[o] # {}

\* PostgreSQL aborts one of two that wait for each other; retryable_transaction
\* runs the whole command again, three times at most.
Deadlock(t) ==
    /\ task[t].at \in {"source", "subject", "target"}
    /\ \E o \in Tasks \ {t} : WaitsFor(t, o) /\ WaitsFor(o, t)
    /\ IF task[t].attempt < 3
       THEN /\ task' = [task EXCEPT ![t] =
                   [Idle EXCEPT !.at = "consume", !.code = task[t].code,
                                !.subject = task[t].subject, !.attempt = task[t].attempt + 1]]
            /\ rows' = [rows EXCEPT ![t] = {}]
       ELSE Ends(t)
    /\ UNCHANGED <<status, binds, people, challenge, owned, begun>>

-----------------------------------------------------------------------------
(* bootstrap_identity, the administrator's tool. *)

BootstrapReads(t) == \E u \in Users, s \in Subjects :
    /\ Begin(t, "bootstrap")
    /\ ~(web[u] # None /\ qq[s] # None)
    /\ task' = [task EXCEPT ![t] = [Idle EXCEPT !.at = "bootstrap", !.user = u, !.subject = s,
                                        !.account = IF web[u] # None THEN web[u] ELSE qq[s]]]
    /\ UNCHANGED <<status, binds, people, challenge, owned, rows>>

\* Inserts that skip a binding made meanwhile; the result is what was read.
Bootstrap(t) == LET u == task[t].user
                    s == task[t].subject IN
    /\ task[t].at = "bootstrap"
    /\ \E a \in Accounts :
        /\ IF task[t].account = None
           THEN Fresh(a) /\ status' = [status EXCEPT ![a] = "active"]
           ELSE a = task[t].account /\ Free(t, <<"account", a>>) /\ UNCHANGED status
        /\ web' = IF web[u] = None THEN [web EXCEPT ![u] = a] ELSE web
        /\ qq' = IF qq[s] = None THEN [qq EXCEPT ![s] = a] ELSE qq
        /\ task' = [task EXCEPT ![t].at = "told", ![t].account = a]
    /\ UNCHANGED <<session, people, challenge, owned, rows, begun>>

Told(t) ==
    /\ task[t].at = "told"
    /\ Ends(t)
    /\ UNCHANGED <<status, binds, people, challenge, owned, begun>>

-----------------------------------------------------------------------------
Steps(t) ==
    \/ IssueReads(t) \/ Issue(t)
    \/ OpenReads(t) \/ Open(t) \/ Opened(t) \/ CreateDirectory(t) \/ CreateUpload(t)
    \/ Claim(t) \/ Check(t) \/ CreateConversation(t)
    \/ Lookup(t) \/ LockSource(t) \/ LockSubject(t) \/ Bind(t) \/ Target(t) \/ Deadlock(t)
    \/ Bootstrap(t) \/ Told(t)

Next ==
    \/ \E t \in Tasks : Register(t) \/ Login(t) \/ Logout(t) \/ Authenticate(t)
                        \/ Consume(t) \/ BootstrapReads(t) \/ Steps(t)
    \/ \E c \in Codes : Expire(c)

Spec == Init /\ [][Next]_vars
\* Threads run; PostgreSQL detects deadlocks.
FairSpec == Spec /\ \A t \in Tasks : WF_vars(Steps(t))

-----------------------------------------------------------------------------
TypeOK ==
    /\ status \in [Accounts -> {"none", "active", "disabled"}]
    /\ web \in [Users -> Accounts \cup {None}]
    /\ qq \in [Subjects -> Accounts \cup {None}]
    /\ session \in [Users -> Accounts \cup {None}]
    /\ owned \in [Accounts -> SUBSET Kinds]
    /\ challenge \in [Codes -> [status : {"none", "pending", "completed", "cancelled"},
                                account : Accounts \cup {None},
                                subject : Subjects \cup {None}, late : BOOLEAN]]
    /\ \A a \in Accounts : Fresh(a) => owned[a] = {} /\ a \notin invited
    /\ \A t \in Tasks : task[t].at = "idle" => rows[t] = {}

\* A challenge that was completed names the subject it proved, and that subject
\* belongs to the account the challenge shows (consume_qq_challenge).
CompletedIsBound == \A c \in Codes : challenge[c].status = "completed" =>
    Active(challenge[c].account) /\ qq[challenge[c].subject] = challenge[c].account

\* Self-service gives an account at most one QQ and one Web identity, however
\* the messages with its codes race (other_qq, active_web).
OneIdentityEach ==
    /\ \A r, s \in Subjects : qq[r] = qq[s] /\ qq[r] # None => r = s
    /\ \A u, v \in Users : web[u] = web[v] /\ web[u] # None => u = v

\* A live session works on the account its binding belongs to, an active one
\* (the sessions move with the binding).
SessionFollows == \A u \in Users : session[u] # None => session[u] = web[u] /\ Active(web[u])

\* A conversation is never created in an account that consolidation disabled.
ConversationsAreKept == \A a \in Accounts : status[a] = "disabled" => "conversation" \notin owned[a]

\* The accounts an invite provisioned are the redemptions it counts.
InviteIsExact == Cardinality(invited) = redemptions /\ redemptions <= MaxInvite

\* Every operation ends, also when two consumes lock their accounts crosswise.
OperationsEnd == \A t \in Tasks : task[t].at # "idle" ~> task[t].at = "idle"

\* Accounts, identities, sessions and challenges agree, whichever operations overlap.
Safety ==
    /\ TypeOK
    /\ CompletedIsBound
    /\ OneIdentityEach
    /\ SessionFollows
    /\ ConversationsAreKept
    /\ InviteIsExact

=============================================================================
