--------------------------- MODULE ResourceAccess ---------------------------
(***************************************************************************)
(* What the Runs of one conversation may read of the Workspace, and what   *)
(* they may change there: grants on a tree of entries, candidates frozen   *)
(* when a Run is created, versions fixed when an entry is selected,        *)
(* revocation, the check before a model request, and the version chain of  *)
(* an entry with its compare-and-set update.                               *)
(*                                                                         *)
(* A transaction that reads permissions and writes access facts takes two  *)
(* steps here. Between them it holds the lock of its account: FOR UPDATE   *)
(* in a fenced transaction of the Worker (assert_execution_fence), FOR KEY *)
(* SHARE in a command of the user (the foreign key of its idempotency      *)
(* row). Revocations of grants take the lock FOR UPDATE; moves and removals *)
(* of entries and revocations of attachments take it only to cancel a Run. *)
(***************************************************************************)
EXTENDS Naturals, Sequences, FiniteSets

CONSTANTS Root, Dirs,      \* directories of the Workspace
          Entries,         \* file entries, existing ones and those a save may create
          InitialParent,   \* directory of each directory and entry, "none" if not there yet
          InitialFile,     \* the immutable file of each entry, "none" if not there yet
          Files, Uploaded, \* ready files of the account; those uploaded to this conversation
          OutputOf,        \* the output each Run publishes
          Runs,            \* Runs of the conversation, one active at a time
          InitialGrants,   \* grants [node, op, recursive] that are never revoked
          Grantable,       \* those the user grants and revokes
          Ops,             \* operation ids of updates and saves
          Moves, Removable \* <<node, directory>> pairs the user moves; nodes the user removes

AccessAssumption ==
  /\ Root \in Dirs /\ Dirs \cap Entries = {}
  /\ InitialParent \in [Dirs \cup Entries -> Dirs \cup {"none"}]
  /\ InitialFile \in [Entries -> Files \cup {"none"}]
  /\ Uploaded \subseteq Files
  /\ OutputOf \in [Runs -> Files]
  /\ InitialGrants \cap Grantable = {}

VARIABLES parent, live, file, chain,   \* workspace_nodes, persistent_file_revisions
          grants, attached,            \* resource_grants, conversation_resource_files
          status, cand, fixed, access, \* a Run: its row, candidates and access facts
          txn,                         \* what an open transaction will write for a Run
          request,                     \* the files of the model request that was checked
          published,                   \* Runs whose output is published
          ops, told                    \* operation records; the answers given for them

vars == <<parent, live, file, chain, grants, attached, status, cand, fixed, access,
          txn, request, published, ops, told>>
tree == <<parent, live>>
content == <<file, chain>>
policy == <<grants, attached>>
inputs == <<cand, fixed, access>>
records == <<published, ops, told>>

Nodes == Dirs \cup Entries
None == "none"
Closed == [kind |-> "none"]
NotFixed == [file |-> None, revision |-> 0]

Init ==
  /\ parent = InitialParent
  /\ live = [n \in Nodes |-> n = Root \/ InitialParent[n] # None]
  /\ file = InitialFile
  /\ chain = [e \in Entries |-> <<>>]
  /\ grants = InitialGrants
  /\ attached = [f \in Files |-> "never"]
  /\ status = [r \in Runs |-> "none"]
  /\ cand = [r \in Runs |-> {}]
  /\ fixed = [r \in Runs |-> [e \in Entries |-> NotFixed]]
  /\ access = [r \in Runs |-> {}]
  /\ txn = [r \in Runs |-> Closed]
  /\ request = [r \in Runs |-> {}]
  /\ published = {}
  /\ ops = [o \in Ops |-> Closed]
  /\ told = [o \in Ops |-> {}]

(***************************************************************************)
(* Locks.                                                                  *)
(***************************************************************************)
AccountFree == \A r \in Runs : txn[r].kind = "none"
Shareable == \A r \in Runs : txn[r].kind # "select"
Active(r) == status[r] = "active"
NoActive == \A r \in Runs : status[r] \notin {"active", "cancelling"}

(***************************************************************************)
(* The tree and the permissions on it.                                     *)
(***************************************************************************)
Depth == Cardinality(Nodes)
AncestorsOf(n) ==
  LET up[k \in 0..Depth] ==
        IF k = 0 THEN {n} ELSE up[k-1] \cup ({parent[m] : m \in up[k-1]} \ {None})
  IN up[Depth]
Whole(n) == \A m \in AncestorsOf(n) : live[m]

(* _grants: on the node itself, or recursive on a directory above it; no dead ancestor. *)
Granted(n, op) ==
  /\ Whole(n)
  /\ \E g \in grants : /\ g.op = op
                       /\ g.node \in AncestorsOf(n)
                       /\ g.node = n \/ g.recursive

Current(e) == IF chain[e] # <<>> THEN chain[e][Len(chain[e])] ELSE file[e]
Revision(e) == Len(chain[e])

(* _subject_file_authorized_in_uow, for the inputs of a Run. *)
Basis(a) ==
  \/ a.basis = "attachment" /\ attached[a.file] = "available"
  \/ a.basis = "grant" /\ Granted(a.node, "read_content")
Authorized(r, f) == \E a \in access[r] : a.file = f /\ Basis(a)
Selected(r) == {a.file : a \in access[r]}

Lost(r, g) == \E a \in access[r] : a.basis = "grant" /\ ~Authorized(r, a.file)'

Cancelled(rs) == status' = [r \in Runs |-> IF r \in rs THEN "cancelling" ELSE status[r]]

(***************************************************************************)
(* Commands on grants and attachments.                                     *)
(***************************************************************************)
Grant(g) ==
  /\ AccountFree
  /\ live[g.node]
  /\ g \notin grants
  /\ grants' = grants \cup {g}
  /\ UNCHANGED <<tree, content, attached, status, inputs, txn, request, records>>

(* The denial, the scan and the intents to cancel are one transaction. *)
Revoke(g) ==
  /\ AccountFree
  /\ g \in grants
  /\ grants' = grants \ {g}
  /\ UNCHANGED <<tree, content, attached, inputs, txn, request, records>>
  /\ Cancelled({r \in Runs : Active(r) /\ Lost(r, g.node)})

(* Attachments: the account is locked only if there is a Run to cancel. *)
RevokeAttachment(f) ==
  /\ attached[f] = "available"
  /\ attached' = [attached EXCEPT ![f] = "revoked"]
  /\ UNCHANGED <<tree, content, grants, inputs, txn, request, records>>
  /\ LET affected == {r \in Runs : /\ Active(r)
                                   /\ \E a \in access[r] : a.basis = "attachment" /\ a.file = f
                                   /\ ~Authorized(r, f)'}
     IN Cancelled(affected) /\ (affected # {} => AccountFree)

(***************************************************************************)
(* The tree: each change holds the row of the Workspace.                   *)
(***************************************************************************)
StopInvalid ==
  LET affected == {r \in Runs : Active(r) /\ Lost(r, Root)}
  IN Cancelled(affected) /\ (affected # {} => AccountFree)

Outside(n, d) == n \notin AncestorsOf(d)

Move(n, d) ==
  /\ n # Root /\ live[n]
  /\ live[d] /\ Outside(n, d)
  /\ parent[n] # d
  /\ parent' = [parent EXCEPT ![n] = d]
  /\ UNCHANGED <<live, content, policy, inputs, txn, request, records>>
  /\ StopInvalid

(* A directory goes only when it is empty. *)
Empty(n) == \A m \in Nodes : live[m] => parent[m] # n
Remove(n) ==
  /\ n # Root /\ live[n] /\ Empty(n)
  /\ live' = [live EXCEPT ![n] = FALSE]
  /\ UNCHANGED <<parent, content, policy, inputs, txn, request, records>>
  /\ StopInvalid

CreateDirectory(n, d) ==
  /\ n \in Dirs /\ parent[n] = None /\ n # Root
  /\ live[d]
  /\ parent' = [parent EXCEPT ![n] = d]
  /\ live' = [live EXCEPT ![n] = TRUE]
  /\ UNCHANGED <<content, policy, status, inputs, txn, request, records>>

(***************************************************************************)
(* A Run begins: by a message with a file, or as the retry of one that     *)
(* ended. The rights are read first, the facts written later.              *)
(***************************************************************************)
(* _explicit_file_authority; the first entry with a grant is taken. *)
FromHere(f) == f \in Uploaded \/ \E q \in published : OutputOf[q] = f
Authority(f) ==
  CASE attached[f] = "available" \/ (FromHere(f) /\ attached[f] = "never") ->
         {[basis |-> "attachment", node |-> None, file |-> f]}
    [] FromHere(f) /\ attached[f] = "revoked" -> {}
    [] OTHER -> {[basis |-> "grant", node |-> e, file |-> f] :
                   e \in {x \in Entries : /\ live[x] /\ Current(x) = f
                                          /\ Granted(x, "read_content")}}

Wanted(f) == IF f = None THEN {{}} ELSE {{a} : a \in Authority(f)}
SendReads(r, f) ==
  /\ status[r] = "none" /\ NoActive /\ Shareable
  /\ \A q \in Runs : txn[q].kind \notin {"send", "retry"}
  /\ \E as \in Wanted(f) :
       txn' = [txn EXCEPT ![r] = [kind |-> "send", access |-> as]]
  /\ UNCHANGED <<tree, content, policy, status, inputs, request, records>>

(* snapshot_in_uow reads tree and policy when it is reached. *)
SendCommits(r) ==
  /\ txn[r].kind = "send"
  /\ status' = [status EXCEPT ![r] = "active"]
  /\ access' = [access EXCEPT ![r] = txn[r].access]
  /\ attached' = [f \in Files |->
       IF attached[f] = "never" /\ \E a \in txn[r].access : a.basis = "attachment" /\ a.file = f
         THEN "available" ELSE attached[f]]
  /\ cand' = [cand EXCEPT ![r] = {e \in Entries : live[e] /\ Granted(e, "list_metadata")}]
  /\ txn' = [txn EXCEPT ![r] = Closed]
  /\ UNCHANGED <<tree, content, grants, fixed, request, records>>

(* copy_retry_in_uow: what was frozen and fixed is taken over, every basis must hold. *)
RetryReads(r, source) ==
  /\ status[r] = "none" /\ status[source] = "failed" /\ NoActive /\ Shareable
  /\ \A q \in Runs : txn[q].kind \notin {"send", "retry"}
  /\ \A a \in access[source] : Basis(a)
  /\ txn' = [txn EXCEPT ![r] = [kind |-> "retry", access |-> access[source],
                                cand |-> cand[source], fixed |-> fixed[source]]]
  /\ UNCHANGED <<tree, content, policy, status, inputs, request, records>>

RetryCommits(r) ==
  /\ txn[r].kind = "retry"
  /\ status' = [status EXCEPT ![r] = "active"]
  /\ access' = [access EXCEPT ![r] = txn[r].access]
  /\ cand' = [cand EXCEPT ![r] = txn[r].cand]
  /\ fixed' = [fixed EXCEPT ![r] = txn[r].fixed]
  /\ txn' = [txn EXCEPT ![r] = Closed]
  /\ UNCHANGED <<tree, content, policy, request, records>>

ToFix(r, e) ==
  IF fixed[r][e] # NotFixed THEN fixed[r][e] ELSE [file |-> Current(e), revision |-> Revision(e)]

SelectReads(r, e) ==
  /\ AccountFree
  /\ Active(r)
  /\ e \in cand[r]
  /\ Granted(e, "list_metadata") /\ Granted(e, "read_content")
  /\ txn' = [txn EXCEPT ![r] = [kind |-> "select", entry |-> e, fix |-> ToFix(r, e)]]
  /\ UNCHANGED <<tree, content, policy, status, inputs, request, records>>

SelectCommits(r) ==
  LET t == txn[r] IN
  /\ t.kind = "select"
  /\ fixed' = [fixed EXCEPT ![r][t.entry] = t.fix]
  /\ access' = [access EXCEPT ![r] =
       @ \cup {[basis |-> "grant", node |-> t.entry, file |-> t.fix.file]}]
  /\ txn' = [txn EXCEPT ![r] = Closed]
  /\ UNCHANGED <<tree, content, policy, status, cand, request, records>>

MayBeSent(r) == \A f \in Selected(r) : Authorized(r, f)
CheckDispatch(r) ==
  /\ AccountFree
  /\ Active(r)
  /\ MayBeSent(r)
  /\ request' = [request EXCEPT ![r] = Selected(r)]
  /\ UNCHANGED <<tree, content, policy, status, inputs, txn, records>>

(* The request is registered in a fenced transaction of its own, and sent. *)
Dispatch(r) ==
  /\ AccountFree
  /\ Active(r)
  /\ request[r] # {}
  /\ request' = [request EXCEPT ![r] = {}]
  /\ UNCHANGED <<tree, content, policy, status, inputs, txn, records>>

Finish(r, outcome) ==
  /\ AccountFree
  /\ IF outcome = "cancelled" THEN status[r] = "cancelling" ELSE Active(r)
  /\ status' = [status EXCEPT ![r] = outcome]
  /\ request' = [request EXCEPT ![r] = {}]
  /\ UNCHANGED <<tree, content, policy, inputs, txn, records>>

(***************************************************************************)
(* Versions and saved outputs.                                             *)
(***************************************************************************)
PublishOutput(r) ==
  /\ AccountFree /\ Active(r) /\ r \notin published
  /\ published' = published \cup {r}
  /\ UNCHANGED <<tree, content, policy, status, inputs, txn, request, ops, told>>

Upgrade(e) ==
  /\ live[e] /\ file[e] # None
  /\ chain' = [chain EXCEPT ![e] = <<file[e]>>]
  /\ file' = [file EXCEPT ![e] = None]
  /\ UNCHANGED <<tree, policy, status, inputs, txn, request, records>>

Answer(o) == ops[o]
Repeat(o) ==
  /\ ops[o].kind # "none"
  /\ told' = [told EXCEPT ![o] = @ \cup {Answer(o)}]
  /\ UNCHANGED <<tree, content, policy, status, inputs, txn, request, published, ops>>

BasedOn(r, e) ==
  /\ fixed[r][e] = [file |-> Current(e), revision |-> Revision(e)]
  /\ [basis |-> "grant", node |-> e, file |-> Current(e)] \in access[r]

(* update_file: the caller names the version it expects; it is still the current one. *)
Update(o, r, e) ==
  LET done == [kind |-> "update", run |-> r, entry |-> e, revision |-> Revision(e) + 1] IN
  /\ AccountFree
  /\ ops[o].kind = "none"
  /\ live[e] /\ chain[e] # <<>>
  /\ status[r] \in {"active", "succeeded"}
  /\ Granted(e, "update_content")
  /\ BasedOn(r, e)
  /\ r \in published
  /\ chain' = [chain EXCEPT ![e] = Append(@, OutputOf[r])]
  /\ ops' = [ops EXCEPT ![o] = done]
  /\ told' = [told EXCEPT ![o] = {done}]
  /\ UNCHANGED <<tree, file, policy, status, inputs, txn, request, published>>

(* save_file by a Run: a new entry in a directory. *)
Save(o, r, e, d) ==
  LET done == [kind |-> "save", run |-> r, entry |-> e, revision |-> 0] IN
  /\ AccountFree
  /\ ops[o].kind = "none"
  /\ Active(r) /\ r \in published
  /\ parent[e] = None /\ live[d]
  /\ Granted(d, "create_child")
  /\ parent' = [parent EXCEPT ![e] = d]
  /\ live' = [live EXCEPT ![e] = TRUE]
  /\ file' = [file EXCEPT ![e] = OutputOf[r]]
  /\ ops' = [ops EXCEPT ![o] = done]
  /\ told' = [told EXCEPT ![o] = {done}]
  /\ UNCHANGED <<chain, policy, status, inputs, txn, request, published>>

Commands ==
  \/ \E g \in Grantable : Grant(g) \/ Revoke(g)
  \/ \E f \in Files : RevokeAttachment(f)
  \/ \E m \in Moves : Move(m[1], m[2])
  \/ \E n \in Removable : Remove(n)
  \/ \E m \in Moves : CreateDirectory(m[1], m[2])
  \/ \E r \in Runs : \/ \E f \in Files \cup {None} : SendReads(r, f)
                     \/ SendCommits(r)
                     \/ \E s \in Runs : RetryReads(r, s)
                     \/ RetryCommits(r)
Worker(r) ==
  \/ \E e \in Entries : SelectReads(r, e)
  \/ SelectCommits(r) \/ CheckDispatch(r) \/ Dispatch(r) \/ PublishOutput(r)
  \/ \E outcome \in {"succeeded", "failed", "cancelled"} : Finish(r, outcome)
Versions ==
  \/ \E e \in Entries : Upgrade(e)
  \/ \E o \in Ops : \/ Repeat(o)
                    \/ \E r \in Runs, e \in Entries : Update(o, r, e)
                    \/ \E r \in Runs, e \in Entries, d \in Dirs : Save(o, r, e, d)
Next == Commands \/ Versions \/ \E r \in Runs : Worker(r)

Spec == Init /\ [][Next]_vars

-----------------------------------------------------------------------------
TypeOK ==
  /\ parent \in [Nodes -> Dirs \cup {None}]
  /\ live \in [Nodes -> BOOLEAN]
  /\ file \in [Entries -> Files \cup {None}]
  /\ \A e \in Entries : chain[e] \in Seq(Files) /\ ~(chain[e] # <<>> /\ file[e] # None)
  /\ grants \subseteq Grantable \cup InitialGrants
  /\ attached \in [Files -> {"never", "available", "revoked"}]
  /\ status \in [Runs -> {"none", "active", "cancelling", "succeeded", "failed", "cancelled"}]
  /\ cand \in [Runs -> SUBSET Entries]
  /\ fixed \in [Runs -> [Entries -> [file : Files \cup {None}, revision : Nat]]]
  /\ \A r \in Runs : request[r] \subseteq Selected(r)

(* Every live node hangs below the root, through live directories only, whatever *)
(* moves, removals and creations follow each other (enforce_workspace_node).     *)
TreeIsWhole ==
  \A n \in Nodes : live[n] => /\ \A m \in AncestorsOf(n) : live[m]
                              /\ Root \in AncestorsOf(n)
                              /\ \A d \in Dirs : (d # n /\ d \in AncestorsOf(n)) => n \notin AncestorsOf(d)

(* A model request is sent only while every input it was prepared with still has a    *)
(* valid basis, although the check came before (check_dispatch: "Recheck selected     *)
(* inputs after capacity waiting, immediately before sending").                       *)
SentIsAuthorized == \A r \in Runs : Dispatch(r) => \A f \in request[r] : Authorized(r, f)

(* An input selected in the Workspace that has lost every basis is an input of no Run *)
(* that goes on (ResourcePolicy.revoke, stop_invalid_in_uow: "Fence active Runs whose *)
(* selected Workspace inputs lost every basis").                                      *)
LostIsCancelled ==
  \A r \in Runs : Active(r) =>
    \A a \in access[r] : a.basis = "grant" => Authorized(r, a.file)

(* What a Run has fixed it keeps, also while updates advance the entry, and its retry *)
(* begins with the same versions (_select, copy_retry_in_uow).                         *)
FixedStays ==
    \A r \in Runs, e \in Entries :
      /\ fixed[r][e] # NotFixed => fixed'[r][e] = fixed[r][e]
      /\ fixed'[r][e] # fixed[r][e] /\ status[r] = "none" =>
           \E q \in Runs \ {r} : status[q] = "failed" /\ fixed[q][e] = fixed'[r][e]

(* Every new version of an entry comes from a Run that had fixed the version before: *)
(* no update overwrites one its author has not read (update_file).                   *)
UpdatesBuildOnTheLast ==
  \A o \in Ops : ops[o].kind = "update" =>
    LET e == ops[o].entry
        k == ops[o].revision
    IN fixed[ops[o].run][e] = [file |-> chain[e][k - 1], revision |-> k - 1]

(* However often an operation id is used, the answer is that of the first time ("A    *)
(* committed operation keeps its original result even after the destination advances", *)
(* migration 044).                                                                      *)
AnswersAgree == \A o \in Ops : Cardinality(told[o]) <= 1

\* The tree of Works is whole, updates build on each other and answers agree.
Safety ==
    /\ TypeOK
    /\ TreeIsWhole
    /\ UpdatesBuildOnTheLast
    /\ AnswersAgree
=============================================================================
