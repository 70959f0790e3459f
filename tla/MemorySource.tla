---------------------------- MODULE MemorySource ----------------------------
(***************************************************************************)
(* Long-term memory of completed chat Runs.  A source is registered once,   *)
(* retained in the remote bank under a frozen operation id, and governed    *)
(* afterwards: corrected, invalidated, restored, moved to another scope,    *)
(* deleted with its promoted copies, or quarantined by a resource           *)
(* revocation.  Every change is a durable action with an outbox event;      *)
(* Workers claim events, hold an advisory lock per source while they send,  *)
(* and reconcile with what the bank knows.  A request may be lost and       *)
(* arrive later; a Worker may die or lose its lease between any two steps.  *)
(***************************************************************************)
EXTENDS Naturals, Sequences, FiniteSets

CONSTANTS
    Sources, ParentOf,   \* a promoted copy and the source it was made from; "none" for a chat source
    Workers, NoWorker,
    Decisions,           \* of admission: "allow", "reject", "evidence_required"
    Kinds,               \* governance commands in the instance
    MaxGen,              \* bound on the generation of a source
    MaxFails,            \* failure_count that ends native retries
    Faults,              \* bound on lost answers, outages, crashes and expired leases
    Rejects              \* the bank may refuse a write for good

MemoryAssumption ==
    /\ Decisions \subseteq {"allow", "reject", "evidence_required"}
    /\ Kinds \subseteq {"correct", "invalidate", "restore", "delete", "replace", "revoke"}
    /\ MaxGen \in Nat /\ MaxFails \in Nat /\ Faults \in Nat /\ Rejects \in BOOLEAN

VARIABLES
    st,      \* memory_sources.state, "none" before registration
    gen, cur, manual,   \* generation, current_action_id, manual_curation
    blocked, \* runs.memory_retention_blocked
    acts,    \* memory_actions of a source, oldest first; blind (history): a Worker died
             \* sending the request once more, and nothing on the row says so
    guard,   \* who holds the advisory lock of a source
    wk,      \* the Workers
    rop,     \* the retain operation in the bank
    doc,     \* the document is there
    fact,    \* what its fact says
    flight,  \* requests that may still arrive
    made,    \* retain operations the bank accepted for a source
    faults

source == <<st, gen, cur, manual, blocked>>
remote == <<rop, doc, fact, flight, made>>
vars == <<source, acts, guard, wk, remote, faults>>

Statuses == {"queued", "submitted", "verifying", "uncertain", "verified", "failed"}
Settled == {"verified", "failed"}
Curations == {"correct", "invalidate", "restore", "replace"}
Idle == [s |-> "none", i |-> 0, pc |-> "idle", permitted |-> FALSE, to |-> "queued", fail |-> FALSE]

TypeOK ==
    /\ st \in [Sources -> {"none", "active", "blocked", "quarantined", "forgotten"}]
    /\ gen \in [Sources -> 1 .. MaxGen + 1] /\ manual \in [Sources -> BOOLEAN]
    /\ \A s \in Sources : cur[s] \in 0 .. Len(acts[s])
    /\ blocked \in [Sources -> BOOLEAN]
    /\ \A s \in Sources : \A i \in 1 .. Len(acts[s]) :
         acts[s][i] \in [kind : {"retain", "delete", "revoke"} \cup Curations, gen : 1 .. MaxGen + 1,
                         status : Statuses, send : {"idle", "sending", "settled", "unknown"},
                         unsure : BOOLEAN, blind : BOOLEAN, fails : 0 .. MaxFails, cleaned : BOOLEAN,
                         kids : SUBSET Sources, del : {"pending", "locked", "done"},
                         owner : Workers \cup {NoWorker}]
    /\ guard \in [Sources -> Workers \cup {NoWorker}]
    /\ \A w \in Workers : wk[w].pc # "idle" => wk[w].i \in 1 .. Len(acts[wk[w].s])
    /\ rop \in [Sources -> {"not_found", "pending", "completed", "failed", "cancelled"}]
    /\ doc \in [Sources -> BOOLEAN] /\ fact \in [Sources -> [new : BOOLEAN, valid : BOOLEAN, moved : BOOLEAN]]
    /\ flight \in [Sources -> SUBSET ({"retain", "retry"} \cup Curations)]
    /\ \A s \in Sources : guard[s] # NoWorker => wk[guard[s]].s = s
    /\ made \in [Sources -> Nat] /\ faults \in 0 .. Faults

Each(v) == [s \in Sources |-> v]
Init ==
    /\ st = Each("none") /\ gen = Each(1) /\ cur = Each(0) /\ manual = Each(FALSE) /\ blocked = Each(FALSE)
    /\ acts = Each(<<>>) /\ guard = Each(NoWorker) /\ wk = [w \in Workers |-> Idle]
    /\ rop = Each("not_found") /\ doc = Each(FALSE) /\ flight = Each({}) /\ made = Each(0)
    /\ fact = Each([new |-> FALSE, valid |-> TRUE, moved |-> FALSE]) /\ faults = 0

----------------------------------------------------------------------------
\* The ledger: sources, actions and their events.

Action(kind, g, k) ==
    [kind |-> kind, gen |-> g, status |-> "queued", send |-> "idle", unsure |-> FALSE, blind |-> FALSE,
     fails |-> 0, cleaned |-> FALSE, kids |-> k, del |-> "pending", owner |-> NoWorker]
Current(s) == acts[s][cur[s]]
Registered(s) == st[s] # "none"
IsCurrent(s, i) == cur[s] = i /\ gen[s] = acts[s][i].gen

\* owned: the event is locked by this Worker, in this delivery.
Owned(w) == LET a == acts[wk[w].s][wk[w].i] IN a.del = "locked" /\ a.owner = w

StateOfDecision(s, d) == IF d = "allow" THEN "active" ELSE IF d = "reject" THEN "blocked" ELSE "quarantined"
InitialState(s, d) == IF blocked[s] THEN "quarantined" ELSE StateOfDecision(s, d)

\* register and freeze: the source, its action and the event's end in one transaction.  A
\* promoted copy is registered while its parent is active.
Register(s, d) ==
    /\ st[s] = "none" /\ (ParentOf[s] # "none" => st[ParentOf[s]] = "active" /\ d = "allow")
    /\ st' = [st EXCEPT ![s] = InitialState(s, d)]
    /\ IF InitialState(s, d) = "active"
       THEN acts' = [acts EXCEPT ![s] = <<Action("retain", 1, {})>>] /\ cur' = [cur EXCEPT ![s] = 1]
       ELSE UNCHANGED <<acts, cur>>
    /\ UNCHANGED <<gen, manual, blocked, guard, wk, remote, faults>>

Verified(s, kind) == {i \in 1 .. Len(acts[s]) : acts[s][i].kind = kind /\ acts[s][i].status = "verified"}
\* Promoted copies of s, at any depth.
RECURSIVE Descendants(_)
Descendants(s) ==
    LET C == {c \in Sources : ParentOf[c] = s /\ Registered(c)} IN C \cup UNION {Descendants(c) : c \in C}

\* The restored fact was invalidated by a verified action, and nothing followed.
Targeted(s) == {i \in 1 .. Len(acts[s]) : acts[s][i].kind \in {"correct", "invalidate", "restore"}}
Restorable(s) ==
    \E i \in Targeted(s) : /\ \A j \in Targeted(s) : j <= i
                           /\ acts[s][i].kind = "invalidate" /\ acts[s][i].status = "verified"

\* Only deletion is accepted over an unverified action or a quarantine.
MayFollow(s) == st[s] # "quarantined" /\ cur[s] > 0 /\ Current(s).status = "verified"

\* The sources of T get their next action, of which s waits for kids, and the new state x.
Issue(T, s, kind, kids, x) ==
    /\ \A c \in T : gen[c] <= MaxGen
    /\ acts' = [c \in Sources |-> IF c \notin T THEN acts[c]
          ELSE Append(acts[c], Action(kind, gen[c] + 1, IF c = s THEN kids ELSE {}))]
    /\ st' = [c \in Sources |-> IF c \in T THEN x ELSE st[c]]
    /\ gen' = [c \in Sources |-> IF c \in T THEN gen[c] + 1 ELSE gen[c]]
    /\ cur' = [c \in Sources |-> IF c \in T THEN Len(acts[c]) + 1 ELSE cur[c]]
    /\ UNCHANGED <<blocked, guard, wk, remote, faults>>

\* MemoryGovernanceService.command.  A replayed key changes nothing.
Command(s, kind) ==
    /\ kind \in Kinds \cap {"correct", "invalidate", "restore", "delete"}
    /\ Registered(s) /\ st[s] # "forgotten"
    /\ kind # "delete" => MayFollow(s)
    /\ kind = "restore" => Restorable(s)
    /\ LET T == {s} \cup IF kind = "delete" THEN {c \in Descendants(s) : st[c] # "forgotten"} ELSE {}
       IN /\ Issue(T, s, kind, IF kind = "delete" THEN Descendants(s) ELSE {},
                   IF kind = "delete" THEN "forgotten" ELSE "blocked")
          /\ manual' = [c \in Sources |-> manual[c] \/ c \in T]

\* reconcile_scope: the origin of the source maps to another scope now.
ReconcileScope(s) ==
    /\ "replace" \in Kinds /\ st[s] = "active" /\ MayFollow(s) /\ Verified(s, "replace") = {}
    /\ Issue({s}, s, "replace", {}, "blocked") /\ UNCHANGED manual

\* Variation: a revocation replaces a deletion like any other action.
RevokesAny(s) == Registered(s)
Revokes(s) == Registered(s) /\ st[s] # "forgotten"
\* ResourcePolicy.revoke with record_revocation, for the Run of s.
Revoke(s) ==
    /\ "revoke" \in Kinds /\ ~blocked[s] /\ gen[s] <= MaxGen
    /\ blocked' = [blocked EXCEPT ![s] = TRUE]
    /\ IF Revokes(s)
       THEN /\ acts' = [acts EXCEPT ![s] = Append(@, [Action("revoke", gen[s] + 1, {}) EXCEPT
                                                      !.status = "verified", !.del = "done"])]
            /\ st' = [st EXCEPT ![s] = "quarantined"] /\ gen' = [gen EXCEPT ![s] = @ + 1]
            /\ cur' = [cur EXCEPT ![s] = Len(acts[s]) + 1] /\ manual' = [manual EXCEPT ![s] = TRUE]
       ELSE UNCHANGED <<st, gen, cur, manual, acts>>
    /\ UNCHANGED <<guard, wk, remote, faults>>

----------------------------------------------------------------------------
\* The Workers.

At(w, p) == wk[w].pc = p
S(w) == wk[w].s
A(w) == acts[S(w)][wk[w].i]
Goto(w, p) == wk' = [wk EXCEPT ![w].pc = p]
\* Leave with a status to save.
Saves(w, status, failure) == wk' = [wk EXCEPT ![w].pc = "save", ![w].to = status, ![w].fail = failure]
Free(w) == guard' = [s \in Sources |-> IF guard[s] = w THEN NoWorker ELSE guard[s]]
SetSend(s, i, v) ==
    acts' = [acts EXCEPT ![s][i].send = v, ![s][i].unsure = @ \/ v = "unknown"]
Fault == faults < Faults /\ faults' = faults + 1
Local == UNCHANGED <<source, remote>>

Claim(w, s, i) ==
    /\ At(w, "idle") /\ i \in 1 .. Len(acts[s]) /\ acts[s][i].del = "pending"
    /\ acts' = [acts EXCEPT ![s][i].del = "locked", ![s][i].owner = w]
    /\ wk' = [wk EXCEPT ![w] = [Idle EXCEPT !.s = s, !.i = i, !.pc = "load"]]
    /\ Local /\ UNCHANGED <<guard, faults>>

\* The lease of a delivery expires: under a slow Worker, or after one that gave it up.
Handled(s, i) == \E w \in Workers : wk[w].pc # "idle" /\ wk[w].s = s /\ wk[w].i = i
Expire(s, i) ==
    /\ i \in 1 .. Len(acts[s]) /\ acts[s][i].del = "locked"
    /\ IF Handled(s, i) THEN Fault ELSE UNCHANGED faults
    /\ acts' = [acts EXCEPT ![s][i].del = "pending", ![s][i].owner = NoWorker]
    /\ Local /\ UNCHANGED <<guard, wk>>
\* What a dying Worker may have sent.
InFlight(w) ==
    CASE At(w, "send") \/ At(w, "resend") -> {"retain"} [] At(w, "retry") -> {"retry"}
      [] At(w, "patch") -> {A(w).kind} [] OTHER -> {}
\* Every sender of the retain has answered.
Quiescent(a) == a.send = "settled" /\ ~a.unsure
\* A retain that was refused is sent again by a deletion; only an open send_state is marked.
Unmarked(w) == At(w, "resend") /\ Quiescent(acts[S(w)][1])
Crash(w) ==
    /\ wk[w].pc # "idle" /\ Fault
    /\ flight' = [flight EXCEPT ![S(w)] = @ \cup InFlight(w)]
    /\ wk' = [wk EXCEPT ![w] = Idle] /\ Free(w)
    /\ acts' = [acts EXCEPT ![S(w)][1].blind = @ \/ Unmarked(w),
           ![S(w)][wk[w].i] = IF @.owner = w THEN [@ EXCEPT !.del = "pending", !.owner = NoWorker] ELSE @]
    /\ UNCHANGED <<source, rop, doc, fact, made>>

\* OutboxLeaseLost: the new owner reconciles.
Drop(w) == wk' = [wk EXCEPT ![w] = Idle] /\ Free(w) /\ Local /\ UNCHANGED <<acts, faults>>

Permitted(s, i) == ~blocked[s] /\ st[s] = "active" /\ ~manual[s] /\ IsCurrent(s, i)

\* load_action and what process_event decides from it.
Load(w) ==
    /\ At(w, "load")
    /\ IF ~Owned(w) THEN Drop(w)
       ELSE /\ IF A(w).status \in Settled
               THEN /\ acts' = [acts EXCEPT ![S(w)][wk[w].i].del = "done"] /\ wk' = [wk EXCEPT ![w] = Idle]
               ELSE /\ UNCHANGED acts
                    /\ IF A(w).kind # "retain" THEN Goto(w, "guard")
                       ELSE IF st[S(w)] = "forgotten" \/ (A(w).status = "queued" /\ ~Permitted(S(w), wk[w].i))
                       THEN Saves(w, "failed", FALSE)
                       ELSE wk' = [wk EXCEPT ![w].pc = "query", ![w].to = A(w).status,
                                             ![w].permitted = Permitted(S(w), wk[w].i)]
            /\ Local /\ UNCHANGED <<guard, faults>>

\* save: an old receipt updates the audit of its action, never the new position of the source.
SavedStatus(w) ==
    LET s == S(w) IN
    IF wk[w].to = "verified" /\ (~IsCurrent(s, wk[w].i) \/ (A(w).kind = "retain" /\ (st[s] # "active" \/ manual[s])))
    THEN "uncertain" ELSE wk[w].to
Save(w) ==
    /\ At(w, "save")
    /\ IF ~Owned(w) THEN Drop(w)
       ELSE LET s == S(w)  i == wk[w].i  status == SavedStatus(w) IN
            /\ acts' = [acts EXCEPT ![s][i] = [@ EXCEPT !.status = status,
                   !.fails = IF wk[w].fail /\ @ < MaxFails THEN @ + 1 ELSE @,
                   !.del = IF status \in Settled THEN "done" ELSE "pending", !.owner = NoWorker]]
            /\ st' = [st EXCEPT ![s] = IF status = "verified" /\ A(w).kind \in Curations THEN "active" ELSE @]
            /\ wk' = [wk EXCEPT ![w] = Idle] /\ Free(w)
            /\ UNCHANGED <<gen, cur, manual, blocked, remote, faults>>

----------------------------------------------------------------------------
\* Retain.

\* get_operation first, on every takeover.
Query(w) ==
    LET s == S(w) IN
    /\ At(w, "query")
    /\ CASE rop[s] = "not_found" /\ ~wk[w].permitted -> Saves(w, "uncertain", FALSE)
         [] rop[s] = "not_found" /\ wk[w].permitted -> Goto(w, "lock")
         [] rop[s] = "pending" -> Saves(w, "submitted", FALSE)
         [] rop[s] = "cancelled" -> Saves(w, "failed", FALSE)
         [] rop[s] = "failed" /\ (~wk[w].permitted \/ A(w).fails >= MaxFails) -> Saves(w, "failed", FALSE)
         [] rop[s] = "failed" /\ wk[w].permitted /\ A(w).fails < MaxFails -> Goto(w, "lockretry")
         [] OTHER -> Goto(w, "verify")
    /\ Local /\ UNCHANGED <<acts, guard, faults>>

\* sender_guard
Lock(w) ==
    /\ At(w, "lock") \/ At(w, "lockretry")
    /\ IF guard[S(w)] = NoWorker
       THEN /\ guard' = [guard EXCEPT ![S(w)] = w] /\ Goto(w, IF At(w, "lock") THEN "mark" ELSE "markretry")
       ELSE /\ Saves(w, "uncertain", At(w, "lockretry")) /\ UNCHANGED guard
    /\ Local /\ UNCHANGED <<acts, faults>>

MaySend(w) == Owned(w) /\ Permitted(S(w), wk[w].i)

\* mark_sending: the intent commits before the request.
MarkSending(w) ==
    /\ At(w, "mark") \/ At(w, "markretry")
    /\ IF ~MaySend(w) THEN Drop(w)
       ELSE /\ acts' = [acts EXCEPT ![S(w)][wk[w].i] = [@ EXCEPT !.status = "submitted",
                              !.unsure = @ \/ A(w).send = "sending", !.send = "sending"]]
            /\ wk' = [wk EXCEPT ![w].pc = IF At(w, "mark") THEN "send" ELSE "retry", ![w].to = "submitted"]
            /\ Local /\ UNCHANGED <<guard, faults>>

\* The bank knows a request by its operation id.
IsNew(s) == rop[s] = "not_found"
Accept(s) ==
    /\ rop' = [rop EXCEPT ![s] = IF IsNew(s) THEN "pending" ELSE @]
    /\ made' = [made EXCEPT ![s] = IF IsNew(s) THEN @ + 1 ELSE @]

\* retain_document and the send_state that follows, with the lock's release.
Send(w) ==
    LET s == S(w) IN
    /\ At(w, "send") /\ Free(w)
    /\ \/ /\ Accept(s) /\ SetSend(s, wk[w].i, "settled") /\ Saves(w, "submitted", FALSE)
          /\ UNCHANGED <<flight, faults>>
       \/ /\ Rejects /\ IsNew(s) /\ SetSend(s, wk[w].i, "settled") /\ Saves(w, "failed", TRUE)
          /\ UNCHANGED <<rop, made, flight, faults>>
       \/ /\ Fault /\ SetSend(s, wk[w].i, "unknown") /\ Saves(w, "uncertain", TRUE)
          /\ flight' = [flight EXCEPT ![s] = @ \cup {"retain"}] /\ UNCHANGED <<rop, made>>
    /\ UNCHANGED <<source, doc, fact>>

\* retry_operation; a refusal is a conflict (409) with a retry that was accepted before, or for good.
Retry(w) ==
    LET s == S(w) IN
    /\ At(w, "retry") /\ Free(w)
    /\ \/ /\ rop[s] = "failed" /\ rop' = [rop EXCEPT ![s] = "pending"]
          /\ SetSend(s, wk[w].i, "settled") /\ Saves(w, "submitted", TRUE) /\ UNCHANGED <<flight, faults>>
       \/ /\ rop[s] # "failed" /\ SetSend(s, wk[w].i, "unknown") /\ Saves(w, "uncertain", FALSE)
          /\ UNCHANGED <<rop, flight, faults>>
       \/ /\ Rejects /\ SetSend(s, wk[w].i, "unknown") /\ Saves(w, "failed", TRUE)
          /\ UNCHANGED <<rop, flight, faults>>
       \/ /\ Fault /\ SetSend(s, wk[w].i, "unknown") /\ Saves(w, "uncertain", TRUE)
          /\ flight' = [flight EXCEPT ![s] = @ \cup {"retry"}] /\ UNCHANGED rop
    /\ UNCHANGED <<source, doc, fact, made>>

\* mark_verifying and get_document.
Verify(w) ==
    /\ At(w, "verify")
    /\ IF ~Owned(w) THEN Drop(w)
       ELSE /\ acts' = [acts EXCEPT ![S(w)][wk[w].i].status = "verifying"]
            /\ wk' = [wk EXCEPT ![w].pc = "read", ![w].to = "verifying"]
            /\ Local /\ UNCHANGED <<guard, faults>>
ReadDocument(w) ==
    /\ At(w, "read") /\ Saves(w, IF doc[S(w)] THEN "verified" ELSE "failed", ~doc[S(w)])
    /\ Local /\ UNCHANGED <<acts, guard, faults>>

----------------------------------------------------------------------------
\* MemoryGovernanceWorker: the lock is held until the outcome is saved.

Guard(w) ==
    /\ At(w, "guard")
    /\ IF guard[S(w)] = NoWorker THEN guard' = [guard EXCEPT ![S(w)] = w] /\ Goto(w, "gov")
                                 ELSE Saves(w, "uncertain", FALSE) /\ UNCHANGED guard
    /\ Local /\ UNCHANGED <<acts, faults>>

Unsure(a) == a.send \in {"sending", "unknown"} \/ a.unsure
SupersededStatus(a) == IF Unsure(a) THEN "uncertain" ELSE "failed"
\* advance, after the lock: a superseded action ends; the others are carried out.
Advance(w) ==
    LET a == A(w) IN
    /\ At(w, "gov")
    /\ IF ~Owned(w) THEN Drop(w)
       ELSE /\ IF ~IsCurrent(S(w), wk[w].i) THEN Saves(w, SupersededStatus(a), FALSE)
               ELSE IF a.kind # "delete" THEN Goto(w, "fact")
               ELSE IF \E c \in a.kids : Current(c).status # "verified" THEN Saves(w, "verifying", FALSE)
               ELSE Goto(w, IF a.cleaned THEN "remove" ELSE "predecessors")
            /\ Local /\ UNCHANGED <<acts, guard, faults>>

\* Predecessors of a deletion.  Only the first action of a source is a retain.
Before(w) == 1 .. wk[w].i - 1
Retained(s) == Len(acts[s]) > 0 /\ acts[s][1].kind = "retain"

Predecessors(w) ==
    LET s == S(w) IN
    /\ At(w, "predecessors")
    /\ IF \E i \in Before(w) : acts[s][i].kind \notin {"retain", "revoke"} /\ (Unsure(acts[s][i]) \/ acts[s][i].status \notin Settled)
       THEN Saves(w, "uncertain", TRUE)                             \* memory_predecessor_unresolved
       ELSE Goto(w, IF Retained(s) /\ acts[s][1].send # "idle" THEN "operation" ELSE "evidence")
    /\ Local /\ UNCHANGED <<acts, guard, faults>>

\* The registered operation must have ended, and its sender must be known to be done.
Operation(w) ==
    LET s == S(w) IN
    /\ At(w, "operation")
    /\ CASE rop[s] = "not_found" -> /\ Goto(w, "resend")
                                    /\ IF acts[s][1].send \in {"sending", "unknown"} THEN SetSend(s, 1, "unknown")
                                       ELSE UNCHANGED acts
         [] rop[s] # "not_found" /\ ~Quiescent(acts[s][1]) -> Saves(w, "uncertain", TRUE) /\ UNCHANGED acts
         [] rop[s] = "pending" /\ Quiescent(acts[s][1]) -> Saves(w, "verifying", FALSE) /\ UNCHANGED acts
         [] OTHER -> Goto(w, "evidence") /\ UNCHANGED acts
    /\ Local /\ UNCHANGED <<guard, faults>>

\* The frozen request once more: identity must be known before dedup is removed.
Resend(w) ==
    LET s == S(w) IN
    /\ At(w, "resend")
    /\ \/ Accept(s) /\ Saves(w, "verifying", FALSE) /\ UNCHANGED <<acts, flight, faults>>
       \/ /\ Rejects /\ IsNew(s) /\ SetSend(s, 1, "unknown") /\ Saves(w, "failed", FALSE)
          /\ UNCHANGED <<rop, made, flight, faults>>
       \/ /\ Fault /\ SetSend(s, 1, "unknown") /\ Saves(w, "uncertain", TRUE)
          /\ flight' = [flight EXCEPT ![s] = @ \cup {"retain"}] /\ UNCHANGED <<rop, made>>
    /\ UNCHANGED <<source, doc, fact, guard>>

Progress(a) == TRUE
\* maintenance_evidence, and progress before anything is removed.
Evidence(w) ==
    /\ At(w, "evidence") /\ acts' = [acts EXCEPT ![S(w)][wk[w].i].cleaned = Progress(A(w))]
    /\ Goto(w, "remove") /\ Local /\ UNCHANGED <<guard, faults>>

\* delete_document with the reads before and after it.
Remove(w) ==
    LET s == S(w) IN
    /\ At(w, "remove")
    /\ \/ doc' = [doc EXCEPT ![s] = FALSE] /\ Goto(w, "clean") /\ UNCHANGED faults
       \/ Fault /\ doc' \in {doc, [doc EXCEPT ![s] = FALSE]} /\ Saves(w, "uncertain", TRUE)
       \/ Rejects /\ doc[s] /\ Saves(w, "failed", FALSE) /\ UNCHANGED <<doc, faults>>
    /\ UNCHANGED <<source, acts, guard, rop, fact, flight, made>>
\* delete_operation: from here on the bank does not know the retain any more.
Clean(w) ==
    LET s == S(w) IN
    /\ At(w, "clean")
    /\ \/ rop' = [rop EXCEPT ![s] = "not_found"] /\ Saves(w, "verified", FALSE) /\ UNCHANGED faults
       \/ Fault /\ rop' \in {rop, [rop EXCEPT ![s] = "not_found"]} /\ Saves(w, "uncertain", TRUE)
    /\ UNCHANGED <<source, acts, guard, doc, fact, flight, made>>

\* What a patch of this kind makes of the fact.
Patched(kind, f) ==
    CASE kind = "correct" -> [f EXCEPT !.new = TRUE] [] kind = "invalidate" -> [f EXCEPT !.valid = FALSE]
      [] kind = "restore" -> [f EXCEPT !.valid = TRUE] [] OTHER -> [f EXCEPT !.moved = TRUE]

\* Variation: a curation whose sender was lost is sent again.
SendAgain(a) == FALSE
Unknown(a) == Unsure(a)
\* curate up to the write: an uncertain one is only looked at, one that already holds is not sent.
ReadFact(w) ==
    LET s == S(w)  a == A(w) IN
    /\ At(w, "fact") /\ a.kind # "replace"
    /\ IF ~doc[s] THEN Saves(w, "failed", FALSE) /\ UNCHANGED acts
       ELSE IF Unknown(a) THEN Saves(w, "uncertain", TRUE) /\ UNCHANGED acts
       ELSE IF fact[s] = Patched(a.kind, fact[s]) THEN Goto(w, "check") /\ UNCHANGED acts
       ELSE Goto(w, "patch") /\ SetSend(s, wk[w].i, "sending")
    /\ Local /\ UNCHANGED <<guard, faults>>
\* change_scope up to the write, which is always sent.
ReadScope(w) ==
    LET s == S(w)  a == A(w) IN
    /\ At(w, "fact") /\ a.kind = "replace"
    /\ IF ~doc[s] THEN Saves(w, "failed", FALSE) /\ UNCHANGED acts
       ELSE IF Unknown(a) THEN Saves(w, "uncertain", TRUE) /\ UNCHANGED acts
       ELSE Goto(w, "patch") /\ SetSend(s, wk[w].i, "sending")
    /\ Local /\ UNCHANGED <<guard, faults>>
\* write
Patch(w) ==
    LET s == S(w)  kind == A(w).kind IN
    /\ At(w, "patch")
    /\ \/ /\ fact' = [fact EXCEPT ![s] = Patched(kind, @)] /\ SetSend(s, wk[w].i, "settled")
          /\ Goto(w, "check") /\ UNCHANGED <<flight, faults>>
       \/ /\ Rejects /\ SetSend(s, wk[w].i, "settled") /\ Saves(w, "failed", FALSE) /\ UNCHANGED <<fact, flight, faults>>
       \/ /\ Fault /\ SetSend(s, wk[w].i, "unknown") /\ Saves(w, "uncertain", TRUE)
          /\ flight' = [flight EXCEPT ![s] = @ \cup {kind}] /\ UNCHANGED fact
    /\ UNCHANGED <<source, guard, rop, doc, made>>
\* The fact is read back, and old observations must be gone.
Check(w) ==
    LET s == S(w) IN
    /\ At(w, "check")
    /\ IF doc[s] /\ fact[s] = Patched(A(w).kind, fact[s]) THEN Saves(w, "verified", FALSE) ELSE Saves(w, "uncertain", TRUE)
    /\ Local /\ UNCHANGED <<acts, guard, faults>>

\* A read of the bank fails.
Unavailable(w) ==
    /\ wk[w].pc \in {"query", "read", "operation", "evidence", "fact", "check"} /\ Fault
    /\ Saves(w, IF A(w).kind = "retain" THEN wk[w].to ELSE "uncertain", TRUE)
    /\ Local /\ UNCHANGED <<acts, guard>>

----------------------------------------------------------------------------
\* The bank.

Work(s) ==
    /\ rop[s] = "pending"
    /\ \/ rop' = [rop EXCEPT ![s] = "completed"] /\ doc' = [doc EXCEPT ![s] = TRUE]
          /\ fact' = [fact EXCEPT ![s] = [new |-> FALSE, valid |-> TRUE, moved |-> FALSE]] /\ UNCHANGED faults
       \/ Fault /\ rop' \in {[rop EXCEPT ![s] = "failed"], [rop EXCEPT ![s] = "cancelled"]} /\ UNCHANGED <<doc, fact>>
    /\ UNCHANGED <<source, acts, guard, wk, flight, made>>
\* A request that was given up arrives.
Arrive(s, m) ==
    /\ m \in flight[s] /\ flight' = [flight EXCEPT ![s] = @ \ {m}]
    /\ CASE m = "retain" -> Accept(s) /\ UNCHANGED <<doc, fact>>
         [] m = "retry" -> /\ rop' = [rop EXCEPT ![s] = IF @ = "failed" THEN "pending" ELSE @]
                           /\ UNCHANGED <<made, doc, fact>>
         [] OTHER -> /\ fact' = [fact EXCEPT ![s] = IF doc[s] THEN Patched(m, @) ELSE @]
                     /\ UNCHANGED <<rop, made, doc>>
    /\ UNCHANGED <<source, acts, guard, wk, faults>>

----------------------------------------------------------------------------
Step(w) ==
    \/ Load(w) \/ Save(w) \/ Query(w) \/ Lock(w) \/ MarkSending(w) \/ Send(w) \/ Retry(w)
    \/ Verify(w) \/ ReadDocument(w) \/ Guard(w) \/ Advance(w) \/ Predecessors(w) \/ Operation(w)
    \/ Resend(w) \/ Evidence(w) \/ Remove(w) \/ Clean(w) \/ ReadFact(w) \/ ReadScope(w) \/ Patch(w) \/ Check(w)
Next ==
    \/ \E s \in Sources, d \in Decisions : Register(s, d)
    \/ \E s \in Sources : Revoke(s) \/ ReconcileScope(s) \/ Work(s) \/ \E k \in Kinds : Command(s, k)
    \/ \E s \in Sources, i \in 1 .. MaxGen + 1 : Expire(s, i) \/ \E w \in Workers : Claim(w, s, i)
    \/ \E s \in Sources, m \in {"retain", "retry"} \cup Curations : Arrive(s, m)
    \/ \E w \in Workers : Step(w) \/ Crash(w) \/ Unavailable(w)
Spec == Init /\ [][Next]_vars

\* Workers keep claiming, an event that is ready again and again is claimed, and the bank works.
FairSpec ==
    /\ Spec /\ \A w \in Workers : WF_vars(Step(w))
    /\ \A s \in Sources : WF_vars(Work(s))
    /\ \A s \in Sources, i \in 1 .. MaxGen + 1 : 
         SF_vars(\E w \in Workers : Claim(w, s, i)) /\ WF_vars(~Handled(s, i) /\ Expire(s, i))

----------------------------------------------------------------------------
\* Properties.

\* A Worker died while a deletion sent the refused retain of s once more (delete, memory_governance.py):
\* what it sent may still arrive, and no row shows it.
SentBlindly(s) == Len(acts[s]) > 0 /\ acts[s][1].blind

\* A verified deletion (delete, memory_governance.py) is final, unless a request was sent blindly: the
\* document and the operation are gone, nothing that could bring them back is on its way, and every
\* copy is as dead.
DeletedIsGone ==
    \A s \in Sources : Verified(s, "delete") # {} =>
        \A c \in {d \in Descendants(s) \cup {s} : ~SentBlindly(d)} :
            ~doc[c] /\ rop[c] = "not_found" /\ flight[c] \cap {"retain", "retry"} = {}

\* "A crash while sending keeps the deletion uncertain" (docs/architecture/capabilities.md), so that a
\* source whose deletion is verified has no document in the bank.
DeletionIsFinal == \A s \in Sources : Verified(s, "delete") # {} => ~doc[s]

\* Once a deletion has reconciled the senders of a source, and no request was sent blindly, the bank
\* never makes its document again (delete persists its progress before it removes anything).
NeverReturns ==
    \A s \in Sources : (\E i \in 1 .. Len(acts[s]) : acts[s][i].cleaned) /\ ~SentBlindly(s) /\ ~doc[s] => ~doc'[s]

\* readable_documents: what recall may give to a model.
Readable(s) ==
    /\ Registered(s) /\ cur[s] > 0 /\ ~blocked[s] /\ st[s] = "active"
    /\ Current(s).status = "verified" /\ Current(s).gen = gen[s]
\* What the verified curations of a source have asked for.
Wanted(s) ==
    [new |-> Verified(s, "correct") # {}, moved |-> Verified(s, "replace") # {},
     valid |-> \A i \in Verified(s, "invalidate") : \E j \in Verified(s, "restore") : j > i]

\* A readable source is in the bank as its owner last had it verified, and no lost request can
\* still change it.
ReadableIsCurrent ==
    \A s \in Sources : Readable(s) => doc[s] /\ fact[s] = Wanted(s) /\ flight[s] \cap Curations = {}

\* However often a Worker takes over, the bank makes a source at most once (operation_id), unless a
\* request was sent blindly.
RetainedOnce == \A s \in Sources : SentBlindly(s) \/ made[s] <= 1

\* A tombstone keeps its deletion: no revocation, receipt or command takes the source away from it.
TombstoneStays ==
    \A s \in Sources : st[s] = "forgotten" => st'[s] = "forgotten" /\ cur'[s] = cur[s]

\* Text of a Run whose resources were revoked is not sent once no sender was under way
\* (078_memory_resource_revocation.sql, mark_sending).
RevokedIsNotSent ==
    \A s \in Sources, w \in Workers : wk'[w].pc \in {"send", "retry"} /\ wk'[w].pc # wk[w].pc
        => ~(blocked[wk'[w].s] \/ manual[wk'[w].s])

\* An action waits for a sender nobody can account for, or for a copy that could not be deleted; a
\* retain that a revocation overtook is verified and found superseded again and again.
Stuck(s) ==
    \/ st[s] = "quarantined"
    \/ \E i \in 1 .. Len(acts[s]) : Unsure(acts[s][i])
    \/ \E c \in Descendants(s) : Current(c).status = "failed" \/ \E i \in 1 .. Len(acts[c]) : Unsure(acts[c][i])
\* Every action is verified or fails in the end, unless a request was lost on the way.
ActionsEnd ==
    \A s \in Sources, i \in 1 .. MaxGen + 1 :
        Len(acts[s]) >= i ~> (Len(acts[s]) >= i /\ (acts[s][i].status \in Settled \/ Stuck(s)))

\* Deleted sources are gone and retained ones made once, as long as no request was sent blindly;
\* readable ones are current.
Safety ==
    /\ TypeOK
    /\ DeletedIsGone
    /\ ReadableIsCurrent
    /\ RetainedOnce
=============================================================================
