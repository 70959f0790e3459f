--------------------------- MODULE MemoryContext ---------------------------
(***************************************************************************)
(* What a chat Run may do with long-term memory it has read.  The Execution *)
(* keeps a manifest: the scopes its prompt draws on and the invalidation    *)
(* epoch they were last checked at.  Maintenance of a source withdraws its  *)
(* document and records the affected scopes under the next epoch of the     *)
(* account.  History, recall, snapshot, dispatch and the final result check *)
(* the records since.  One document per scope; the bank answers a recall    *)
(* with what it holds at that moment.                                       *)
(***************************************************************************)
EXTENDS Naturals, Sequences, FiniteSets

CONSTANTS
    Scopes, Runs,
    ScopeOf,    \* scope of the conversation a Run belongs to
    History,    \* Runs of the same conversation before it
    Legacy,     \* finished before manifests were kept
    MaxEpoch,   \* bound on invalidations
    Calls       \* bound on the model calls of a Run

ASSUME ContextAssumption ==
    /\ MaxEpoch \in Nat /\ Calls \in Nat \ {0}
    /\ Legacy \subseteq Runs
    /\ ScopeOf \in [Runs -> Scopes]
    /\ History \in [Runs -> SUBSET Runs]

VARIABLES
    log,      \* affected scopes of each invalidation; its length is accounts.memory_epoch
    readable, \* documents that recall may use
    ver,      \* withdrawals of a document
    bank,     \* the withdrawal its content in the bank has caught up with
    man,      \* run_executions.memory_context
    base,     \* WebContextBase of the Run's Worker
    text,     \* documents in the prompt, with the versions they were read at
    got,      \* the answer of a recall before it is bound
    snap,     \* memory_context of the snapshot to be dispatched
    pc, calls,
    why       \* how the Run ended

vars == <<log, readable, ver, bank, man, base, text, got, snap, pc, calls, why>>
account == <<log, readable, ver, bank>>

epoch == Len(log)
None == [epoch |-> 0, scopes |-> {}, known |-> FALSE]         \* no manifest was kept
Empty == [epoch |-> 0, scopes |-> {}, known |-> TRUE]
Manifests == [epoch : 0 .. MaxEpoch, scopes : SUBSET Scopes, known : BOOLEAN]
Entries == [doc : Scopes, seen : 0 .. MaxEpoch, held : 0 .. MaxEpoch]

TypeOK ==
    /\ log \in Seq(SUBSET Scopes) /\ epoch <= MaxEpoch
    /\ readable \subseteq Scopes /\ ver \in [Scopes -> 0 .. MaxEpoch]
    /\ \A d \in Scopes : bank[d] \in 0 .. ver[d] /\ (d \in readable => bank[d] = ver[d])
    /\ man \in [Runs -> Manifests] /\ base \in [Runs -> Manifests] /\ snap \in [Runs -> Manifests]
    /\ \A r \in Runs : man[r].epoch <= epoch
    /\ text \in [Runs -> SUBSET Entries] /\ got \in [Runs -> SUBSET Entries]
    /\ pc \in [Runs -> {"new", "bind", "recall", "check", "rebind", "keep", "freeze", "send", "answer", "done"}]
    /\ calls \in [Runs -> 0 .. Calls] /\ why \in [Runs -> {"none", "succeeded", "revoked"}]

Entry(d) == [doc |-> d, seen |-> ver[d], held |-> bank[d]]
Init ==
    /\ log = <<>> /\ readable = Scopes /\ ver = [d \in Scopes |-> 0] /\ bank = ver
    /\ man = [r \in Runs |-> IF r \in Legacy THEN None ELSE Empty]
    /\ base = [r \in Runs |-> Empty] /\ snap = base /\ got = [r \in Runs |-> {}]
    /\ text \in {t \in [Runs -> SUBSET {Entry(d) : d \in Scopes}] : \A r \in Runs \ Legacy : t[r] = {}}
    /\ pc = [r \in Runs |-> IF r \in Legacy THEN "done" ELSE "new"]
    /\ calls = [r \in Runs |-> 0] /\ why = [r \in Runs |-> IF r \in Legacy THEN "succeeded" ELSE "none"]

----------------------------------------------------------------------------
\* Maintenance: command and revocation withdraw, the Worker changes the bank and verifies.

\* The scope of the source, or the whole account when its policy is not known.
Withdraw(d, affected) ==
    /\ d \in readable /\ epoch < MaxEpoch /\ affected \in {{d}, Scopes}
    /\ readable' = readable \ {d} /\ ver' = [ver EXCEPT ![d] = @ + 1] /\ log' = Append(log, affected)
    /\ UNCHANGED <<bank, man, base, text, got, snap, pc, calls, why>>
CaughtUp(d) == bank[d] = ver[d]
Patch(d) ==
    /\ bank[d] < ver[d] /\ bank' = [bank EXCEPT ![d] = ver[d]]
    /\ UNCHANGED <<log, readable, ver, man, base, text, got, snap, pc, calls, why>>
Verify(d) ==
    /\ d \notin readable /\ CaughtUp(d) /\ readable' = readable \cup {d}
    /\ UNCHANGED <<log, ver, bank, man, base, text, got, snap, pc, calls, why>>

----------------------------------------------------------------------------
\* Variation: any record refuses.
RefusesAll(m) == epoch = m.epoch

\* check_manifest: one that reads nothing passes; without one, any record refuses.
Passes(m) ==
    \/ epoch = m.epoch
    \/ m.known /\ \A k \in m.epoch + 1 .. epoch : m.scopes \cap log[k] = {}
\* The manifest it leaves behind; without one nothing is advanced.
Checked(m) == IF m.known THEN [m EXCEPT !.epoch = epoch] ELSE m

Stop(r, reason) == pc' = [pc EXCEPT ![r] = "done"] /\ why' = [why EXCEPT ![r] = reason]
Revoked(r) ==
    /\ Stop(r, "revoked") /\ UNCHANGED <<account, man, base, text, got, snap, calls>>
Go(r, p) == pc' = [pc EXCEPT ![r] = p] /\ UNCHANGED why

Join(a, b) ==
    [epoch |-> IF a.epoch < b.epoch THEN a.epoch ELSE b.epoch,
     scopes |-> a.scopes \cup b.scopes, known |-> a.known /\ b.known]

Reusable(q) == why[q] = "succeeded" /\ Passes(man[q])
\* load_base: history whose memory was withdrawn is left out; the rest is inherited, with what an
\* earlier try of the Activity has bound.
LoadBase(r) ==
    /\ pc[r] = "new"
    /\ IF Passes(man[r])
       THEN LET kept == {q \in History[r] : Reusable(q)}  all == {man[q] : q \in kept \cup {r}} IN
            /\ base' = [base EXCEPT ![r] = [epoch |-> epoch, scopes |-> UNION {m.scopes : m \in all},
                                            known |-> \A m \in all : m.known]]
            /\ text' = [text EXCEPT ![r] = UNION {text[q] : q \in kept}]
            /\ Go(r, "bind") /\ UNCHANGED <<account, man, got, snap, calls>>
       ELSE Revoked(r)
\* The Activity is tried again before the prompt is complete.
TryAgain(r) ==
    /\ pc[r] \in {"recall", "check", "rebind", "keep"}
    /\ got' = [got EXCEPT ![r] = {}] /\ Go(r, "new") /\ UNCHANGED <<account, man, base, text, snap, calls>>

\* bind_context keeps a manifest that passes at its own epoch.
Bind(r, m, p) ==
    IF Passes(man[r]) /\ Passes(m)
    THEN man' = [man EXCEPT ![r] = m] /\ Go(r, p) /\ UNCHANGED <<account, base, text, got, snap, calls>>
    ELSE Revoked(r)
\* bind_base, before the query is rewritten and again before recalled text is kept.
BindBase(r) ==
    \/ pc[r] = "bind" /\ Bind(r, Join(base[r], Checked(man[r])), "recall")
    \/ pc[r] = "rebind" /\ Bind(r, Join(base[r], Checked(man[r])), "keep")

\* recall_candidates: what the bank has for this scope now, or nothing.
Recall(r) ==
    /\ pc[r] = "recall"
    /\ \/ got' = [got EXCEPT ![r] = {Entry(ScopeOf[r])}] /\ Go(r, "check")
       \/ got' = got /\ Go(r, "freeze")
    /\ UNCHANGED <<account, man, base, text, snap, calls>>
\* readable_documents decides after the bank has answered.
Permit(r) ==
    /\ pc[r] = "check"
    /\ IF {e.doc : e \in got[r]} \subseteq readable THEN Go(r, "rebind") /\ UNCHANGED got
                                                    ELSE Go(r, "freeze") /\ got' = [got EXCEPT ![r] = {}]
    /\ UNCHANGED <<account, man, base, text, snap, calls>>
BoundAt(r) == base[r].epoch
\* recall_long_term, second transaction: the text is used only if its scope is bound.
Keep(r) ==
    /\ pc[r] = "keep"
    /\ LET m == [man[r] EXCEPT !.scopes = @ \cup {ScopeOf[r]}, !.epoch = BoundAt(r)] IN
       IF Passes(man[r]) /\ Passes(m)
       THEN /\ man' = [man EXCEPT ![r] = m] /\ text' = [text EXCEPT ![r] = @ \cup got[r]]
            /\ got' = [got EXCEPT ![r] = {}] /\ Go(r, "freeze") /\ UNCHANGED <<account, base, snap, calls>>
       ELSE Revoked(r)

\* The snapshot of the request, with the manifest it was checked under.
Freeze(r) ==
    /\ pc[r] = "freeze"
    /\ IF Passes(man[r])
       THEN /\ man' = [man EXCEPT ![r] = Checked(@)] /\ snap' = [snap EXCEPT ![r] = Checked(man[r])]
            /\ Go(r, "send") /\ UNCHANGED <<account, base, text, got, calls>>
       ELSE Revoked(r)

\* Variation: what was checked when the request was frozen is not checked again.
FrozenIsEnough(r) == TRUE
MayDispatch(r) == Passes(man[r]) /\ Passes(snap[r])
\* mark_dispatched, under the account row lock.
Dispatch(r) ==
    /\ pc[r] = "send"
    /\ IF MayDispatch(r)
       THEN /\ man' = [man EXCEPT ![r] = Checked(@)] /\ calls' = [calls EXCEPT ![r] = @ + 1] /\ Go(r, "answer")
            /\ UNCHANGED <<account, base, text, got, snap>>
       ELSE Revoked(r)

\* The fence of the Activities that use the answer.
Continue(r) ==
    /\ pc[r] = "answer" /\ calls[r] < Calls
    /\ IF Passes(man[r])
       THEN /\ man' = [man EXCEPT ![r] = Checked(@)] /\ Go(r, "freeze") /\ UNCHANGED <<account, base, text, got, snap, calls>>
       ELSE Revoked(r)
\* Variation: the result is accepted whatever was withdrawn meanwhile.
AcceptsAny(r) == TRUE
MayFinish(r) == Passes(man[r])
\* finish_in_uow as succeeded.
Finish(r) ==
    /\ pc[r] = "answer"
    /\ IF MayFinish(r)
       THEN Stop(r, "succeeded") /\ UNCHANGED <<account, man, base, text, got, snap, calls>>
       ELSE Revoked(r)

Next ==
    \/ \E d \in Scopes : Patch(d) \/ Verify(d) \/ Withdraw(d, {d}) \/ Withdraw(d, Scopes)
    \/ \E r \in Runs : LoadBase(r) \/ TryAgain(r) \/ BindBase(r) \/ Recall(r) \/ Permit(r) \/ Keep(r) \/ Freeze(r)
                       \/ Dispatch(r) \/ Continue(r) \/ Finish(r)
Spec == Init /\ [][Next]_vars

----------------------------------------------------------------------------
\* Properties.

Fresh(r) == \A e \in text[r] : e.seen = ver[e.doc]

\* No request goes to a model with a document that was withdrawn after it was read, be it recalled
\* by this Run or inherited from a reply of an earlier one (mark_dispatched).
NothingWithdrawnIsSentStep == \A r \in Runs : calls'[r] > calls[r] => Fresh(r)
NothingWithdrawnIsSent == [][NothingWithdrawnIsSentStep]_vars

\* No Run succeeds with one (finish_in_uow), so a reply in the history is as good as its manifest.
NothingWithdrawnIsFinalStep == \A r \in Runs : why[r] = "none" /\ why'[r] = "succeeded" => Fresh(r)
NothingWithdrawnIsFinal == [][NothingWithdrawnIsFinalStep]_vars

\* A Run is refused only over a withdrawal that touches a scope it drew on, or history nobody kept a
\* manifest of: unrelated maintenance of the account disturbs no one (capabilities.md: "不能因账户序号
\* 变化直接拒绝全部执行").
OnlyTouchedAreRefused ==
    \A r \in Runs : why[r] = "revoked" =>
        \E k \in base[r].epoch + 1 .. epoch :
            \/ ({ScopeOf[r]} \cup base[r].scopes) \cap log[k] # {}
            \/ ~base[r].known

\* The state is well formed, and only a withdrawal that touches what a Run drew on refuses it
\* (check_execution, memory_context.py).
Safety ==
    /\ TypeOK
    /\ OnlyTouchedAreRefused

=============================================================================
