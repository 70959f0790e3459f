------------------------- MODULE MemoryContextProof -------------------------
(***************************************************************************)
(* Proofs about MemoryContext: a document that was withdrawn after a Run    *)
(* has read it is neither sent to a model nor part of a result, and no Run  *)
(* is refused over a withdrawal that does not touch it.                     *)
(*                                                                          *)
(* The argument has two halves.  Covered: whatever a prompt draws on is     *)
(* guarded by the manifest it is checked under, that is, either it is as it *)
(* was read, or the manifest names its scope and the log has a record of    *)
(* that scope past the manifest's epoch.  Related: a manifest asks for no   *)
(* more than the base of its Run and that Run's own scope.                  *)
(***************************************************************************)
EXTENDS MemoryContext, TLAPS

AfterBase == {"bind", "recall", "check", "rebind", "keep"}
Bound == {"recall", "check", "rebind", "keep", "freeze", "send", "answer"}
Stages == AfterBase \cup Bound \cup {"new", "done"}

Typed ==
    /\ log \in Seq(SUBSET Scopes) /\ epoch <= MaxEpoch
    /\ readable \subseteq Scopes
    /\ ver \in [Scopes -> Nat] /\ \A d \in Scopes : ver[d] <= epoch
    /\ bank \in [Scopes -> Nat]
    /\ \A d \in Scopes : bank[d] <= ver[d] /\ (d \in readable => bank[d] = ver[d])
    /\ man \in [Runs -> Manifests] /\ base \in [Runs -> Manifests] /\ snap \in [Runs -> Manifests]
    /\ \A r \in Runs : man[r].epoch <= epoch /\ base[r].epoch <= epoch /\ snap[r].epoch <= epoch
    /\ text \in [Runs -> SUBSET Entries] /\ got \in [Runs -> SUBSET Entries]
    /\ pc \in [Runs -> Stages]
    /\ calls \in [Runs -> 0 .. Calls]
    /\ why \in [Runs -> {"none", "succeeded", "revoked"}]
    /\ \A r \in Runs : pc[r] \notin {"answer", "done"} => calls[r] < Calls
    /\ \A r \in Runs : why[r] = "none" <=> pc[r] # "done"

\* Document e is as it was read, or its withdrawal is recorded after epoch n.
Recorded(e, n) == e.seen = ver[e.doc] \/ \E k \in n + 1 .. epoch : e.doc \in log[k]

\* A manifest that passes vouches for e.
Guards(m, e) == (m.known => e.doc \in m.scopes) /\ Recorded(e, m.epoch)

Covered(r) ==
    /\ pc[r] \in AfterBase => \A e \in text[r] : Guards(base[r], e)
    /\ pc[r] \in Bound \/ why[r] = "succeeded" => \A e \in text[r] : Guards(man[r], e)
    /\ pc[r] \in {"check", "rebind", "keep"} =>
           \A e \in got[r] : e.doc = ScopeOf[r] /\ Recorded(e, base[r].epoch)

\* What m refuses, the base of Run r or its own scope accounts for.
Related(m, r) ==
    /\ base[r].known => m.known
    /\ m.scopes \subseteq base[r].scopes \cup {ScopeOf[r]}
    /\ \A k \in m.epoch + 1 .. base[r].epoch : m.scopes \cap log[k] = {}
    /\ m.known \/ base[r].epoch <= m.epoch

Touched(r) ==
    \E k \in base[r].epoch + 1 .. epoch :
        \/ ({ScopeOf[r]} \cup base[r].scopes) \cap log[k] # {}
        \/ ~base[r].known

Accounted(r) ==
    /\ why[r] = "none" => Related(man[r], r)
    /\ pc[r] = "send" => Related(snap[r], r)
    /\ why[r] = "revoked" => Touched(r)

\* The inductive invariant.
Sound == Typed /\ \A r \in Runs : Covered(r) /\ Accounted(r)
-----------------------------------------------------------------------------
(* Manifests. *)

LEMMA EpochType == Typed => epoch \in Nat /\ epoch \in 0 .. MaxEpoch
BY ContextAssumption DEF Typed, epoch

LEMMA JoinType ==
    ASSUME NEW a \in Manifests, NEW b \in Manifests
    PROVE  /\ Join(a, b) \in Manifests
           /\ Join(a, b).epoch <= a.epoch /\ Join(a, b).epoch <= b.epoch
           /\ Join(a, b).epoch \in {a.epoch, b.epoch}
           /\ Join(a, b).scopes = a.scopes \cup b.scopes
           /\ Join(a, b).known <=> a.known /\ b.known
BY ContextAssumption DEF Join, Manifests

LEMMA CheckedType ==
    ASSUME Typed, NEW m \in Manifests, m.epoch <= epoch
    PROVE  /\ Checked(m) \in Manifests /\ Checked(m).epoch <= epoch /\ m.epoch <= Checked(m).epoch
           /\ Checked(m).scopes = m.scopes /\ Checked(m).known = m.known
           /\ Checked(m).epoch = IF m.known THEN epoch ELSE m.epoch
<1>1. epoch \in 0 .. MaxEpoch
  BY EpochType
<1> QED
  BY <1>1 DEF Checked, Manifests

\* A manifest that passes guards only documents that are as they were read.
LEMMA PassesFresh ==
    ASSUME Typed, NEW m \in Manifests, Passes(m), NEW e \in Entries, Guards(m, e)
    PROVE  e.seen = ver[e.doc]
<1>1. SUFFICES ASSUME NEW k \in m.epoch + 1 .. epoch, e.doc \in log[k] PROVE FALSE
  BY DEF Guards, Recorded
<1>2. epoch # m.epoch
  BY <1>1 DEF Typed, epoch, Manifests
<1>3. e.doc \in m.scopes \cap log[k]
  BY <1>1, <1>2 DEF Passes, Guards
<1> QED
  BY <1>1, <1>2, <1>3 DEF Passes

\* One that passes can be moved to the present epoch.
LEMMA CheckedGuards ==
    ASSUME Typed, NEW m \in Manifests, m.epoch <= epoch, Passes(m), NEW e \in Entries, Guards(m, e)
    PROVE  Guards(Checked(m), e)
BY PassesFresh, CheckedType DEF Guards, Recorded

\* The epoch of a manifest only matters downwards.
LEMMA RecordedEarlier ==
    ASSUME Typed, NEW e, NEW n \in Nat, NEW k \in Nat, k <= n, Recorded(e, n)
    PROVE  Recorded(e, k)
BY DEF Recorded, Typed, epoch

-----------------------------------------------------------------------------
(* Steps leave the other Runs alone. *)

OfRun(q) == <<man[q], base[q], text[q], got[q], snap[q], pc[q], calls[q], why[q]>>

LEMMA Frame ==
    ASSUME UNCHANGED account, NEW q, OfRun(q)' = OfRun(q), Covered(q), Accounted(q)
    PROVE  Covered(q)' /\ Accounted(q)'
BY DEF account, OfRun, Covered, Accounted, Related, Touched, Guards, Recorded, epoch

-----------------------------------------------------------------------------
(* The maintenance of a source. *)

\* A record only adds to what is recorded.
LEMMA WithdrawRecords ==
    ASSUME Typed, NEW d \in Scopes, NEW affected, Withdraw(d, affected)
    PROVE  /\ epoch' = epoch + 1
           /\ \A k \in 1 .. epoch : log'[k] = log[k]
           /\ \A e \in Entries, n \in 0 .. epoch : Recorded(e, n) => Recorded(e, n)'
<1>1. /\ epoch' = epoch + 1 /\ epoch \in Nat /\ d \in log'[epoch + 1]
      /\ \A k \in 1 .. epoch : log'[k] = log[k]
  BY DEF Typed, Withdraw, epoch
<1>2. \A c \in Scopes : c # d => ver'[c] = ver[c]
  BY DEF Typed, Withdraw
<1>3. ASSUME NEW e \in Entries, NEW n \in 0 .. epoch, Recorded(e, n) PROVE Recorded(e, n)'
  <2>1. CASE e.doc = d
    BY <1>1, <2>1 DEF Recorded
  <2>2. CASE e.doc # d
    <3>1. ver'[e.doc] = ver[e.doc]
      BY <1>2, <2>2 DEF Entries
    <3> QED
      BY <1>1, <1>3, <3>1 DEF Recorded
  <2> QED
    BY <2>1, <2>2
<1> QED
  BY <1>1, <1>3

LEMMA WithdrawKeepsTyped ==
    ASSUME Typed, NEW d \in Scopes, NEW affected, Withdraw(d, affected)
    PROVE  Typed'
<1>1. epoch' = epoch + 1 /\ epoch \in Nat
  BY WithdrawRecords, EpochType
<1>2. log' \in Seq(SUBSET Scopes) /\ epoch' <= MaxEpoch /\ readable' \subseteq Scopes
  BY <1>1, ContextAssumption DEF Typed, Withdraw
<1>3. /\ ver' \in [Scopes -> Nat] /\ \A c \in Scopes : ver'[c] <= epoch'
      /\ \A c \in Scopes : bank'[c] <= ver'[c] /\ (c \in readable' => bank'[c] = ver'[c])
  BY <1>1 DEF Typed, Withdraw
<1>4. \A r \in Runs : man'[r].epoch <= epoch' /\ base'[r].epoch <= epoch' /\ snap'[r].epoch <= epoch'
  BY <1>1 DEF Typed, Withdraw, Manifests
<1> QED
  BY <1>2, <1>3, <1>4 DEF Typed, Withdraw

LEMMA WithdrawKeepsSound ==
    ASSUME Sound, NEW d \in Scopes, NEW affected, Withdraw(d, affected)
    PROVE  Sound'
<1>1. Typed /\ Typed'
  BY WithdrawKeepsTyped DEF Sound
<1>2. /\ epoch \in Nat /\ epoch' = epoch + 1
      /\ \A k \in 1 .. epoch : log'[k] = log[k]
      /\ \A e \in Entries, n \in 0 .. epoch : Recorded(e, n) => Recorded(e, n)'
  BY <1>1, WithdrawRecords, EpochType
<1>3. UNCHANGED <<man, base, text, got, snap, pc, why>>
  BY DEF Withdraw
<1>4. SUFFICES ASSUME NEW r \in Runs PROVE Covered(r)' /\ Accounted(r)'
  BY <1>1 DEF Sound
<1>5. /\ man[r].epoch \in 0 .. epoch /\ base[r].epoch \in 0 .. epoch /\ snap[r].epoch \in 0 .. epoch
      /\ text[r] \subseteq Entries /\ got[r] \subseteq Entries
  BY <1>1, <1>2 DEF Typed, Manifests
<1>6. Covered(r)'
  BY <1>2, <1>3, <1>5 DEF Sound, Covered, Guards
<1>7. ASSUME NEW m, m.epoch \in 0 .. epoch, Related(m, r) PROVE Related(m, r)'
  BY <1>2, <1>3, <1>5, <1>7 DEF Related
<1>8. Touched(r) => Touched(r)'
  BY <1>2, <1>3, <1>5 DEF Touched
<1>9. Accounted(r)'
  <2>1. Accounted(r) /\ why'[r] = why[r] /\ pc'[r] = pc[r] /\ man'[r] = man[r] /\ snap'[r] = snap[r]
    BY <1>3 DEF Sound
  <2>2. why[r] = "none" => Related(man[r], r)'
    BY <1>5, <1>7, <2>1 DEF Accounted
  <2>3. pc[r] = "send" => Related(snap[r], r)'
    BY <1>5, <1>7, <2>1 DEF Accounted
  <2> QED
    BY <1>3, <1>8, <2>1, <2>2, <2>3 DEF Accounted
<1> QED
  BY <1>6, <1>9

LEMMA MaintenanceKeepsSound ==
    ASSUME Sound, NEW d \in Scopes, Patch(d) \/ Verify(d)
    PROVE  Sound'
<1>1. Typed'
  <2>1. Typed /\ UNCHANGED <<log, ver, man, base, text, got, snap, pc, calls, why>>
    BY DEF Sound, Patch, Verify
  <2>2. /\ readable' \subseteq Scopes /\ bank' \in [Scopes -> Nat]
        /\ \A c \in Scopes : bank'[c] <= ver[c] /\ (c \in readable' => bank'[c] = ver[c])
    <3>1. CASE Patch(d)
      BY <2>1, <3>1 DEF Typed, Patch
    <3>2. CASE Verify(d)
      BY <2>1, <3>2 DEF Typed, Verify, CaughtUp
    <3> QED
      BY <3>1, <3>2
  <2> QED
    BY <2>1, <2>2 DEF Typed, epoch
<1>2. UNCHANGED <<log, ver, man, base, text, got, snap, pc, calls, why>>
  BY DEF Patch, Verify
<1>3. ASSUME NEW r \in Runs PROVE Covered(r)' /\ Accounted(r)'
  BY <1>2 DEF Sound, Covered, Accounted, Related, Touched, Guards, Recorded, epoch
<1> QED
  BY <1>1, <1>3 DEF Sound

-----------------------------------------------------------------------------
(* The steps of a Run. *)

\* Types of one Run's own state.
TypedRun(r) ==
    /\ man[r] \in Manifests /\ base[r] \in Manifests /\ snap[r] \in Manifests
    /\ man[r].epoch <= epoch /\ base[r].epoch <= epoch /\ snap[r].epoch <= epoch
    /\ text[r] \in SUBSET Entries /\ got[r] \in SUBSET Entries
    /\ pc[r] \in Stages
    /\ calls[r] \in 0 .. Calls
    /\ why[r] \in {"none", "succeeded", "revoked"}
    /\ pc[r] \notin {"answer", "done"} => calls[r] < Calls
    /\ why[r] = "none" <=> pc[r] # "done"

\* A step touches the entries of one Run.
Touches(r) ==
    /\ UNCHANGED account
    /\ man' = [man EXCEPT ![r] = man'[r]] /\ base' = [base EXCEPT ![r] = base'[r]]
    /\ text' = [text EXCEPT ![r] = text'[r]] /\ got' = [got EXCEPT ![r] = got'[r]]
    /\ snap' = [snap EXCEPT ![r] = snap'[r]] /\ pc' = [pc EXCEPT ![r] = pc'[r]]
    /\ calls' = [calls EXCEPT ![r] = calls'[r]] /\ why' = [why EXCEPT ![r] = why'[r]]

RunStep(r) ==
    \/ LoadBase(r) \/ TryAgain(r) \/ BindBase(r) \/ Recall(r) \/ Permit(r) \/ Keep(r)
    \/ Freeze(r) \/ Dispatch(r) \/ Continue(r) \/ Finish(r)

LEMMA RunKeepsSound ==
    ASSUME Sound, NEW r \in Runs, Touches(r), TypedRun(r)', Covered(r)', Accounted(r)'
    PROVE  Sound'
<1>1. ASSUME NEW q \in Runs, q # r PROVE OfRun(q)' = OfRun(q)
  BY <1>1 DEF Touches, OfRun, Sound, Typed
<1>2. \A q \in Runs : Covered(q)' /\ Accounted(q)'
  BY <1>1, Frame DEF Sound, Touches
<1>3. Typed /\ UNCHANGED account
  BY DEF Sound, Touches
<1>4. epoch' = epoch
  BY <1>3 DEF account, epoch
<1>5. \A q \in Runs : TypedRun(q)'
  <2>1. SUFFICES ASSUME NEW q \in Runs, q # r PROVE TypedRun(q)'
    OBVIOUS
  <2> QED
    BY <1>1, <1>3, <1>4, <2>1 DEF TypedRun, OfRun, Typed
<1>6. /\ man' \in [Runs -> Manifests] /\ base' \in [Runs -> Manifests] /\ snap' \in [Runs -> Manifests]
      /\ text' \in [Runs -> SUBSET Entries] /\ got' \in [Runs -> SUBSET Entries]
      /\ pc' \in [Runs -> Stages] /\ calls' \in [Runs -> 0 .. Calls]
      /\ why' \in [Runs -> {"none", "succeeded", "revoked"}]
  <2>1. /\ man'[r] \in Manifests /\ base'[r] \in Manifests /\ snap'[r] \in Manifests
        /\ text'[r] \in SUBSET Entries /\ got'[r] \in SUBSET Entries /\ pc'[r] \in Stages
        /\ calls'[r] \in 0 .. Calls /\ why'[r] \in {"none", "succeeded", "revoked"}
    BY DEF TypedRun
  <2> QED
    BY <1>3, <2>1 DEF Touches, Typed
<1> QED
  BY <1>2, <1>3, <1>4, <1>5, <1>6 DEF Sound, Typed, TypedRun, account

\* What Sound says about the Run that makes a step.
LEMMA OfSound ==
    ASSUME Sound, NEW r \in Runs
    PROVE  Typed /\ TypedRun(r) /\ Covered(r) /\ Accounted(r) /\ epoch \in 0 .. MaxEpoch
BY EpochType DEF Sound, Typed, TypedRun

\* A related manifest is refused only over what touches the Run.
LEMMA RefusedIsTouched ==
    ASSUME Sound, NEW r \in Runs, NEW m \in Manifests, m.epoch <= epoch, Related(m, r), ~Passes(m)
    PROVE  Touched(r)
<1>1. TypedRun(r) /\ epoch \in Nat /\ m.epoch \in Nat /\ base[r].epoch \in 0 .. epoch
  BY OfSound DEF TypedRun, Manifests
<1>2. CASE ~m.known
  BY <1>1, <1>2 DEF Passes, Related, Touched
<1>3. CASE m.known
  <2>1. PICK k \in m.epoch + 1 .. epoch : m.scopes \cap log[k] # {}
    BY <1>3 DEF Passes
  <2>2. k \in base[r].epoch + 1 .. epoch
    BY <1>1, <2>1 DEF Related
  <2>3. ({ScopeOf[r]} \cup base[r].scopes) \cap log[k] # {}
    BY <2>1 DEF Related
  <2> QED
    BY <2>2, <2>3 DEF Touched
<1> QED
  BY <1>2, <1>3

LEMMA RevokedKeepsSound ==
    ASSUME Sound, NEW r \in Runs, pc[r] # "done", Revoked(r), Touched(r)
    PROVE  Sound'
<1>1. Typed /\ TypedRun(r) /\ Accounted(r)
  BY OfSound
<1>2. /\ UNCHANGED <<log, readable, ver, bank, man, base, text, got, snap, calls>>
      /\ pc' = [pc EXCEPT ![r] = "done"] /\ why' = [why EXCEPT ![r] = "revoked"]
  BY DEF Revoked, Stop, account
<1>3. pc'[r] = "done" /\ why'[r] = "revoked"
  BY <1>1, <1>2 DEF Typed
<1>4. Touches(r)
  BY <1>1, <1>2, <1>3 DEF Touches, account, Typed
<1>5. TypedRun(r)'
  BY <1>1, <1>2, <1>3 DEF TypedRun, epoch, Stages
<1>6. Covered(r)'
  BY <1>3 DEF Covered, AfterBase, Bound
<1>7. Accounted(r)'
  BY <1>2, <1>3 DEF Accounted, Touched, epoch
<1> QED
  BY <1>4, <1>5, <1>6, <1>7, RunKeepsSound

\* The manifest of a Run that goes on is refused only over what touches it.
LEMMA FenceKeepsSound ==
    ASSUME Sound, NEW r \in Runs, pc[r] # "done", ~Passes(man[r]), Revoked(r)
    PROVE  Sound'
<1>1. TypedRun(r) /\ Accounted(r)
  BY OfSound
<1>2. Related(man[r], r)
  BY <1>1 DEF TypedRun, Accounted
<1>3. Touched(r)
  BY <1>1, <1>2, RefusedIsTouched DEF TypedRun
<1> QED
  BY <1>3, RevokedKeepsSound

\* Moving a manifest that passes forward keeps it related to its Run.
LEMMA CheckedRelated ==
    ASSUME Sound, NEW r \in Runs, NEW m \in Manifests, m.epoch <= epoch, Related(m, r)
    PROVE  Related(Checked(m), r)
<1>1. TypedRun(r) /\ Typed /\ epoch \in Nat /\ base[r].epoch \in 0 .. epoch
  BY OfSound DEF TypedRun, Manifests
<1> QED
  BY <1>1, CheckedType DEF Related, Manifests

-----------------------------------------------------------------------------
(* load_base. *)

LEMMA LoadBaseKeepsSound ==
    ASSUME Sound, NEW r \in Runs, LoadBase(r)
    PROVE  Sound'
<1>1. Typed /\ TypedRun(r) /\ Covered(r) /\ Accounted(r) /\ epoch \in 0 .. MaxEpoch /\ pc[r] = "new"
  BY OfSound DEF LoadBase
<1>2. CASE ~Passes(man[r])
  BY <1>1, <1>2, FenceKeepsSound DEF LoadBase
<1>3. CASE Passes(man[r])
  <2> DEFINE kept == {q \in History[r] : Reusable(q)}
             all == {man[q] : q \in kept \cup {r}}
             b == [epoch |-> epoch, scopes |-> UNION {m.scopes : m \in all},
                   known |-> \A m \in all : m.known]
             t == UNION {text[q] : q \in kept}
  <2>1. /\ UNCHANGED <<log, readable, ver, bank, man, got, snap, calls, why>>
        /\ base' = [base EXCEPT ![r] = b] /\ text' = [text EXCEPT ![r] = t]
        /\ pc' = [pc EXCEPT ![r] = "bind"]
    BY <1>3 DEF LoadBase, account, Go
  <2>2. kept \subseteq Runs /\ all \subseteq Manifests
    BY <1>1, ContextAssumption DEF Typed
  <2>3. b \in Manifests /\ t \in SUBSET Entries
    <3>1. UNION {m.scopes : m \in all} \subseteq Scopes
      BY <2>2 DEF Manifests
    <3>2. (\A m \in all : m.known) \in BOOLEAN
      OBVIOUS
    <3>3. b \in Manifests
      BY <1>1, <3>1, <3>2 DEF Manifests
    <3>4. t \subseteq Entries
      BY <1>1, <2>2 DEF Typed
    <3> QED
      BY <3>3, <3>4
  <2> HIDE DEF b, t
  <2>4. base'[r] = b /\ text'[r] = t /\ pc'[r] = "bind" /\ base' = [base EXCEPT ![r] = base'[r]]
        /\ text' = [text EXCEPT ![r] = text'[r]] /\ pc' = [pc EXCEPT ![r] = pc'[r]]
    BY <1>1, <2>1 DEF Typed
  <2>5. Touches(r)
    BY <1>1, <2>1, <2>4 DEF Touches, account, Typed
  <2>6. TypedRun(r)'
    <3>1. b.epoch = epoch
      BY DEF b
    <3> QED
      BY <1>1, <2>1, <2>3, <2>4, <3>1 DEF TypedRun, epoch, Stages, AfterBase
  <2>7. Covered(r)'
    <3>1. ASSUME NEW e \in t PROVE (b.known => e.doc \in b.scopes) /\ e.seen = ver[e.doc]
      <4>1. PICK q \in kept : e \in text[q]
        BY <3>1 DEF t
      <4>2. q \in Runs /\ e \in Entries /\ man[q] \in Manifests /\ Guards(man[q], e) /\ Passes(man[q])
        BY <1>1, <2>2, <4>1 DEF Reusable, Sound, Covered, Typed
      <4>3. e.seen = ver[e.doc]
        BY <1>1, <4>2, PassesFresh
      <4>4. b.known => e.doc \in b.scopes
        BY <4>1, <4>2 DEF b, Guards
      <4> QED
        BY <4>3, <4>4
    <3>2. pc'[r] \notin Bound /\ why'[r] # "succeeded" /\ pc'[r] \notin {"check", "rebind", "keep"}
      BY <1>1, <2>1, <2>4 DEF TypedRun, Bound
    <3>3. \A e \in text'[r] : Guards(base[r], e)'
      BY <2>1, <2>4, <3>1 DEF Guards, Recorded
    <3> QED
      BY <3>2, <3>3 DEF Covered
  <2>8. Accounted(r)'
    <3>1. Related(man[r], r)'
      <4>1. man[r] \in all
        OBVIOUS
      <4>2. (b.known => man[r].known) /\ man[r].scopes \subseteq b.scopes /\ b.epoch = epoch
        BY <4>1 DEF b
      <4>3. /\ \A k \in man[r].epoch + 1 .. epoch : man[r].scopes \cap log[k] = {}
            /\ man[r].known \/ epoch <= man[r].epoch
        BY <1>1, <1>3 DEF Passes, TypedRun, Manifests
      <4>4. UNCHANGED <<log, man>> /\ base'[r] = b
        BY <2>1, <2>4
      <4> QED
        BY <4>2, <4>3, <4>4 DEF Related
    <3> QED
      BY <1>1, <2>1, <2>4, <3>1 DEF Accounted, TypedRun
  <2> QED
    BY <2>5, <2>6, <2>7, <2>8, RunKeepsSound
<1> QED
  BY <1>2, <1>3

-----------------------------------------------------------------------------
(* The steps of the prompt. *)

LEMMA TryAgainKeepsSound ==
    ASSUME Sound, NEW r \in Runs, TryAgain(r)
    PROVE  Sound'
<1>1. /\ Typed /\ TypedRun(r) /\ Accounted(r)
      /\ pc[r] \in {"recall", "check", "rebind", "keep"} /\ why[r] = "none"
  BY OfSound DEF TryAgain, TypedRun
<1>2. /\ UNCHANGED <<log, readable, ver, bank, man, base, text, snap, calls, why>>
      /\ got' = [got EXCEPT ![r] = {}] /\ pc' = [pc EXCEPT ![r] = "new"]
      /\ got'[r] = {} /\ pc'[r] = "new"
  BY <1>1 DEF TryAgain, Go, account, Typed
<1>3. Touches(r)
  BY <1>1, <1>2 DEF Touches, account, Typed
<1>4. TypedRun(r)'
  BY <1>1, <1>2 DEF TypedRun, epoch, Stages
<1>5. Covered(r)'
  BY <1>1, <1>2 DEF Covered, AfterBase, Bound
<1>6. Accounted(r)'
  BY <1>1, <1>2 DEF Accounted, Related
<1> QED
  BY <1>3, <1>4, <1>5, <1>6, RunKeepsSound

\* bind_base, before the query is rewritten and before recalled text is kept.
LEMMA BindBaseKeepsSound ==
    ASSUME Sound, NEW r \in Runs, BindBase(r)
    PROVE  Sound'
<1>0. PICK p \in {"recall", "keep"} :
         /\ <<pc[r], p>> \in {<<"bind", "recall">>, <<"rebind", "keep">>}
         /\ Bind(r, Join(base[r], Checked(man[r])), p)
  BY DEF BindBase
<1> DEFINE m == Join(base[r], Checked(man[r]))
<1>1. /\ Typed /\ TypedRun(r) /\ Covered(r) /\ Accounted(r) /\ epoch \in 0 .. MaxEpoch
      /\ pc[r] \in {"bind", "rebind"} /\ why[r] = "none"
  BY <1>0, OfSound DEF TypedRun
<1>2. CASE ~Passes(man[r])
  BY <1>0, <1>1, <1>2, FenceKeepsSound DEF Bind
<1>3. CASE Passes(man[r])
  <2>1. /\ Checked(man[r]) \in Manifests /\ Checked(man[r]).epoch <= epoch
        /\ Checked(man[r]).scopes = man[r].scopes /\ Checked(man[r]).known = man[r].known
        /\ Checked(man[r]).epoch = IF man[r].known THEN epoch ELSE man[r].epoch
    BY <1>1, CheckedType DEF TypedRun
  <2>2. /\ m \in Manifests /\ m.epoch <= base[r].epoch /\ m.epoch <= Checked(man[r]).epoch
        /\ m.epoch \in {base[r].epoch, Checked(man[r]).epoch}
        /\ m.scopes = base[r].scopes \cup man[r].scopes
        /\ m.known <=> base[r].known /\ man[r].known
    BY <1>1, <2>1, JoinType DEF TypedRun
  <2>3. m.epoch = base[r].epoch
    <3>1. base[r].epoch <= Checked(man[r]).epoch
      BY <1>1, <2>1 DEF Accounted, Related, TypedRun
    <3> QED
      BY <1>1, <2>2, <3>1 DEF TypedRun, Manifests
  <2>4. Related(m, r)
    <3>1. Related(man[r], r)
      BY <1>1 DEF Accounted
    <3>2. m.epoch + 1 .. base[r].epoch = {}
      BY <1>1, <2>3 DEF TypedRun, Manifests
    <3> QED
      BY <1>1, <2>2, <2>3, <3>1, <3>2 DEF Related, TypedRun, Manifests
  <2>5. m.epoch <= epoch
    BY <1>1, <2>3 DEF TypedRun
  <2> HIDE DEF m
  <2>6. CASE ~Passes(m)
    <3>1. Touched(r)
      BY <1>1, <2>2, <2>4, <2>5, <2>6, RefusedIsTouched
    <3> QED
      BY <1>0, <1>1, <2>6, <3>1, RevokedKeepsSound DEF Bind, m
  <2>7. CASE Passes(m)
    <3>1. /\ UNCHANGED <<log, readable, ver, bank, base, text, got, snap, calls, why>>
          /\ man' = [man EXCEPT ![r] = m] /\ pc' = [pc EXCEPT ![r] = p]
          /\ man'[r] = m /\ pc'[r] = p
      BY <1>0, <1>1, <1>3, <2>7 DEF Bind, Go, account, Typed, m
    <3>2. Touches(r)
      BY <1>1, <3>1 DEF Touches, account, Typed
    <3>3. TypedRun(r)'
      BY <1>0, <1>1, <2>2, <2>5, <3>1 DEF TypedRun, epoch, Stages, Bound
    <3>4. Covered(r)'
      <4>1. \A e \in text[r] : Guards(base[r], e)
        BY <1>1 DEF Covered, AfterBase
      <4>2. \A e \in text[r] : Guards(m, e)
        BY <2>2, <2>3, <4>1 DEF Guards
      <4>3. p = "keep" => \A e \in got[r] : e.doc = ScopeOf[r] /\ Recorded(e, base[r].epoch)
        BY <1>0, <1>1 DEF Covered
      <4> QED
        BY <1>0, <1>1, <3>1, <4>1, <4>2, <4>3 DEF Covered, Guards, Recorded, epoch
    <3>5. Accounted(r)'
      BY <1>0, <1>1, <2>4, <3>1 DEF Accounted, Related
    <3> QED
      BY <3>2, <3>3, <3>4, <3>5, RunKeepsSound
  <2> QED
    BY <2>6, <2>7
<1> QED
  BY <1>2, <1>3

LEMMA RecallKeepsSound ==
    ASSUME Sound, NEW r \in Runs, Recall(r)
    PROVE  Sound'
<1>1. /\ Typed /\ TypedRun(r) /\ Covered(r) /\ Accounted(r) /\ epoch \in 0 .. MaxEpoch
      /\ pc[r] = "recall" /\ why[r] = "none"
  BY OfSound DEF Recall, TypedRun
<1>2. UNCHANGED <<log, readable, ver, bank, man, base, text, snap, calls, why>>
  BY DEF Recall, Go, account
<1>3. PICK p \in {"check", "freeze"}, g \in {got[r], {Entry(ScopeOf[r])}} :
         /\ got' = [got EXCEPT ![r] = g] /\ pc' = [pc EXCEPT ![r] = p]
         /\ p = "check" => g = {Entry(ScopeOf[r])}
  BY <1>1 DEF Recall, Go, Typed
<1>4. got'[r] = g /\ pc'[r] = p
  BY <1>1, <1>3 DEF Typed
<1>5. Entry(ScopeOf[r]) \in Entries
  <2>1. ScopeOf[r] \in Scopes
    BY ContextAssumption
  <2>2. ver[ScopeOf[r]] \in 0 .. MaxEpoch /\ bank[ScopeOf[r]] \in 0 .. MaxEpoch
    BY <1>1, <2>1, ContextAssumption DEF Typed
  <2> QED
    BY <2>1, <2>2 DEF Entry, Entries
<1>6. Touches(r)
  BY <1>1, <1>2, <1>3, <1>4 DEF Touches, account, Typed
<1>7. TypedRun(r)'
  BY <1>1, <1>2, <1>3, <1>4, <1>5 DEF TypedRun, epoch, Stages, AfterBase, Bound
<1>8. Covered(r)'
  <2>1. \A e \in {Entry(ScopeOf[r])} : e.doc = ScopeOf[r] /\ Recorded(e, base[r].epoch)
    BY DEF Entry, Recorded
  <2> QED
    BY <1>1, <1>2, <1>3, <1>4, <2>1 DEF Covered, Guards, Recorded, epoch, AfterBase, Bound
<1>9. Accounted(r)'
  BY <1>1, <1>2, <1>3, <1>4 DEF Accounted, Related
<1> QED
  BY <1>6, <1>7, <1>8, <1>9, RunKeepsSound

LEMMA PermitKeepsSound ==
    ASSUME Sound, NEW r \in Runs, Permit(r)
    PROVE  Sound'
<1>1. /\ Typed /\ TypedRun(r) /\ Covered(r) /\ Accounted(r) /\ epoch \in 0 .. MaxEpoch
      /\ pc[r] = "check" /\ why[r] = "none"
  BY OfSound DEF Permit, TypedRun
<1>2. UNCHANGED <<log, readable, ver, bank, man, base, text, snap, calls, why>>
  BY DEF Permit, Go, account
<1>3. PICK p \in {"rebind", "freeze"}, g \in {got[r], {}} :
         /\ got' = [got EXCEPT ![r] = g] /\ pc' = [pc EXCEPT ![r] = p]
  BY <1>1 DEF Permit, Go, Typed
<1>4. got'[r] = g /\ pc'[r] = p
  BY <1>1, <1>3 DEF Typed
<1>5. Touches(r)
  BY <1>1, <1>2, <1>3, <1>4 DEF Touches, account, Typed
<1>6. TypedRun(r)'
  BY <1>1, <1>2, <1>3, <1>4 DEF TypedRun, epoch, Stages, AfterBase, Bound
<1>7. Covered(r)'
  BY <1>1, <1>2, <1>3, <1>4 DEF Covered, Guards, Recorded, epoch, AfterBase, Bound
<1>8. Accounted(r)'
  BY <1>1, <1>2, <1>3, <1>4 DEF Accounted, Related
<1> QED
  BY <1>5, <1>6, <1>7, <1>8, RunKeepsSound

LEMMA KeepKeepsSound ==
    ASSUME Sound, NEW r \in Runs, Keep(r)
    PROVE  Sound'
<1> DEFINE m == [man[r] EXCEPT !.scopes = @ \cup {ScopeOf[r]}, !.epoch = BoundAt(r)]
<1>1. /\ Typed /\ TypedRun(r) /\ Covered(r) /\ Accounted(r) /\ epoch \in 0 .. MaxEpoch
      /\ pc[r] = "keep" /\ why[r] = "none"
  BY OfSound DEF Keep, TypedRun
<1>2. CASE ~Passes(man[r])
  BY <1>1, <1>2, FenceKeepsSound DEF Keep
<1>3. /\ m \in Manifests /\ m.epoch = base[r].epoch /\ m.known = man[r].known
      /\ m.scopes = man[r].scopes \cup {ScopeOf[r]}
  <2>1. ScopeOf[r] \in Scopes
    BY ContextAssumption
  <2> QED
    BY <1>1, <2>1 DEF BoundAt, TypedRun, Manifests
<1>4. Related(m, r)
  <2>1. Related(man[r], r)
    BY <1>1 DEF Accounted
  <2>2. m.epoch + 1 .. base[r].epoch = {}
    BY <1>1, <1>3 DEF TypedRun, Manifests
  <2> QED
    BY <1>1, <1>3, <2>1, <2>2 DEF Related, TypedRun, Manifests
<1> HIDE DEF m
<1>5. CASE Passes(man[r]) /\ ~Passes(m)
  <2>1. Touched(r)
    BY <1>1, <1>3, <1>4, <1>5, RefusedIsTouched DEF TypedRun
  <2> QED
    BY <1>1, <1>5, <2>1, RevokedKeepsSound DEF Keep, m
<1>6. CASE Passes(man[r]) /\ Passes(m)
  <2>1. /\ UNCHANGED <<log, readable, ver, bank, base, snap, calls, why>>
        /\ man' = [man EXCEPT ![r] = m] /\ text' = [text EXCEPT ![r] = @ \cup got[r]]
        /\ got' = [got EXCEPT ![r] = {}] /\ pc' = [pc EXCEPT ![r] = "freeze"]
    BY <1>6 DEF Keep, Go, account, m
  <2>2. man'[r] = m /\ text'[r] = text[r] \cup got[r] /\ got'[r] = {} /\ pc'[r] = "freeze"
    BY <1>1, <2>1 DEF Typed
  <2>3. Touches(r)
    BY <1>1, <2>1, <2>2 DEF Touches, account, Typed
  <2>4. TypedRun(r)'
    BY <1>1, <1>3, <2>1, <2>2 DEF TypedRun, epoch, Stages, Bound
  <2>5. Covered(r)'
    <3>1. \A e \in text[r] : Guards(m, e)
      BY <1>1, <1>3 DEF Covered, Guards, AfterBase, Bound
    <3>2. \A e \in got[r] : Guards(m, e)
      BY <1>1, <1>3 DEF Covered, Guards
    <3> QED
      BY <1>1, <2>1, <2>2, <3>1, <3>2 DEF Covered, Guards, Recorded, epoch, AfterBase, Bound
  <2>6. Accounted(r)'
    BY <1>1, <1>4, <2>1, <2>2 DEF Accounted, Related
  <2> QED
    BY <2>3, <2>4, <2>5, <2>6, RunKeepsSound
<1> QED
  BY <1>2, <1>5, <1>6

-----------------------------------------------------------------------------
(* The steps of a request: each moves the manifest to the present epoch. *)

\* A Run whose manifest passed and was moved forward, from stage to stage.
LEMMA AdvanceKeepsSound ==
    ASSUME Sound, NEW r \in Runs, Passes(man[r]),
           NEW p \in {"send", "answer", "freeze"}, pc[r] \in {"freeze", "send", "answer"},
           UNCHANGED <<log, readable, ver, bank, base, text, got, why>>,
           man' = [man EXCEPT ![r] = Checked(man[r])], pc' = [pc EXCEPT ![r] = p],
           NEW s \in {snap[r], Checked(man[r])}, snap' = [snap EXCEPT ![r] = s],
           p = "send" => s = Checked(man[r]),
           NEW n \in 0 .. Calls, calls' = [calls EXCEPT ![r] = n], p # "answer" => n < Calls
    PROVE  Sound'
<1> DEFINE m == Checked(man[r])
<1>1. /\ Typed /\ TypedRun(r) /\ Covered(r) /\ Accounted(r) /\ epoch \in 0 .. MaxEpoch
      /\ why[r] = "none"
  BY OfSound DEF TypedRun
<1>2. m \in Manifests /\ m.epoch <= epoch
  BY <1>1, CheckedType DEF TypedRun
<1>3. \A e \in text[r] : Guards(m, e)
  BY <1>1, CheckedGuards DEF TypedRun, Covered, Bound
<1>4. Related(m, r)
  BY <1>1, CheckedRelated DEF TypedRun, Accounted
<1> HIDE DEF m
<1>5. man'[r] = m /\ pc'[r] = p /\ snap'[r] = s /\ calls'[r] = n /\ s \in {snap[r], m}
  BY <1>1 DEF Typed, m
<1>6. Touches(r)
  BY <1>1, <1>5 DEF Touches, account, Typed, m
<1>7. TypedRun(r)'
  BY <1>1, <1>2, <1>5 DEF TypedRun, epoch, Stages, Bound
<1>8. Covered(r)'
  BY <1>3, <1>5, <1>1 DEF Covered, Guards, Recorded, epoch, AfterBase
<1>9. Accounted(r)'
  <2>1. p = "send" => s = m
    BY DEF m
  <2> QED
    BY <1>1, <1>4, <1>5, <2>1 DEF Accounted, Related
<1> QED
  BY <1>6, <1>7, <1>8, <1>9, RunKeepsSound

LEMMA FreezeKeepsSound ==
    ASSUME Sound, NEW r \in Runs, Freeze(r)
    PROVE  Sound'
<1>1. Typed /\ TypedRun(r) /\ pc[r] = "freeze"
  BY OfSound DEF Freeze
<1>2. CASE ~Passes(man[r])
  BY <1>1, <1>2, FenceKeepsSound DEF Freeze
<1>3. CASE Passes(man[r])
  <2>1. /\ UNCHANGED <<log, readable, ver, bank, base, text, got, why>>
        /\ man' = [man EXCEPT ![r] = Checked(man[r])] /\ pc' = [pc EXCEPT ![r] = "send"]
        /\ snap' = [snap EXCEPT ![r] = Checked(man[r])] /\ calls' = [calls EXCEPT ![r] = calls[r]]
        /\ calls[r] < Calls
    BY <1>1, <1>3 DEF Freeze, Go, account, Typed, TypedRun
  <2> QED
    BY <1>1, <1>3, <2>1, AdvanceKeepsSound DEF TypedRun
<1> QED
  BY <1>2, <1>3

LEMMA DispatchKeepsSound ==
    ASSUME Sound, NEW r \in Runs, Dispatch(r)
    PROVE  Sound'
<1>1. Typed /\ TypedRun(r) /\ Accounted(r) /\ pc[r] = "send"
  BY OfSound DEF Dispatch
<1>2. CASE ~Passes(man[r])
  BY <1>1, <1>2, FenceKeepsSound DEF Dispatch, MayDispatch
<1>3. CASE ~Passes(snap[r])
  <2>1. Touched(r)
    BY <1>1, <1>3, RefusedIsTouched DEF Accounted, TypedRun
  <2> QED
    BY <1>1, <1>3, <2>1, RevokedKeepsSound DEF Dispatch, MayDispatch
<1>4. CASE MayDispatch(r)
  <2>1. /\ UNCHANGED <<log, readable, ver, bank, base, text, got, why>>
        /\ man' = [man EXCEPT ![r] = Checked(man[r])] /\ pc' = [pc EXCEPT ![r] = "answer"]
        /\ snap' = [snap EXCEPT ![r] = snap[r]] /\ calls' = [calls EXCEPT ![r] = calls[r] + 1]
        /\ calls[r] + 1 \in 0 .. Calls
    BY <1>1, <1>4, ContextAssumption DEF Dispatch, Go, account, Typed, TypedRun
  <2> QED
    BY <1>1, <1>4, <2>1, AdvanceKeepsSound DEF TypedRun, MayDispatch
<1> QED
  BY <1>2, <1>3, <1>4 DEF MayDispatch

LEMMA ContinueKeepsSound ==
    ASSUME Sound, NEW r \in Runs, Continue(r)
    PROVE  Sound'
<1>1. Typed /\ TypedRun(r) /\ pc[r] = "answer" /\ calls[r] < Calls
  BY OfSound DEF Continue
<1>2. CASE ~Passes(man[r])
  BY <1>1, <1>2, FenceKeepsSound DEF Continue
<1>3. CASE Passes(man[r])
  <2>1. /\ UNCHANGED <<log, readable, ver, bank, base, text, got, why>>
        /\ man' = [man EXCEPT ![r] = Checked(man[r])] /\ pc' = [pc EXCEPT ![r] = "freeze"]
        /\ snap' = [snap EXCEPT ![r] = snap[r]] /\ calls' = [calls EXCEPT ![r] = calls[r]]
    BY <1>1, <1>3 DEF Continue, Go, account, Typed
  <2> QED
    BY <1>1, <1>3, <2>1, AdvanceKeepsSound DEF TypedRun
<1> QED
  BY <1>2, <1>3

LEMMA FinishKeepsSound ==
    ASSUME Sound, NEW r \in Runs, Finish(r)
    PROVE  Sound'
<1>1. /\ Typed /\ TypedRun(r) /\ Covered(r) /\ Accounted(r) /\ pc[r] = "answer" /\ why[r] = "none"
  BY OfSound DEF Finish, TypedRun
<1>2. CASE ~Passes(man[r])
  BY <1>1, <1>2, FenceKeepsSound DEF Finish, MayFinish
<1>3. CASE Passes(man[r])
  <2>1. /\ UNCHANGED <<log, readable, ver, bank, man, base, text, got, snap, calls>>
        /\ pc' = [pc EXCEPT ![r] = "done"] /\ why' = [why EXCEPT ![r] = "succeeded"]
        /\ pc'[r] = "done" /\ why'[r] = "succeeded"
    BY <1>1, <1>3 DEF Finish, MayFinish, Stop, account, Typed
  <2>2. Touches(r)
    BY <1>1, <2>1 DEF Touches, account, Typed
  <2>3. TypedRun(r)'
    BY <1>1, <2>1 DEF TypedRun, epoch, Stages
  <2>4. Covered(r)'
    BY <1>1, <2>1 DEF Covered, Guards, Recorded, epoch, AfterBase, Bound
  <2>5. Accounted(r)'
    BY <2>1 DEF Accounted
  <2> QED
    BY <2>2, <2>3, <2>4, <2>5, RunKeepsSound
<1> QED
  BY <1>2, <1>3

-----------------------------------------------------------------------------
(* The theorems. *)

LEMMA InitIsSound == Init => Sound
<1> SUFFICES ASSUME Init PROVE Sound
  OBVIOUS
<1>1. epoch = 0 /\ log = <<>> /\ \A d \in Scopes : ver[d] = 0 /\ bank[d] = 0
  BY DEF Init, epoch
<1>2. None \in Manifests /\ Empty \in Manifests
  BY ContextAssumption DEF None, Empty, Manifests
<1>3. ASSUME NEW r \in Runs, NEW e \in text[r]
      PROVE  e.doc \in Scopes /\ e \in Entries /\ e.seen = ver[e.doc] /\ r \in Legacy
  <2>1. r \in Legacy /\ e \in {Entry(d) : d \in Scopes}
    BY <1>3 DEF Init
  <2>2. PICK d \in Scopes : e = Entry(d)
    BY <2>1
  <2> QED
    BY <1>1, <2>1, <2>2, ContextAssumption DEF Entry, Entries
<1>4. Typed
  <2>1. text \in [Runs -> SUBSET Entries]
    BY <1>3 DEF Init
  <2> QED
    BY <1>1, <1>2, <2>1, ContextAssumption DEF Init, Typed, Stages, None, Empty
<1>5. ASSUME NEW r \in Runs PROVE Covered(r)
  <2>1. \A e \in text[r] : Guards(man[r], e)
    BY <1>3 DEF Init, Guards, Recorded, None
  <2> QED
    BY <2>1 DEF Init, Covered, AfterBase
<1>6. ASSUME NEW r \in Runs PROVE Accounted(r)
  BY <1>1 DEF Init, Accounted, Related, None, Empty
<1> QED
  BY <1>4, <1>5, <1>6 DEF Sound

LEMMA StepIsSound == Sound /\ [Next]_vars => Sound'
<1> SUFFICES ASSUME Sound, [Next]_vars PROVE Sound'
  OBVIOUS
<1>1. CASE UNCHANGED vars
  <2>1. UNCHANGED <<log, readable, ver, bank, man, base, text, got, snap, pc, calls, why>>
    BY <1>1 DEF vars
  <2>2. Typed'
    BY <2>1 DEF Sound, Typed, epoch
  <2>3. ASSUME NEW r \in Runs PROVE Covered(r)' /\ Accounted(r)'
    BY <2>1, Frame DEF Sound, OfRun, account
  <2> QED
    BY <2>2, <2>3 DEF Sound
<1>2. ASSUME NEW d \in Scopes, Patch(d) \/ Verify(d) PROVE Sound'
  BY <1>2, MaintenanceKeepsSound
<1>3. ASSUME NEW d \in Scopes, Withdraw(d, {d}) \/ Withdraw(d, Scopes) PROVE Sound'
  BY <1>3, WithdrawKeepsSound
<1>4. ASSUME NEW r \in Runs, RunStep(r) PROVE Sound'
  BY <1>4, LoadBaseKeepsSound, TryAgainKeepsSound, BindBaseKeepsSound, RecallKeepsSound,
     PermitKeepsSound, KeepKeepsSound, FreezeKeepsSound, DispatchKeepsSound,
     ContinueKeepsSound, FinishKeepsSound DEF RunStep
<1> QED
  BY <1>1, <1>2, <1>3, <1>4 DEF Next, RunStep

\* The inductive invariant holds of every reachable state.
THEOREM AlwaysSound == Spec => []Sound
BY InitIsSound, StepIsSound, PTL DEF Spec

\* Types, and: a Run is refused only over a withdrawal of a scope it drew on, or
\* over history nobody kept a manifest of (check_manifest).
THEOREM OnlyTheTouchedAreRefused == Spec => []Safety
<1>1. Sound => Safety
  <2> SUFFICES ASSUME Sound PROVE Safety
    OBVIOUS
  <2>1. Typed /\ epoch \in 0 .. MaxEpoch
    BY EpochType DEF Sound
  <2>2. /\ ver \in [Scopes -> 0 .. MaxEpoch]
        /\ \A d \in Scopes : bank[d] \in 0 .. ver[d] /\ (d \in readable => bank[d] = ver[d])
    BY <2>1, ContextAssumption DEF Typed
  <2>3. TypeOK
    BY <2>1, <2>2 DEF Typed, TypeOK, Stages, AfterBase, Bound
  <2>4. OnlyTouchedAreRefused
    BY DEF Sound, Accounted, Touched, OnlyTouchedAreRefused
  <2> QED
    BY <2>3, <2>4 DEF Safety
<1> QED
  BY <1>1, AlwaysSound, PTL

\* A prompt whose manifest passes is fresh.
LEMMA PassingIsFresh ==
    ASSUME Sound, NEW r \in Runs, pc[r] \in Bound, Passes(man[r])
    PROVE  Fresh(r)
<1>1. Typed /\ TypedRun(r) /\ Covered(r)
  BY OfSound
<1> QED
  BY <1>1, PassesFresh DEF Fresh, Covered, TypedRun

\* mark_dispatched lets no request go whose prompt holds a withdrawn document,
\* recalled by this Run or inherited from the reply of an earlier one.
THEOREM WithdrawnIsNotSent == Spec => NothingWithdrawnIsSent
<1>1. Sound /\ [Next]_vars => [NothingWithdrawnIsSentStep]_vars
  <2> SUFFICES ASSUME Sound, Next, NEW r \in Runs, calls'[r] > calls[r] PROVE Fresh(r)
    BY DEF NothingWithdrawnIsSentStep
  <2>1. Typed
    BY DEF Sound
  <2>2. calls[r] \in Nat
    BY <2>1 DEF Typed
  <2>3. calls' # calls
    BY <2>2
  <2>4. PICK q \in Runs : Dispatch(q) /\ MayDispatch(q)
    BY <2>3 DEF Next, Patch, Verify, Withdraw, LoadBase, TryAgain, BindBase, Bind, Recall, Permit,
       Keep, Freeze, Dispatch, Continue, Finish, Revoked
  <2>5. calls' = [calls EXCEPT ![q] = @ + 1]
    BY <2>4 DEF Dispatch
  <2>6. q = r
    BY <2>1, <2>2, <2>5 DEF Typed
  <2> QED
    BY <2>4, <2>6, PassingIsFresh DEF Dispatch, MayDispatch, Bound
<1> QED
  BY <1>1, AlwaysSound, PTL DEF Spec, NothingWithdrawnIsSent

\* finish_in_uow accepts no result of a prompt that holds one.
THEOREM WithdrawnIsNotFinal == Spec => NothingWithdrawnIsFinal
<1>1. Sound /\ [Next]_vars => [NothingWithdrawnIsFinalStep]_vars
  <2> SUFFICES ASSUME Sound, Next, NEW r \in Runs, why[r] = "none", why'[r] = "succeeded"
               PROVE  Fresh(r)
    BY DEF NothingWithdrawnIsFinalStep
  <2>1. Typed
    BY DEF Sound
  <2>2. why' # why
    OBVIOUS
  <2>3. PICK q \in Runs : \/ Finish(q) /\ MayFinish(q)
                          \/ why' = [why EXCEPT ![q] = "revoked"]
    BY <2>2 DEF Next, Patch, Verify, Withdraw, LoadBase, TryAgain, BindBase, Bind, Recall, Permit,
       Keep, Freeze, Dispatch, Continue, Finish, Revoked, Stop, Go
  <2>4. Finish(q) /\ MayFinish(q) /\ why' = [why EXCEPT ![q] = "succeeded"] /\ q = r
    BY <2>1, <2>3 DEF Typed, Finish, Stop
  <2> QED
    BY <2>4, PassingIsFresh DEF Finish, MayFinish, Bound
<1> QED
  BY <1>1, AlwaysSound, PTL DEF Spec, NothingWithdrawnIsFinal

=============================================================================
