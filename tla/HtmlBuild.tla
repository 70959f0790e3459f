------------------------------ MODULE HtmlBuild ------------------------------
(***************************************************************************)
(* One HTML artifact: the commands that ask for a version of it, the Chat  *)
(* Run each of them starts, and the fixed build of that Run: the HTML      *)
(* capability is admitted, attempts of its Activity generate a document,   *)
(* store it as an output file of the Run and commit the version with the   *)
(* result of the capability; the Run then ends by that result.             *)
(*                                                                         *)
(* An attempt is given up by its Workflow at any moment (a timeout, a      *)
(* Worker that died) and goes on beside the next one, whose segment raises *)
(* the fence.  A document is a record of what the model chose (Docs) and   *)
(* of the version it was made from; hardening it again changes nothing.    *)
(* The generator is called within max_model_calls = 1 of the html          *)
(* capability.  Standalone: the artifact has no conversation, so each Run  *)
(* gets one of its own and several build at once.                          *)
(*                                                                         *)
(* Bounds: MaxRuns Runs, MaxAttempts attempts of an Activity (3 in the     *)
(* html definition).                                                       *)
(***************************************************************************)
EXTENDS Integers, Sequences, FiniteSetsExt

CONSTANTS MaxRuns, MaxAttempts, Docs, Standalone, None

HtmlAssumption ==
    /\ MaxRuns \in Nat \ {0} /\ MaxAttempts \in Nat \ {0}
    /\ Standalone \in BOOLEAN /\ None \notin Docs

VARIABLES
    versions,  \* the artifact's versions by number: [status, html, run, parent]
    runs,      \* the Runs in order: [status, target, source, base, result, cause]
    wf,        \* each Run's Workflow
    fence,     \* the fence of its capability's Execution: the attempt that holds it, 0 when none
    tries,     \* attempts made
    att,       \* each attempt: [pc, doc]
    calls,     \* model calls reserved by the capability
    reserved,  \* the document its file budget was reserved for
    staged,    \* the bytes at its output's staging path
    intent,    \* the output operation's recorded content
    file       \* the output file, once ready

vars == <<versions, runs, wf, fence, tries, att, calls, reserved, staged, intent, file>>
build == <<wf, fence, tries, att, calls, reserved, staged, intent, file>>
stores == <<calls, reserved, staged, intent, file>>

R == 1..MaxRuns
Made == 1..Len(runs)
V == 1..Len(versions)
Ended == {"succeeded", "failed", "cancelled"}
Idle == [pc |-> "idle", doc |-> None]
At(r, n) == att[r][n].pc
Doc(r, n) == att[r][n].doc

Init ==
    /\ versions = <<>> /\ runs = <<>>
    /\ wf = [r \in R |-> "none"]
    /\ fence = [r \in R |-> 0] /\ tries = [r \in R |-> 0]
    /\ att = [r \in R |-> [n \in 1..MaxAttempts |-> Idle]]
    /\ calls = [r \in R |-> 0]
    /\ reserved = [r \in R |-> None] /\ staged = [r \in R |-> None]
    /\ intent = [r \in R |-> None] /\ file = [r \in R |-> None]

-----------------------------------------------------------------------------
(* The commands.                                                           *)

\* The conversation's one slot of an active Run.
Admits == Standalone \/ \A r \in Made : runs[r].status \in Ended

Enqueue(target, source) ==
    /\ Len(runs) < MaxRuns /\ Admits
    /\ runs' = Append(runs, [status |-> "queued", target |-> target, source |-> source,
                             base |-> None, result |-> None, cause |-> None])

\* The latest completed version, 0 when there is none.
Latest == Max({v \in V : versions[v].status = "completed"} \cup {0})
NewVersion(parent) == [status |-> "queued", html |-> None, run |-> 0, parent |-> parent]

CreateArtifact ==
    /\ versions = <<>>
    /\ versions' = <<NewVersion(0)>>
    /\ Enqueue(1, 0)
    /\ UNCHANGED build

CreateVersion ==
    /\ versions # <<>>
    /\ versions' = Append(versions, NewVersion(Latest))
    /\ Enqueue(Len(versions) + 1, 0)
    /\ UNCHANGED build

\* A failed Run is retried once; its input snapshot names the same version.
Retry(r) ==
    /\ runs[r].status = "failed"
    /\ \A q \in Made : runs[q].source # r
    /\ Enqueue(runs[r].target, r)
    /\ UNCHANGED <<versions, build>>

-----------------------------------------------------------------------------
(* The end of a Run closes the version it claimed and, when nobody claimed *)
(* it, the version it was to build.                                        *)

Unclaimed(v, r) == v = runs[r].target /\ versions[v].status = "queued" /\ versions[v].run = 0
Claimed(v, r) == versions[v].run = r /\ versions[v].status = "running"
Closes(v, r) == Claimed(v, r) \/ Unclaimed(v, r)

Closed(r) == [v \in V |-> IF Closes(v, r) THEN [versions[v] EXCEPT !.status = "failed"] ELSE versions[v]]

Finish(r, status, cause) ==
    /\ runs' = [runs EXCEPT ![r].status = status, ![r].cause = cause]
    /\ versions' = IF status = "succeeded" THEN versions ELSE Closed(r)

\* The lifecycle Workflow claims the Run, or its start is given up.
Start(r) ==
    /\ runs[r].status = "queued" /\ wf[r] = "none"
    /\ runs' = [runs EXCEPT ![r].status = "running"]
    /\ wf' = [wf EXCEPT ![r] = "prepare"]
    /\ UNCHANGED <<versions, fence, tries, att, stores>>

StartFails(r) ==
    /\ runs[r].status = "queued" /\ wf[r] = "none"
    /\ Finish(r, "failed", "start")
    /\ UNCHANGED build

Cancel(r) ==
    /\ \/ /\ runs[r].status = "queued" /\ Finish(r, "cancelled", None)
       \/ /\ runs[r].status = "running"
          /\ runs' = [runs EXCEPT ![r].status = "cancelling"]
          /\ UNCHANGED versions
    /\ UNCHANGED build

-----------------------------------------------------------------------------
(* The fixed build.                                                        *)

\* The version that the build starts from: the parent of its target.
Base(r) == versions[runs[r].target].parent

Prepare(r) ==
    /\ wf[r] = "prepare" /\ runs[r].status = "running"
    /\ runs' = [runs EXCEPT ![r].base = Base(r)]
    /\ wf' = [wf EXCEPT ![r] = "child"]
    /\ UNCHANGED <<versions, fence, tries, att, stores>>

\* The child Workflow runs an attempt in a segment of its own; it is over when an attempt
\* returned, when its attempts are used up, or when the Run is cancelled.
Attempt(r) ==
    /\ wf[r] = "child" /\ runs[r].status = "running"
    /\ tries[r] < MaxAttempts
    /\ \A n \in 1..MaxAttempts : At(r, n) # "returned"
    /\ tries' = [tries EXCEPT ![r] = @ + 1]
    /\ fence' = [fence EXCEPT ![r] = tries[r] + 1]
    /\ att' = [att EXCEPT ![r][tries[r] + 1].pc = "inputs"]
    /\ UNCHANGED <<versions, runs, wf, stores>>

ChildEnds(r) ==
    /\ wf[r] = "child"
    /\ wf' = [wf EXCEPT ![r] =
        IF runs[r].status = "cancelling" THEN "cancelled"
        ELSE IF \E n \in 1..MaxAttempts : At(r, n) = "returned" THEN "complete" ELSE "failed"]
    /\ \/ runs[r].status = "cancelling"
       \/ \E n \in 1..MaxAttempts : At(r, n) = "returned"
       \/ tries[r] = MaxAttempts
    /\ fence' = [fence EXCEPT ![r] = 0]  \* close_capability_activity
    /\ UNCHANGED <<versions, runs, tries, att, stores>>

\* The Run ends by the result of its capability.
Outcome(r) == IF runs[r].result = "succeeded" THEN "succeeded" ELSE "failed"

Complete(r) ==
    /\ wf[r] = "complete"
    /\ runs[r].status = "running"
    /\ Finish(r, Outcome(r), runs[r].result)
    /\ wf' = [wf EXCEPT ![r] = "ended"]
    /\ UNCHANGED <<fence, tries, att, stores>>

\* The Workflow failed, or was cancelled: at whatever step it is.
Fails(r) ==
    /\ \/ wf[r] = "failed" /\ Finish(r, IF runs[r].status = "cancelling" THEN "cancelled" ELSE "failed", "child")
       \/ wf[r] \in {"cancelled", "prepare", "complete"} /\ runs[r].status = "cancelling" /\ Finish(r, "cancelled", None)
       \/ wf[r] = "complete" /\ runs[r].status = "running" /\ Finish(r, "failed", "lifecycle")
    /\ wf' = [wf EXCEPT ![r] = "ended"]
    /\ UNCHANGED <<fence, tries, att, stores>>

-----------------------------------------------------------------------------
(* An attempt n of Run r.  Every transaction of it asserts its fence and   *)
(* that the Run executes.  One that is refused ends the attempt; so does    *)
(* the death of its Worker: it takes no more steps.                        *)

Holds(r, n) == fence[r] = n /\ runs[r].status = "running"
Goes(r, n, to) == att' = [att EXCEPT ![r][n].pc = to]
Keeps(r, n, to, d) == att' = [att EXCEPT ![r][n] = [pc |-> to, doc |-> d]]

\* Variation: by each Run.
ClaimsAny(v) == TRUE

\* The version is claimed by the first Run that reads its inputs.
Claims(v) == versions[v].run = 0

Claim(r) ==
    LET v == runs[r].target
    IN versions' = IF Claims(v)
                   THEN [versions EXCEPT ![v].status = "running", ![v].run = r, ![v].html = None]
                   ELSE versions

Inputs(r, n) ==
    /\ At(r, n) = "inputs" /\ Holds(r, n)
    /\ IF runs[r].result # None
       THEN Goes(r, n, "returned") /\ UNCHANGED versions
       ELSE Claim(r) /\ Goes(r, n, "saved")
    /\ UNCHANGED <<runs, wf, fence, tries, stores>>

\* "Recover immutable output before spending again after a lost Activity response."
Saved(r) == file[r] # None

Recover(r, n) ==
    /\ At(r, n) = "saved" /\ Holds(r, n)
    /\ IF Saved(r) THEN Keeps(r, n, "reserve", file[r]) ELSE Goes(r, n, "call")
    /\ UNCHANGED <<versions, runs, wf, fence, tries, stores>>

\* The model call is reserved; a second one of the invocation is refused.
Call(r, n) ==
    /\ At(r, n) = "call" /\ Holds(r, n)
    /\ IF calls[r] = 0
       THEN calls' = [calls EXCEPT ![r] = 1] /\ Goes(r, n, "answer")
       ELSE Goes(r, n, "refuse") /\ UNCHANGED calls
    /\ UNCHANGED <<versions, runs, wf, fence, tries, reserved, staged, intent, file>>

\* The model answers with a document, with one that is not whole, too large or without its
\* citations, or the call fails.
Answer(r, n) ==
    /\ At(r, n) = "answer"
    /\ \/ \E d \in Docs : Keeps(r, n, "reserve", [text |-> d, base |-> runs[r].base])
       \/ Goes(r, n, "refuse")
    /\ UNCHANGED <<versions, runs, wf, fence, tries, stores>>

Insufficient(r, n) ==
    /\ At(r, n) = "refuse" /\ Holds(r, n)
    /\ runs' = [runs EXCEPT ![r].result = "insufficient"]
    /\ Goes(r, n, "returned")
    /\ UNCHANGED <<versions, wf, fence, tries, stores>>

\* The file budget is reserved for this document's size, and stays so for the operation.
Reserve(r, n) ==
    /\ At(r, n) = "reserve" /\ Holds(r, n)
    /\ IF reserved[r] \in {None, Doc(r, n)}
       THEN reserved' = [reserved EXCEPT ![r] = Doc(r, n)] /\ Goes(r, n, "replay")
       ELSE Goes(r, n, "over") /\ UNCHANGED reserved
    /\ UNCHANGED <<versions, runs, wf, fence, tries, calls, staged, intent, file>>

Replay(r, n) ==
    /\ At(r, n) = "replay" /\ Holds(r, n)
    /\ Goes(r, n, IF file[r] # None THEN "commit" ELSE "stage")
    /\ UNCHANGED <<versions, runs, wf, fence, tries, stores>>

\* The staging path is the operation's: what an earlier attempt left there must be the same.
Stage(r, n) ==
    /\ At(r, n) = "stage"
    /\ IF staged[r] \in {None, Doc(r, n)}
       THEN staged' = [staged EXCEPT ![r] = Doc(r, n)] /\ Goes(r, n, "intent")
       ELSE Goes(r, n, "over") /\ UNCHANGED staged
    /\ UNCHANGED <<versions, runs, wf, fence, tries, calls, reserved, intent, file>>

Intend(r, n) ==
    /\ At(r, n) = "intent" /\ Holds(r, n)
    /\ IF intent[r] \in {None, Doc(r, n)}
       THEN intent' = [intent EXCEPT ![r] = Doc(r, n)] /\ Goes(r, n, "publish")
       ELSE Goes(r, n, "over") /\ UNCHANGED intent
    /\ UNCHANGED <<versions, runs, wf, fence, tries, calls, reserved, staged, file>>

Publish(r, n) ==
    /\ At(r, n) = "publish" /\ Holds(r, n)
    /\ file' = [file EXCEPT ![r] = IF @ = None THEN Doc(r, n) ELSE @]
    /\ staged' = [staged EXCEPT ![r] = None]
    /\ Goes(r, n, "commit")
    /\ UNCHANGED <<versions, runs, wf, fence, tries, calls, reserved, intent>>

\* The version, the result and the settlement commit together.  The target is completed by the
\* Run that claimed it; another Run's document becomes a version after the last.
Own(r) == versions[runs[r].target].run \in {0, r}
Done(r, n, parent) == [status |-> "completed", html |-> Doc(r, n), run |-> r, parent |-> parent]

Commit(r, n) ==
    /\ At(r, n) = "commit" /\ Holds(r, n)
    /\ versions' = IF Own(r)
           THEN [versions EXCEPT ![runs[r].target] = Done(r, n, @.parent)]
           ELSE Append(versions, Done(r, n, runs[r].base))
    /\ runs' = [runs EXCEPT ![r].result = "succeeded"]
    /\ Goes(r, n, "returned")
    /\ UNCHANGED <<wf, fence, tries, stores>>

-----------------------------------------------------------------------------
Steps(r, n) ==
    \/ Inputs(r, n) \/ Recover(r, n) \/ Call(r, n) \/ Answer(r, n)
    \/ Insufficient(r, n) \/ Reserve(r, n) \/ Replay(r, n) \/ Stage(r, n) \/ Intend(r, n)
    \/ Publish(r, n) \/ Commit(r, n)

Flow(r) == Start(r) \/ Prepare(r) \/ Attempt(r) \/ ChildEnds(r) \/ Complete(r) \/ Fails(r)

Next ==
    \/ CreateArtifact \/ CreateVersion
    \/ \E r \in Made :
        \/ Flow(r) \/ Retry(r) \/ StartFails(r) \/ Cancel(r)
        \/ \E n \in 1..MaxAttempts : Steps(r, n)

Spec == Init /\ [][Next]_vars

FlowOf(r) == r \in Made /\ Flow(r)
FairSpec == Spec /\ \A r \in R : WF_vars(FlowOf(r))

-----------------------------------------------------------------------------
Documents == [text : Docs, base : 0..2 * MaxRuns]

\* Versions, Runs and what is stored of their builds have the shape the schema gives them.
TypeOK ==
    /\ \A v \in V : /\ versions[v].status \in {"queued", "running", "completed", "failed"}
                    /\ versions[v].run \in 0..Len(runs) /\ versions[v].parent \in 0..(v - 1)
                    /\ (versions[v].status = "completed") = (versions[v].html # None)
    /\ \A r \in Made : /\ runs[r].status \in Ended \cup {"queued", "running", "cancelling"}
                       /\ runs[r].target \in V
                       /\ runs[r].result \in {None, "insufficient", "succeeded"}
    /\ \A r \in R : \A x \in {reserved[r], staged[r], intent[r], file[r]} : x \in Documents \cup {None}

\* A document that was stored is used: "existing immutable HTML ... can be recovered" when the answer
\* of an attempt is lost, so the capability of that Run never ends as insufficient.
PublishedIsUsed == \A r \in Made : file[r] # None => runs[r].result # "insufficient"

\* A completed version is made from its parent: the document that becomes a version was generated
\* from the very version recorded as its parent, whatever was completed, retried or created meanwhile.
BuiltOnParent ==
    \A v \in V : versions[v].status = "completed" => versions[v].html.base = versions[v].parent

\* When a Run has ended, by its build, by its cancellation or before it started, none of its versions
\* is left queued or running.
VersionsAreSettled ==
    \A r \in Made : runs[r].status \in Ended =>
        /\ versions[runs[r].target].run \in {0, r} =>
              \/ versions[runs[r].target].status \notin {"queued", "running"}
              \/ \E q \in Made : runs[q].source = r
        /\ \A v \in V : versions[v].run = r => versions[v].status # "running"

\* A Run that succeeded has its version: one completed version of its own, from its stored file.
SucceededHasVersion ==
    \A r \in Made : runs[r].status = "succeeded" =>
        \E v \in V : versions[v].run = r /\ versions[v].status = "completed" /\ versions[v].html = file[r]

\* A completed version is never rewritten, not by a retry of the Run that made it, nor by a late attempt.
CompletedIsKept == \A v \in V : versions[v].status = "completed" => versions'[v] = versions[v]

\* A build ends: every Run comes to an end, whatever its attempts do.
BuildsEnd == \A r \in R : (r <= Len(runs)) ~> (r <= Len(runs) /\ runs[r].status \in Ended)

\* Versions, builds and Runs agree: a succeeded Run has the version it published.
Safety ==
    /\ TypeOK
    /\ PublishedIsUsed
    /\ VersionsAreSettled
    /\ SucceededHasVersion

=============================================================================
