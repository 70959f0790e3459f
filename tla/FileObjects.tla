---------------------------- MODULE FileObjects ----------------------------
(***************************************************************************)
(* The bytes of a file and the row that owns them: uploads by PUT, outputs *)
(* of a Run published by attempts of an Activity, the references that keep *)
(* a file, and the collector that removes what is due and unbound.         *)
(*                                                                         *)
(* The API is one process with one event loop (web_api/__main__.py): a PUT *)
(* gives the loop away only while it waits for the next chunk. Deletions   *)
(* of users run in threads, the collector and the attempts in Workers.     *)
(* A file of the store is absent ("none"), half written ("part") or holds  *)
(* a content; contents of one upload have the declared size.               *)
(***************************************************************************)
EXTENDS Naturals, Sequences, FiniteSets

CONSTANTS Uploads,     \* stored_files created by create_upload
          Outputs,     \* output operations of one Run; the file id is derived from the id
          Puts,        \* PUT requests the API serves at once
          Attempts,    \* attempts of the publishing Activity, also abandoned ones
          Contents,    \* what a PUT or an attempt may carry
          Kinds,       \* what may come to refer to an upload
          PageLimit,   \* rows one claim of the collector reads (100 in the code)
          MaxFaults    \* bound: crashes, failed deletions

FileAssumption ==
  /\ Uploads \cap Outputs = {}
  /\ {"none", "part"} \cap Contents = {}
  /\ Kinds \subseteq {"message", "work", "node"}
  /\ PageLimit \in Nat \ {0} /\ MaxFaults \in Nat

VARIABLES row,        \* stored_files: status, storage_key set or not, sha256
          expiry,     \* expires_at: never, later or due
          queue,      \* the due rows in the order of expires_at
          refs,       \* what refers to a file
          staging,    \* staging/<file>.part
          object,     \* accounts/<account>/objects/<file>/blob
          put, out,   \* the requests and the attempts
          intent,     \* output_publish_operations: the sha256 announced
          runActive, holder,   \* the Run is queued or running; who holds its row
          gc,         \* files the collector has claimed, with the key it read
          faults

vars == <<row, expiry, queue, refs, staging, object, put, out, intent,
          runActive, holder, gc, faults>>

Files == Uploads \cup Outputs
Rows == [status : {"none", "uploading", "ready", "rejected", "deleted"},
         key : BOOLEAN, sha : Contents \cup {"none"}]
Nobody == "nobody"
Idle == [pc |-> "idle", file |-> "none", content |-> "none"]

(* What the synchronous part of a PUT keeps the event loop in. *)
LoopFree == \A p \in Puts : put[p].pc \in {"idle", "receiving"}

Init ==
  /\ row = [f \in Files |-> [status |-> "none", key |-> FALSE, sha |-> "none"]]
  /\ expiry = [f \in Files |-> "never"]
  /\ queue = <<>>
  /\ refs = [f \in Files |-> {}]
  /\ staging = [f \in Files |-> "none"]
  /\ object = [f \in Files |-> "none"]
  /\ put = [p \in Puts |-> Idle]
  /\ out = [a \in Attempts |-> Idle]
  /\ intent = [f \in Outputs |-> "none"]
  /\ runActive = TRUE
  /\ holder = Nobody
  /\ gc = <<>>
  /\ faults = 0

Without(q, f) == SelectSeq(q, LAMBDA g : g # f)

(* expires_at is set to a time to come, to now, or to NULL. *)
ExpireLater(f) == expiry' = [expiry EXCEPT ![f] = "later"] /\ queue' = Without(queue, f)
ExpireNow(f) == expiry' = [expiry EXCEPT ![f] = "due"] /\ queue' = Append(Without(queue, f), f)
ExpireNever(f) == expiry' = [expiry EXCEPT ![f] = "never"] /\ queue' = Without(queue, f)

(***************************************************************************)
(* Uploads.                                                                *)
(***************************************************************************)
CreateUpload(f) ==
  /\ row[f].status = "none"
  /\ row' = [row EXCEPT ![f].status = "uploading"]
  /\ ExpireLater(f)
  /\ UNCHANGED <<refs, staging, object, put, out, intent, runActive, holder, gc, faults>>

(* upload_content reads the row first; a row that is not uploading refuses. *)
CheckUpload(p, f, c) ==
  /\ LoopFree
  /\ put[p].pc = "idle"
  /\ row[f].status = "uploading"
  /\ put' = [put EXCEPT ![p] = [pc |-> "checked", file |-> f, content |-> c]]
  /\ UNCHANGED <<row, expiry, queue, refs, staging, object, out, intent, runActive, holder,
                 gc, faults>>

(* O_EXCL: a staging file that exists belongs to another PUT; the row is not rejected. *)
OpenStaging(p) ==
  LET f == put[p].file IN
  /\ put[p].pc = "checked"
  /\ IF staging[f] = "none"
       THEN /\ staging' = [staging EXCEPT ![f] = "part"]
            /\ put' = [put EXCEPT ![p].pc = "receiving"]
       ELSE /\ put' = [put EXCEPT ![p] = Idle]
            /\ UNCHANGED staging
  /\ UNCHANGED <<row, expiry, queue, refs, object, out, intent, runActive, holder, gc, faults>>

(* The last chunk came: from here on the request keeps the loop. A collector that *)
(* has unlinked the staging file meanwhile leaves the writer an unnamed file.     *)
Received(p) ==
  LET f == put[p].file IN
  /\ LoopFree
  /\ put[p].pc = "receiving"
  /\ put' = [put EXCEPT ![p].pc = "staged"]
  /\ staging' = IF staging[f] = "part" THEN [staging EXCEPT ![f] = put[p].content] ELSE staging
  /\ UNCHANGED <<row, expiry, queue, refs, object, out, intent, runActive, holder, gc, faults>>

(* The client goes away: the partial file is unlinked, the row stays. *)
Disconnected(p) ==
  /\ LoopFree
  /\ put[p].pc = "receiving"
  /\ staging' = [staging EXCEPT ![put[p].file] = "none"]
  /\ put' = [put EXCEPT ![p] = Idle]
  /\ UNCHANGED <<row, expiry, queue, refs, object, out, intent, runActive, holder, gc, faults>>

(* Size, hash or encoding are wrong: unlinked, and the row is rejected if still uploading. *)
Wrong(p) ==
  LET f == put[p].file IN
  /\ LoopFree
  /\ put[p].pc = "receiving"
  /\ staging' = [staging EXCEPT ![f] = "none"]
  /\ put' = [put EXCEPT ![p] = Idle]
  /\ row' = IF row[f].status = "uploading"
              THEN [row EXCEPT ![f] = [status |-> "rejected", key |-> FALSE, sha |-> "none"]]
              ELSE row
  /\ UNCHANGED <<expiry, queue, refs, object, out, intent, runActive, holder, gc, faults>>

(* publish: an object that is there already is kept, and its own hash is reported. *)
Moved(f) ==
  IF object[f] # "none"
    THEN staging' = [staging EXCEPT ![f] = "none"] /\ UNCHANGED object
    ELSE /\ object' = [object EXCEPT ![f] = staging[f]]
         /\ staging' = [staging EXCEPT ![f] = "none"]
Reported(f, staged) == IF object[f] # "none" THEN object[f] ELSE staged

(* Without object and staging file os.replace raises; the row stays as it is. *)
PublishUpload(p) ==
  LET f == put[p].file IN
  /\ put[p].pc = "staged"
  /\ IF object[f] = "none" /\ staging[f] = "none"
       THEN put' = [put EXCEPT ![p] = Idle] /\ UNCHANGED <<staging, object>>
       ELSE /\ put' = [put EXCEPT ![p].pc = "published",
                                  ![p].content = Reported(f, put[p].content)]
            /\ Moved(f)
  /\ UNCHANGED <<row, expiry, queue, refs, out, intent, runActive, holder, gc, faults>>

MarkReady(p) ==
  LET f == put[p].file IN
  /\ put[p].pc = "published"
  /\ IF row[f].status = "uploading"
       THEN /\ row' = [row EXCEPT ![f] = [status |-> "ready", key |-> TRUE,
                                         sha |-> put[p].content]]
            /\ ExpireLater(f)
            /\ put' = [put EXCEPT ![p] = Idle]
       ELSE /\ put' = [put EXCEPT ![p].pc = "refused"]
            /\ UNCHANGED <<row, expiry, queue>>
  /\ UNCHANGED <<refs, staging, object, out, intent, runActive, holder, gc, faults>>

(* The row was rejected or deleted meanwhile: the object is taken back. *)
TakeBack(p) ==
  /\ put[p].pc = "refused"
  /\ object' = [object EXCEPT ![put[p].file] = "none"]
  /\ put' = [put EXCEPT ![p] = Idle]
  /\ UNCHANGED <<row, expiry, queue, refs, staging, out, intent, runActive, holder, gc, faults>>

(* The API process dies with every request it serves. *)
ApiCrash ==
  /\ faults < MaxFaults
  /\ \E p \in Puts : put[p].pc # "idle"
  /\ faults' = faults + 1
  /\ put' = [p \in Puts |-> Idle]
  /\ UNCHANGED <<row, expiry, queue, refs, staging, object, out, intent, runActive, holder, gc>>

(***************************************************************************)
(* References. The trigger of every reference locks the file's row and     *)
(* wants it ready. A message or an entry of the Workspace takes the        *)
(* expiry of an upload away, a Work input does not.                        *)
(***************************************************************************)
Refer(f, kind) ==
  /\ row[f].status = "ready"
  /\ kind \notin refs[f]
  /\ refs' = [refs EXCEPT ![f] = @ \cup (IF kind = "message" THEN {"message", "run"} ELSE {kind})]
  /\ IF kind \in {"message", "node"} THEN ExpireNever(f) ELSE UNCHANGED <<expiry, queue>>
  /\ UNCHANGED <<row, staging, object, put, out, intent, runActive, holder, gc, faults>>

RemoveNode(f) ==
  /\ "node" \in refs[f]
  /\ refs' = [refs EXCEPT ![f] = @ \ {"node"}]
  /\ UNCHANGED <<row, expiry, queue, staging, object, put, out, intent, runActive, holder, gc,
                 faults>>

(* claim_file_deletion: what it answers for a row. *)
\* Variation: the Work inputs are missing from the references it looks for.
RetainedNarrow(f) == refs[f] \ {"work"} # {}
Retained(f) == refs[f] # {}
ClaimDeletion(f) ==
  CASE row[f].status = "none" -> "not_found"
    [] row[f].status = "deleted" -> "deleted"
    [] row[f].status \notin {"none", "deleted"} /\ Retained(f) -> "bound"
    [] OTHER -> "claimed"

(* DELETE by the user. *)
Delete(f) ==
  /\ ClaimDeletion(f) = "claimed"
  /\ row' = [row EXCEPT ![f].status = "deleted"]
  /\ ExpireNow(f)
  /\ UNCHANGED <<refs, staging, object, put, out, intent, runActive, holder, gc, faults>>

Due(f) ==
  /\ expiry[f] = "later"
  /\ ExpireNow(f)
  /\ UNCHANGED <<row, refs, staging, object, put, out, intent, runActive, holder, gc, faults>>

(***************************************************************************)
(* The collector: claim a page, then remove file after file.               *)
(***************************************************************************)
Page == SubSeq(queue, 1, IF Len(queue) < PageLimit THEN Len(queue) ELSE PageLimit)

Collectable(f) == ClaimDeletion(f) \in {"claimed", "deleted"}

GcClaim ==
  LET claimed == SelectSeq(Page, Collectable)
      newly == {f \in Files : \E i \in 1..Len(Page) : Page[i] = f /\ ClaimDeletion(f) = "claimed"}
  IN
  /\ gc = <<>>
  /\ claimed # <<>>
  /\ row' = [f \in Files |-> IF f \in newly THEN [row[f] EXCEPT !.status = "deleted"] ELSE row[f]]
  /\ queue' = SelectSeq(queue, LAMBDA f : f \notin newly) \o SelectSeq(Page, LAMBDA f : f \in newly)
  /\ gc' = [i \in 1..Len(claimed) |-> [file |-> claimed[i], key |-> row[claimed[i]].key,
                                       pc |-> "delete"]]
  /\ UNCHANGED <<expiry, refs, staging, object, put, out, intent, runActive, holder, faults>>

(* With a key the object, without one the staging file and then the object. *)
GcStaging ==
  /\ gc # <<>>
  /\ Head(gc).pc = "delete"
  /\ ~Head(gc).key
  /\ staging' = [staging EXCEPT ![Head(gc).file] = "none"]
  /\ gc' = [gc EXCEPT ![1].pc = "object"]
  /\ UNCHANGED <<row, expiry, queue, refs, object, put, out, intent, runActive, holder, faults>>

GcObject ==
  /\ gc # <<>>
  /\ Head(gc).pc = (IF Head(gc).key THEN "delete" ELSE "object")
  /\ object' = [object EXCEPT ![Head(gc).file] = "none"]
  /\ gc' = [gc EXCEPT ![1].pc = "complete"]
  /\ UNCHANGED <<row, expiry, queue, refs, staging, put, out, intent, runActive, holder, faults>>

(* OSError: logged, and the row is left for the next round. *)
GcFails ==
  /\ faults < MaxFaults
  /\ gc # <<>>
  /\ Head(gc).pc \in {"delete", "object"}
  /\ faults' = faults + 1
  /\ gc' = Tail(gc)
  /\ UNCHANGED <<row, expiry, queue, refs, staging, object, put, out, intent, runActive, holder>>

GcComplete ==
  /\ gc # <<>>
  /\ Head(gc).pc = "complete"
  /\ row' = [row EXCEPT ![Head(gc).file].key = FALSE]
  /\ ExpireNever(Head(gc).file)
  /\ gc' = Tail(gc)
  /\ UNCHANGED <<refs, staging, object, put, out, intent, runActive, holder, faults>>

GcCrash ==
  /\ faults < MaxFaults
  /\ gc # <<>>
  /\ faults' = faults + 1
  /\ gc' = <<>>
  /\ UNCHANGED <<row, expiry, queue, refs, staging, object, put, out, intent, runActive, holder>>

(***************************************************************************)
(* Publishing an output of a Run.                                          *)
(***************************************************************************)
Fails(a) == out' = [out EXCEPT ![a].pc = "failed"]

(* The operation may be done already: same content is a repetition, another is refused. *)
BeginPublish(a, f, c) ==
  /\ out[a].pc \in {"idle", "failed"}
  /\ runActive
  /\ out' = [out EXCEPT ![a] =
       [file |-> f, content |-> c,
        pc |-> CASE row[f].status # "ready" -> "stage"
                 [] row[f].status = "ready" /\ row[f].sha = c -> "done"
                 [] OTHER -> "failed"]]
  /\ UNCHANGED <<row, expiry, queue, refs, staging, object, put, intent, runActive, holder, gc,
                 faults>>

(* stage_output: a staging file that exists must hold the same bytes. *)
StageOutput(a) ==
  LET f == out[a].file IN
  /\ out[a].pc = "stage"
  /\ CASE staging[f] = "none" -> /\ staging' = [staging EXCEPT ![f] = "part"]
                                 /\ out' = [out EXCEPT ![a].pc = "write"]
       [] staging[f] = out[a].content -> out' = [out EXCEPT ![a].pc = "intent"] /\ UNCHANGED staging
       [] OTHER -> Fails(a) /\ UNCHANGED staging
  /\ UNCHANGED <<row, expiry, queue, refs, object, put, intent, runActive, holder, gc, faults>>

WriteOutput(a) ==
  LET f == out[a].file IN
  /\ out[a].pc = "write"
  /\ staging' = IF staging[f] = "part" THEN [staging EXCEPT ![f] = out[a].content] ELSE staging
  /\ out' = [out EXCEPT ![a].pc = "intent"]
  /\ UNCHANGED <<row, expiry, queue, refs, object, put, intent, runActive, holder, gc, faults>>

Fixed(f, c) == intent[f] \in {"none", c}
RecordIntent(a) ==
  LET f == out[a].file IN
  /\ out[a].pc = "intent"
  /\ holder = Nobody
  /\ CASE ~runActive -> /\ staging' = [staging EXCEPT ![f] = "none"]
                        /\ Fails(a)
                        /\ UNCHANGED intent
       [] runActive /\ Fixed(f, out[a].content) ->
            /\ intent' = [intent EXCEPT ![f] = out[a].content]
            /\ out' = [out EXCEPT ![a].pc = "publish"]
            /\ UNCHANGED staging
       [] OTHER -> Fails(a) /\ UNCHANGED <<staging, intent>>
  /\ UNCHANGED <<row, expiry, queue, refs, object, put, runActive, holder, gc, faults>>

(* Second transaction, from the lock of the Run's row ...                          *)
(* A result that is there is answered; else the staging file becomes the object.   *)
PublishOutput(a) ==
  LET f == out[a].file
      c == out[a].content
  IN
  /\ out[a].pc = "publish"
  /\ holder = Nobody
  /\ CASE ~runActive -> /\ staging' = [staging EXCEPT ![f] = "none"]
                        /\ Fails(a)
                        /\ UNCHANGED <<object, holder>>
       [] runActive /\ row[f].status = "ready" ->
            /\ staging' = [staging EXCEPT ![f] = "none"]
            /\ out' = [out EXCEPT ![a].pc = "done"]
            /\ UNCHANGED <<object, holder>>
       [] runActive /\ row[f].status # "ready" /\ object[f] = "none" /\ staging[f] = "none" ->
            Fails(a) /\ UNCHANGED <<staging, object, holder>>
       [] OTHER ->
            /\ Moved(f)
            /\ IF Reported(f, c) = c
                 THEN /\ out' = [out EXCEPT ![a].pc = "commit"]
                      /\ holder' = a
                 ELSE Fails(a) /\ UNCHANGED holder
  /\ UNCHANGED <<row, expiry, queue, refs, put, intent, runActive, gc, faults>>

(* ... to its commit: the row, the Run's output binding and the completed operation. *)
CommitOutput(a) ==
  LET f == out[a].file IN
  /\ out[a].pc = "commit"
  /\ row' = [row EXCEPT ![f] = [status |-> "ready", key |-> TRUE, sha |-> out[a].content]]
  /\ refs' = [refs EXCEPT ![f] = @ \cup {"run"}]
  /\ out' = [out EXCEPT ![a].pc = "done"]
  /\ holder' = Nobody
  /\ UNCHANGED <<expiry, queue, staging, object, put, intent, runActive, gc, faults>>

(* A Worker dies: its transaction is rolled back, its files stay. *)
AttemptDies(a) ==
  /\ faults < MaxFaults
  /\ out[a].pc \notin {"idle", "failed", "done"}
  /\ faults' = faults + 1
  /\ Fails(a)
  /\ holder' = IF holder = a THEN Nobody ELSE holder
  /\ UNCHANGED <<row, expiry, queue, refs, staging, object, put, intent, runActive, gc>>

RunEnds ==
  /\ runActive
  /\ holder = Nobody
  /\ runActive' = FALSE
  /\ UNCHANGED <<row, expiry, queue, refs, staging, object, put, out, intent, holder, gc, faults>>

PutSteps(p) ==
  \/ \E f \in Uploads, c \in Contents : CheckUpload(p, f, c)
  \/ OpenStaging(p) \/ Received(p) \/ Disconnected(p) \/ Wrong(p)
  \/ PublishUpload(p) \/ MarkReady(p) \/ TakeBack(p)
Collector == GcClaim \/ GcStaging \/ GcObject \/ GcComplete
OutputSteps(a) ==
  \/ \E f \in Outputs, c \in Contents : BeginPublish(a, f, c)
  \/ StageOutput(a) \/ WriteOutput(a) \/ RecordIntent(a) \/ PublishOutput(a) \/ CommitOutput(a)

Next ==
  \/ \E p \in Puts : PutSteps(p)
  \/ \E f \in Uploads : CreateUpload(f) \/ Due(f) \/ RemoveNode(f)
  \/ \E f \in Files : Delete(f)
  \/ \E f \in Uploads, kind \in Kinds : Refer(f, kind)
  \/ Collector
  \/ \E a \in Attempts : OutputSteps(a) \/ AttemptDies(a)
  \/ ApiCrash \/ GcFails \/ GcCrash \/ RunEnds

Spec == Init /\ [][Next]_vars

(* The loop of the collector runs for ever, and time passes for every expiry. *)
FairSpec ==
  /\ Spec
  /\ WF_vars(Collector)
  /\ \A f \in Uploads : WF_vars(Due(f))

-----------------------------------------------------------------------------
TypeOK ==
  /\ row \in [Files -> Rows]
  /\ expiry \in [Files -> {"never", "later", "due"}]
  /\ {queue[i] : i \in 1..Len(queue)} = {f \in Files : expiry[f] = "due"}
  /\ refs \in [Files -> SUBSET {"message", "run", "work", "node"}]
  /\ staging \in [Files -> Contents \cup {"none", "part"}]
  /\ object \in [Files -> Contents \cup {"none"}]
  /\ intent \in [Outputs -> Contents \cup {"none"}]
  /\ holder \in Attempts \cup {Nobody}

(* A ready file has its bytes, and they are the bytes its row names: whatever other *)
(* requests, attempts, deletions and collector rounds do (file_services.upload_content, *)
(* OutputPublisher.publish, FileCleanupService).                                       *)
ReadyHasBytes == \A f \in Files : row[f].status = "ready" => object[f] = row[f].sha

(* A file something refers to is never deleted (claim_file_deletion against the *)
(* reference triggers, on the lock of the file's row).                          *)
BoundIsKept == \A f \in Files : refs[f] # {} => row[f].status = "ready"

(* An attempt that reports a published output has published or found the very content *)
(* it produced, also when another attempt came first (OutputPublisher.publish).       *)
ToldIsStored ==
  \A a \in Attempts :
    out[a].pc = "done" => /\ row[out[a].file].sha = out[a].content
                          /\ intent[out[a].file] = out[a].content

(* When the collector has finished with an upload nothing of it is left, and nothing *)
(* comes back once the requests that were under way have ended (cleanup_once,        *)
(* upload_content's own deletion), unless a process died in between.                 *)
CleanedIsClean ==
  \A f \in Uploads :
    (/\ faults = 0
     /\ row[f].status = "deleted" /\ expiry[f] = "never"
     /\ \A p \in Puts : put[p].file # f)
      => staging[f] = "none" /\ object[f] = "none"

(* Every upload that is due and unbound loses its bytes (run_file_cleanup_loop: *)
(* "Delete expired unbound objects").                                           *)
ExpiredGoes ==
  \A f \in Uploads :
    (expiry[f] = "due" /\ refs[f] = {}) ~>
       (row[f].status = "deleted" /\ expiry[f] = "never") \/ refs[f] # {} \/ expiry[f] = "never"

\* Rows and objects agree: what is ready or referred to has its bytes, what was told
\* is stored, what was cleaned is gone (file_service.py, file_gc.py).
Safety ==
    /\ TypeOK
    /\ ReadyHasBytes
    /\ BoundIsKept
    /\ ToldIsStored
    /\ CleanedIsClean

=============================================================================
