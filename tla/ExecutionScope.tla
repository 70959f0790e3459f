--------------------------- MODULE ExecutionScope ---------------------------
(***************************************************************************)
(* The resources of one Execution in a Worker process: the directory that  *)
(* holds the Run's files, its binding, the sandbox with the tools, and the *)
(* caches beside them.  Each Activity attempt of the Execution makes its   *)
(* own, under the key <execution>:<lease token>, and takes them down when  *)
(* it leaves.                                                              *)
(*                                                                         *)
(* The Workflow gives an attempt up at any moment and starts the next one, *)
(* whose segment raises the fence; the old one goes on until a fenced      *)
(* transaction refuses it, its cancellation arrives, or it is done.  Tools *)
(* work on files in threads, which cannot be cancelled.  Every 300 s the   *)
(* sandboxes unused for 300 s are reclaimed; an Activity lasts up to 600 s.*)
(* The permission of the one candidate file can be revoked.                *)
(*                                                                         *)
(* Bounds: MaxAttempts attempts, MaxCrashes deaths of the process.         *)
(***************************************************************************)
EXTENDS Integers, FiniteSets

CONSTANTS MaxAttempts, MaxCrashes

ASSUME ScopeAssumption == MaxAttempts \in Nat \ {0} /\ MaxCrashes \in Nat

VARIABLES
    token,    \* the lease token of the current segment: its attempt
    att,      \* each attempt: [pc, kind]
    dirs,     \* the scope directories that exist, by the attempt they are named after
    inputs,   \* what the candidate is in each attempt's scope: absent, copied, open
    scopes,   \* the scope bound under each resource key, by its attempt; 0 for none
    boxes,    \* the sandbox listed under each key, by its attempt; 0 for none
    hints,    \* the sandboxes that queue a hint
    cache,    \* the keys with cached tools
    threads,  \* the attempts with a file operation in a thread
    result,   \* what came of each attempt's tool
    allowed,  \* the candidate's permission stands
    late,     \* the attempts that copied it after it was revoked
    owed,     \* a tool has returned a hint that no selection has seen
    crashes

vars == <<token, att, dirs, inputs, scopes, boxes, hints, cache, threads, result,
          allowed, late, owed, crashes>>
store == <<dirs, inputs, late>>
manager == <<scopes, boxes, hints, cache>>

A == 1..MaxAttempts
At(a) == att[a].pc
Goes(a, to) == att' = [att EXCEPT ![a].pc = to]
\* A fenced transaction: another segment has not raised the fence.
Holds(a) == token = a

Init ==
    /\ token = 0 /\ att = [a \in A |-> [pc |-> "none", kind |-> "none"]]
    /\ dirs = {} /\ inputs = [a \in A |-> "absent"]
    /\ scopes = [k \in A |-> 0] /\ boxes = [k \in A |-> 0]
    /\ hints = {} /\ cache = {} /\ threads = {}
    /\ result = [a \in A |-> "none"]
    /\ allowed = TRUE /\ late = {} /\ owed = FALSE /\ crashes = 0

-----------------------------------------------------------------------------
(* The lease of the resources.                                             *)

\* Variation: by its Execution alone.
KeyOfExecution(a) == 1

\* The key of the resources of an attempt: its Execution and its token.
Key(a) == a

\* "A unique physical scope": the path holds the token and a fresh UUID.
Path(a) == a

\* The next attempt of an Activity, or the next Activity, has a segment of its own.
Begin(kind) ==
    /\ token < MaxAttempts
    /\ token' = token + 1
    /\ att' = [att EXCEPT ![token + 1] = [pc |-> "rows", kind |-> kind]]
    /\ UNCHANGED <<store, manager, threads, result, allowed, owed, crashes>>

\* The Run's files are read in a fenced transaction.
LoadRows(a) ==
    /\ At(a) = "rows"
    /\ Goes(a, IF Holds(a) THEN "mkdir" ELSE "left")
    /\ UNCHANGED <<token, store, manager, threads, result, allowed, owed, crashes>>

\* What exists at the path is removed first; then the files are copied.
PrepareRows(a) ==
    /\ At(a) = "mkdir"
    /\ dirs' = dirs \cup {Path(a)}
    /\ Goes(a, "bind")
    /\ UNCHANGED <<token, inputs, late, manager, threads, result, allowed, owed, crashes>>

\* A key that is bound already is refused, and the directory removed.
Bind(a) ==
    /\ At(a) = "bind"
    /\ IF scopes[Key(a)] = 0
       THEN scopes' = [scopes EXCEPT ![Key(a)] = a] /\ Goes(a, "sandbox") /\ UNCHANGED dirs
       ELSE dirs' = dirs \ {Path(a)} /\ Goes(a, "left") /\ UNCHANGED scopes
    /\ UNCHANGED <<token, inputs, late, boxes, hints, cache, threads, result, allowed, owed, crashes>>

\* A sandbox listed under the key is returned as it is.
CreateSandbox(a) ==
    /\ At(a) = "sandbox"
    /\ IF Holds(a)
       THEN /\ boxes' = IF boxes[Key(a)] = 0 THEN [boxes EXCEPT ![Key(a)] = a] ELSE boxes
            /\ Goes(a, IF att[a].kind = "model" THEN "reset" ELSE "fence")
       ELSE Goes(a, "close") /\ UNCHANGED boxes
    /\ UNCHANGED <<token, store, scopes, hints, cache, threads, result, allowed, owed, crashes>>

\* Variation: every binding is cleared.
UnbindAll(a) == [k \in A |-> 0]

Unbind(a) == [k \in A |-> IF scopes[k] = scopes[Key(a)] THEN 0 ELSE scopes[k]]

\* The sandbox is destroyed, the scope unbound, the directory and the cache removed.
Close(a) ==
    /\ At(a) = "close"
    /\ boxes' = [k \in A |-> IF boxes[k] = a THEN 0 ELSE boxes[k]]
    /\ hints' = hints \ {a}
    /\ scopes' = Unbind(a)
    /\ dirs' = dirs \ {Path(a)}
    /\ cache' = cache \ {Key(a)}
    /\ Goes(a, "left")
    /\ UNCHANGED <<token, inputs, late, threads, result, allowed, owed, crashes>>

-----------------------------------------------------------------------------
(* A model decision selects the tools, then calls the model.               *)

Reset(a) ==
    /\ At(a) = "reset"
    /\ IF Holds(a)
       THEN /\ cache' = cache \ {Key(a)}
            /\ hints' = hints \ {boxes[Key(a)]}
            /\ Goes(a, "select")
       ELSE Goes(a, "close") /\ UNCHANGED <<cache, hints>>
    /\ UNCHANGED <<token, store, scopes, boxes, threads, result, allowed, owed, crashes>>

\* The hints of its sandbox are drained.
SelectTools(a) ==
    /\ At(a) = "select"
    /\ owed' = (owed /\ boxes[Key(a)] \notin hints)
    /\ hints' = hints \ {boxes[Key(a)]}
    /\ cache' = cache \cup {Key(a)}
    /\ Goes(a, "answer")
    /\ UNCHANGED <<token, store, scopes, boxes, threads, result, allowed, crashes>>

Answered(a) ==
    /\ At(a) = "answer"
    /\ Goes(a, "close")
    /\ UNCHANGED <<token, store, manager, threads, result, allowed, owed, crashes>>

-----------------------------------------------------------------------------
(* A tool call waits for a capacity slot, then runs in its sandbox.        *)

\* Its intent and its reservation are recorded.
Intent(a) ==
    /\ At(a) = "fence"
    /\ Goes(a, IF Holds(a) THEN "capacity" ELSE "close")
    /\ UNCHANGED <<token, store, manager, threads, result, allowed, owed, crashes>>

\* The slot is granted some time later, and the fence is read once more.  The sandbox is looked
\* up by its key: without one the result is a failure.
Dispatch(a) ==
    /\ At(a) = "capacity"
    /\ IF ~Holds(a) THEN Goes(a, "close") /\ UNCHANGED result
       ELSE IF boxes[Key(a)] = 0 THEN result' = [result EXCEPT ![a] = "missing"] /\ Goes(a, "close")
       ELSE result' = [result EXCEPT ![a] = "running"] /\ Goes(a, "run")
    /\ UNCHANGED <<token, store, manager, threads, allowed, owed, crashes>>

\* A file tool takes the scope bound under its key and works in a thread.
FileTool(a) ==
    /\ At(a) = "run" /\ a \notin threads
    /\ IF scopes[Key(a)] = a THEN threads' = threads \cup {a} /\ UNCHANGED result
       ELSE result' = [result EXCEPT ![a] = "unscoped"] /\ UNCHANGED threads
    /\ UNCHANGED <<token, att, store, manager, allowed, owed, crashes>>

ThreadEnds(a) ==
    /\ a \in threads
    /\ threads' = threads \ {a}
    /\ UNCHANGED <<token, att, store, manager, result, allowed, owed, crashes>>

\* The tool is done; it may leave a hint with its sandbox.
Return(a) ==
    /\ At(a) = "run" /\ a \notin threads /\ inputs[a] \in {"absent", "open"}
    /\ \/ hints' = hints \cup {a} /\ owed' = TRUE
       \/ UNCHANGED <<hints, owed>>
    /\ result' = [result EXCEPT ![a] = IF @ = "running" THEN "ok" ELSE @]
    /\ Goes(a, "close")
    /\ UNCHANGED <<token, store, scopes, boxes, cache, threads, allowed, crashes>>

-----------------------------------------------------------------------------
(* The tool that selects the candidate.                                    *)

\* The choice is fixed and authorized, in transactions; its bytes are copied to a temporary file.
Choose(a) ==
    /\ At(a) = "run" /\ a \notin threads /\ result[a] = "running"
    /\ inputs[a] = "absent" /\ allowed /\ Holds(a)
    /\ inputs' = [inputs EXCEPT ![a] = "copying"]
    /\ UNCHANGED <<token, att, dirs, late, manager, threads, result, allowed, owed, crashes>>

CopyEnds(a) ==
    /\ inputs[a] = "copying" /\ At(a) = "run"
    /\ inputs' = [inputs EXCEPT ![a] = "copied"]
    /\ late' = IF allowed THEN late ELSE late \cup {a}
    /\ UNCHANGED <<token, att, dirs, manager, threads, result, allowed, owed, crashes>>

Recheck(a) == allowed /\ Holds(a)

\* The permission is read again before the file gets its name; otherwise it is removed.
Place(a) ==
    /\ inputs[a] = "copied" /\ At(a) = "run"
    /\ inputs' = [inputs EXCEPT ![a] = IF Recheck(a) THEN "open" ELSE "absent"]
    /\ result' = [result EXCEPT ![a] = IF Recheck(a) THEN @ ELSE "refused"]
    /\ UNCHANGED <<token, att, dirs, late, manager, threads, allowed, owed, crashes>>

-----------------------------------------------------------------------------
(* What happens around them.                                               *)

\* A cancelled Activity waits for its thread; the copy of a candidate holds the event loop.
Waits(a) == a \in threads \/ inputs[a] \in {"copying", "copied"}

Cancel(a) ==
    /\ a # token /\ At(a) \in {"reset", "answer", "fence", "capacity", "run"}
    /\ ~Waits(a)
    /\ Goes(a, "close")
    /\ UNCHANGED <<token, store, manager, threads, result, allowed, owed, crashes>>

\* Unused for 300 s: an attempt stays that long only where it calls the model, waits for
\* capacity or runs a tool.
CleanupIdle(k) ==
    /\ boxes[k] # 0 /\ At(boxes[k]) \in {"answer", "capacity", "run"}
    /\ boxes' = [boxes EXCEPT ![k] = 0]
    /\ UNCHANGED <<token, att, store, scopes, hints, cache, threads, result, allowed, owed, crashes>>

Revoke ==
    /\ allowed /\ allowed' = FALSE
    /\ UNCHANGED <<token, att, store, manager, threads, result, owed, crashes>>

\* The process dies with all of its attempts; the directories stay.
Crash ==
    /\ crashes < MaxCrashes /\ token > 0
    /\ crashes' = crashes + 1
    /\ att' = [a \in A |-> IF At(a) \in {"none", "left"} THEN att[a] ELSE [att[a] EXCEPT !.pc = "dead"]]
    /\ scopes' = [k \in A |-> 0] /\ boxes' = [k \in A |-> 0]
    /\ hints' = {} /\ cache' = {} /\ threads' = {}
    /\ UNCHANGED <<token, store, result, allowed, owed>>

-----------------------------------------------------------------------------
Steps(a) ==
    \/ LoadRows(a) \/ PrepareRows(a) \/ Bind(a) \/ CreateSandbox(a) \/ Close(a)
    \/ Reset(a) \/ SelectTools(a) \/ Answered(a)
    \/ Intent(a) \/ Dispatch(a) \/ FileTool(a) \/ ThreadEnds(a) \/ Return(a)
    \/ Choose(a) \/ CopyEnds(a) \/ Place(a)

Next ==
    \/ \E kind \in {"model", "tool"} : Begin(kind)
    \/ \E a \in A : Steps(a) \/ Cancel(a) \/ CleanupIdle(a)
    \/ Revoke \/ Crash

Spec == Init /\ [][Next]_vars

-----------------------------------------------------------------------------
\* What the process, its disk and its Activities hold has the shape the code gives it.
TypeOK ==
    /\ token \in 0..MaxAttempts /\ dirs \subseteq 1..token /\ late \subseteq A
    /\ scopes \in [A -> 0..token] /\ boxes \in [A -> 0..token]
    /\ hints \subseteq A /\ cache \subseteq A /\ threads \subseteq A
    /\ \A a \in A : /\ inputs[a] \in {"absent", "copying", "copied", "open"}
                    /\ (a <= token) = (att[a].kind # "none")

Inside == {"sandbox", "reset", "select", "answer", "fence", "capacity", "run", "close"}

\* An attempt that runs, the current one or one given up, has the scope it bound and no other's,
\* whatever the attempts beside it take down.
OwnScope == \A a \in A : At(a) \in Inside => scopes[Key(a)] = a

\* "A unique physical scope prevents a fenced, still-returning Activity from deleting or modifying a
\* replacement attempt's scratch directory": the directory of an attempt stays while it is inside.
DirIsKept == \A a \in A : At(a) \in Inside => Path(a) \in dirs

\* "Do not report a stopped Activity or release its Run scope while its thread can still access bytes."
ThreadHasScope == \A a \in threads : At(a) = "run" /\ Path(a) \in dirs

\* An attempt is not kept out by one that was given up and is still inside.
NoneIsRefusedStep == \A a \in A : Bind(a) => At(a)' = "sandbox"
NoneIsRefused == [][NoneIsRefusedStep]_vars

\* An attempt that left, by whatever way, leaves nothing behind: no directory, binding, sandbox,
\* hint or cached tools.
NoneIsLeft ==
    \A a \in A : At(a) = "left" =>
        /\ a \notin dirs /\ a \notin hints /\ a \notin cache
        /\ \A k \in A : scopes[k] # a /\ boxes[k] # a

\* A candidate whose permission was gone when its bytes had been copied is never opened to the tools.
RevokedIsNotPlaced == \A a \in late : inputs[a] # "open"

\* Every Run has its own scope, kept for as long as it is needed, and none is left
\* behind (execution_scope.py, cleanup.py).
Safety ==
    /\ TypeOK
    /\ OwnScope
    /\ DirIsKept
    /\ ThreadHasScope
    /\ NoneIsLeft
    /\ RevokedIsNotPlaced

=============================================================================
