------------------------------ MODULE MCMemory ------------------------------
(*****************************************************************************)
(* Memory and files side by side: the memory in the context of a Run, a memory *)
(* source under deletion and curation, the objects of uploads and outputs, and *)
(* access to the tree of resources.  One part is chosen at the start and the *)
(* others stand still.                                                       *)
(*****************************************************************************)
EXTENDS MemoryContext

CONSTANTS Parts, Absent, w1, w2
VARIABLES part, st, gen, cur, manual, blocked, acts, guard, wk, rop, doc, fact, flight,
          made, faults, row, expiry, queue, refs, staging, object, put, out, intent,
          runActive, holder, gc, parent, live, file, chain, grants, attached, status, cand,
          fixed, access, txn, request, published, ops, told

\* Two Runs of one private conversation after one that ended before manifests were
\* kept, and a Run of a group.
ScopeOfRun == [r \in Runs |-> IF r = "group1" THEN "group" ELSE "private"]
HistoryOfRun == [r \in Runs |->
    CASE r = "chat1" -> Runs \cap {"old"}
      [] r = "chat2" -> Runs \cap {"old", "chat1"}
      [] OTHER -> {}]

NoParent == [s \in {"chat"} |-> "none"]
CopyOfChat == [s \in {"chat", "copy"} |-> IF s = "copy" THEN "chat" ELSE "none"]

\* A tree with two or three directories and an entry "plan" in the first.
TreeParents(nodes) ==
    [n \in nodes |->
        CASE n \in {"dirA", "dirB"} -> "root" [] n = "plan" -> "dirA" [] OTHER -> "none"]
FirstFiles(entries) == [e \in entries |-> IF e = "plan" THEN "v1" ELSE "none"]

Grant(n, op, rec) == [node |-> n, op |-> op, recursive |-> rec]
DirGrants == {Grant("dirA", "list_metadata", TRUE), Grant("dirA", "read_content", TRUE)}
ReadGrants == DirGrants \cup {Grant("plan", "read_content", FALSE)}
WriteGrants == DirGrants \cup {Grant("plan", "update_content", FALSE),
                               Grant("dirB", "create_child", TRUE)}
MoveDirs == {<<"dirA", "dirB">>, <<"dirB", "dirA">>, <<"dirA", "root">>, <<"dirC", "dirA">>,
             <<"plan", "dirB">>, <<"plan", "dirC">>, <<"dirB", "dirC">>}

Delete == INSTANCE MemorySource WITH
    Sources <- {"chat"}, ParentOf <- NoParent, Workers <- {w1, w2}, NoWorker <- Absent,
    Decisions <- {"allow", "reject", "evidence_required"},
    Kinds <- {"delete", "revoke"}, MaxGen <- 2, MaxFails <- 1, Faults <- 1,
    Rejects <- TRUE
Sender == INSTANCE MemorySource WITH
    Sources <- {"chat"}, ParentOf <- NoParent, Workers <- {w1, w2}, NoWorker <- Absent,
    Decisions <- {"allow"}, Kinds <- {"delete"}, MaxGen <- 1, MaxFails <- 1,
    Faults <- 2, Rejects <- FALSE
Copies == INSTANCE MemorySource WITH
    Sources <- {"chat", "copy"}, ParentOf <- CopyOfChat, Workers <- {w1},
    NoWorker <- Absent, Decisions <- {"allow"}, Kinds <- {"delete"}, MaxGen <- 1,
    MaxFails <- 1, Faults <- 1, Rejects <- FALSE
Curate == INSTANCE MemorySource WITH
    Sources <- {"chat"}, ParentOf <- NoParent, Workers <- {w1, w2}, NoWorker <- Absent,
    Decisions <- {"allow"},
    Kinds <- {"correct", "invalidate", "restore", "replace", "revoke"}, MaxGen <- 3,
    MaxFails <- 1, Faults <- 1, Rejects <- TRUE
UploadsOnly == INSTANCE FileObjects WITH
    Uploads <- {"u1"}, Outputs <- {}, Puts <- {"p1", "p2"}, Attempts <- {},
    Contents <- {"c1", "c2"}, Kinds <- {"message", "work", "node"}, PageLimit <- 1,
    MaxFaults <- 2
Refs == INSTANCE FileObjects WITH
    Uploads <- {"u1", "u2"}, Outputs <- {}, Puts <- {"p1"}, Attempts <- {},
    Contents <- {"c1"}, Kinds <- {"message", "work", "node"}, PageLimit <- 1,
    MaxFaults <- 1
OutputsOnly == INSTANCE FileObjects WITH
    Uploads <- {}, Outputs <- {"o1"}, Puts <- {}, Attempts <- {"a1", "a2"},
    Contents <- {"c1", "c2"}, Kinds <- {"message", "work", "node"}, PageLimit <- 1,
    MaxFaults <- 2
Clean == INSTANCE FileObjects WITH
    Uploads <- {"u1"}, Outputs <- {}, Puts <- {"p1", "p2"}, Attempts <- {},
    Contents <- {"c1"}, Kinds <- {"message"}, PageLimit <- 1, MaxFaults <- 0
Revoke == INSTANCE ResourceAccess WITH
    Root <- "root", Dirs <- {"root", "dirA"}, Entries <- {"plan"},
    InitialParent <- TreeParents({"root", "dirA", "plan"}),
    InitialFile <- FirstFiles({"plan"}), Files <- {"v1", "v2", "v3", "u"},
    Uploaded <- {"u"}, OutputOf <- [r1 |-> "v2", r2 |-> "v3"], Runs <- {"r1", "r2"},
    InitialGrants <- {Grant("dirA", "list_metadata", TRUE)},
    Grantable <- ReadGrants \ {Grant("dirA", "list_metadata", TRUE)}, Ops <- {}, Moves <- {},
    Removable <- {}
Sent == INSTANCE ResourceAccess WITH
    Root <- "root", Dirs <- {"root", "dirA", "dirB"}, Entries <- {"plan"},
    InitialParent <- TreeParents({"root", "dirA", "dirB", "plan"}),
    InitialFile <- FirstFiles({"plan"}), Files <- {"v1", "v2", "u"}, Uploaded <- {"u"},
    OutputOf <- [r1 |-> "v2"], Runs <- {"r1"}, InitialGrants <- {},
    Grantable <- ReadGrants, Ops <- {}, Moves <- {<<"plan", "dirB">>},
    Removable <- {"plan"}
Tree == INSTANCE ResourceAccess WITH
    Root <- "root", Dirs <- {"root", "dirA", "dirB", "dirC"}, Entries <- {"plan"},
    InitialParent <- TreeParents({"root", "dirA", "dirB", "dirC", "plan"}),
    InitialFile <- FirstFiles({"plan"}), Files <- {"v1", "v2", "u"}, Uploaded <- {},
    OutputOf <- [r1 |-> "v2"], Runs <- {"r1"}, InitialGrants <- {}, Grantable <- {},
    Ops <- {}, Moves <- MoveDirs, Removable <- {"dirA", "dirB", "dirC", "plan"}
Versions == INSTANCE ResourceAccess WITH
    Root <- "root", Dirs <- {"root", "dirA", "dirB"}, Entries <- {"plan", "saved"},
    InitialParent <- TreeParents({"root", "dirA", "dirB", "plan", "saved"}),
    InitialFile <- FirstFiles({"plan", "saved"}), Files <- {"v1", "v2", "v3"},
    Uploaded <- {}, OutputOf <- [r1 |-> "v2", r2 |-> "v3"], Runs <- {"r1", "r2"},
    InitialGrants <- WriteGrants, Grantable <- {}, Ops <- {"o1", "o2"}, Moves <- {},
    Removable <- {}

ASSUME Delete!MemoryAssumption
ASSUME Sender!MemoryAssumption
ASSUME Copies!MemoryAssumption
ASSUME Curate!MemoryAssumption
ASSUME UploadsOnly!FileAssumption
ASSUME Refs!FileAssumption
ASSUME OutputsOnly!FileAssumption
ASSUME Clean!FileAssumption
ASSUME Revoke!AccessAssumption
ASSUME Sent!AccessAssumption
ASSUME Tree!AccessAssumption
ASSUME Versions!AccessAssumption

sideVars == <<part, log, readable, ver, bank, man, base, text, got, snap, pc, calls, why,
              st, gen, cur, manual, blocked, acts, guard, wk, rop, doc, fact, flight,
              made, faults, row, expiry, queue, refs, staging, object, put, out, intent,
              runActive, holder, gc, parent, live, file, chain, grants, attached, status,
              cand, fixed, access, txn, request, published, ops, told>>

\* A variable is idle in the parts that do not have it, and stays so.
Only(parts, v) == IF part \in parts THEN TRUE ELSE v = Absent
Still(parts, vs) == IF part \in parts THEN TRUE ELSE UNCHANGED vs

\* The parts of each component.
MemoryContextParts == {"context"}
MemorySourceParts == {"delete", "sender", "copies", "curate"}
FileObjectsParts == {"uploads", "refs", "outputs", "clean"}
ResourceAccessParts == {"revoke", "sent", "tree", "versions"}

SideInit ==
    /\ part \in Parts
    /\ Init
    /\ part = "delete" => Delete!Init
    /\ part = "sender" => Sender!Init
    /\ part = "copies" => Copies!Init
    /\ part = "curate" => Curate!Init
    /\ part = "uploads" => UploadsOnly!Init
    /\ part = "refs" => Refs!Init
    /\ part = "outputs" => OutputsOnly!Init
    /\ part = "clean" => Clean!Init
    /\ part = "revoke" => Revoke!Init
    /\ part = "sent" => Sent!Init
    /\ part = "tree" => Tree!Init
    /\ part = "versions" => Versions!Init
    /\ part # "context" => text = [r \in Runs |-> {}]
    /\ Only(MemorySourceParts, st) /\ Only(MemorySourceParts, gen)
    /\ Only(MemorySourceParts, cur) /\ Only(MemorySourceParts, manual)
    /\ Only(MemorySourceParts, blocked) /\ Only(MemorySourceParts, acts)
    /\ Only(MemorySourceParts, guard) /\ Only(MemorySourceParts, wk)
    /\ Only(MemorySourceParts, rop) /\ Only(MemorySourceParts, doc)
    /\ Only(MemorySourceParts, fact) /\ Only(MemorySourceParts, flight)
    /\ Only(MemorySourceParts, made)
    /\ Only(MemorySourceParts \cup FileObjectsParts, faults)
    /\ Only(FileObjectsParts, row) /\ Only(FileObjectsParts, expiry)
    /\ Only(FileObjectsParts, queue) /\ Only(FileObjectsParts, refs)
    /\ Only(FileObjectsParts, staging) /\ Only(FileObjectsParts, object)
    /\ Only(FileObjectsParts, put) /\ Only(FileObjectsParts, out)
    /\ Only(FileObjectsParts, intent) /\ Only(FileObjectsParts, runActive)
    /\ Only(FileObjectsParts, holder) /\ Only(FileObjectsParts, gc)
    /\ Only(ResourceAccessParts, parent) /\ Only(ResourceAccessParts, live)
    /\ Only(ResourceAccessParts, file) /\ Only(ResourceAccessParts, chain)
    /\ Only(ResourceAccessParts, grants) /\ Only(ResourceAccessParts, attached)
    /\ Only(ResourceAccessParts, status) /\ Only(ResourceAccessParts, cand)
    /\ Only(ResourceAccessParts, fixed) /\ Only(ResourceAccessParts, access)
    /\ Only(ResourceAccessParts, txn) /\ Only(ResourceAccessParts, request)
    /\ Only(ResourceAccessParts, published) /\ Only(ResourceAccessParts, ops)
    /\ Only(ResourceAccessParts, told)

SideNext ==
    /\ \/ part = "context" /\ Next
       \/ part = "delete" /\ Delete!Next
       \/ part = "sender" /\ Sender!Next
       \/ part = "copies" /\ Copies!Next
       \/ part = "curate" /\ Curate!Next
       \/ part = "uploads" /\ UploadsOnly!Next
       \/ part = "refs" /\ Refs!Next
       \/ part = "outputs" /\ OutputsOnly!Next
       \/ part = "clean" /\ Clean!Next
       \/ part = "revoke" /\ Revoke!Next
       \/ part = "sent" /\ Sent!Next
       \/ part = "tree" /\ Tree!Next
       \/ part = "versions" /\ Versions!Next
    /\ Still(MemoryContextParts, <<log, readable, ver, bank, man, base, text, got, snap,
                                      pc, calls, why>>)
    /\ Still(MemorySourceParts, <<st, gen, cur, manual, blocked, acts, guard, wk, rop,
                                     doc, fact, flight, made>>)
    /\ Still(MemorySourceParts \cup FileObjectsParts, <<faults>>)
    /\ Still(FileObjectsParts, <<row, expiry, queue, refs, staging, object, put, out,
                                    intent, runActive, holder, gc>>)
    /\ Still(ResourceAccessParts, <<parent, live, file, chain, grants, attached, status,
                                       cand, fixed, access, txn, request, published, ops,
                                       told>>)
    /\ UNCHANGED part

SideSpec == SideInit /\ [][SideNext]_sideVars

-----------------------------------------------------------------------------
\* A deleted source is gone and a retained one made once, unless a Worker died while a deletion
\* sent the refused retain again; a readable one is current (MemorySource).
SourcesSafe == /\ part = "delete" => Delete!Safety
               /\ part = "sender" => Sender!Safety
               /\ part = "copies" => Copies!Safety
               /\ part = "curate" => Curate!Safety

\* A ready object has its bytes, a bound one is kept, a told output is stored (FileObjects).
ObjectsSafe == /\ part = "uploads" => UploadsOnly!Safety
               /\ part = "refs" => Refs!Safety
               /\ part = "outputs" => OutputsOnly!Safety
               /\ part = "clean" => Clean!Safety

\* The tree is whole, updates build on the last version, and a Run that lost its
\* authorization is cancelled (ResourceAccess).
AccessSafe == /\ part = "revoke" => Revoke!Safety /\ Revoke!LostIsCancelled
              /\ part = "sent" => Sent!Safety
              /\ part = "tree" => Tree!Safety
              /\ part = "versions" => Versions!Safety /\ Versions!LostIsCancelled

\* Files and who may read them.
FilesSafe == ObjectsSafe /\ AccessSafe

\* What no step may do: bring back what was deleted, send what was revoked, send a file
\* without authority over it, change a fixed version.
MemorySteps == [][/\ part = "delete" => Delete!TombstoneStays /\ Delete!NeverReturns
                  /\ part = "sender" => Sender!NeverReturns
                  /\ part = "curate" => Curate!RevokedIsNotSent
                  /\ part = "sent" => Sent!SentIsAuthorized
                  /\ part = "versions" => Versions!FixedStays]_sideVars

\* A source whose deletion was verified has no document in the bank (MemorySource).
DeletionIsFinal == part = "delete" => Delete!DeletionIsFinal
=============================================================================
