------------------------ MODULE ExecutionScopeProof -------------------------
(***************************************************************************)
(* However many attempts and deaths of the process there are: an attempt   *)
(* that runs has the scope, the directory and the sandbox it made, is not  *)
(* kept out by another, and leaves nothing behind.                         *)
(***************************************************************************)
EXTENDS ExecutionScope, TLAPS

\* An attempt that has made nothing, and one that has taken everything down
Outside == {"none", "rows", "mkdir", "left"}
Stages == Outside \cup {"bind", "dead"} \cup Inside
Attempt == [pc: Stages, kind: {"none", "model", "tool"}]
Candidate == {"absent", "copying", "copied", "open"}

Shape == TypeOK /\ att \in [A -> Attempt] /\ inputs \in [A -> Candidate]

\* The scope of an attempt is bound exactly while it is inside.
ScopeOK(a) == scopes[a] = IF At(a) \in Inside THEN a ELSE 0

\* What the manager lists under the key of an attempt is its own, and only while
\* the attempt is inside.
ManagerOK(a) ==
  /\ boxes[a] \in {0, a}
  /\ boxes[a] = a \/ a \in hints \/ a \in cache => At(a) \in Inside

\* The directory exists from mkdir to close, and may survive the process.
DirOK(a) ==
  /\ At(a) \in Inside \cup {"bind"} => a \in dirs
  /\ At(a) \in Outside => a \notin dirs

ThreadOK(a) == a \in threads => At(a) = "run"

\* Nothing gives a permission back.
CandidateOK(a) == a \in late => ~allowed /\ inputs[a] \in {"copied", "absent"}

Started(a) == a > token => At(a) = "none"

AttemptOK(a) ==
  ScopeOK(a) /\ ManagerOK(a) /\ DirOK(a) /\ ThreadOK(a) /\ CandidateOK(a) /\ Started(a)

Sound == Shape /\ \A a \in A : AttemptOK(a)
-----------------------------------------------------------------------------
(* Types *)

LEMMA InitSound ==
  ASSUME Init
  PROVE  Sound
<1>1. Shape
  BY ScopeAssumption DEF Init, Shape, TypeOK, A, Attempt, Stages, Outside, Candidate
<1>2. ASSUME NEW a \in A
      PROVE  AttemptOK(a)
  BY <1>2 DEF Init, AttemptOK, ScopeOK, ManagerOK, DirOK, ThreadOK, CandidateOK, Started, At,
              Inside, Outside, A
<1> QED
  BY <1>1, <1>2 DEF Sound

-----------------------------------------------------------------------------
(* The steps of an attempt *)

\* What an action does not touch of another attempt stays as it should be.
LEMMA OthersKeep ==
  ASSUME Sound, NEW b \in A, token' \in {token, token + 1},
         att'[b] = att[b], scopes'[b] = scopes[b], inputs'[b] = inputs[b],
         boxes'[b] \in {0, boxes[b]},
         b \in hints' => b \in hints, b \in cache' => b \in cache,
         b \in dirs' <=> b \in dirs, b \in threads' => b \in threads,
         b \in late' => b \in late, allowed' => allowed
  PROVE  AttemptOK(b)'
<1>1. token \in Nat /\ b \in Nat
  BY DEF Sound, Shape, TypeOK, A
<1>2. At(b)' = At(b)
  BY DEF At
<1> QED
  BY <1>1, <1>2 DEF Sound, AttemptOK, ScopeOK, ManagerOK, DirOK, ThreadOK, CandidateOK, Started

\* An attempt goes on, the others stay where they are.
LEMMA GoesKeeps ==
  ASSUME Shape, NEW a \in A, NEW to \in Stages, Goes(a, to)
  PROVE  /\ att' \in [A -> Attempt]
         /\ att'[a].pc = to
         /\ \A b \in A : att'[b].kind = att[b].kind /\ (b # a => att'[b] = att[b])
BY DEF Shape, Goes, Attempt

LEMMA LoadRowsSound ==
  ASSUME Sound, NEW a \in A, LoadRows(a)
  PROVE  Sound'
<1> USE DEF LoadRows, store, manager, Holds
<1>1. AttemptOK(a) /\ Shape
  BY DEF Sound
<1>2. PICK to \in {"mkdir", "left"} : Goes(a, to)
  BY DEF LoadRows
<1>3. /\ att' \in [A -> Attempt]
      /\ att'[a].pc = to
      /\ \A b \in A : att'[b].kind = att[b].kind /\ (b # a => att'[b] = att[b])
  BY <1>1, <1>2, GoesKeeps DEF Stages, Outside, Inside
<1>4. Shape'
  BY <1>1, <1>3 DEF Shape, TypeOK, Candidate, At, A, AttemptOK, Started
<1>5. AttemptOK(a)'
  BY <1>1, <1>3 DEF Shape, TypeOK, AttemptOK, ScopeOK, ManagerOK, DirOK, ThreadOK,
              CandidateOK, Started, At, Inside, Outside, A
<1>6. ASSUME NEW b \in A \ {a}
      PROVE  AttemptOK(b)'
  BY <1>1, <1>3, OthersKeep DEF Sound, Shape, TypeOK, AttemptOK, ScopeOK, ManagerOK, A
<1> QED
  BY <1>4, <1>5, <1>6 DEF Sound

LEMMA PrepareRowsSound ==
  ASSUME Sound, NEW a \in A, PrepareRows(a)
  PROVE  Sound'
<1> USE DEF PrepareRows, store, manager, Path
<1>1. AttemptOK(a) /\ Shape
  BY DEF Sound
<1>2. PICK to \in {"bind"} : Goes(a, to)
  BY DEF PrepareRows
<1>3. /\ att' \in [A -> Attempt]
      /\ att'[a].pc = to
      /\ \A b \in A : att'[b].kind = att[b].kind /\ (b # a => att'[b] = att[b])
  BY <1>1, <1>2, GoesKeeps DEF Stages, Outside, Inside
<1>4. Shape'
  BY <1>1, <1>3 DEF Shape, TypeOK, Candidate, At, A, AttemptOK, Started
<1>5. AttemptOK(a)'
  BY <1>1, <1>3 DEF Shape, TypeOK, AttemptOK, ScopeOK, ManagerOK, DirOK, ThreadOK,
              CandidateOK, Started, At, Inside, Outside, A, Goes
<1>6. ASSUME NEW b \in A \ {a}
      PROVE  AttemptOK(b)'
  BY <1>1, <1>3, OthersKeep DEF Sound, Shape, TypeOK, AttemptOK, ScopeOK, ManagerOK, A
<1> QED
  BY <1>4, <1>5, <1>6 DEF Sound

LEMMA BindSound ==
  ASSUME Sound, NEW a \in A, Bind(a)
  PROVE  At(a)' = "sandbox" /\ Sound'
<1> USE DEF store, manager
<1>1. AttemptOK(a) /\ Shape
  BY DEF Sound
<1>2. scopes[a] = 0 /\ At(a) = "bind"
  BY <1>1 DEF Bind, AttemptOK, ScopeOK, Inside
<1>3. /\ Goes(a, "sandbox")
      /\ scopes' = [scopes EXCEPT ![a] = a]
      /\ UNCHANGED <<token, inputs, dirs, late, boxes, hints, cache, threads, allowed>>
  BY <1>2 DEF Bind, Key
<1>4. /\ att' \in [A -> Attempt]
      /\ att'[a].pc = "sandbox"
      /\ \A b \in A : att'[b].kind = att[b].kind /\ (b # a => att'[b] = att[b])
  BY <1>1, <1>3, GoesKeeps DEF Stages, Inside
<1>5. a <= token /\ a \in Nat /\ token \in Nat
  BY <1>1, <1>2 DEF AttemptOK, Started, Shape, TypeOK, A
<1>6. Shape'
  <2>1. scopes' \in [A -> 0..token'] /\ boxes' \in [A -> 0..token']
    BY <1>1, <1>3, <1>5 DEF Shape, TypeOK
  <2>2. \A b \in A : (b <= token') = (att'[b].kind # "none")
    BY <1>1, <1>3, <1>4 DEF Shape, TypeOK
  <2> QED
    BY <1>1, <1>3, <1>4, <2>1, <2>2 DEF Shape, TypeOK
<1>7. AttemptOK(a)'
  BY <1>1, <1>2, <1>3, <1>4, <1>5
     DEF Shape, TypeOK, AttemptOK, ScopeOK, ManagerOK, DirOK, ThreadOK, CandidateOK, Started,
         At, Inside, Outside
<1>8. ASSUME NEW b \in A \ {a}
      PROVE  AttemptOK(b)'
  BY <1>1, <1>3, <1>4, OthersKeep DEF Shape, TypeOK
<1> QED
  BY <1>4, <1>6, <1>7, <1>8 DEF Sound, At

LEMMA CreateSandboxSound ==
  ASSUME Sound, NEW a \in A, CreateSandbox(a)
  PROVE  Sound'
<1> USE DEF CreateSandbox, store, manager, Key, Holds
<1>1. AttemptOK(a) /\ Shape
  BY DEF Sound
<1>2. PICK to \in {"reset", "fence", "close"} : Goes(a, to)
  BY DEF CreateSandbox
<1>3. /\ att' \in [A -> Attempt]
      /\ att'[a].pc = to
      /\ \A b \in A : att'[b].kind = att[b].kind /\ (b # a => att'[b] = att[b])
  BY <1>1, <1>2, GoesKeeps DEF Stages, Outside, Inside
<1>4. Shape'
  BY <1>1, <1>3 DEF Shape, TypeOK, Candidate, At, A, AttemptOK, Started
<1>5. AttemptOK(a)'
  BY <1>1, <1>3 DEF Shape, TypeOK, AttemptOK, ScopeOK, ManagerOK, DirOK, ThreadOK,
              CandidateOK, Started, At, Inside, Outside, A, Goes
<1>6. ASSUME NEW b \in A \ {a}
      PROVE  AttemptOK(b)'
  <2>1. /\ boxes'[b] = boxes[b]
        /\ UNCHANGED <<token, scopes, inputs, hints, cache, dirs, threads, late, allowed>>
    BY <1>1 DEF Shape, TypeOK
  <2>2. boxes[b] \in {0, boxes[b]} /\ att'[b] = att[b]
    BY <1>3
  <2> QED
    BY <2>1, <2>2, OthersKeep
<1> QED
  BY <1>4, <1>5, <1>6 DEF Sound

LEMMA CloseSound ==
  ASSUME Sound, NEW a \in A, Close(a)
  PROVE  Sound'
<1> USE DEF Close, store, manager, Key, Path, Unbind
<1>1. AttemptOK(a) /\ Shape
  BY DEF Sound
<1>2. PICK to \in {"left"} : Goes(a, to)
  BY DEF Close
<1>3. /\ att' \in [A -> Attempt]
      /\ att'[a].pc = to
      /\ \A b \in A : att'[b].kind = att[b].kind /\ (b # a => att'[b] = att[b])
  BY <1>1, <1>2, GoesKeeps DEF Stages, Outside, Inside
<1>4. Shape'
  BY <1>1, <1>3 DEF Shape, TypeOK, Candidate, At, A, AttemptOK, Started
<1>5. AttemptOK(a)'
  BY <1>1, <1>3 DEF Shape, TypeOK, AttemptOK, ScopeOK, ManagerOK, DirOK, ThreadOK,
              CandidateOK, Started, At, Inside, Outside, A
<1>6. ASSUME NEW b \in A \ {a}
      PROVE  AttemptOK(b)'
  BY <1>1, <1>3, OthersKeep DEF Sound, Shape, TypeOK, AttemptOK, ScopeOK, ManagerOK, A
<1> QED
  BY <1>4, <1>5, <1>6 DEF Sound

LEMMA ResetSound ==
  ASSUME Sound, NEW a \in A, Reset(a)
  PROVE  Sound'
<1> USE DEF Reset, store, manager, Key, Holds
<1>1. AttemptOK(a) /\ Shape
  BY DEF Sound
<1>2. PICK to \in {"select", "close"} : Goes(a, to)
  BY DEF Reset
<1>3. /\ att' \in [A -> Attempt]
      /\ att'[a].pc = to
      /\ \A b \in A : att'[b].kind = att[b].kind /\ (b # a => att'[b] = att[b])
  BY <1>1, <1>2, GoesKeeps DEF Stages, Outside, Inside
<1>4. Shape'
  BY <1>1, <1>3 DEF Shape, TypeOK, Candidate, At, A, AttemptOK, Started
<1>5. AttemptOK(a)'
  BY <1>1, <1>3 DEF Shape, TypeOK, AttemptOK, ScopeOK, ManagerOK, DirOK, ThreadOK,
              CandidateOK, Started, At, Inside, Outside, A, Goes
<1>6. ASSUME NEW b \in A \ {a}
      PROVE  AttemptOK(b)'
  BY <1>1, <1>3, OthersKeep DEF Sound, Shape, TypeOK, AttemptOK, ScopeOK, ManagerOK, A
<1> QED
  BY <1>4, <1>5, <1>6 DEF Sound

LEMMA SelectToolsSound ==
  ASSUME Sound, NEW a \in A, SelectTools(a)
  PROVE  Sound'
<1> USE DEF SelectTools, store, manager, Key
<1>1. AttemptOK(a) /\ Shape
  BY DEF Sound
<1>2. PICK to \in {"answer"} : Goes(a, to)
  BY DEF SelectTools
<1>3. /\ att' \in [A -> Attempt]
      /\ att'[a].pc = to
      /\ \A b \in A : att'[b].kind = att[b].kind /\ (b # a => att'[b] = att[b])
  BY <1>1, <1>2, GoesKeeps DEF Stages, Outside, Inside
<1>4. Shape'
  BY <1>1, <1>3 DEF Shape, TypeOK, Candidate, At, A, AttemptOK, Started
<1>5. AttemptOK(a)'
  BY <1>1, <1>3 DEF Shape, TypeOK, AttemptOK, ScopeOK, ManagerOK, DirOK, ThreadOK,
              CandidateOK, Started, At, Inside, Outside, A
<1>6. ASSUME NEW b \in A \ {a}
      PROVE  AttemptOK(b)'
  BY <1>1, <1>3, OthersKeep DEF Sound, Shape, TypeOK, AttemptOK, ScopeOK, ManagerOK, A
<1> QED
  BY <1>4, <1>5, <1>6 DEF Sound

LEMMA AnsweredSound ==
  ASSUME Sound, NEW a \in A, Answered(a)
  PROVE  Sound'
<1> USE DEF Answered, store, manager
<1>1. AttemptOK(a) /\ Shape
  BY DEF Sound
<1>2. PICK to \in {"close"} : Goes(a, to)
  BY DEF Answered
<1>3. /\ att' \in [A -> Attempt]
      /\ att'[a].pc = to
      /\ \A b \in A : att'[b].kind = att[b].kind /\ (b # a => att'[b] = att[b])
  BY <1>1, <1>2, GoesKeeps DEF Stages, Outside, Inside
<1>4. Shape'
  BY <1>1, <1>3 DEF Shape, TypeOK, Candidate, At, A, AttemptOK, Started
<1>5. AttemptOK(a)'
  BY <1>1, <1>3 DEF Shape, TypeOK, AttemptOK, ScopeOK, ManagerOK, DirOK, ThreadOK,
              CandidateOK, Started, At, Inside, Outside, A
<1>6. ASSUME NEW b \in A \ {a}
      PROVE  AttemptOK(b)'
  BY <1>1, <1>3, OthersKeep DEF Sound, Shape, TypeOK, AttemptOK, ScopeOK, ManagerOK, A
<1> QED
  BY <1>4, <1>5, <1>6 DEF Sound

LEMMA IntentSound ==
  ASSUME Sound, NEW a \in A, Intent(a)
  PROVE  Sound'
<1> USE DEF Intent, store, manager, Holds
<1>1. AttemptOK(a) /\ Shape
  BY DEF Sound
<1>2. PICK to \in {"capacity", "close"} : Goes(a, to)
  BY DEF Intent
<1>3. /\ att' \in [A -> Attempt]
      /\ att'[a].pc = to
      /\ \A b \in A : att'[b].kind = att[b].kind /\ (b # a => att'[b] = att[b])
  BY <1>1, <1>2, GoesKeeps DEF Stages, Outside, Inside
<1>4. Shape'
  BY <1>1, <1>3 DEF Shape, TypeOK, Candidate, At, A, AttemptOK, Started
<1>5. AttemptOK(a)'
  BY <1>1, <1>3 DEF Shape, TypeOK, AttemptOK, ScopeOK, ManagerOK, DirOK, ThreadOK,
              CandidateOK, Started, At, Inside, Outside, A
<1>6. ASSUME NEW b \in A \ {a}
      PROVE  AttemptOK(b)'
  BY <1>1, <1>3, OthersKeep DEF Sound, Shape, TypeOK, AttemptOK, ScopeOK, ManagerOK, A
<1> QED
  BY <1>4, <1>5, <1>6 DEF Sound

LEMMA DispatchSound ==
  ASSUME Sound, NEW a \in A, Dispatch(a)
  PROVE  Sound'
<1> USE DEF Dispatch, store, manager, Key, Holds
<1>1. AttemptOK(a) /\ Shape
  BY DEF Sound
<1>2. PICK to \in {"close", "run"} : Goes(a, to)
  BY DEF Dispatch
<1>3. /\ att' \in [A -> Attempt]
      /\ att'[a].pc = to
      /\ \A b \in A : att'[b].kind = att[b].kind /\ (b # a => att'[b] = att[b])
  BY <1>1, <1>2, GoesKeeps DEF Stages, Outside, Inside
<1>4. Shape'
  BY <1>1, <1>3 DEF Shape, TypeOK, Candidate, At, A, AttemptOK, Started
<1>5. AttemptOK(a)'
  BY <1>1, <1>3 DEF Shape, TypeOK, AttemptOK, ScopeOK, ManagerOK, DirOK, ThreadOK,
              CandidateOK, Started, At, Inside, Outside, A, Goes
<1>6. ASSUME NEW b \in A \ {a}
      PROVE  AttemptOK(b)'
  BY <1>1, <1>3, OthersKeep DEF Sound, Shape, TypeOK, AttemptOK, ScopeOK, ManagerOK, A
<1> QED
  BY <1>4, <1>5, <1>6 DEF Sound

LEMMA FileToolSound ==
  ASSUME Sound, NEW a \in A, FileTool(a)
  PROVE  Sound'
<1> USE DEF FileTool, Goes, store, manager, Key
<1>1. AttemptOK(a) /\ Shape
  BY DEF Sound
<1>2. Shape'
  BY <1>1 DEF Shape, TypeOK, Attempt, Stages, Outside, Inside, Candidate, At, A,
              AttemptOK, Started
<1>3. AttemptOK(a)'
  BY <1>1 DEF Shape, TypeOK, Attempt, AttemptOK, ScopeOK, ManagerOK, DirOK, ThreadOK,
              CandidateOK, Started, At, Inside, Outside, A
<1>4. ASSUME NEW b \in A \ {a}
      PROVE  AttemptOK(b)'
  BY <1>1, OthersKeep DEF Sound, Shape, TypeOK, AttemptOK, ScopeOK, ManagerOK, A
<1> QED
  BY <1>2, <1>3, <1>4 DEF Sound

LEMMA ThreadEndsSound ==
  ASSUME Sound, NEW a \in A, ThreadEnds(a)
  PROVE  Sound'
<1> USE DEF ThreadEnds, Goes, store, manager
<1>1. AttemptOK(a) /\ Shape
  BY DEF Sound
<1>2. Shape'
  BY <1>1 DEF Shape, TypeOK, Attempt, Stages, Outside, Inside, Candidate, At, A,
              AttemptOK, Started
<1>3. AttemptOK(a)'
  BY <1>1 DEF Shape, TypeOK, Attempt, AttemptOK, ScopeOK, ManagerOK, DirOK, ThreadOK,
              CandidateOK, Started, At, Inside, Outside, A
<1>4. ASSUME NEW b \in A \ {a}
      PROVE  AttemptOK(b)'
  BY <1>1, OthersKeep DEF Sound, Shape, TypeOK, AttemptOK, ScopeOK, ManagerOK, A
<1> QED
  BY <1>2, <1>3, <1>4 DEF Sound

LEMMA ReturnSound ==
  ASSUME Sound, NEW a \in A, Return(a)
  PROVE  Sound'
<1> USE DEF Return, store, manager
<1>1. AttemptOK(a) /\ Shape
  BY DEF Sound
<1>2. PICK to \in {"close"} : Goes(a, to)
  BY DEF Return
<1>3. /\ att' \in [A -> Attempt]
      /\ att'[a].pc = to
      /\ \A b \in A : att'[b].kind = att[b].kind /\ (b # a => att'[b] = att[b])
  BY <1>1, <1>2, GoesKeeps DEF Stages, Outside, Inside
<1>4. Shape'
  BY <1>1, <1>3 DEF Shape, TypeOK, Candidate, At, A, AttemptOK, Started
<1>5. AttemptOK(a)'
  BY <1>1, <1>3 DEF Shape, TypeOK, AttemptOK, ScopeOK, ManagerOK, DirOK, ThreadOK,
              CandidateOK, Started, At, Inside, Outside, A
<1>6. ASSUME NEW b \in A \ {a}
      PROVE  AttemptOK(b)'
  BY <1>1, <1>3, OthersKeep DEF Sound, Shape, TypeOK, AttemptOK, ScopeOK, ManagerOK, A
<1> QED
  BY <1>4, <1>5, <1>6 DEF Sound

LEMMA ChooseSound ==
  ASSUME Sound, NEW a \in A, Choose(a)
  PROVE  Sound'
<1> USE DEF Choose, Goes, store, manager, Holds
<1>1. AttemptOK(a) /\ Shape
  BY DEF Sound
<1>2. Shape'
  BY <1>1 DEF Shape, TypeOK, Attempt, Stages, Outside, Inside, Candidate, At, A,
              AttemptOK, Started
<1>3. AttemptOK(a)'
  BY <1>1 DEF Shape, TypeOK, Attempt, AttemptOK, ScopeOK, ManagerOK, DirOK, ThreadOK,
              CandidateOK, Started, At, Inside, Outside, A
<1>4. ASSUME NEW b \in A \ {a}
      PROVE  AttemptOK(b)'
  BY <1>1, OthersKeep DEF Sound, Shape, TypeOK, AttemptOK, ScopeOK, ManagerOK, A
<1> QED
  BY <1>2, <1>3, <1>4 DEF Sound

LEMMA CopyEndsSound ==
  ASSUME Sound, NEW a \in A, CopyEnds(a)
  PROVE  Sound'
<1> USE DEF CopyEnds, Goes, store, manager
<1>1. AttemptOK(a) /\ Shape
  BY DEF Sound
<1>2. Shape'
  BY <1>1 DEF Shape, TypeOK, Attempt, Stages, Outside, Inside, Candidate, At, A,
              AttemptOK, Started
<1>3. AttemptOK(a)'
  BY <1>1 DEF Shape, TypeOK, Attempt, AttemptOK, ScopeOK, ManagerOK, DirOK, ThreadOK,
              CandidateOK, Started, At, Inside, Outside, A
<1>4. ASSUME NEW b \in A \ {a}
      PROVE  AttemptOK(b)'
  BY <1>1, OthersKeep DEF Sound, Shape, TypeOK, AttemptOK, ScopeOK, ManagerOK, A
<1> QED
  BY <1>2, <1>3, <1>4 DEF Sound

LEMMA PlaceSound ==
  ASSUME Sound, NEW a \in A, Place(a)
  PROVE  Sound'
<1> USE DEF Place, Goes, store, manager, Recheck, Holds
<1>1. AttemptOK(a) /\ Shape
  BY DEF Sound
<1>2. Shape'
  BY <1>1 DEF Shape, TypeOK, Attempt, Stages, Outside, Inside, Candidate, At, A,
              AttemptOK, Started
<1>3. AttemptOK(a)'
  BY <1>1 DEF Shape, TypeOK, Attempt, AttemptOK, ScopeOK, ManagerOK, DirOK, ThreadOK,
              CandidateOK, Started, At, Inside, Outside, A
<1>4. ASSUME NEW b \in A \ {a}
      PROVE  AttemptOK(b)'
  BY <1>1, OthersKeep DEF Sound, Shape, TypeOK, AttemptOK, ScopeOK, ManagerOK, A
<1> QED
  BY <1>2, <1>3, <1>4 DEF Sound

LEMMA CancelSound ==
  ASSUME Sound, NEW a \in A, Cancel(a)
  PROVE  Sound'
<1> USE DEF Cancel, store, manager, Waits
<1>1. AttemptOK(a) /\ Shape
  BY DEF Sound
<1>2. PICK to \in {"close"} : Goes(a, to)
  BY DEF Cancel
<1>3. /\ att' \in [A -> Attempt]
      /\ att'[a].pc = to
      /\ \A b \in A : att'[b].kind = att[b].kind /\ (b # a => att'[b] = att[b])
  BY <1>1, <1>2, GoesKeeps DEF Stages, Outside, Inside
<1>4. Shape'
  BY <1>1, <1>3 DEF Shape, TypeOK, Candidate, At, A, AttemptOK, Started
<1>5. AttemptOK(a)'
  BY <1>1, <1>3 DEF Shape, TypeOK, AttemptOK, ScopeOK, ManagerOK, DirOK, ThreadOK,
              CandidateOK, Started, At, Inside, Outside, A
<1>6. ASSUME NEW b \in A \ {a}
      PROVE  AttemptOK(b)'
  BY <1>1, <1>3, OthersKeep DEF Sound, Shape, TypeOK, AttemptOK, ScopeOK, ManagerOK, A
<1> QED
  BY <1>4, <1>5, <1>6 DEF Sound

-----------------------------------------------------------------------------
(* What happens around the attempts *)

LEMMA BeginSound ==
  ASSUME Sound, NEW kind \in {"model", "tool"}, Begin(kind)
  PROVE  Sound'
<1> USE DEF store, manager
<1>0. PICK a : a = token + 1
  OBVIOUS
<1>1. Shape /\ a \in A /\ AttemptOK(a) /\ token \in Nat
  <2>1. Shape /\ token \in Nat /\ token < MaxAttempts
    BY DEF Sound, Shape, TypeOK, Begin
  <2>2. a \in A
    BY <1>0, <2>1, ScopeAssumption DEF A
  <2> QED
    BY <2>1, <2>2 DEF Sound
<1>2. At(a) = "none"
  BY <1>0, <1>1 DEF AttemptOK, Started
<1>3. att' = [att EXCEPT ![a] = [pc |-> "rows", kind |-> kind]] /\ token' = a
  BY <1>0 DEF Begin
<1>4. Shape'
  <2>1. att' \in [A -> Attempt]
    BY <1>1, <1>3 DEF Shape, Attempt, Stages, Outside
  <2>2. \A b \in A : (b <= token') = (att'[b].kind # "none")
    BY <1>0, <1>1, <1>3 DEF Shape, TypeOK, A
  <2> QED
    BY <1>0, <1>1, <1>3, <2>1, <2>2 DEF Begin, Shape, TypeOK, A
<1>5. AttemptOK(a)'
  <2>1. At(a)' = "rows"
    BY <1>1, <1>3 DEF At, Shape
  <2>2. UNCHANGED <<scopes, boxes, hints, cache, dirs, threads, late, inputs, allowed>>
    BY DEF Begin
  <2> QED
    BY <1>0, <1>1, <1>2, <1>3, <2>1, <2>2
       DEF AttemptOK, ScopeOK, ManagerOK, DirOK, ThreadOK, CandidateOK, Started, Inside, Outside
<1>6. ASSUME NEW b \in A \ {a}
      PROVE  AttemptOK(b)'
  BY <1>0, <1>1, <1>3, OthersKeep DEF Begin, Shape
<1> QED
  BY <1>4, <1>5, <1>6 DEF Sound

LEMMA CleanupSound ==
  ASSUME Sound, NEW k \in A, CleanupIdle(k)
  PROVE  Sound'
<1> USE DEF store, manager, CleanupIdle
<1>1. Shape'
  BY DEF Sound, Shape, TypeOK, A
<1>2. ASSUME NEW b \in A
      PROVE  AttemptOK(b)'
  BY <1>2, OthersKeep DEF Sound, Shape, TypeOK
<1> QED
  BY <1>1, <1>2 DEF Sound

LEMMA RevokeSound ==
  ASSUME Sound, Revoke
  PROVE  Sound'
<1> USE DEF store, manager, Revoke
<1>1. Shape'
  BY DEF Sound, Shape, TypeOK
<1>2. ASSUME NEW b \in A
      PROVE  AttemptOK(b)'
  BY <1>2, OthersKeep DEF Sound
<1> QED
  BY <1>1, <1>2 DEF Sound

\* The process takes with it all but the directories.
LEMMA CrashSound ==
  ASSUME Sound, Crash
  PROVE  Sound'
<1> USE DEF store, manager, Crash
<1>1. Shape /\ \A a \in A : AttemptOK(a)
  BY DEF Sound
<1>2. att' \in [A -> Attempt] /\ \A a \in A : att'[a].kind = att[a].kind
  BY <1>1 DEF Shape, Attempt, Stages
<1>3. Shape'
  BY <1>1, <1>2 DEF Shape, TypeOK
<1>4. ASSUME NEW b \in A
      PROVE  AttemptOK(b)'
  <2>1. At(b)' \in {"none", "left", "dead"}
    BY <1>1 DEF At, Shape, Attempt
  <2>2. At(b) = "none" => At(b)' = "none"
    BY DEF At
  <2>3. At(b)' \in {"none", "left"} => At(b)' = At(b)
    BY <1>1 DEF At, Shape, Attempt
  <2>4. /\ scopes'[b] = 0 /\ boxes'[b] = 0
        /\ b \notin hints' /\ b \notin cache' /\ b \notin threads'
        /\ UNCHANGED <<dirs, late, inputs, allowed, token>>
    OBVIOUS
  <2> HIDE DEF Crash
  <2>5. AttemptOK(b)
    BY <1>1
  <2>6. ScopeOK(b)' /\ ManagerOK(b)' /\ ThreadOK(b)' /\ CandidateOK(b)'
    <3>1. ScopeOK(b)'
      BY <2>1, <2>4 DEF ScopeOK, Inside
    <3>2. ManagerOK(b)'
      BY <2>4 DEF ManagerOK, A
    <3>3. ThreadOK(b)'
      BY <2>4 DEF ThreadOK
    <3>4. CandidateOK(b)'
      BY <2>4, <2>5 DEF AttemptOK, CandidateOK
    <3> QED
      BY <3>1, <3>2, <3>3, <3>4
  <2>7. DirOK(b)'
    BY <2>1, <2>3, <2>4, <2>5 DEF AttemptOK, DirOK, Inside, Outside
  <2>8. Started(b)'
    BY <2>2, <2>4, <2>5 DEF AttemptOK, Started
  <2> QED
    BY <2>6, <2>7, <2>8 DEF AttemptOK
<1> QED
  BY <1>3, <1>4 DEF Sound

LEMMA StutterSound ==
  ASSUME Sound, UNCHANGED vars
  PROVE  Sound'
<1>1. Shape'
  BY DEF Sound, Shape, TypeOK, vars, store, manager
<1>2. ASSUME NEW b \in A
      PROVE  AttemptOK(b)'
  BY <1>2, OthersKeep DEF Sound, vars, store, manager
<1> QED
  BY <1>1, <1>2 DEF Sound

LEMMA NextSound ==
  ASSUME Sound, [Next]_vars
  PROVE  Sound'
<1>1. ASSUME NEW a \in A, Steps(a)
      PROVE  Sound'
  BY <1>1, LoadRowsSound, PrepareRowsSound, BindSound, CreateSandboxSound, CloseSound,
     ResetSound, SelectToolsSound, AnsweredSound, IntentSound, DispatchSound, FileToolSound,
     ThreadEndsSound, ReturnSound, ChooseSound, CopyEndsSound, PlaceSound
     DEF Steps
<1> QED
  BY <1>1, BeginSound, CancelSound, CleanupSound, RevokeSound, CrashSound, StutterSound DEF Next

-----------------------------------------------------------------------------
(* The theorems *)

\* What the process and its disk hold for an attempt follows from where the attempt is,
\* at all times, for every number of attempts and of deaths of the process.
THEOREM AlwaysSound == Spec => []Sound
  BY InitSound, NextSound, PTL DEF Spec

LEMMA SoundIsSafe ==
  ASSUME Sound
  PROVE  Safety
<1>1. \A a \in A : AttemptOK(a)
  BY DEF Sound
<1>2. TypeOK
  BY DEF Sound, Shape
<1>3. OwnScope /\ DirIsKept
  BY <1>1 DEF OwnScope, DirIsKept, Key, Path, AttemptOK, ScopeOK, DirOK
<1>4. ThreadHasScope
  BY <1>1, <1>2 DEF ThreadHasScope, TypeOK, AttemptOK, ThreadOK, DirOK, Path, Inside
<1>5. NoneIsLeft
  <2>1. ASSUME NEW a \in A, At(a) = "left"
        PROVE  a \notin dirs /\ a \notin hints /\ a \notin cache
    BY <1>1, <2>1 DEF AttemptOK, DirOK, ManagerOK, Inside, Outside
  <2>2. ASSUME NEW a \in A, At(a) = "left", NEW k \in A
        PROVE  scopes[k] # a /\ boxes[k] # a
    BY <1>1, <2>2 DEF A, AttemptOK, ScopeOK, ManagerOK, Inside
  <2> QED
    BY <2>1, <2>2 DEF NoneIsLeft
<1>6. RevokedIsNotPlaced
  BY <1>1, <1>2 DEF RevokedIsNotPlaced, TypeOK, AttemptOK, CandidateOK
<1> QED
  BY <1>2, <1>3, <1>4, <1>5, <1>6 DEF Safety

\* An attempt has its own scope and directory for as long as it or a thread of it may use
\* them, leaves nothing behind, and is never given a candidate that was withdrawn
\* while it was copied.
THEOREM ScopesAreKept == Spec => []Safety
  BY AlwaysSound, SoundIsSafe, PTL

\* No attempt finds the key of its resources taken by one that was given up.
THEOREM NobodyIsRefused == Spec => NoneIsRefused
<1>1. Sound /\ [Next]_vars => [NoneIsRefusedStep]_vars
  BY BindSound DEF NoneIsRefusedStep
<1> QED
  BY <1>1, AlwaysSound, PTL DEF Spec, NoneIsRefused
=============================================================================
