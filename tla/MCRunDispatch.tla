---------------------------- MODULE MCRunDispatch ----------------------------
(* Small instances of RunDispatch for TLC. *)
EXTENDS RunDispatch, TLC

CONSTANTS r1, r2, c1, c2, w1, w2, p1, p2

\* Two Runs of one conversation, and two of different conversations.
OneConv  == [r \in Runs |-> c1]
TwoConvs == (r1 :> c1) @@ (r2 :> c2)

\* Dispatchers on two hosts whose processes happen to have the same pid.
SamePid == [w \in Workers |-> p1]

\* The behaviours searched for a starved reconciler: nobody cancels, no
\* Activity is abandoned, r2 is sent once r1 has failed, and reconciler rounds
\* before that are left out.
Unattended ==
  /\ intent = {}
  /\ \A r \in Runs : tmpCancel[r] = "no" /\ late[r] = {} /\ retryOf[r] = NoRun
  /\ runSt[r2] # "none" \/ rpc # "idle" => runSt[r1] = "failed"

\* The reconciler is about while at most one fault has happened.
Calm == rpc # "idle" => faults <= 1

WorkerSymmetry == Permutations(Workers)
=============================================================================
