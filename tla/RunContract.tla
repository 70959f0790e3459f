----------------------------- MODULE RunContract -----------------------------
(***************************************************************************)
(* What the schema promises about chat Runs to everybody who reads them:   *)
(* the status transitions of the enforce_run_status_transition trigger,    *)
(* the unique index on the active Run of a conversation, and one terminal  *)
(* event per Run, written with its terminal status.  RunDispatch, whose    *)
(* actions come from the application code, is shown to implement it.       *)
(***************************************************************************)
CONSTANTS Runs, Convs, ConvOf

VARIABLES status, published

ActiveStatus   == {"queued", "running", "cancelling"}
TerminalStatus == {"succeeded", "failed", "cancelled"}

\* enforce_run_status_transition
Transition == {<<"queued", "running">>, <<"queued", "cancelling">>,
               <<"queued", "failed">>, <<"queued", "cancelled">>,
               <<"running", "cancelling">>, <<"running", "succeeded">>,
               <<"running", "failed">>, <<"cancelling", "cancelled">>}

Init == /\ status = [r \in Runs |-> "none"]
        /\ published = {}

\* uq_runs__one_active_per_conversation
Accept(r) ==
  /\ status[r] = "none"
  /\ \A x \in Runs : ConvOf[x] = ConvOf[r] => status[x] \notin ActiveStatus
  /\ status' = [status EXCEPT ![r] = "queued"]
  /\ UNCHANGED published

Move(r, s) ==
  /\ <<status[r], s>> \in Transition
  /\ status' = [status EXCEPT ![r] = s]
  /\ published' = IF s \in TerminalStatus THEN published \cup {<<r, s>>} ELSE published

Next == \E r \in Runs : \/ Accept(r)
                        \/ \E s \in ActiveStatus \cup TerminalStatus : Move(r, s)

Spec == Init /\ [][Next]_<<status, published>>
=============================================================================
