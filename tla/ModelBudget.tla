----------------------------- MODULE ModelBudget -----------------------------
(***************************************************************************)
(* Governed model calls of one Run: the three usage ledgers (account and    *)
(* day, Work, Run), the frozen snapshot, the dispatch marker, and           *)
(* ResourcePool.generate walking its fallback chain between them.  Several  *)
(* producers may execute the same logical call (a retried Activity derives  *)
(* the same operation ids), a Worker may die anywhere, and a cancelled      *)
(* await leaves its database thread running.  Every transaction is one      *)
(* step; the end of the Run recovers what is still held.                    *)
(***************************************************************************)
EXTENDS Naturals, Sequences, FiniteSets, FiniteSetsExt

CONSTANTS
    Producers,      \* concurrent executions of the same logical model call
    Chain,          \* operation id of each candidate endpoint, in order
    ToolOps,        \* tool or stage reservations of the same Run
    Est,            \* operation -> estimated tokens
    Actuals,        \* usage a provider may report
    FinalOps,       \* operations reserved with final_response
    FinalReserve,   \* final_response_reserve_tokens
    Limit,          \* [account, work, run] -> tokens
    MaxDay, MaxVer  \* bounds on UTC days and entitlement versions

ModelOps == {Chain[i] : i \in 1..Len(Chain)}
Ops == ModelOps \cup ToolOps
Days == 0..MaxDay
Ledgers == {"work", "run"}

BudgetAssumption ==
    /\ ModelOps \cap ToolOps = {}
    /\ FinalOps \subseteq ModelOps
    /\ Est \in [Ops -> Nat \ {0}]

VARIABLES
    status,     \* runs.status: "running" | "terminal"
    day,        \* today, UTC
    ent,        \* account_entitlements.version, 0 when no longer valid
    snap,       \* operation -> entitlement_version of its snapshot, 0 if none
    marked,     \* operations with a model_dispatches row
    acct,       \* account_model_usage_ledger: day -> operation -> row
    led,        \* work_usage_ledger and run_usage_ledger
    acctSum,    \* account_daily_model_budgets: day -> used, reserved
    sum,        \* work_budgets and run_budgets: used, reserved
    pc, at, ver, settle, back,  \* the producers' local state
    late,       \* database threads whose awaiting task was cancelled
    sends       \* provider requests per operation

store == <<status, day, ent, snap, marked, acct, led, acctSum, sum>>
local == <<pc, at, ver, settle, back>>
vars == <<store, local, late, sends>>

NoRow == [state |-> "none", held |-> 0, actual |-> 0, source |-> "none"]
Row == [state : {"none", "reserved", "settled", "released"}, held : Nat,
        actual : Nat, source : {"none", "provider", "estimated"}]
Zero == [used |-> 0, res |-> 0]
Op(p) == Chain[at[p]]

TypeOK ==
    /\ status \in {"running", "terminal"} /\ day \in Days /\ ent \in 0..MaxVer
    /\ snap \in [ModelOps -> 0..MaxVer] /\ marked \subseteq ModelOps
    /\ acct \in [Days -> [ModelOps -> Row]] /\ led \in [Ledgers -> [Ops -> Row]]
    /\ acctSum \in [Days -> [used : Nat, res : Nat]]
    /\ sum \in [Ledgers -> [used : Nat, res : Nat]]
    /\ pc \in [Producers -> {"entitle", "freeze", "reserve", "slot", "mark", "send",
                             "answer", "charge", "undo", "done", "raised", "dead"}]
    /\ at \in [Producers -> 1..Len(Chain)] /\ ver \in [Producers -> 0..MaxVer]
    /\ settle \in [Producers -> BOOLEAN] /\ back \in [Producers -> {"next", "raise"}]
    /\ sends \in [ModelOps -> Nat]

Init ==
    /\ status = "running" /\ day = 0 /\ ent = 1
    /\ snap = [o \in ModelOps |-> 0] /\ marked = {}
    /\ acct = [d \in Days |-> [o \in ModelOps |-> NoRow]]
    /\ led = [l \in Ledgers |-> [o \in Ops |-> NoRow]]
    /\ acctSum = [d \in Days |-> Zero] /\ sum = [l \in Ledgers |-> Zero]
    /\ pc = [p \in Producers |-> "entitle"] /\ at = [p \in Producers |-> 1]
    /\ ver = [p \in Producers |-> 0] /\ settle = [p \in Producers |-> FALSE]
    /\ back = [p \in Producers |-> "raise"]
    /\ late = {} /\ sends = [o \in ModelOps |-> 0]

----------------------------------------------------------------------------
(* Rows and sums of one ledger.                                             *)

Hold(n) == [state |-> "reserved", held |-> n, actual |-> 0, source |-> "none"]
Fits(s, n, cap) == s.used + s.res + n <= cap
AddHold(s, n) == [s EXCEPT !.res = @ + n]

\* A settled row accepts only the same settlement again.
CanSettle(r, n, src) == \/ r.state = "reserved"
                        \/ r.state = "settled" /\ r.actual = n /\ r.source = src
\* Variation: whoever settles last wins.
SettleRowAgain(r, n, src) ==
    IF r.state = "none" THEN r ELSE [r EXCEPT !.state = "settled", !.actual = n, !.source = src]

SettleRow(r, n, src) ==
    IF r.state = "reserved"
    THEN [r EXCEPT !.state = "settled", !.actual = n, !.source = src] ELSE r
\* Variation: a repeated settlement is added once more.
SettleSumReplayed(s, r, n) ==
    [used |-> s.used + n, res |-> IF r.state = "reserved" THEN s.res - r.held ELSE s.res]

SettleSum(s, r, n) ==
    IF r.state = "reserved" THEN [used |-> s.used + n, res |-> s.res - r.held] ELSE s

CanRelease(r) == r.state \in {"reserved", "released"}
ReleaseRow(r) == IF r.state = "reserved" THEN [r EXCEPT !.state = "released"] ELSE r
ReleaseSum(s, r) == IF r.state = "reserved" THEN [s EXCEPT !.res = @ - r.held] ELSE s

\* _locked_ledger without a date: the operation must have exactly one row.
RowDays(o) == {d \in Days : acct[d][o].state # "none"}
Unique(o) == Cardinality(RowDays(o)) = 1
DayOf(o) == CHOOSE d \in RowDays(o) : TRUE

\* A reservation repeated after midnight stays on its first day.
QuotaDay(o) == IF RowDays(o) = {} THEN day ELSE DayOf(o)

----------------------------------------------------------------------------
(* ModelBudgetCoordinator: each is one transaction over the three ledgers.   *)

RunCap(o) == IF o \in FinalOps \cup ToolOps
             THEN Limit["run"]
             ELSE IF Limit["run"] > FinalReserve THEN Limit["run"] - FinalReserve ELSE 0

Room(o, d, n) ==
    /\ o \in ModelOps => Fits(acctSum[d], n, Limit["account"])
    /\ Fits(sum["work"], n, Limit["work"])
    /\ Fits(sum["run"], n, RunCap(o))

BookRun(o, n) ==
    /\ led' = [l \in Ledgers |-> [led[l] EXCEPT ![o] = Hold(n)]]
    /\ sum' = [l \in Ledgers |-> AddHold(sum[l], n)]

Book(o, d, n) ==
    /\ acct' = [acct EXCEPT ![d][o] = Hold(n)]
    /\ acctSum' = [acctSum EXCEPT ![d] = AddHold(@, n)]
    /\ BookRun(o, n)

CanSettleAll(o, d, n, src) ==
    CanSettle(acct[d][o], n, src) /\ \A l \in Ledgers : CanSettle(led[l][o], n, src)

SettleAll(o, d, n, src) ==
    /\ acct' = [acct EXCEPT ![d][o] = SettleRow(@, n, src)]
    /\ acctSum' = [acctSum EXCEPT ![d] = SettleSum(@, acct[d][o], n)]
    /\ led' = [l \in Ledgers |-> [led[l] EXCEPT ![o] = SettleRow(@, n, src)]]
    /\ sum' = [l \in Ledgers |-> SettleSum(sum[l], led[l][o], n)]

CanReleaseAll(o, d) ==
    /\ o \notin marked
    /\ CanRelease(acct[d][o]) /\ \A l \in Ledgers : CanRelease(led[l][o])

ReleaseAll(o, d) ==
    /\ acct' = [acct EXCEPT ![d][o] = ReleaseRow(@)]
    /\ acctSum' = [acctSum EXCEPT ![d] = ReleaseSum(@, acct[d][o])]
    /\ led' = [l \in Ledgers |-> [led[l] EXCEPT ![o] = ReleaseRow(@)]]
    /\ sum' = [l \in Ledgers |-> ReleaseSum(sum[l], led[l][o])]

\* recover_terminal_in_uow of the coordinator, then of RunBudgetService.
Recovered(o, r) ==
    IF o \in ModelOps /\ o \notin marked THEN ReleaseRow(r)
    ELSE SettleRow(r, r.held, "estimated")

RecoveredSum(s, rows, set) ==
    [used |-> s.used + MapThenSumSet(LAMBDA o :
                  IF rows[o].state = "reserved" /\ Recovered(o, rows[o]).state = "settled"
                  THEN rows[o].held ELSE 0, set),
     res |-> s.res - MapThenSumSet(LAMBDA o :
                  IF rows[o].state = "reserved" THEN rows[o].held ELSE 0, set)]

\* finish_in_uow: the terminal status and both recoveries in one transaction.
FinishRun ==
    /\ status' = "terminal"
    /\ acct' = [d \in Days |-> [o \in ModelOps |-> Recovered(o, acct[d][o])]]
    /\ acctSum' = [d \in Days |-> RecoveredSum(acctSum[d], acct[d], ModelOps)]
    /\ led' = [l \in Ledgers |-> [o \in Ops |-> Recovered(o, led[l][o])]]
    /\ sum' = [l \in Ledgers |-> RecoveredSum(sum[l], led[l], Ops)]
    /\ UNCHANGED <<day, ent, snap, marked, local, late, sends>>

----------------------------------------------------------------------------
(* RunBudgetService used directly by a tool or a research stage.             *)

ReserveTool(o) ==
    /\ status = "running" /\ led["run"][o] = NoRow /\ Room(o, day, Est[o])
    /\ BookRun(o, Est[o])
    /\ UNCHANGED <<status, day, ent, snap, marked, acct, acctSum, local, late, sends>>

SettleTool(o, n) ==
    /\ led["run"][o].state # "none"
    /\ \A l \in Ledgers : CanSettle(led[l][o], n, "provider")
    /\ led' = [l \in Ledgers |-> [led[l] EXCEPT ![o] = SettleRow(@, n, "provider")]]
    /\ sum' = [l \in Ledgers |-> SettleSum(sum[l], led[l][o], n)]
    /\ UNCHANGED <<status, day, ent, snap, marked, acct, acctSum, local, late, sends>>

ReleaseTool(o) ==
    /\ led["run"][o].state # "none" /\ \A l \in Ledgers : CanRelease(led[l][o])
    /\ led' = [l \in Ledgers |-> [led[l] EXCEPT ![o] = ReleaseRow(@)]]
    /\ sum' = [l \in Ledgers |-> ReleaseSum(sum[l], led[l][o])]
    /\ UNCHANGED <<status, day, ent, snap, marked, acct, acctSum, local, late, sends>>

----------------------------------------------------------------------------
(* ResourcePool.generate.                                                   *)

Goto(p, l) == pc' = [pc EXCEPT ![p] = l]
Raise(p) == Goto(p, "raised") /\ UNCHANGED <<at, ver, settle, back>>

\* The candidate failed in a way that lets the chain go on.
NextCandidate(p) ==
    IF at[p] < Len(Chain)
    THEN /\ Goto(p, "entitle") /\ at' = [at EXCEPT ![p] = @ + 1]
         /\ settle' = [settle EXCEPT ![p] = FALSE] /\ UNCHANGED <<ver, back>>
    ELSE Raise(p)

\* An exception inside the try block: undo or charge, then go on or raise.
Unwind(p, label, keep, how) ==
    /\ Goto(p, label) /\ settle' = [settle EXCEPT ![p] = keep]
    /\ back' = [back EXCEPT ![p] = how] /\ UNCHANGED <<at, ver>>

\* Entitlement lookup, tier check and request preparation.
Entitle(p) ==
    /\ pc[p] = "entitle"
    /\ IF ent = 0 THEN Raise(p)
       ELSE \/ /\ Goto(p, "freeze") /\ ver' = [ver EXCEPT ![p] = ent]
               /\ UNCHANGED <<at, settle, back>>
            \/ NextCandidate(p)     \* tier denied, or the request cannot be built
            \/ Raise(p)             \* ModelRequestInvalid
    /\ UNCHANGED <<store, late, sends>>

\* SnapshotRepository.freeze: the first snapshot of an operation is kept.
Freeze(p) ==
    /\ pc[p] = "freeze"
    /\ \/ /\ snap' = [snap EXCEPT ![Op(p)] = IF @ = 0 THEN ver[p] ELSE @]
          /\ Goto(p, "reserve") /\ UNCHANGED <<at, ver, settle, back>>
       \/ Raise(p) /\ UNCHANGED snap    \* memory revoked, changed request
    /\ UNCHANGED <<status, day, ent, marked, acct, led, acctSum, sum, late, sends>>

Usable(r) == r.state = "reserved"

\* require_active_run, and the entitlement version the snapshot was made with.
MayReserve(p) == status = "running" /\ ent = ver[p]

Reserve(p) ==
    LET o == Op(p)  d == QuotaDay(o)  r == acct[d][o] IN
    /\ pc[p] = "reserve"
    /\ IF ~MayReserve(p) THEN Raise(p) /\ UNCHANGED <<acct, led, acctSum, sum>>
       ELSE \/ /\ r.state = "none" /\ Room(o, d, Est[o])
               /\ Book(o, d, Est[o])
               /\ Goto(p, "slot") /\ settle' = [settle EXCEPT ![p] = TRUE]
               /\ UNCHANGED <<at, ver, back>>
            \/ /\ r.state = "none" /\ ~Room(o, d, Est[o])
               /\ Raise(p) /\ UNCHANGED <<acct, led, acctSum, sum>>
            \/ /\ r.state # "none"
               /\ IF Usable(r)
                  THEN /\ Goto(p, "slot") /\ settle' = [settle EXCEPT ![p] = FALSE]
                       /\ UNCHANGED <<at, ver, back>>
                  ELSE Raise(p)
               /\ UNCHANGED <<acct, led, acctSum, sum>>
    /\ UNCHANGED <<status, day, ent, snap, marked, late, sends>>

\* The capacity slot, the workspace policy and the second entitlement lookup.
Slot(p) ==
    /\ pc[p] = "slot"
    /\ \/ ent = ver[p] /\ Goto(p, "mark") /\ UNCHANGED <<at, ver, settle, back>>
       \/ \E how \in {"next", "raise"} : Unwind(p, "undo", settle[p], how)
    /\ UNCHANGED <<store, late, sends>>

\* mark_dispatched: who inserts the marker owns the dispatch.
Markable(o) == Unique(o) /\ acct[DayOf(o)][o].state = "reserved" /\ o \notin marked
Permitted(o) == status = "running" /\ ent = snap[o] /\ ent # 0

Mark(p) ==
    LET o == Op(p) IN
    /\ pc[p] = "mark"
    /\ \/ /\ Permitted(o) /\ Markable(o)
          /\ marked' = marked \cup {o}
          /\ Goto(p, "send") /\ settle' = [settle EXCEPT ![p] = TRUE]
          /\ UNCHANGED <<at, ver, back, late>>
       \/ /\ Permitted(o) /\ ~Markable(o)      \* AccountDailyBudgetConflict
          /\ Unwind(p, "undo", FALSE, "raise") /\ UNCHANGED <<marked, late>>
       \/ /\ ~Permitted(o)
          /\ Unwind(p, "undo", settle[p], "raise") /\ UNCHANGED <<marked, late>>
       \/ /\ late' = late \cup {[kind |-> "mark", op |-> o, n |-> 0]}   \* cancelled await
          /\ Unwind(p, "undo", settle[p], "raise") /\ UNCHANGED marked
    /\ UNCHANGED <<status, day, ent, snap, acct, led, acctSum, sum, sends>>

\* send_prepared: the request leaves; it answers, fails or is cancelled.
Send(p) ==
    /\ pc[p] = "send"
    /\ sends' = [sends EXCEPT ![Op(p)] = @ + 1]
    /\ \/ Goto(p, "answer") /\ UNCHANGED <<at, ver, settle, back>>
       \/ \E how \in {"next", "raise"} : Unwind(p, "charge", TRUE, how)
    /\ UNCHANGED <<store, late>>

\* Settlement with the provider's usage, and the latency budget after it.
Answer(p, n) ==
    LET o == Op(p) IN
    /\ pc[p] = "answer"
    /\ \/ /\ CanSettleAll(o, DayOf(o), n, "provider")
          /\ SettleAll(o, DayOf(o), n, "provider")
          /\ \/ Goto(p, "done") /\ UNCHANGED <<at, ver, settle, back>>
             \/ at[p] < Len(Chain) /\ NextCandidate(p)
          /\ UNCHANGED late
       \/ /\ ~CanSettleAll(o, DayOf(o), n, "provider")
          /\ Unwind(p, "charge", TRUE, "raise")
          /\ UNCHANGED <<acct, led, acctSum, sum, late>>
       \/ /\ late' = late \cup {[kind |-> "settle", op |-> o, n |-> n]}
          /\ Unwind(p, "charge", TRUE, "raise")
          /\ UNCHANGED <<acct, led, acctSum, sum>>
    /\ UNCHANGED <<status, day, ent, snap, marked, sends>>

\* The except clauses after dispatch: charge the estimate.
Charge(p) ==
    LET o == Op(p) IN
    /\ pc[p] = "charge"
    /\ IF CanSettleAll(o, DayOf(o), Est[o], "estimated")
       THEN /\ SettleAll(o, DayOf(o), Est[o], "estimated")
            /\ IF back[p] = "next" THEN NextCandidate(p) ELSE Raise(p)
       ELSE Raise(p) /\ UNCHANGED <<acct, led, acctSum, sum>>
    /\ UNCHANGED <<status, day, ent, snap, marked, late, sends>>

\* The except clauses before dispatch: release what this producer reserved.
Undo(p) ==
    LET o == Op(p) IN
    /\ pc[p] = "undo"
    /\ IF settle[p] /\ CanReleaseAll(o, DayOf(o))
       THEN ReleaseAll(o, DayOf(o)) ELSE UNCHANGED <<acct, led, acctSum, sum>>
    /\ IF back[p] = "next" THEN NextCandidate(p) ELSE Raise(p)
    /\ UNCHANGED <<status, day, ent, snap, marked, late, sends>>

\* The Worker dies: nothing of its clean-up runs.
Die(p) ==
    /\ pc[p] \notin {"done", "raised", "dead"}
    /\ Goto(p, "dead") /\ UNCHANGED <<at, ver, settle, back, store, late, sends>>

\* A thread whose task was cancelled still commits, or is refused.
LateMark(t) ==
    /\ t \in late /\ t.kind = "mark" /\ late' = late \ {t}
    /\ marked' = IF Permitted(t.op) /\ Markable(t.op) THEN marked \cup {t.op} ELSE marked
    /\ UNCHANGED <<status, day, ent, snap, acct, led, acctSum, sum, local, sends>>

LateSettle(t) ==
    /\ t \in late /\ t.kind = "settle" /\ late' = late \ {t}
    /\ IF CanSettleAll(t.op, DayOf(t.op), t.n, "provider")
       THEN SettleAll(t.op, DayOf(t.op), t.n, "provider")
       ELSE UNCHANGED <<acct, led, acctSum, sum>>
    /\ UNCHANGED <<status, day, ent, snap, marked, local, sends>>

Midnight == /\ day < MaxDay /\ day' = day + 1
            /\ UNCHANGED <<status, ent, snap, marked, acct, led, acctSum, sum, local, late, sends>>

\* The entitlement gets a new version, or stops being valid (external command).
Reentitle ==
    /\ \/ ent \in 1..(MaxVer - 1) /\ ent' = ent + 1
       \/ ent # 0 /\ ent' = 0
    /\ UNCHANGED <<status, day, snap, marked, acct, led, acctSum, sum, local, late, sends>>

Step(p) ==
    \/ Entitle(p) \/ Freeze(p) \/ Reserve(p) \/ Slot(p) \/ Mark(p) \/ Send(p)
    \/ (\E n \in Actuals : Answer(p, n)) \/ Charge(p) \/ Undo(p)

Next ==
    \/ \E p \in Producers : Step(p) \/ Die(p)
    \/ \E t \in late : LateMark(t) \/ LateSettle(t)
    \/ \E o \in ToolOps : ReserveTool(o) \/ ReleaseTool(o) \/ \E n \in Actuals : SettleTool(o, n)
    \/ FinishRun \/ Midnight \/ Reentitle

Spec == Init /\ [][Next]_vars

----------------------------------------------------------------------------
(* Properties.                                                              *)

Rows(o) == {acct[d][o] : d \in RowDays(o)}

\* A request that left for a provider left once, and stays held or charged:
\* neither a racing producer nor the end of the Run frees it.
SentIsAccounted ==
    \A o \in ModelOps :
        /\ sends[o] <= 1
        /\ sends[o] = 1 => Unique(o) /\ acct[DayOf(o)][o].state \in {"reserved", "settled"}

\* Account, Work and Run book the same facts for every model operation, on one day.
LedgersAgree ==
    \A o \in ModelOps :
        /\ Cardinality(RowDays(o)) <= 1
        /\ \A r \in Rows(o), l \in Ledgers : led[l][o] = r
        /\ RowDays(o) = {} => \A l \in Ledgers : led[l][o] = NoRow

\* The summary rows hold exactly what the ledgers add up to.
Held(rows, set) == MapThenSumSet(LAMBDA o : IF rows[o].state = "reserved" THEN rows[o].held ELSE 0, set)
Spent(rows, set) == MapThenSumSet(LAMBDA o : IF rows[o].state = "settled" THEN rows[o].actual ELSE 0, set)
SumsAreExact ==
    /\ \A d \in Days : acctSum[d] = [used |-> Spent(acct[d], ModelOps), res |-> Held(acct[d], ModelOps)]
    /\ \A l \in Ledgers : sum[l] = [used |-> Spent(led[l], Ops), res |-> Held(led[l], Ops)]

\* Up to what providers report beyond their estimate, no ledger commits more than
\* its limit, and ordinary calls never eat the final answer's share.
Committed(r) == IF r.state = "reserved" THEN r.held
                ELSE IF r.state = "settled" THEN IF r.actual < r.held THEN r.actual ELSE r.held
                ELSE 0
CommittedTotal(rows, set) == MapThenSumSet(LAMBDA o : Committed(rows[o]), set)
WithinLimits ==
    /\ \A d \in Days : CommittedTotal(acct[d], ModelOps) <= Limit["account"]
    /\ \A l \in Ledgers : CommittedTotal(led[l], Ops) <= Limit[l]
    /\ CommittedTotal(led["run"], ModelOps \ FinalOps) + FinalReserve <= Limit["run"]

\* A Run that ended holds nothing: no late producer can reserve again.
TerminalHoldsNothing ==
    status = "terminal" =>
        /\ \A d \in Days, o \in ModelOps : acct[d][o].state # "reserved"
        /\ \A l \in Ledgers, o \in Ops : led[l][o].state # "reserved"

\* What was settled or released is never rewritten by a late settlement.
ClosedStaysClosed ==
    /\ \A d \in Days, o \in ModelOps :
         acct[d][o].state \in {"settled", "released"} => acct'[d][o] = acct[d][o]
    /\ \A l \in Ledgers, o \in Ops :
         led[l][o].state \in {"settled", "released"} => led'[l][o] = led[l][o]

\* Every ledger of a call agrees with the others and stays within its limits.
Safety ==
    /\ TypeOK
    /\ SentIsAccounted
    /\ LedgersAgree
    /\ SumsAreExact
    /\ WithinLimits
    /\ TerminalHoldsNothing
=============================================================================
