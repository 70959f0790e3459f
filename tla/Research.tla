------------------------------ MODULE Research ------------------------------
(***************************************************************************)
(* The Research capability: a child Workflow walks a fixed stage graph with *)
(* at most MaxIterations rounds; every stage is an Activity that takes the   *)
(* execution lease, works in several transactions and external calls, and   *)
(* stores an immutable stage result.  A Worker may die between any two of   *)
(* them, or be given up by Temporal and go on as a zombie beside its retry.  *)
(* Researches of one Run share its budget.                                   *)
(***************************************************************************)
EXTENDS Naturals, FiniteSets, FiniteSetsExt

CONSTANTS
    Researches,     \* capability invocations of one Run
    Objective,      \* research -> its question; equal questions, equal queries
    Uris,           \* canonical source addresses
    Text,           \* uri -> content hash
    Covers,         \* uri -> concepts its passages name, {} for no passage
    Concepts,       \* concepts the objective names
    Tier,           \* uri -> source_tier
    MaxIterations, MaxSources, MaxFetches, MaxSpans, MinSources,
    Limit,          \* [rounds, sources, fetches, calls] of the Run budget
    MaxAttempts,    \* retry_policy.maximum_attempts
    MaxFaults       \* bound on crashes, stalls, failed requests together

VARIABLES
    run,        \* runs.status: "running" | "cancelling"
    wf,         \* child Workflow: status, tries of the scheduled Activity
    att,        \* the scheduled attempt ("cur") and one given up ("zom")
    holder,     \* owner of the execution lease
    res,        \* research_stage_results
    led,        \* run_usage_ledger: round, source and fetch reservations
    paid,       \* tool_calls charged before a paid request
    sends,      \* paid requests that left the process
    sources,    \* source_records
    evidence,   \* sources with evidence_items
    iters,      \* research_iterations: query and gap analysis
    syn,        \* synthesis: dispatch marker, requests sent, receipt
    report,     \* research_reports with its claim's citations
    result,     \* capability_results
    faults

store == <<res, led, paid, sends, sources, evidence, iters, syn, report, result>>
vars == <<run, wf, att, holder, store, faults>>

Iterations == 1..MaxIterations
Looped == {"Discover", "Rank", "Fetch", "Normalize", "Extract", "Corroborate", "Gap"}
Fixed == {"Planning", "Strategy", "Synthesis", "Verify", "Compare", "Commit"}
Stages == (Looped \X Iterations) \cup (Fixed \X {0})
Kinds == {"round", "source", "fetch"}
None == [saved |-> FALSE, stop |-> FALSE, enough |-> FALSE]
Saved(stop, enough) == [saved |-> TRUE, stop |-> stop, enough |-> enough]
NoEntry == [state |-> "none", held |-> 0, actual |-> 0]
NoSource == [status |-> "none", iter |-> 0]
Fresh(stage) == [pc |-> "wait", stage |-> stage, seen |-> NoEntry, n |-> 0,
                 set |-> {}, at |-> {}, out |-> None]
Keys == (Researches \X {"search"} \X Iterations) \cup (Researches \X {"fetch"} \X Uris)
Gone == [Fresh(<<"Planning", 0>>) EXCEPT !.pc = "gone"]

TypeOK ==
    /\ run \in {"running", "cancelling"}
    /\ wf \in [Researches -> [status : {"run", "done", "failed", "cancelled"},
                              tries : 1..MaxAttempts]]
    /\ holder \in [Researches -> {"none", "cur", "zom", "dead"}]
    /\ \A r \in Researches, s \in {"cur", "zom"} : att[r][s].stage \in Stages
    /\ res \in [Researches -> [Stages -> [saved : BOOLEAN, stop : BOOLEAN, enough : BOOLEAN]]]
    /\ led \in [Researches -> [Kinds -> [Iterations ->
            [state : {"none", "reserved", "settled"}, held : Nat, actual : Nat]]]]
    /\ sources \in [Researches -> [Uris ->
            [status : {"none", "discovered", "fetched", "duplicate", "failed"},
             iter : 0..MaxIterations]]]
    /\ evidence \in [Researches -> SUBSET Uris]
    /\ report \in [Researches -> [kind : {"none", "empty", "full"}, cites : SUBSET Uris,
                                  status : {"pending", "verified", "needs_review"},
                                  diff : BOOLEAN, file : BOOLEAN]]
    /\ result \in [Researches -> {"none", "succeeded", "insufficient"}]
    /\ faults \in 0..MaxFaults

Init ==
    /\ run = "running"
    /\ wf = [r \in Researches |-> [status |-> "run", tries |-> 1]]
    /\ att = [r \in Researches |-> [cur |-> Fresh(<<"Planning", 0>>), zom |-> Gone]]
    /\ holder = [r \in Researches |-> "none"]
    /\ res = [r \in Researches |-> [k \in Stages |-> None]]
    /\ led = [r \in Researches |-> [k \in Kinds |-> [i \in Iterations |-> NoEntry]]]
    /\ paid = {} /\ sends = [k \in Keys |-> 0]
    /\ sources = [r \in Researches |-> [u \in Uris |-> NoSource]]
    /\ evidence = [r \in Researches |-> {}]
    /\ iters = [r \in Researches |-> [i \in Iterations |-> [query |-> <<>>, missing |-> {}]]]
    /\ syn = [r \in Researches |-> [marked |-> FALSE, sent |-> 0, receipt |-> "none"]]
    /\ report = [r \in Researches |-> [kind |-> "none", cites |-> {}, status |-> "pending",
                                       diff |-> FALSE, file |-> FALSE]]
    /\ result = [r \in Researches |-> "none"]
    /\ faults = 0

----------------------------------------------------------------------------
(* Attempts, the lease and the Workflow.                                    *)

Pc(r, s, stage, pc) == att[r][s].pc = pc /\ att[r][s].stage[1] = stage
Iter(r, s) == att[r][s].stage[2]
Goto(r, s, pc) == att' = [att EXCEPT ![r][s].pc = pc]

\* Every database write of a stage carries the fence it acquired.
Fenced(r, s) == holder[r] = s

Freed(r, s) == IF holder[r] = s THEN [holder EXCEPT ![r] = "none"] ELSE holder

\* The stage after stage k with result out.
NextStage(k, out) ==
    CASE k[1] = "Planning" -> <<"Strategy", 0>>
      [] k[1] = "Strategy" -> <<"Discover", 1>>
      [] k[1] = "Discover" -> IF out.stop THEN <<"Synthesis", 0>> ELSE <<"Rank", k[2]>>
      [] k[1] = "Rank" -> <<"Fetch", k[2]>>
      [] k[1] = "Fetch" -> <<"Normalize", k[2]>>
      [] k[1] = "Normalize" -> <<"Extract", k[2]>>
      [] k[1] = "Extract" -> <<"Corroborate", k[2]>>
      [] k[1] = "Corroborate" -> <<"Gap", k[2]>>
      [] k[1] = "Gap" -> IF out.enough \/ k[2] = MaxIterations THEN <<"Synthesis", 0>>
                         ELSE <<"Discover", k[2] + 1>>
      [] k[1] = "Synthesis" -> <<"Verify", 0>>
      [] k[1] = "Verify" -> <<"Compare", 0>>
      [] OTHER -> <<"Commit", 0>>

\* An attempt ends with an error: Temporal retries it unless it is final.
Ended(r, s, final) ==
    /\ holder' = Freed(r, s)
    /\ IF s = "zom" THEN /\ att' = [att EXCEPT ![r].zom = Gone] /\ UNCHANGED wf
       ELSE IF final \/ run = "cancelling" \/ wf[r].tries = MaxAttempts
       THEN /\ wf' = [wf EXCEPT ![r].status = IF run = "cancelling" THEN "cancelled" ELSE "failed"]
            /\ att' = [att EXCEPT ![r].cur = Gone]
       ELSE /\ wf' = [wf EXCEPT ![r].tries = @ + 1]
            /\ att' = [att EXCEPT ![r].cur = Fresh(att[r].cur.stage)]
    /\ UNCHANGED <<run, store, faults>>

\* A lease is free, released by its owner, or no longer renewed.
Acquire(r) ==
    /\ att[r].cur.pc = "wait" /\ holder[r] # "cur"
    /\ holder' = [holder EXCEPT ![r] = "cur"]
    /\ Goto(r, "cur", "begin")
    /\ UNCHANGED <<run, wf, store, faults>>

\* A write under a superseded fence is refused and ends the attempt.
Stale(r, s) ==
    /\ att[r][s].pc \notin {"gone", "wait"} /\ ~Fenced(r, s)
    /\ att[r][s].pc \notin {"settle", "paid"}
    /\ Ended(r, s, TRUE)

FirstStep(stage) ==
    CASE stage = "Discover" -> "query" [] stage = "Fetch" -> "rows"
      [] stage = "Synthesis" -> "plan" [] stage = "Commit" -> "publish" [] OTHER -> "act"

\* _assert_current, then the stored result of an earlier attempt, if any.
Begin(r, s) ==
    LET old == res[r][att[r][s].stage] IN
    /\ att[r][s].pc = "begin" /\ Fenced(r, s)
    /\ IF run = "cancelling" THEN Ended(r, s, FALSE)
       ELSE /\ att' = [att EXCEPT ![r][s].pc = IF old.saved THEN "end"
                                               ELSE FirstStep(att[r][s].stage[1]),
                                  ![r][s].out = old]
            /\ UNCHANGED <<run, wf, holder, store, faults>>

Leave(r, s, out) == att' = [att EXCEPT ![r][s].pc = "save", ![r][s].out = out]

Save(r, s) ==
    LET k == att[r][s].stage IN
    /\ att[r][s].pc = "save" /\ Fenced(r, s)
    /\ res' = [res EXCEPT ![r][k] = IF @.saved THEN @ ELSE att[r][s].out]
    /\ Goto(r, s, "end")
    /\ UNCHANGED <<run, wf, holder, led, paid, sends, sources, evidence, iters, syn, report, result, faults>>

\* The Activity returns; the Workflow schedules the next stage.
End(r, s) ==
    LET k == att[r][s].stage
        stop == s = "cur" /\ run = "cancelling"
        last == k[1] = "Commit"
    IN
    /\ att[r][s].pc = "end" /\ Fenced(r, s)
    /\ holder' = [holder EXCEPT ![r] = "none"]
    /\ att' = [att EXCEPT ![r][s] = IF s = "zom" \/ stop \/ last THEN Gone
                                    ELSE Fresh(NextStage(k, att[r][s].out))]
    /\ wf' = IF s = "zom" THEN wf
             ELSE [wf EXCEPT ![r] = [status |-> IF stop THEN "cancelled"
                                                ELSE IF last THEN "done" ELSE "run",
                                     tries |-> 1]]
    /\ UNCHANGED <<run, store, faults>>

----------------------------------------------------------------------------
(* The Run budget.                                                          *)

Held(kind) == MapThenSumSet(
    LAMBDA x : IF led[x[1]][kind][x[2]].state = "reserved" THEN led[x[1]][kind][x[2]].held
               ELSE led[x[1]][kind][x[2]].actual, Researches \X Iterations)
Room(kind, limit) == IF Held(kind) >= limit THEN 0 ELSE limit - Held(kind)

\* A repeated reservation returns the first one.
Book(r, kind, i, n) ==
    led' = [led EXCEPT ![r][kind][i] =
        IF @.state = "none" THEN [state |-> "reserved", held |-> n, actual |-> 0] ELSE @]

CanSettle(e, n) == e.state = "reserved" \/ (e.state = "settled" /\ e.actual = n)
Settled(e, n) == [e EXCEPT !.state = "settled", !.actual = n]

\* consume_attempt: one charge before a paid request; a replay may not send.
MayCall(key) == key \notin paid /\ Cardinality(paid) < Limit.calls

----------------------------------------------------------------------------
(* Single-transaction stages.                                               *)

Of(r, st) == {u \in Uris : sources[r][u].status = st}
Known(r) == {u \in Uris : sources[r][u].status # "none"}
InIter(r, i) == {u \in Known(r) : sources[r][u].iter = i}
Missing(r) == Concepts \ UNION {Covers[u] : u \in evidence[r]}
Enough(r) == Cardinality(evidence[r]) >= MinSources /\ Missing(r) = {}

\* Stages that only read or rewrite what they already wrote.
Plain(r, s) ==
    /\ att[r][s].pc = "act" /\ Fenced(r, s)
    /\ att[r][s].stage[1] \in {"Planning", "Strategy", "Rank", "Normalize", "Corroborate"}
    /\ Leave(r, s, Saved(FALSE, FALSE))
    /\ UNCHANGED <<run, wf, holder, store, faults>>

SpansLeft(r) == IF Cardinality(evidence[r]) >= MaxSpans THEN 0
                ELSE MaxSpans - Cardinality(evidence[r])

\* Passages of the fetched sources of this round that have none yet.
Extract(r, s) ==
    LET new == {u \in InIter(r, Iter(r, s)) : sources[r][u].status = "fetched"
                                               /\ Covers[u] # {}} \ evidence[r]
    IN
    /\ Pc(r, s, "Extract", "act") /\ Fenced(r, s)
    /\ \E E \in SUBSET new :
          /\ Cardinality(E) = Min({Cardinality(new), SpansLeft(r)})
          /\ evidence' = [evidence EXCEPT ![r] = @ \cup E]
    /\ Leave(r, s, Saved(FALSE, FALSE))
    /\ UNCHANGED <<run, wf, holder, res, led, paid, sends, sources, iters, syn, report, result, faults>>

Gap(r, s) ==
    /\ Pc(r, s, "Gap", "act") /\ Fenced(r, s)
    /\ iters' = [iters EXCEPT ![r][Iter(r, s)].missing = Missing(r)]
    /\ Leave(r, s, Saved(FALSE, Enough(r)))
    /\ UNCHANGED <<run, wf, holder, res, led, paid, sends, sources, evidence, syn, report, result, faults>>

Weak(r) == \E u \in report[r].cites : Tier[u] > 1

Verify(r, s) ==
    /\ Pc(r, s, "Verify", "act") /\ Fenced(r, s)
    /\ report' = [report EXCEPT ![r].status =
            IF report[r].kind = "full"
               /\ (report[r].cites = {} \/ ~(report[r].cites \subseteq evidence[r]) \/ Weak(r))
            THEN "needs_review" ELSE "verified"]
    /\ Leave(r, s, Saved(FALSE, FALSE))
    /\ UNCHANGED <<run, wf, holder, res, led, paid, sends, sources, evidence, iters, syn, result, faults>>

Compare(r, s) ==
    /\ Pc(r, s, "Compare", "act") /\ Fenced(r, s)
    /\ report' = [report EXCEPT ![r].diff = TRUE]
    /\ Leave(r, s, Saved(FALSE, FALSE))
    /\ UNCHANGED <<run, wf, holder, res, led, paid, sends, sources, evidence, iters, syn, result, faults>>

----------------------------------------------------------------------------
(* Source discovery.                                                        *)

\* The objective first, then what the previous round's gap analysis missed.
Query(r, i) ==
    LET past == {j \in Iterations : j < i /\ iters[r][j].query # <<>>} IN
    IF past = {} \/ iters[r][Max(past)].missing = {} THEN <<"objective", Objective[r]>>
    ELSE <<"missing", iters[r][Max(past)].missing>>

Asked(q, r, i) == \E x \in Researches \X Iterations :
                     x # <<r, i>> /\ iters[x[1]][x[2]].query = q

CheckQuery(r, s) ==
    /\ Pc(r, s, "Discover", "query") /\ Fenced(r, s)
    /\ IF Asked(Query(r, Iter(r, s)), r, Iter(r, s)) THEN Leave(r, s, Saved(TRUE, FALSE))
       ELSE Goto(r, s, "round")
    /\ UNCHANGED <<run, wf, holder, store, faults>>

ReserveRound(r, s) ==
    LET i == Iter(r, s) IN
    /\ Pc(r, s, "Discover", "round") /\ Fenced(r, s)
    /\ IF led[r]["round"][i].state = "none" /\ Room("round", Limit.rounds) = 0
       THEN Leave(r, s, Saved(TRUE, FALSE)) /\ UNCHANGED led
       ELSE Goto(r, s, "start") /\ Book(r, "round", i, 1)
    /\ UNCHANGED <<run, wf, holder, res, paid, sends, sources, evidence, iters, syn, report, result, faults>>

\* _start_iteration: the row and its charge in one transaction.
StartIteration(r, s) ==
    LET i == Iter(r, s) IN
    /\ Pc(r, s, "Discover", "start") /\ Fenced(r, s) /\ CanSettle(led[r]["round"][i], 1)
    /\ iters' = [iters EXCEPT ![r][i].query = IF @ = <<>> THEN Query(r, i) ELSE @]
    /\ led' = [led EXCEPT ![r]["round"][i] = Settled(@, 1)]
    /\ Goto(r, s, "look")
    /\ UNCHANGED <<run, wf, holder, res, paid, sends, sources, evidence, syn, report, result, faults>>

SourcesLeft(r, i) ==
    IF Cardinality(Known(r)) >= MaxSources THEN 0 ELSE MaxSources - Cardinality(Known(r))

\* The ledger entry and the rows of an earlier attempt decide what is left.
LookForSources(r, s) ==
    LET i == Iter(r, s)
        e == led[r]["source"][i]
        left == Min({SourcesLeft(r, i), IF e.state = "none" THEN Room("source", Limit.sources)
                                        ELSE e.held})
    IN
    /\ Pc(r, s, "Discover", "look") /\ Fenced(r, s)
    /\ IF InIter(r, i) # {}
       THEN IF e.state = "reserved"
            THEN att' = [att EXCEPT ![r][s].pc = "settle", ![r][s].n = Cardinality(InIter(r, i))]
            ELSE Leave(r, s, Saved(FALSE, FALSE))
       ELSE IF left = 0 THEN Leave(r, s, Saved(TRUE, FALSE))
       ELSE att' = [att EXCEPT ![r][s].pc = "reserve", ![r][s].seen = e, ![r][s].n = left]
    /\ UNCHANGED <<run, wf, holder, store, faults>>

ReserveSources(r, s) ==
    LET i == Iter(r, s)
        n == IF att[r][s].seen.state = "none" THEN att[r][s].n ELSE att[r][s].seen.held
        e == led[r]["source"][i]
    IN
    /\ Pc(r, s, "Discover", "reserve") /\ Fenced(r, s)
    /\ IF e.state = "none" /\ Room("source", Limit.sources) < n
       THEN Ended(r, s, TRUE)
       ELSE /\ Book(r, "source", i, n) /\ Goto(r, s, "search")
            /\ UNCHANGED <<run, wf, holder, res, paid, sends, sources, evidence, iters, syn, report,
                           result, faults>>

\* The provider answers with candidates, or it fails and there are none.
Search(r, s) ==
    LET key == <<r, "search", Iter(r, s)>> IN
    /\ Pc(r, s, "Discover", "search") /\ Fenced(r, s)
    /\ IF key \notin paid /\ ~MayCall(key) THEN Ended(r, s, TRUE)
       ELSE /\ paid' = paid \cup {key}
            /\ sends' = [sends EXCEPT ![key] = IF MayCall(key) THEN @ + 1 ELSE @]
            /\ \E C \in IF MayCall(key) THEN {X \in SUBSET Uris : Cardinality(X) <= att[r][s].n}
                         ELSE {{}} :
                  att' = [att EXCEPT ![r][s].pc = "add", ![r][s].set = C]
            /\ UNCHANGED <<run, wf, holder, res, led, sources, evidence, iters, syn, report,
                           result, faults>>

\* A known address keeps its row; its id is returned and counted again.
AddCandidates(r, s) ==
    LET C == att[r][s].set IN
    /\ Pc(r, s, "Discover", "add") /\ Fenced(r, s)
    /\ sources' = [sources EXCEPT ![r] = [u \in Uris |->
            IF u \in C \ Known(r) THEN [status |-> "discovered", iter |-> Iter(r, s)]
            ELSE sources[r][u]]]
    /\ att' = [att EXCEPT ![r][s].pc = "settle", ![r][s].n = Cardinality(C), ![r][s].set = {}]
    /\ UNCHANGED <<run, wf, holder, res, led, paid, sends, evidence, iters, syn, report, result, faults>>

\* The settlement carries no fence: a zombie's may land after its retry's.
SettleSources(r, s) ==
    LET i == Iter(r, s) IN
    /\ Pc(r, s, "Discover", "settle")
    /\ IF ~CanSettle(led[r]["source"][i], att[r][s].n) THEN Ended(r, s, FALSE)
       ELSE /\ led' = [led EXCEPT ![r]["source"][i] = Settled(@, att[r][s].n)]
            /\ Leave(r, s, Saved(FALSE, FALSE))
            /\ UNCHANGED <<run, wf, holder, res, paid, sends, sources, evidence, iters, syn, report,
                           result, faults>>

----------------------------------------------------------------------------
(* Fetching.                                                                *)

Tried(r) == Of(r, "fetched") \cup Of(r, "duplicate") \cup Of(r, "failed")
FetchesLeft(r) ==
    IF Cardinality(Tried(r)) >= MaxFetches THEN 0 ELSE MaxFetches - Cardinality(Tried(r))

\* fetch_candidates: this round's discovered rows by tier, within the limit.
FetchRows(r, s) ==
    LET D == InIter(r, Iter(r, s)) \cap Of(r, "discovered") IN
    /\ Pc(r, s, "Fetch", "rows") /\ Fenced(r, s)
    /\ \E R \in SUBSET D :
          /\ Cardinality(R) = Min({Cardinality(D), FetchesLeft(r)})
          /\ \A u \in R, v \in D \ R : Tier[u] <= Tier[v]
          /\ att' = [att EXCEPT ![r][s].pc = "reserve", ![r][s].set = R,
                                ![r][s].seen = led[r]["fetch"][Iter(r, s)]]
    /\ UNCHANGED <<run, wf, holder, store, faults>>

ReserveFetches(r, s) ==
    LET i == Iter(r, s)
        n == IF att[r][s].seen.state = "none" THEN Cardinality(att[r][s].set)
             ELSE att[r][s].seen.held
    IN
    /\ Pc(r, s, "Fetch", "reserve") /\ Fenced(r, s)
    /\ IF led[r]["fetch"][i].state = "none" /\ Room("fetch", Limit.fetches) < n
       THEN Ended(r, s, TRUE)
       ELSE /\ Book(r, "fetch", i, n)
            /\ att' = [att EXCEPT ![r][s].pc = "pay", ![r][s].n = n]
            /\ UNCHANGED <<run, wf, holder, res, paid, sends, sources, evidence, iters, syn, report,
                           result, faults>>

Mark(r, u, status) == sources' = [sources EXCEPT ![r][u].status = status]

\* One row: charge the request, then send it.  Without leave to send the
\* source is marked failed.
FetchSource(r, s) ==
    LET pending == att[r][s].set IN
    /\ Pc(r, s, "Fetch", "pay") /\ Fenced(r, s) /\ pending # {}
    /\ \E u \in pending :
          LET key == <<r, "fetch", u>> IN
          IF key \notin paid /\ ~MayCall(key) THEN Ended(r, s, TRUE)
          ELSE /\ paid' = paid \cup {key}
               /\ sends' = [sends EXCEPT ![key] = IF MayCall(key) THEN @ + 1 ELSE @]
               /\ IF MayCall(key)
                  THEN /\ att' = [att EXCEPT ![r][s].pc = "store", ![r][s].at = {u},
                                             ![r][s].set = @ \ {u}]
                       /\ UNCHANGED sources
                  ELSE /\ att' = [att EXCEPT ![r][s].set = @ \ {u}]
                       /\ Mark(r, u, "failed")
               /\ UNCHANGED <<run, wf, holder, res, led, evidence, iters, syn, report, result, faults>>

\* Text that another fetched source already holds is only referred to.
Stored(r, u) == IF \E v \in Of(r, "fetched") \ {u} : Text[v] = Text[u]
                THEN "duplicate" ELSE "fetched"
\* store_content, or mark_fetch_failed when the request failed.
StoreContent(r, s) ==
    /\ Pc(r, s, "Fetch", "store") /\ Fenced(r, s)
    /\ \E u \in att[r][s].at :
          \/ Mark(r, u, Stored(r, u))
             /\ UNCHANGED faults
          \/ /\ faults < MaxFaults /\ faults' = faults + 1
             /\ Mark(r, u, "failed")
    /\ att' = [att EXCEPT ![r][s].pc = "pay", ![r][s].at = {}]
    /\ UNCHANGED <<run, wf, holder, res, led, paid, sends, evidence, iters, syn, report, result>>

\* A settlement is skipped when the entry read before was settled already.
SettleFetches(r, s) ==
    LET i == Iter(r, s)
        e == led[r]["fetch"][i]
    IN
    /\ Pc(r, s, "Fetch", "pay") /\ att[r][s].set = {}
    /\ IF att[r][s].seen.state # "settled" /\ ~CanSettle(e, att[r][s].n) THEN Ended(r, s, FALSE)
       ELSE /\ led' = IF att[r][s].seen.state = "settled" THEN led
                      ELSE [led EXCEPT ![r]["fetch"][i] = Settled(@, att[r][s].n)]
            /\ Leave(r, s, Saved(FALSE, FALSE))
            /\ UNCHANGED <<run, wf, holder, res, paid, sends, sources, evidence, iters, syn,
                           report, result, faults>>

----------------------------------------------------------------------------
(* Synthesis and commit.                                                    *)

NewReport(r, kind, cites) ==
    report' = [report EXCEPT ![r] = IF @.kind # "none" THEN @
                                    ELSE [@ EXCEPT !.kind = kind, !.cites = cites]]

\* An existing report is kept; gaps end in an empty report without a request.
PlanSynthesis(r, s) ==
    /\ Pc(r, s, "Synthesis", "plan") /\ Fenced(r, s)
    /\ IF report[r].kind # "none" THEN Leave(r, s, Saved(FALSE, FALSE)) /\ UNCHANGED report
       ELSE IF ~Enough(r) THEN Leave(r, s, Saved(FALSE, FALSE)) /\ NewReport(r, "empty", {})
       ELSE Goto(r, s, "receipt") /\ UNCHANGED report
    /\ UNCHANGED <<run, wf, holder, res, led, paid, sends, sources, evidence, iters, syn, result, faults>>

\* The stored response is parsed again; a marker without one is uncertain.
MarkDispatch(r, s) ==
    /\ Pc(r, s, "Synthesis", "receipt") /\ Fenced(r, s)
    /\ IF syn[r].receipt = "none" /\ syn[r].marked THEN Ended(r, s, TRUE)
       ELSE /\ Goto(r, s, IF syn[r].receipt # "none" THEN "parse" ELSE "send")
            /\ syn' = [syn EXCEPT ![r].marked = TRUE]
            /\ UNCHANGED <<run, wf, holder, res, led, paid, sends, sources, evidence, iters,
                           report, result, faults>>

SendSynthesis(r, s) ==
    /\ Pc(r, s, "Synthesis", "send")
    /\ syn' = [syn EXCEPT ![r].sent = @ + 1]
    /\ Goto(r, s, "answer")
    /\ UNCHANGED <<run, wf, holder, res, led, paid, sends, sources, evidence, iters, report,
                   result, faults>>

\* The exact text is stored before it is parsed.
StoreResponse(r, s) ==
    /\ Pc(r, s, "Synthesis", "answer") /\ Fenced(r, s)
    /\ \E text \in {"valid", "invalid"} : syn' = [syn EXCEPT ![r].receipt = text]
    /\ Goto(r, s, "parse")
    /\ UNCHANGED <<run, wf, holder, res, led, paid, sends, sources, evidence, iters, report,
                   result, faults>>

\* Claims may only cite evidence of this research.
Citable(r) == SUBSET evidence[r] \ {{}}

WriteReport(r, s) ==
    /\ Pc(r, s, "Synthesis", "parse") /\ Fenced(r, s)
    /\ IF syn[r].receipt = "valid" THEN \E C \in Citable(r) : NewReport(r, "full", C)
       ELSE NewReport(r, "empty", {})
    /\ Leave(r, s, Saved(FALSE, FALSE))
    /\ UNCHANGED <<run, wf, holder, res, led, paid, sends, sources, evidence, iters, syn, result, faults>>

\* Files first; their relation to the report before the result.
LinkFile(r, s) ==
    /\ Pc(r, s, "Commit", "publish") /\ Fenced(r, s)
    /\ IF result[r] # "none" THEN Leave(r, s, Saved(FALSE, FALSE)) /\ UNCHANGED report
       ELSE Goto(r, s, "commit") /\ report' = [report EXCEPT ![r].file = TRUE]
    /\ UNCHANGED <<run, wf, holder, res, led, paid, sends, sources, evidence, iters, syn, result, faults>>

\* basic_checks: claims whose citations resolve; a weak source is a warning.
Passes(r) == /\ report[r].kind = "full" /\ report[r].cites # {}
             /\ report[r].cites \subseteq evidence[r] /\ report[r].status # "pending"

CommitResult(r, s) ==
    /\ Pc(r, s, "Commit", "commit") /\ Fenced(r, s)
    /\ result' = [result EXCEPT ![r] = IF @ # "none" THEN @
                                       ELSE IF Passes(r) THEN "succeeded" ELSE "insufficient"]
    /\ Leave(r, s, Saved(FALSE, FALSE))
    /\ UNCHANGED <<run, wf, holder, res, led, paid, sends, sources, evidence, iters, syn, report, faults>>

----------------------------------------------------------------------------
(* Faults.                                                                  *)

Fault == faults < MaxFaults /\ faults' = faults + 1

\* The Worker exits; its lease stays until it expires.
Crash(r) ==
    /\ Fault /\ att[r].cur.pc \notin {"wait", "gone"} /\ wf[r].tries < MaxAttempts
    /\ holder' = IF holder[r] = "cur" THEN [holder EXCEPT ![r] = "dead"] ELSE holder
    /\ att' = [att EXCEPT ![r].cur = Fresh(att[r].cur.stage)]
    /\ wf' = [wf EXCEPT ![r].tries = @ + 1]
    /\ UNCHANGED <<run, store>>

\* Temporal gives the attempt up, its code goes on.
Stall(r) ==
    /\ Fault /\ att[r].zom.pc = "gone" /\ att[r].cur.pc \notin {"wait", "gone"}
    /\ wf[r].tries < MaxAttempts
    /\ holder' = IF holder[r] = "cur" THEN [holder EXCEPT ![r] = "zom"] ELSE holder
    /\ att' = [att EXCEPT ![r] = [cur |-> Fresh(att[r].cur.stage), zom |-> att[r].cur]]
    /\ wf' = [wf EXCEPT ![r].tries = @ + 1]
    /\ UNCHANGED <<run, store>>

CancelRun ==
    /\ Fault /\ run = "running" /\ run' = "cancelling"
    /\ UNCHANGED <<wf, att, holder, store>>

Step(r, s) ==
    \/ Begin(r, s) \/ Save(r, s) \/ End(r, s) \/ Stale(r, s)
    \/ Plain(r, s) \/ Extract(r, s) \/ Gap(r, s) \/ Verify(r, s) \/ Compare(r, s)
    \/ CheckQuery(r, s) \/ ReserveRound(r, s) \/ StartIteration(r, s) \/ LookForSources(r, s)
    \/ ReserveSources(r, s) \/ Search(r, s) \/ AddCandidates(r, s) \/ SettleSources(r, s)
    \/ FetchRows(r, s) \/ ReserveFetches(r, s) \/ FetchSource(r, s) \/ StoreContent(r, s)
    \/ SettleFetches(r, s) \/ PlanSynthesis(r, s) \/ MarkDispatch(r, s)
    \/ SendSynthesis(r, s) \/ StoreResponse(r, s) \/ WriteReport(r, s)
    \/ LinkFile(r, s) \/ CommitResult(r, s)

Next ==
    \/ \E r \in Researches : Acquire(r) \/ Crash(r) \/ Stall(r) \/ \E s \in {"cur", "zom"} : Step(r, s)
    \/ CancelRun

Spec == Init /\ [][Next]_vars

\* Activities are retried until their attempts are spent; Workers are polling.
FairSpec == Spec /\ \A r \in Researches :
    WF_vars(Acquire(r)) /\ WF_vars(Step(r, "cur"))

----------------------------------------------------------------------------
(* Properties.                                                              *)

\* However often the stages are retried, the policy's bounds on sources,
\* fetches and evidence hold for the whole research (_discover, _fetch,
\* _extract_evidence each recompute what is left from the rows).
PolicyBoundsHold ==
    \A r \in Researches :
        /\ Cardinality(Known(r)) <= MaxSources
        /\ Cardinality(Tried(r)) <= MaxFetches
        /\ Cardinality(evidence[r]) <= MaxSpans

\* Every started round of every research of the Run is charged exactly once
\* and together they stay within the Run's research_iterations (_start_iteration).
RoundsAreCharged ==
    /\ \A r \in Researches, i \in Iterations :
          (iters[r][i].query # <<>>) = (led[r]["round"][i].state = "settled")
    /\ Held("round") <= Limit.rounds

\* A stage that stored its result left no reservation behind and charged the
\* requests it made (_save_stage_result follows settle in _fetch).
FetchesAreCharged ==
    \A r \in Researches, i \in Iterations : res[r][<<"Fetch", i>>].saved =>
        /\ led[r]["fetch"][i].state = "settled"
        /\ Cardinality(InIter(r, i) \cap Tried(r)) <= led[r]["fetch"][i].actual

\* One paid request per source and search, one synthesis request per research,
\* whatever crashes (consume_attempt, the SynthesisDispatch marker).
SentOnce ==
    /\ \A k \in Keys : sends[k] <= 1
    /\ \A r \in Researches : syn[r].sent <= 1

\* A research that reports success rests on enough evidence from its own
\* fetched sources, verified, and compared (basic_checks, verify_citations).
SuccessIsBacked ==
    \A r \in Researches : result[r] = "succeeded" =>
        /\ Enough(r) /\ syn[r].receipt = "valid"
        /\ report[r].cites \subseteq evidence[r] /\ evidence[r] \subseteq Of(r, "fetched")
        /\ report[r].status # "pending" /\ report[r].diff /\ report[r].file
        /\ (report[r].status = "verified" => \A u \in report[r].cites : Tier[u] <= 1)

\* Once a research is done nothing of it changes any more: attempts that
\* Temporal gave up are still running, and are fenced off (assert_execution_fence
\* in every stage transaction; a late settlement can only repeat itself).
DoneStaysDone ==
    \A r \in Researches : wf[r].status = "done" =>
     <<res[r], led[r], sources[r], evidence[r], iters[r], syn[r], report[r], result[r]>>'
         = <<res[r], led[r], sources[r], evidence[r], iters[r], syn[r], report[r], result[r]>>

\* With Workers polling, every research ends.
ResearchEnds == \A r \in Researches : <>(wf[r].status # "run")

\* What a research used is charged and bounded, and a success is backed by evidence.
Safety ==
    /\ TypeOK
    /\ PolicyBoundsHold
    /\ RoundsAreCharged
    /\ FetchesAreCharged
    /\ SentOnce
    /\ SuccessIsBacked
=============================================================================
