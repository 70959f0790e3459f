------------------------------ MODULE MCWorks -------------------------------
(*****************************************************************************)
(* The resources of a Work side by side: capacity tickets, the budgets of a  *)
(* call, a research, the progress of a Work and the deliveries of daily      *)
(* reminders and of chats.  Each part is a component on its own; one part is *)
(* chosen at the start and the others stand still.                           *)
(*****************************************************************************)
EXTENDS Capacity, TLC

CONSTANTS Parts, Absent, a1, a2, u1, u2, u3, work1, chat1, chat2, chat3, x1, x2, y1, y2
VARIABLES part, status, day, ent, snap, marked, acct, led, acctSum, sum, place, at, ver,
          settle, back, late, sends, run, wf, att, holder, res, paid, sources, evidence,
          iters, syn, report, result, faults, work, runs, progress, seen, daily, notices,
          samples, mark, wStatus, revision, epoch, cont, coordinator, wakeup, target, bound,
          runSt, runWork, runRev, runEpoch, dSt, dPart, dTok, attempts, lapsed, via, again,
          unapplied, commands, pos, job, out, wire, taken

AccountOfTicket == [t \in {"i1", "b1", "b3"} |-> IF t = "b3" THEN "b" ELSE "a"]
LaneOfTicket == [t \in {"i1", "b1", "b3"} |-> IF t = "i1" THEN "interactive" ELSE "background"]

Estimate(ops) == [o \in ops |-> IF o = "t1" THEN 1 ELSE 2]
BudgetLimit == [account |-> 3, work |-> 5, run |-> 5]

\* u1 and u3 hold the same text; u2 comes from a worse source.
TextOf == [u \in {u1, u2, u3} |-> IF u = u2 THEN "h2" ELSE "h1"]
CoveredBy == (u1 :> {"a"}) @@ (u2 :> {"b"}) @@ (u3 :> {"a", "b"})
TierOf == [u \in {u1, u2, u3} |-> IF u = u1 THEN 0 ELSE 2]
ResearchLimit == [rounds |-> 2, sources |-> 3, fetches |-> 3, calls |-> 5]
SharedLimit == [rounds |-> 2, sources |-> 2, fetches |-> 2, calls |-> 3]

OneAccount == [x \in {work1, chat1, chat2, chat3} |-> a1]
TwoAccounts == [x \in {work1, chat1, chat2, chat3} |-> IF x = chat3 THEN a2 ELSE a1]

Model == INSTANCE ModelBudget WITH
    Producers <- {x1, x2}, Chain <- <<"m1", "m2">>, ToolOps <- {},
    Est <- Estimate({"m1", "m2"}), Actuals <- {1, 3}, FinalOps <- {"m2"},
    FinalReserve <- 2, Limit <- BudgetLimit, MaxDay <- 0, MaxVer <- 1, pc <- place
Tool == INSTANCE ModelBudget WITH
    Producers <- {x1}, Chain <- <<"m1", "m2">>, ToolOps <- {"t1"},
    Est <- Estimate({"m1", "m2", "t1"}), Actuals <- {1, 3}, FinalOps <- {},
    FinalReserve <- 2, Limit <- BudgetLimit, MaxDay <- 1, MaxVer <- 2, pc <- place
Single == INSTANCE Research WITH
    Text <- TextOf, Covers <- CoveredBy, Concepts <- {"a", "b"}, Tier <- TierOf,
    MaxIterations <- 2, MaxSources <- 2, MaxFetches <- 2, MaxSpans <- 2,
    MinSources <- 1, Researches <- {"r1"}, Uris <- {u1, u2, u3},
    Objective <- [r \in {"r1"} |-> 1], Limit <- ResearchLimit, MaxAttempts <- 2,
    MaxFaults <- 1
Pair == INSTANCE Research WITH
    Text <- TextOf, Covers <- CoveredBy, Concepts <- {"a", "b"}, Tier <- TierOf,
    MaxIterations <- 2, MaxSources <- 2, MaxFetches <- 2, MaxSpans <- 2,
    MinSources <- 1, Researches <- {"r1", "r2"}, Uris <- {u1, u2},
    Objective <- [r1 |-> 1, r2 |-> 2], Limit <- SharedLimit, MaxAttempts <- 2,
    MaxFaults <- 0
Failure == INSTANCE WorkProgress WITH
    Daily <- FALSE, Delivers <- FALSE, Inputs <- {x1, x2}, Facts <- {}, None <- Absent,
    Outcomes <- {"failed", "cancelled"}, Verdicts <- {TRUE}, FailureLimit <- 2,
    NoProgressLimit <- 9, MaxRuns <- 2, MaxRevisions <- 1, MaxInvocations <- 2,
    MaxRaises <- 0, MaxResumes <- 0
Nothing == INSTANCE WorkProgress WITH
    Daily <- FALSE, Delivers <- FALSE, Inputs <- {x1}, Facts <- {y1, y2}, None <- Absent,
    Outcomes <- {"succeeded", "needs_input"}, Verdicts <- {TRUE, FALSE},
    FailureLimit <- 9, NoProgressLimit <- 2, MaxRuns <- 2, MaxRevisions <- 1,
    MaxInvocations <- 2, MaxRaises <- 0, MaxResumes <- 1
Shown == INSTANCE WorkProgress WITH
    Daily <- FALSE, Delivers <- FALSE, Inputs <- {x1}, Facts <- {y1}, None <- Absent,
    Outcomes <- {"succeeded", "failed"}, Verdicts <- {TRUE}, FailureLimit <- 2,
    NoProgressLimit <- 2, MaxRuns <- 2, MaxRevisions <- 2, MaxInvocations <- 1,
    MaxRaises <- 2, MaxResumes <- 1
Days == INSTANCE WorkProgress WITH
    Daily <- TRUE, Delivers <- FALSE, Inputs <- {x1}, Facts <- {y1, y2}, None <- Absent,
    Outcomes <- {"succeeded"}, Verdicts <- {TRUE}, FailureLimit <- 2,
    NoProgressLimit <- 3, MaxRuns <- 3, MaxRevisions <- 2, MaxInvocations <- 1,
    MaxRaises <- 0, MaxResumes <- 0
Quiet == INSTANCE WorkProgress WITH
    Daily <- TRUE, Delivers <- TRUE, Inputs <- {x1}, Facts <- {y1, y2}, None <- Absent,
    Outcomes <- {"succeeded"}, Verdicts <- {TRUE}, FailureLimit <- 2,
    NoProgressLimit <- 3, MaxRuns <- 3, MaxRevisions <- 1, MaxInvocations <- 2,
    MaxRaises <- 0, MaxResumes <- 0
Reminders == INSTANCE WorkDelivery WITH
    Works <- {work1}, Daily <- {work1}, Runs <- {x1, x2}, Chats <- {}, Inbox <- {},
    Accounts <- {a1}, Owner <- OneAccount, MaxCommands <- 1, Senders <- {y1, y2},
    Parts <- 2, GlobalLimit <- 1, AccountLimit <- 1, None <- Absent
ChatsOnly == INSTANCE WorkDelivery WITH
    Works <- {}, Daily <- {}, Runs <- {}, Chats <- {chat1, chat2, chat3},
    Inbox <- {chat2}, Accounts <- {a1, a2}, Owner <- TwoAccounts, MaxCommands <- 0,
    Senders <- {y1, y2}, Parts <- 2, GlobalLimit <- 2, AccountLimit <- 1, None <- Absent

ASSUME Model!BudgetAssumption
ASSUME Tool!BudgetAssumption
ASSUME Failure!ProgressAssumption
ASSUME Nothing!ProgressAssumption
ASSUME Shown!ProgressAssumption
ASSUME Days!ProgressAssumption
ASSUME Quiet!ProgressAssumption

sideVars == <<part, row, fresh, queue, turn, active, pc, ghost, stalled, status, day, ent,
              snap, marked, acct, led, acctSum, sum, place, at, ver, settle, back, late,
              sends, run, wf, att, holder, res, paid, sources, evidence, iters, syn,
              report, result, faults, work, runs, progress, seen, daily, notices, samples,
              mark, wStatus, revision, epoch, cont, coordinator, wakeup, target, bound,
              runSt, runWork, runRev, runEpoch, dSt, dPart, dTok, attempts, lapsed, via,
              again, unapplied, commands, pos, job, out, wire, taken>>

\* A variable is idle in the parts that do not have it, and stays so.
Only(parts, v) == IF part \in parts THEN TRUE ELSE v = Absent
Still(parts, vs) == IF part \in parts THEN TRUE ELSE UNCHANGED vs

\* The parts of each component.
CapacityParts == {"capacity"}
ModelBudgetParts == {"model", "tool"}
ResearchParts == {"research", "pair"}
WorkProgressParts == {"failure", "nothing", "shown", "days", "quiet"}
WorkDeliveryParts == {"reminders", "chats"}

SideInit ==
    /\ part \in Parts
    /\ Init
    /\ part = "model" => Model!Init
    /\ part = "tool" => Tool!Init
    /\ part = "research" => Single!Init
    /\ part = "pair" => Pair!Init
    /\ part = "failure" => Failure!Init
    /\ part = "nothing" => Nothing!Init
    /\ part = "shown" => Shown!Init
    /\ part = "days" => Days!Init
    /\ part = "quiet" => Quiet!Init
    /\ part = "reminders" => Reminders!Init
    /\ part = "chats" => ChatsOnly!Init
    /\ Only(ModelBudgetParts, status) /\ Only(ModelBudgetParts, day)
    /\ Only(ModelBudgetParts, ent) /\ Only(ModelBudgetParts, snap)
    /\ Only(ModelBudgetParts, marked) /\ Only(ModelBudgetParts, acct)
    /\ Only(ModelBudgetParts, acctSum) /\ Only(ModelBudgetParts, sum)
    /\ Only(ModelBudgetParts, place) /\ Only(ModelBudgetParts, at)
    /\ Only(ModelBudgetParts, ver) /\ Only(ModelBudgetParts, settle)
    /\ Only(ModelBudgetParts, back) /\ Only(ModelBudgetParts, late)
    /\ Only(ModelBudgetParts \cup ResearchParts, led)
    /\ Only(ModelBudgetParts \cup ResearchParts, sends)
    /\ Only(ResearchParts, run) /\ Only(ResearchParts, wf) /\ Only(ResearchParts, att)
    /\ Only(ResearchParts, holder) /\ Only(ResearchParts, res) /\ Only(ResearchParts, paid)
    /\ Only(ResearchParts, sources) /\ Only(ResearchParts, evidence)
    /\ Only(ResearchParts, iters) /\ Only(ResearchParts, syn) /\ Only(ResearchParts, report)
    /\ Only(ResearchParts, result) /\ Only(ResearchParts, faults)
    /\ Only(WorkProgressParts, work) /\ Only(WorkProgressParts, runs)
    /\ Only(WorkProgressParts, progress) /\ Only(WorkProgressParts, seen)
    /\ Only(WorkProgressParts, daily) /\ Only(WorkProgressParts, notices)
    /\ Only(WorkProgressParts, samples) /\ Only(WorkProgressParts, mark)
    /\ Only(WorkDeliveryParts, wStatus) /\ Only(WorkDeliveryParts, revision)
    /\ Only(WorkDeliveryParts, epoch) /\ Only(WorkDeliveryParts, cont)
    /\ Only(WorkDeliveryParts, coordinator) /\ Only(WorkDeliveryParts, wakeup)
    /\ Only(WorkDeliveryParts, target) /\ Only(WorkDeliveryParts, bound)
    /\ Only(WorkDeliveryParts, runSt) /\ Only(WorkDeliveryParts, runWork)
    /\ Only(WorkDeliveryParts, runRev) /\ Only(WorkDeliveryParts, runEpoch)
    /\ Only(WorkDeliveryParts, dSt) /\ Only(WorkDeliveryParts, dPart)
    /\ Only(WorkDeliveryParts, dTok) /\ Only(WorkDeliveryParts, attempts)
    /\ Only(WorkDeliveryParts, lapsed) /\ Only(WorkDeliveryParts, via)
    /\ Only(WorkDeliveryParts, again) /\ Only(WorkDeliveryParts, unapplied)
    /\ Only(WorkDeliveryParts, commands) /\ Only(WorkDeliveryParts, pos)
    /\ Only(WorkDeliveryParts, job) /\ Only(WorkDeliveryParts, out)
    /\ Only(WorkDeliveryParts, wire) /\ Only(WorkDeliveryParts, taken)

SideNext ==
    /\ \/ part = "capacity" /\ Next
       \/ part = "model" /\ Model!Next
       \/ part = "tool" /\ Tool!Next
       \/ part = "research" /\ Single!Next
       \/ part = "pair" /\ Pair!Next
       \/ part = "failure" /\ Failure!Next
       \/ part = "nothing" /\ Nothing!Next
       \/ part = "shown" /\ Shown!Next
       \/ part = "days" /\ Days!Next
       \/ part = "quiet" /\ Quiet!Next
       \/ part = "reminders" /\ Reminders!Next
       \/ part = "chats" /\ ChatsOnly!Next
    /\ Still(CapacityParts, <<row, fresh, queue, turn, active, pc, ghost, stalled>>)
    /\ Still(ModelBudgetParts, <<status, day, ent, snap, marked, acct, acctSum, sum,
                                    place, at, ver, settle, back, late>>)
    /\ Still(ModelBudgetParts \cup ResearchParts, <<led, sends>>)
    /\ Still(ResearchParts, <<run, wf, att, holder, res, paid, sources, evidence, iters,
                                 syn, report, result, faults>>)
    /\ Still(WorkProgressParts, <<work, runs, progress, seen, daily, notices, samples,
                                     mark>>)
    /\ Still(WorkDeliveryParts, <<wStatus, revision, epoch, cont, coordinator, wakeup,
                                     target, bound, runSt, runWork, runRev, runEpoch, dSt,
                                     dPart, dTok, attempts, lapsed, via, again, unapplied,
                                     commands, pos, job, out, wire, taken>>)
    /\ UNCHANGED part

SideSpec == SideInit /\ [][SideNext]_sideVars

-----------------------------------------------------------------------------
\* x and y: producers, inputs, facts, Runs and senders, which no part tells apart.
Symmetry == Permutations({x1, x2}) \cup Permutations({y1, y2})

\* Models and tools never spend more than was granted, nor twice (ModelBudget).
BudgetsSafe == (part = "model" => Model!Safety) /\ (part = "tool" => Tool!Safety)

\* A research is charged for what it did and succeeds on evidence (Research).
ResearchSafe == (part = "research" => Single!Safety) /\ (part = "pair" => Pair!Safety)

\* A Work that stands still says why; daily results are chained and quiet (WorkProgress).
ProgressSafe ==
    /\ part = "failure" => Failure!Safety
    /\ part = "nothing" => Nothing!Safety
    /\ part = "shown" => Shown!Safety
    /\ part = "days" => Days!Safety
    /\ part = "quiet" => Quiet!Safety

\* Daily reminders and chat answers (WorkDelivery).
DeliveriesSafe == (part = "reminders" => Reminders!Safety) /\ (part = "chats" => ChatsOnly!Safety)

\* What a Work spends, finds and sends.
ResourcesSafe == BudgetsSafe /\ ResearchSafe /\ ProgressSafe /\ DeliveriesSafe

\* What no step may do: reopen a closed reservation, touch a research that is done, advance
\* a revision that failed or went nowhere too often, leave an exhausted budget, rewrite an
\* accepted delivery.
WorkSteps ==
    [][/\ part = "model" => Model!ClosedStaysClosed
       /\ part = "research" => Single!DoneStaysDone
       /\ part = "failure" => Failure!RepeatIsNotAdvanced
       /\ part = "nothing" => Nothing!NowhereIsNotAdvanced
       /\ part = "shown" => Shown!BudgetIsRaised
       /\ part = "chats" => ChatsOnly!TransitionsAreLegalStep]_sideVars
=============================================================================
