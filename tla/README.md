# HpAgent: TLA+ models, checks and proofs

HpAgent accepts chat messages and long-lived work orders, turns each into a
*Run*, and executes Runs as Temporal Workflows whose Activities read and write
PostgreSQL. PostgreSQL is the only authority; Temporal, Redis, the model
providers, the memory bank, the channels and the tools are unreliable neighbours
that are called *between* transactions. This directory models the protocols that
follow from that: how a Run gets from its command to its terminal status, how a
call takes effect once although everything around it is retried, late or
cancelled, how what was withdrawn stays withdrawn, and how what a Run produced
reaches the people who asked for it.

Paths are relative to the repository's `src/` (`run_domain/...` is application
code, `persistence/migrations/...` the schema). `PROJECT.json` names, for every
definition that models code, the lines it stands for, and every hazard at its line.

Contents: 1 Inventory, 2 Modules, 3 Runs, 4 Proofs, 5 Not modelled and the plan,
6 Findings and observations.

## 1. Inventory

| Part | State it keeps | Operations | Hard behaviour | Module |
| --- | --- | --- | --- | --- |
| Chat commands (`application/chat`, `application/run`), Run lifecycle (`run_domain/lifecycle.py`) | Runs, terminal events, idempotency and Outbox rows | send, retry, cancel; prepare, complete, finalize | commands race with what executes the previous Run; several finalizers, each with a read and a write transaction | `RunStore`, `RunContract` |
| Outbox, dispatcher, reconciler, lifecycle Workflow (`persistence/outbox.py`, `orchestration/web_*.py`) | event leases, batch, Workflow position, candidate page | claim, start, cancel, record, recover, describe, converge | lost RPC answers, start/cancel races, leases named after a pid, Activities executed twice or late | `RunDispatch` |
| Segments, fences, Operations and receipts (`agent_activities/store.py`, `run_domain/results.py`), tool execution (`agent_activities/runtime.py`) | Execution lease, tokens, segment tombstones, attempts, receipts | acquire, renew, release; intent, call, complete, uncertain | the external effect is outside every transaction; threads outlive their Activity | `FenceStore`, `ToolExecution` |
| Work orders (`application/work`, `work_domain`) | Work, revision, control epoch, wakeups, progress, daily results | accept, revise, pause, stop, resume, admit, converge, record a result | control commands against running Runs; a Work that stands still without a reason | `WorkStore`, `WorkProgress` |
| Delivery (`delivery/service.py`) | state, lease token, next part | claim, send, finish, resolve, cancel | lost answers of a channel, senders slower than their lease | `WorkDelivery` |
| Budgets and model dispatch (`resources/*budget*.py`, `resource_pool.py`) | three ledgers, snapshot, dispatch marker | entitle, reserve, mark, send, settle, release, recover | recovery races with a late settlement; midnight between both | `ModelBudget` |
| Capacity (`resources/capacity.py`) | tickets, turns | acquire, renew, release, sweep | tickets swept under a live owner, abandoned polls | `Capacity` |
| Research (`research_activities`, `research_domain`) | stages, sources, evidence, reservations | plan, search, fetch, extract, synthesize, critique | every stage repeated from its middle; paid requests | `Research` |
| Strategies (`agent_workflows/react.py`, `plan_execute.py`) | transcript, Operations, plan | bootstrap, decide, act, evaluate, replan, answer | attempts given up and still alive beside their replacement | `AgentLoop` |
| Model protocol (`resources/model_protocol.py`, `model_client.py`) | transcript, stored arguments | convert, send, parse, run calls | two wire formats, partial and repeated ids, calls written as text | `ModelProtocol` |
| Delegation and capabilities (`agent_activities/delegation.py`, `capabilities.py`) | branch and child Executions, results | prepare, run, close, observe, aggregate | a prepare or producer nobody waits for commits later | `Delegation`, `Invocation` |
| SSE and terminal publisher (`web_api/sse.py`, `web_ui`) | subscriptions, buffers, slots, sequences | publish, subscribe, forward, poll | Redis forgets; publish before subscription | `RunFeed` |
| Memory (`application/memory_*.py`, `memory/`) | sources, actions, manifests, epochs | retain, curate, delete, revoke; recall, bind, check | the bank applies late; text already read is withdrawn | `MemorySource`, `MemoryContext` |
| Files and Workspace (`web_domain/file_*.py`, `workspace/`) | rows, bytes, references, grants, versions | upload, publish, collect; grant, fix, revoke, save | the collector against new references; revocation between read and commit | `FileObjects`, `ResourceAccess` |
| Channels (`application/surfaces`, `channels/`) | receipts, windows, connections, tokens | ingress, reply, connect, send | redelivery, two connections at once, expired tokens | `QqIngress`, `OneBot11`, `OfficialQQ` |
| Accounts (`account/`) | bindings, challenges, sessions, invites | register, log in, bind, consolidate | READ COMMITTED reads between two lock sets | `IdentityBinding` |
| Artifacts (`web_artifacts/`) | versions, build Runs, staged output | create, generate, publish, complete | attempts die between generating, storing and committing | `HtmlBuild` |
| Sandbox and tools (`sandbox/`, `actions/`) | scopes, directories, tool index, MCP sessions | bind, select, call, take down | attempts of one Execution side by side in one process | `ExecutionScope`, `ToolRouting`, `McpHttp`, `McpSse`, `McpStdio` |
| File approvals and durable waits, Web API, tracing | approval rows; queries and append-only records | request, decide, consume; map, render | not entered, or no protocol state (section 5) | none |

How they interact. A command writes an Outbox row in the transaction of its Run;
a dispatcher leases it and calls Temporal; the Workflow calls lifecycle Activities
and, for each model or tool step, `execute_segment`, which leases the Execution,
starts one fenced Activity and releases. Activities go through the budget, the
capacity tickets and the scope of their attempt to a model, a tool, a child
Execution or the memory bank. Results become transcript events; the end of a Run
writes notifications (delivery), terminal events (SSE), memory actions and the
progress of its Work. A trigger revokes every lease when a Run leaves `running`,
and the reconciler compares Run rows with what Temporal says.

What makes the system correct: one active Run per conversation and one terminal
outcome per Run; no accepted Run lost; cancellation only on request; one fenced
Activity per Execution; at most one effect of a tool that is not idempotent, and
never an effect the books deny; limits and budgets that hold whatever is late;
results that are current, durable and told once; nothing withdrawn in a request or
an answer; no repeated message nobody decided on; a Work that is paused, stopped,
blocked or completed only when that is true.

## 2. Modules

A `UnitOfWork` is one atomic step: the code locks the account, conversation,
Work, Run and Execution rows it decides on. Where it reads before it locks
(`IdentityBinding`, `ResourceAccess`, `QqIngress`), the transaction is two steps
with explicit locks. Everything between two transactions of a process (an RPC, a
crash, another process) is a point of interleaving; on one event loop (channels,
MCP sessions, the gateway, uploads) a step ends where a coroutine awaits. A
cancelled await leaves its database thread running: such threads are actors of
their own (`orphan`, `ghost`, `late`). Faults are explicit actions counted by a
bound. Definitions whose comment starts with *Variation* are wrong forms of the
definition that follows; no specification uses them, they serve to see that the
properties would notice.

### Runs

`RunStore` holds the tables and transactions of chat Runs: `runSt`, the current
workflow row `rowSt`/`rowTid`, the Outbox rows by business key `evSt`/`evBy`/`evAtt`,
terminal events `termEv`, cancellation intents, and `older`, the order of
`updated_at` that the reconciler sorts by. `RunDispatch` adds per dispatcher the
claimed event and the rest of its batch, Temporal's view `tmpSt`/`tmpCancel`, the
Workflow position `flow`, abandoned Activity executions `late`, and the
reconciler's page *as read*. `DispatchPrepareStart`, `DispatchStartRpc`,
`DispatchRecordStarted`, `DispatchNeedsCancel` are the four steps of
`dispatch_start`; `DispatchLookup`, `DispatchCancelRpc`, `DispatchFinRead`,
`DispatchFinish` those of `dispatch_cancel`; `Flow...` the Activities of the
Workflow; `Rec...` the reconciler. `RunContract` is the abstract specification:
what the schema's triggers and unique indexes promise about Runs. The agent phase
is one step with any outcome; messages, titles and projections written by the same
transactions do not influence control; a replayed idempotency key changes nothing.

`FenceStore` holds the lease (`token`, `owner`, `live`), segment states, one tool
Operation with its attempts, receipts and transcript event; `ToolExecution` runs
`execute_segment` and the tool Activity in program order on top: `Begin`, `Renew`,
`Intent`/`Reconcile`, `Dispatch`, `Effect`, `Complete`, `ReceiveLate`, `Handle` are
each one transaction or external call; `Cancel`, `Crash`, `Orphan`,
`ControlTimesOut`, `LateAcquire`, `LateRelease` what can happen to them;
`RunChanges` the rest of the system with its revoking trigger. One root Execution
with one Operation; budget, capacity and policy errors are `Raises` where the code
raises them; the only reconciler of the repository answers UNSUPPORTED.

### Works

`WorkStore` holds per Work its status, revision, control epoch, continuation,
coordinator, wakeup and target, per Run what it was admitted with, per delivery
`state`, `next_part`, `lease_token`, `attempts`. `WorkDelivery` adds the senders
between `claim` and `finish`, the requests the channel has not answered and how
often it accepted each part. Works are reminders with one target and the delivery
criterion. Commands, the scheduler, Runs and `ConvergeControls` are one
transaction each under the lock of the Work row; `ChannelAccepts` may come after
the sender has given up. `not_sent` and `retry_accepting_duplicate_risk` write the
same states and are one outcome.

`WorkProgress` is the other side of a Work: samples of results per revision, the
limits on repeated failures and on results without a new fact, the block and its
continuation, budget raises, and the chain of daily results of which only a change
is announced. A result is one of `Facts`; the Work is ongoing.

`ModelBudget` walks `ResourcePool.generate` through its fallback chain: entitlement,
reservation in the account, Work and Run ledgers, frozen snapshot, dispatch marker,
request, settlement; producers are concurrent executions of one logical call, and
the end of the Run recovers what is held. Days and entitlement versions move on.

`Capacity` is `CapacityService`: `acquire` is one transaction (sweep, insert or
renew, count, pick the winner of a lane), `slot` the loop of an owner; a cancelled
poll still commits in its thread. `turn` is the order of `last_admitted_at` of the
accounts, `queue` that of `created_at`.

`Research` walks the fixed stage graph; a stage is an attempt with several
transactions and calls, and one attempt given up by Temporal goes on beside its
retry. Researches of one Run share its ledger. Texts are content hashes, a passage
is the set of concepts it names.

### Agents

`AgentLoop` covers the react and plan_execute Workflows: each threads the
transcript version into the next Activity, each attempt is a sequence of fenced
transactions around a model call. `ModelProtocol` looks into one call: the
transcript as messages of blocks, checked and converted to either wire format,
the answer parsed back and its calls run with the arguments stored under their id.

`Delegation` prepares branches, runs them, prepares one second attempt for the
retryable failures and stores the aggregate. `Invocation` is one capability call by
an agent, or the fixed Research parent: prepare, child attempts, close, and then
observe or publish, save and complete. A try may have committed without being
answered, and one nobody waits for may commit until the next try acquires the
Execution; a reset of the Workflow calls a closed invocation again. `_complete` and
`_fail` of the parent are two transactions each, so a Run may still be running with its
Operation closed, or its intent failed.

`HtmlBuild` is one artifact with its versions, the Runs that build them, the
attempts of the producing Activity, the staged output and the close of the Run.

`RunFeed` follows one Run to its tabs: sinks per Worker, the terminal publisher,
the gateway's endpoint and generator with buffer and slots, the browser's sequencer
and its polling loop. A connection that ends goes through `closing` (the generator's
`finally`), `releasing` (subscription and reader are gone, the slot is still held) and
the return of the slot; `Cut` is a task that is cancelled at one of its awaits.

### Memory, files and access

`MemorySource` is a source and its copies against the bank: registration, retain
under a frozen operation id, curation, deletion, revocation by resource, each a
durable action claimed by a Worker. The flag `blind` of a retain is history: a Worker
died while a deletion sent a refused retain once more, which no column shows.
`MemoryContext` is the use of memory by Runs:
the manifest of scopes and the epoch it was checked at, recall, snapshot, dispatch
and final check, and inheritance through the history of a conversation.

`FileObjects` has uploads by PUT, outputs of a Run published by repeated attempts,
the references that keep a file, and the collector; the API is one process with
one event loop. `ResourceAccess` has grants on a tree of entries, candidates frozen
when a Run is created, fixed versions, revocation, and the compare-and-set update
of an entry; a transaction that reads permissions and writes facts is two steps
under the account lock it really takes.

`ExecutionScope` has the directory, binding, sandbox and caches of every attempt of
an Execution in one Worker process, their take-down and the idle reclamation.
`ToolRouting` has eligibility, front doors, retrieval and rank fusion, over one
vector index that all sandboxes of the process share. `McpHttp`, `McpSse` and
`McpStdio` are the three MCP client sessions; a task is a stack of requests, since a
reconnection inside a call is a request again.

### Channels and accounts

`QqIngress` is the way of a message: identification, advisory lock, receipt,
Conversation and Run, group window in Redis, control reply. `OneBot11` is the
reverse WebSocket server with probing (login, then version), replacement of an open
connection by a verified one, status polling and senders; `OfficialQQ` the client with
gateway loop, heartbeat, token renewal and senders. There `ws` is the channel's reference
to its connection and `link` the connection itself: OpCodes 7 and 9 and the end of the
loop forget the reference, and only what is still referred to is ever closed.
`IdentityBinding` has registration, invites, login, challenges, consolidation and
the administrator's bootstrap under READ COMMITTED, with row locks as variables.

### Composition and instances

`RunDispatch`, `ToolExecution` and `WorkDelivery` compose a store with the
processes around it. `MCRunDispatch` and `MCWorkDelivery` give them instances.
`MCWorks`, `MCAgents`, `MCMemory`, `MCTools`, `MCChannels` and `MCEnds` put
components *side by side*: `part` is chosen at the start, the chosen component runs
on its instance, the variables of the others are `Absent`. Components share a
variable name where their parts exclude each other. A side-by-side run is therefore
the union of independent checks, one for each of its parts, and shows nothing about
an interaction between two parts; where components do interact, the interaction is
inside one module (`RunDispatch`, `ToolExecution`, `WorkDelivery`, `WorkProgress`,
`Invocation`, `HtmlBuild`).

## 3. Runs

| Run | Instances | Shows |
| --- | --- | --- |
| `dispatch_race` | 1 Run, 2 dispatchers with the same pid, reconciler, 2 faults (1 while the reconciler is about) | `RowBeforeWorkflow`, `QueuedNotStranded`, `CancelledOnlyByIntent`, `NoStartAfterEnd`: a Workflow never exists without its committed row, and no ended Run is started |
| `conversation` | 2 Runs of one conversation, 1 dispatcher, reconciler, no fault | `TypeOK`, `SingleActive`, `TerminalEventMatches`, and `ImplementsContract`, the refinement of `RunContract` |
| `tool` | 3 segments, 2 faults, both side effect classes | `Safety` (types, results of the latest attempt, evidence, leases across the backoff, one fenced Activity), `EffectOnce`, `EffectAccounted`, `ReportedResultIsDurable`, `NoTokenRevival` |
| `delivery` | 1 immediate reminder, 3 Runs, 2 senders, 2 parts, 3 commands | `Safety` (repeats are decided, one live fulfilment, a revision is delivered once, halts are honest, completion is backed, acceptance is complete, capacity), `TransitionsAreLegal` |
| `works` | parts `capacity`, `model`, `tool`, `research`, `pair`, `failure`, `nothing`, `shown`, `days`, `quiet`, `reminders`, `chats` | `Safety` of `Capacity`; `ResourcesSafe`: budgets, research, progress, daily reminders and chat deliveries; `WorkSteps` |
| `agents` | parts `calls`, `again`, `saves`, `react`, `main`, `plan`, `branches`, `limits`, `page`, `standalone`, `edits`, `forms`, `turns`, `texts`, `repeats`, `single` | `Safety` and `NoResultAfterClose` of `Invocation`; `AgentsSafe`: loops, branches, pages; `ProtocolSafe`; `AgentSteps` |
| `memory` | parts `context`, `delete`, `sender`, `copies`, `curate`, `uploads`, `refs`, `outputs`, `clean`, `revoke`, `sent`, `tree`, `versions` | `Safety`, `NothingWithdrawnIsSent`, `NothingWithdrawnIsFinal` of `MemoryContext`; `SourcesSafe`; `FilesSafe`: files and access; `MemorySteps` |
| `tools` | parts `scope`, `http`, `sse`, `streams`, `stdio`, `index`, `limit`, `select` | `Safety` and `NoneIsRefused` of `ExecutionScope`; `ToolsSafe`: MCP sessions and routing |
| `channels` | parts `qq`, `binding`, `web`, `admin`, `link`, `send`, `official`, `gateway`, `order`, `window`, `gap`, `notice`, `view`, `slots` | `Safety` of `QqIngress`; `IdentitySafe`; `WiresSafe`: both links and the feed; `ChannelSteps` |
| `ends` | seventeen parts, one for each component that must end something | `RunsEnd`, `NobodyWaitsForEver`, `LinksRecover` under fairness |
| `reconcile_starved` | 2 Runs, candidate page of 1, fairness | violated: `ActiveRunsConverge` (section 6) |
| `deletion_undone` | part `delete` | violated: `DeletionIsFinal` (section 6) |

The runs have between 0.2 and 2.1 million distinct states and take half a minute to
three and a half minutes with two workers; the two violations take seconds.

Each side-by-side property is a conjunction with one conjunct for each part, for
example `part = "research" => Single!Safety`. The conjuncts of a component's
`Safety` are named and commented in its module. A property that needs an instance
of its own stands beside it (`Alone!BuiltOnParent`).

### Bounds

Every bound is a constant or a constraint named in a cfg or an MC module.

- Faults. Each fault is an explicit action; one or two of them are enough for the
  scenarios the hazards describe (an answer lost and a lease expired; a heartbeat
  late and a Worker dead). `Calm` lets the reconciler of `dispatch_race` run while at
  most one fault has happened: both dispatchers get the second fault, and the
  reconciler is exercised with every kind of first fault. `conversation` has no
  fault, because there the second Run is the difficulty; one Run with a fault,
  reconciler and fairness is part `run` of `ends`. The proofs (section 4) hold for
  any number of Runs, dispatchers and faults.
- Attempts, segments, tries. Two give a stale and a current one, three segments
  two stale ones. `MaxAttempts` is 2 where the code has 10 or 3: a retry and an
  exhaustion. In `agents` the part `calls` has an agent and a research parent who
  compete for slots, with one try each and no reset; in `again` the agent and in `saves`
  the parent is alone with two tries and a reset. The proof has any number.
- Deliveries. Only commands and Runs are bounded: leases expire and senders are
  lost as often as they are claimed. Three commands are pause, resume and a
  decision, or a revision between two of them; three Runs are one superseded, one
  failed, one current; two parts have a first and a last.
- Limits (capacity, budgets, branches, slots, sources, buffers, windows) are small
  enough to be reached in every instance. `b3` belongs to another account than `i1`
  and `b1`; the interactive share is 1 of 2.
- `binding` has six operations: two accounts are registered, each gets a code, and both
  codes are used from one QQ identity before either use has committed.
- The two links: `link` has the connections and the messages of the bot, `send` the senders
  and the status; `official` has two senders and three tokens, `gateway` one sender with
  a stop, drops and callbacks. Of the feeds only `slots` and the one of `ends` have a `Cut`,
  one each: it takes a slot, and there the slots are what is looked at.
- Of the events of a Run, `window` has three with a window of one (an event waits for the one
  before it), `gap` three with no window (the feed degrades), `order` two Workers and so
  two streams.
- Documents, texts, actions and facts are two where a comparison is made and one
  where only presence matters.
- `ends` has its own smallest instances, since every temporal property is checked
  on the whole graph: two Runs and one attempt for a page, one tab and a feed without
  failures, one command for a delivery.
- `reconcile_starved` searches only `Unattended` behaviours: nobody cancels, no
  Activity is abandoned. A counterexample of a constrained search is one of the
  specification.

Symmetry is used in safety runs only, for senders, producers, tabs, Workers and Runs
that no constant tells apart. Deadlock is not checked: in every instance it is
right that nothing happens once all Runs, Works, calls or parts have ended.

### Fairness

`ends` states, for each part, which steps happen if they can. Weak fairness
(`Steady`): the loops of dispatchers, Outbox recovery, reconciler, senders, publishers and
Workers, which `orchestration/worker_tasks.py` and the channels run as endless loops
that survive exceptions; Temporal executing a pending Workflow step and the tries of
its Activities; time-outs of requests (client time-outs, start-to-close), expiry of
leases, and coroutines that can go on. Strong fairness (`Recurrent`), where others
may disable a step again and again: claiming each delivery (the candidates are
ordered by `capacity_turns` and `available_at`), fetching a token and requests that
wait for an `asyncio.Lock` (its waiters are served in order), and claiming each memory action
(`created_at`). No command of a user, no answer of an outside party that has no
time-out, and no fault is fair. `W ~> ~W` is written `[]<>~W`, which is equivalent.
What is excluded is excluded by name: a halt waits while an uncertain delivery
waits for a decision (`delivery/service.py` asks the user), and a memory action may
be `Stuck` behind a sender nobody can account for.

### Mutants

For every property of every passing run `PROJECT.json` names at least one mutant:
a *Variation* of a definition with a dropped guard, a missing reset or a swapped
order, under which TLC finds the property violated in the same run.

## 4. Proofs

TLAPS checks the theorems for arbitrary constants, under the named assumptions of
the modules (functions have their domains, limits are natural numbers, sets that
are counted are finite, NULL is no value). TLC evaluates the same assumptions on
every instance. No proof uses a bound: faults, tries, tickets, accounts, Runs and
messages are any number.

| Module | Theorems | Property of a run |
| --- | --- | --- |
| `RunDispatchProof` | `TypeCorrect`, `OneActiveRun`, `TerminalEventsAgree`, `CancellationIsIntended`, `RowComesFirst`, `NoStrandedRun`, `EndedRunsStayUnstarted`, `RefinesContract` | `TypeOK`, `SingleActive`, `TerminalEventMatches`, `CancelledOnlyByIntent`, `RowBeforeWorkflow`, `QueuedNotStranded`, `NoStartAfterEnd`, `ImplementsContract` |
| `ToolExecutionProof` | `ExecutionIsSafe`, `AtMostOneEffect`, `EffectsAreAccounted`, `ResultsAreDurable`, `TokensStayRevoked` and the parts of `Safety` | `Safety`, `EffectOnce`, `EffectAccounted`, `ReportedResultIsDurable`, `NoTokenRevival` |
| `CapacityProof` | `LimitsAreKept` | `Safety` |
| `InvocationProof` | `CallsAreSafe`, `ClosedStaysWithoutResult` | `Safety`, `NoResultAfterClose` |
| `MemoryContextProof` | `OnlyTheTouchedAreRefused`, `WithdrawnIsNotSent`, `WithdrawnIsNotFinal` | `Safety`, `NothingWithdrawnIsSent`, `NothingWithdrawnIsFinal` |
| `QqIngressProof` | `MessagesRunOnce` | `Safety` |
| `WorkDeliveryProof` | `DeliveriesAgree`, `LegalTransitions` | `Safety`, `TransitionsAreLegal` |
| `ExecutionScopeProof` | `ScopesAreKept`, `NobodyIsRefused` | `Safety`, `NoneIsRefused` |

`AlwaysSound` (`InvocationProof` and the modules below it) is the inductive invariant
itself.

**RunDispatch.** `Strong` is the type invariant, the five state properties and one
invariant per process; the latter are what the properties lack to be inductive. A
dispatcher about to call Temporal has seen the scheduled row committed
(`DispatcherInv`); a process between the two transactions of `finalize_cancelled`
will find the Run cancelling or terminal (`Settling`), which is why the stale status
it carries is harmless; a start event is marked processed only by somebody who
knows that the Workflow exists or the Run left the queue. Two lemmas carry the
interleavings: every step changes Run rows in one of a few ways (`RunMove`), and the
facts the process invariants rest on never become false again (`Forward`). The
refinement follows from `RunMove`: every kind of move is a step of `RunContract` or a
stutter.

**ToolExecution.** Four layers. `Typed`: an Activity past `begin` has a registered
attempt. `LeaseInv` says which segment may own the lease and orders the tokens:
tokens handed out are distinct, at most the current one, and strictly below it once
another segment owns the lease, so authority once lost is lost for good.
`OperationInv` numbers attempts in token order, which turns "the fence holds" into
"this is the latest attempt", and ties receipts, event and result together.
`EffectInv` is about the external call: at most one call can still take effect;
unless nothing has happened and nothing is in flight, the Operation is recorded as
intent, uncertain or completed; a fenced Activity whose flag is unset knows that
nothing has happened. That last part is what makes the flag in `tool_execution`
right.

**Capacity.** The limits are cardinalities and `acquire` decides by counting, so the
proof is about what a step adds to a set. `Sound` is `Safety` with `Placed` (a ticket
has a place in the order of creation only after its insert) and `Owned` (a live owner
whose lease ran out or whose row was released is marked `stalled`). The limits of the
held tickets are restated as a predicate `Limits(H)` of any set: it goes down to
subsets (`LimitsShrink`, for sweep and release), and a ticket admitted while nothing
is `Saturated` keeps it (`LimitsGrow`); both rest on the cardinality lemmas `Fewer` and
`OneMore`. `AcquireRows` says that one `acquire` changes the rows of no other ticket
than those it sweeps and admits.

**MemoryContext.** `Covered`: whatever a prompt draws on is guarded by the manifest it
is checked under, that is, either it is as it was read, or the manifest names its
scope and the log has a record of that scope past the manifest's epoch, so the check
will refuse. It also covers the text of succeeded Runs; without that the induction
stops at the first inherited reply. It follows that what passes the check is fresh,
over chains of replies of any length. `Accounted` is the other direction: a manifest
asks for no more than the base of its Run and the Run's own scope (`Related`), so that a
refusal is over a withdrawal that touches one of these.

**QqIngress.** A redelivered message must not run again once its receipt is there.
`ReceiptsOK`: one receipt for each account and message; `RunOK`: every Run and every
cancellation comes from a message with the receipt that says so; `ToldOK`: likewise
every refusal somebody was told. `LocksOK` describes the transactions by their
locks: whoever is between its look for a receipt and its commit holds the advisory
lock of its message, alone, so `CallOK` may say that the receipt is still missing.
`CallMoves` handles every step outside a transaction at once.

**Invocation.** `Sound` is the shape of the rows, `LimitsHold`, and for each Run
`RowOK`, which has four parts. `StepsOK`: the position of the Workflow, its tries and
the tries nobody waits for; this says which late try may still commit, the heart of the
matter, since the next try's acquire takes the fence away. `SlotOK`: who may hold a
slot, so that no Execution is open when its Run has ended. `ObservedOK`: what is in the
transcript is what the producer committed, once. `SavedOK`: the intent and the entry of
a report; and since completion is two transactions, what must hold of the second is
carried by the closed Operation: it is closed only with a sufficient report that is
saved, both stay so, and a parent's Run succeeds only after it. `RowOK` of a Run depends
only on the variables of that Run (lemma `RowMoves`), so each action needs a proof for
the one Run it moves. Limits are again counted: an action opens no slot (`NoneOpens`) or
one, with room for it (`OneOpens`). There is one lemma for each action, and
`NoResultAfterClose` is read off the same lemmas.

**WorkDelivery.** A part may be accepted once, and once more for every decision to send
again. Counting acceptances is not inductive: a request can be on the wire, or in the
hands of a sender, long after its lease expired. `Decided` therefore counts for each
part what was accepted, the leases under which it may still be accepted (`Underway`),
and the claim that a pending row still allows (`Waiting`). A claim moves one unit from the
last to the second (`ClaimDecided`), an acceptance one from the second to the first
(`ChannelDecided`), an expired lease none, and only `ResolveDelivery` adds one, with the
decision that pays for it; of `finish` it must be shown that it opens the next part and
no other (`FinishDecided`). It rests on what rows, leases, wire and channel say of one
another: `RowOK`; `SenderOK` (a sender whose lease is valid has the part the row is at);
`OwnLease` (no two senders have one lease); `WireOK`; `TakenOK` (before the row's part all was
accepted, after it nothing). The part about Works is as long: `CoordinatorOK` (while a Work
has a coordinator, it awaits nothing and nothing of it is at the channel),
`ContinuationOK` (what it refers to is the only fulfilment that may be), `OpenIsAwaited`,
`OneAtChannel` and `OneMayDeliver`. Every action of the store and of the senders has its
lemma (`ReviseSound` to `ExecuteSound`, `EndSound`, `CancelSound`, `SendSound`, `FinishSound`). TLC
checked `Sound` on the instance of `delivery` before it was proved; one conjunct of `RowOK` (a
row accepted over the channel is at its last part) was found by a failed proof step.

**ExecutionScope.** What is bound, listed, queued, cached and on disk for an attempt is a
function of where that attempt is (`AttemptOK`): its scope is bound exactly while it is
inside, what the manager lists under its key is its own, the directory is there from
`mkdir` to `close`. Since the key and the path of an attempt are its own, no step touches
what another attempt has (`OthersKeep`), and a key is free when its attempt comes to bind it;
`NobodyIsRefused` and the cleanup follow. The order of two attempts plays no part.

### What only TLC checks, and why

- Liveness, fairness and `ENABLED` (`ends`): outside this prover.
- What recursive definitions and folds compute for every input (rank fusion, sums
  of ledgers, conversions of transcripts): induction over data needs theorems with
  operator parameters, which the installed provers cannot instantiate. The
  modules that use such folds, `ModelBudget`, `Research`, `ToolRouting` and
  `ModelProtocol`, are checked on instances.
- The safety of the remaining components, for which no inductive invariant has
  been written: `Delegation`, whose argument would be that of `Invocation`,
  `MemorySource`, `FileObjects`, `ResourceAccess`, `IdentityBinding`, `AgentLoop`,
  `RunFeed`, `WorkProgress`, `HtmlBuild`, `OneBot11`, `OfficialQQ`, the MCP sessions. In
  the runs these are `ResourcesSafe`, `AgentsSafe`, `ProtocolSafe`,
  `SourcesSafe`, `FilesSafe`, `ToolsSafe`, `IdentitySafe`, `WiresSafe`, and the step
  properties `WorkSteps`, `AgentSteps`, `MemorySteps` and `ChannelSteps`.

## 5. Not modelled, and the plan

- File approvals and durable waits: no production code calls
  `FileActionApprovalService.request`, `approved_file_action_execution_activity` has no
  implementation, and `DurableWait` is used by nothing else. To be modelled if that
  changes.
- The git workspace (`sandbox/git_repo.py`, account locks, recovery guard): unused in
  production.
- Web API mapping, queries, projections, tracing, prompts, compaction, document
  normalisation, search, rendering: no protocol state of their own.
- Parts of modelled components that are left out are named in the notes of
  `PROJECT.json`: among them Work event notifications, acceptance by the user, builds of
  a Work, HTML called by an agent, image messages, session expiry, the
  administrator's bootstrap beyond the `admin` part, delivery reservations.
- Files of other tools of the repository (operations scripts, the observability
  viewer, acceptance tests) are no part of the running system.

What would come next: a proof of `Delegation`, then of `FileObjects` and `MemorySource`;
HTML as a capability of an agent on top of `Invocation`; acceptance and Work events on
top of `WorkStore`.

## 6. Findings and observations

Two disagreements of the code with what the repository says are runs of their own.

`reconcile_starved`: a Run that fails because `start_run` was exhausted keeps a
`scheduled` workflow row that Temporal does not know. `reconcile_candidates` returns
it, oldest first, in every round, and the reconciler records nothing for
`not_found`. With as many such Runs as the page holds, an active Run whose Workflow
has died is never looked at again and blocks its conversation. The run has a page of
one instead of 100; part `run` of `ends` shows that with room on the page every Run
ends.

`deletion_undone`: `docs/architecture/capabilities.md:183` says that a deletion stays
uncertain, with its record for deduplication, after a crash while sending, and
`docs/reference/api.md:115` that it does whenever an old request cannot be shown to have
stopped. A deletion that finds its retain unknown to the bank sends it once more, and
marks `send_state` only if it was open (`application/memory_governance.py:378`). After a
retain that was refused it is `settled`. A Worker that dies in that call leaves nothing
behind that says so: the next one sends again, reconciles, deletes and verifies, and the
request of the dead Worker then makes the document again, under an operation id the bank
has been told to forget. `DeletedIsGone`, `NeverReturns` and `RetainedOnce` therefore except
a source that was `SentBlindly`; they hold in all other behaviours, those with refused,
lost and late requests included.

The models made further behaviour visible. What follows was seen in
counterexamples of properties stronger than the ones the runs now check, or while
reading for them; the present properties make room for it. Most of it
disagrees with a docstring or a document, the first lines of which are at the place
named.

*Runs and Works.*
- Pausing, or disabling the target, cancels a fulfilment whose first parts are
  accepted; after a resume the next one starts from the first part. An acceptance
  recorded while the target is not authorized does not complete the Work.
- An unchanged daily Run that asked for input has its continuation overridden by the
  next occurrence. The `stale` guard of `record_result` is redundant.
- A budget raised while the Work is paused does not end its block
  (`work_domain/integration.py:294`).
- With an interactive reserve as large as the global limit no background ticket is
  ever admitted; the configuration only demands nonnegative limits.

*Agents and research.*
- Under `tool_first_v1` the answer of a plan's first step ends the plan. A single call
  written as `<tool_call>` text is executed like a structured one
  (`resources/model_client.py:436`); `docs/architecture/capabilities.md:17` says that pseudo
  tool text executes no action.
- A parent that dies between the two transactions of `_fail` fails its Run as
  `research_stage_failed` and not as `workspace_save_failed`, since its next try finds no
  pending intent (`research_activities/parent.py:431`).
- Equal ids in one answer make both calls run with the arguments of the last (equal
  arguments: once), and the next request is refused for good; so does an empty id.
  Arguments that are not JSON become `{}`. A non-streaming Anthropic answer keeps its
  last text only. Streams lose names and arguments; production uses no streams and
  publishes no `message.delta`.
- The last settlement of `_discover` is not idempotent (`research_activities/runtime.py:627`).
- A `prepare` of a delegation whose answer was lost checks again before it looks for its
  own branches, and may be refused although they exist (`agent_activities/delegation.py:141`).
- `NON_RETRYABLE_BRANCH_ERRORS` names a code the daily budget never raises
  (`agent_workflows/delegation_contracts.py:14`): such a branch is attempted twice.
- A page whose attempt dies between generating and storing fails its Run with
  `capability_budget_exhausted` (`max_model_calls` is 1); a retry keeps the parent frozen
  at the first request, and reopens a version that was closed as failed before its
  build began (`web_artifacts/local.py:55`).

*Memory and files.*
- A retain overtaken by a revocation is found superseded again and again. A refused
  deletion ends as `failed` and cannot be asked for again; a deletion waits for ever for a
  copy whose deletion failed. A native retry answered 409 leaves a deletion that cannot be
  verified.
- A recall may be judged by the state after a maintenance that began and ended during it
  (`application/context_assembly.py:298`).
- A page of due files none of which can be deleted hides the others from the collector
  (`web_domain/file_cleanup.py:59`); the staging file of an attempt that died blocks the
  output's retries (`storage/tenant_file_store.py:152`), and that of a PUT later PUTs until
  the upload expires. With two API processes a losing PUT would remove the object of
  the winner; the API is one process.
- Removing an entry, or detaching a file, misses a message that has read its right and
  not yet committed its access fact (`workspace/resources.py:636`, `:553`); revoking a grant
  does not. Withdrawing a permission on outputs alone cancels no Run, as documented.

*Channels and accounts.*
- A challenge can be created for an account disabled between the check and the insert.
  Two codes sent from one unbound QQ identity at once: the second transaction fails with
  an uncaught `UniqueViolation`. A consolidation does not look for workspace directories
  (`account/identity_binding_service.py:309`) and leaves the invite's entitlement with the
  disabled account. The bootstrap reads without locks and skips conflicts
  (`account/bootstrap.py:113`), and can give one account to two users; `OneIdentityEach` is
  about self-service and not claimed there.
- A message whose connection is lost after its commit is answered as unavailable, and
  runs; after a change of the binding a redelivery runs in the other account too. A Work
  conflict gets no reply. The bot's own messages go to another window than the one that
  is read (`application/reply.py:146`), and a redelivered message is in it twice
  (`memory/group_context.py:114`).
- OneBot11 drops the queued events of a replaced connection, rejects a third handshake
  while two connections are closing, and may take an older status answer over a notice of
  going offline (`channels/onebot11.py:218`). OfficialQQ never resumes, never asks for the
  gateway address again, never resets its reconnect delay, does not space concurrent
  sends, and takes replies alike in their first 50 characters for one
  (`channels/official_qq.py:330`, `:656`, `:559`). That a status other than 2xx and 401 means
  no effect is an assumption of the code. After an OpCode 7 or 9, or a frame that arrives
  while `stop_monitor` awaits the tasks it cancelled, the reference to the connection is
  gone and nothing closes it (`:746`, `:785`, `:894`, whose docstring promises to close it).
- A task that is cancelled after `acquire` and before its stream is read, or in the
  `finally` of the stream before `release`, keeps its SSE slot for good
  (`web_api/routes/runs.py:112`, `web_api/sse.py:275`); `SlotsMatch` counts such slots.

*Tools.* Every MCP server is disabled in the first release
(`docs/operations/first-release-configuration.md`).
- HTTP: a refused handshake calls `connect` from within itself; two calls that find the
  session old can leave it connected without a client (`sandbox/tools/adapters/mcp.py:291`,
  `:134`). SSE: a request accepted before the stream ended is sent twice (`:686`), a
  failed reconnection is never repeated (`:748`), the reader swallows its exceptions
  (`:753`). Stdio: an answer left in the pipe is read by the next request (`:1088`), a
  session whose subprocess died is not restarted (`:1049`), a server that fails during
  its start is left running and excluded (`:1392`). The instances of `tools` state what
  holds without these: the hazards they contain are named in `MCTools`.
- The sandbox of an attempt that waited 300 s for its capacity counts as idle
  (`sandbox/sandbox_manager.py:330`). Hints of a tool never reach a selection
  (`sandbox/sandbox.py:123`). Directories of killed attempts stay on the disk
  (`workspace/file_scope.py:175`). `Sandbox.execute` records `original_length` after
  truncation.
- A sandbox of one role deletes the other roles' entries from the shared index
  (`sandbox/tools/retriever.py:139`), and a failing retrieval drops the reserved tools too
  (`actions/runtime.py:111`).
