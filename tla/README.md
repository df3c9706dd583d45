# AxiomOps: TLA+ models, checks and proofs

This directory holds the formal models of AxiomOps, an incident control plane:
it accepts incidents, queues their investigation through an outbox and a broker,
collects evidence from a small lab of two services, lets a graph of language
model calls find a root cause, and executes an approved recovery on the lab.
The models are translated from the code; `PROJECT.json` ("map") gives the lines
behind every definition. Paths below are relative to the repository, with `CP/`
for `src/axiom_ops/control_plane/`.

## How to run

    tlc -config OutboxSafety.cfg MCOutboxDispatch.tla    # any row of the table of runs
    tlapm OutboxDispatchProofs.tla                       # any module *Proofs

## The system: inventory

| Component | State | Operations | Modelled in |
| --- | --- | --- | --- |
| Incident tables (`CP/repository.py`, `CP/database.py`, `mysql/001_init.sql`) | `incidents`, `incident_events`, `outbox_events`, `processed_messages` | create, claim, mark published, mark failed, consume: one transaction each | `IncidentStore` |
| Incident intake (`POST /incidents`) | a call in progress | insert; on a refused key read the incident and its fingerprint; answer 201, 200 or 409 | `IncidentIntake` |
| Outbox relay (`CP/relay.py`) | a batch, a publisher | claim, publish, mark, give up and start over | `OutboxDispatch` |
| Consumer (`CP/consumer.py`) | messages received | receive, apply, acknowledge, start over | `OutboxDispatch` |
| Broker (RocketMQ, external) | messages not yet acknowledged | accept, deliver at least once, in any order | `OutboxDispatch` |
| Recovery (`CP/recovery_service.py`, `CP/recovery_repository.py`, `mysql/005_phase6.sql`) | `recovery_approvals`, `recovery_executions`, calls in progress | request, approve, execute (read fault, reset, verify, roll back, record) | `Recovery` |
| Inventory fault state (`lab/faults.py`, `lab/app.py`) | mode, delay, error rate, request counter | read, set, reset, serve a request | `LabServices`; `Recovery` (the mode) |
| RCA runs (`CP/rca_runtime.py`, `CP/rca_repository.py`, `CP/checkpoint.py`) | `agent_runs`, steps, context, reports, Redis checkpoints | run, resume, finish, fail | `RcaRuns`; `Recovery` (that a report exists) |
| RCA graph and model client (`CP/rca_graph.py`, `CP/rca_model.py`) | graph state, call budget | plan, fan out, synthesize, guard citations, verify | `RcaGraph`, `GraphPromise` |
| Context compaction (`CP/context_compaction.py`) | none | shrink evidence texts to a budget | `ContextCompaction` |
| Memory (`CP/rca_memory.py`) | Qdrant points | index a verified report, search | `RcaRuns` (what is indexed) |
| Evidence (`CP/evidence_service.py`, `CP/evidence_storage.py`, `CP/evidence_repository.py`) | artifact files, table `evidence` | run a tool and persist, plan and execute a selection, verified read | `Evidence` |
| Typed tools (`CP/typed_tools.py`) | none | HTTP reads of lab and Prometheus | `Evidence` (`Observes`) |
| Lab order service (`lab/app.py`, `lab/metrics.py`) | trace buffer, counters | serve an order through the inventory | `LabServices` |
| Scenario runner (`lab/scenario_runner.py`, `lab/scenarios.py`) | one run's observations | inject, measure, reset, judge | `LabScenario` |
| MCP server (`mcp/server.py`) | none | four read tools, execute an approved recovery | `Evidence` (`CallMcpTool`); a call of `Recovery` |
| Evaluation reports, SSE stream, web console, observability, configuration | views, counters | reads, fixed computations | not modelled |

How they interact: the API's calls, the relays, the consumers and the MCP server
share nothing but MySQL; relays and consumers are joined by the broker; recovery,
evidence tools and scenarios share the lab's process-local fault state over HTTP,
without any lock between a read and a write; an RCA run feeds recovery through
the report it commits.

What is hard about it, and what correctness means for each part:

* *Intake.* Calls with one key overlap and are retried. A key must name one
  incident and one body for ever, and what a client was told must stay true.
* *Outbox path.* Publishing cannot be atomic with marking, nor applying with
  acknowledging; leases run out under slow relays; loops drop what they hold on
  any exception. No investigation may be lost, none queued twice, rows may be
  settled only by the holder of their lease, and everything must arrive in the end.
* *Recovery.* The executor's HTTP requests may fail after they took effect, two
  operators may execute one approval, and other users change the lab meanwhile.
  Nothing may act without a second person's approval of a verified root cause;
  one execution per approval; what is recorded about the lab must be so.
* *RCA.* A run may fail at any node and be resumed from its checkpoint, twice at
  once, or be orphaned by a crash. Only verified, correctly cited drafts may
  become reports, one per run, and completed runs must stay completed.
* *Evidence.* File and row are written apart, the files can be damaged, and selections
  read, ask a model and collect with no lock. A row must be backed by the very file its
  tool observed, nothing else may be served, and a selection may collect only what was
  missing when it looked.
* *Context.* A cut can make a text longer; the shrinking loop must end all the same.
* *Lab and scenarios.* Scenarios share one fault state, Prometheus is always late, any
  request may fail; a verdict of "passed" must rest on what the scenario asked for.

`PROJECT.json` ("hazards") lists the places in the code where each of these bites.

## The modules

**IncidentStore** is the database: four tables as functions over the incidents'
uuids, and each transaction as one operator with its guard and its effect.
Transactions commit or roll back as a whole (`CP/database.py:28`), and rows that
two of them change are locked, so one step each is what the code does. Times are
kept as what the queries ask: `due` (`available_at <= now`) and `expired`
(`locked_at` older than the lease). `SKIP LOCKED` lets a claim take any non-empty
part of the claimable rows, up to `BatchLimit`. An event has its incident's name:
both uuids are drawn and inserted by one call.

**IncidentIntake** adds `call` (per request: phase, key, body, incident) and
`answers`, a history of what clients were told. The insert and the reads after a
refused insert are separate steps, because the code opens a connection for each.
Looking up the id of a key and loading that incident is one step: neither changes
once committed. `Abandon` ends a call at any point with no answer (a stopped
process, a lost database or client); a retry is another `Request` with the same
key. Keys are what the unique index tells apart (its collation ignores case), a
body is what its fingerprint tells apart. `Queued` lets consumers change incidents
meanwhile.

**OutboxDispatch** adds the processes. A relay is in one of the steps `start`
(no publisher), `poll`, `publish`, `mark`, `failed`, with the rest of its batch,
the event in hand and the broker's receipt. A consumer has an inbox and the
message it is about to acknowledge. The broker is `copies` (messages accepted per
event) and `queue` (those not acknowledged): any queued message may be received
by anybody at any time, which covers reordering, redelivery and a visibility
timeout that ends while the message is being handled. Events of a batch are taken
in any order; the code's order (`ORDER BY created_at`) is one of them. Everything
that goes wrong spends one of `MaxFaults`: `PublishFails` (the broker may or may
not have the message), `MarkPublishedErrs`, `RelayStops` and `ConsumerStops` (a
crash, or any exception that reaches the outer `except`), a lease that expires
under a relay still at work. A transaction that committed but whose reply is lost
is the committed step followed by a stop. Leases nobody holds expire for free.

**InvestigationQueue** is the promise, with none of this in sight: `Submit`,
`Queue`, `Settle`, each at most once per incident, and the latter two inevitable.
`OutboxDispatch!Promise` is the refinement mapping: the status, the length of the
audit trail, the set of published incidents.

**Recovery** has the two tables, the verified report of each RCA run, the lab's
fault mode, and `call`: one record per `approve` or `execute` in progress, whose
`step` is the next database access or HTTP request. `GetFaultState`,
`ResetInventoryFault`, `VerifyOrderFlow`, `RestoreFaultState` and
`RestoreAfterError` are the executor's requests; each may fail before or after it
took effect. `Record` is the insert under the unique `approval_id`, with the
IntegrityError that ends a second one. `LabUse` is everybody else: a scenario, the
console, a restart of the inventory service. Reads that nothing can change in
between are one step with what follows (a committed report, an approved row).
`answers`, `resets`, and the fields `applied` and `alone` are history: they are
never read by a guard. `alone` says that nobody else has set the fault since this
executor read it. Request fields that nothing branches on (reason, comment,
error text, executed_by) are left out, and so are the role headers, which decide
only who may call.

**GraphPromise** is what the runtime may rely on when it invokes or resumes the
graph of a run: one variable, the thread's checkpoint, which takes the graph's nodes
in their order, never back, each at most once, and whose verdict and citations obey
the guard. Both modules below use it: `RcaGraph` implements it, `RcaRuns` runs its
graphs by its steps.

**RcaGraph** is one run's graph. `saved` is the checkpoint (RcaState and what runs
next), `pending` the results of investigators that succeeded in a superstep that is
not over, `attempt` and `work` the invocation in progress, `calls` the budget's
counter. LangGraph is modelled by what it does for this graph, as the module's head
says: parallel tasks, results of tasks kept when a sibling raises, a checkpoint after
each superstep, resumption without input. Each node is an action; a node that asks
the model may also find the answer empty (`EmptyAnswer`, twice at most), the call or
its validation failing (`CallFails`) or the budget used up. The model is an adversary
within its schema: plans in any order, findings of another role, any citations, any
verdict. A call is one step, since all that threads share is the counter under its
lock. `task_id` stands with `role` for a finding's identity; the plan's validator
(`CP/models.py:176`) is why a plan is an order of the roles. `Fails` covers a call
whose JSON does not validate.

**RcaRuns** is the API's view: the tables of runs, and `call`, one record per `run`
or `resume` in progress, whose `step` is the next transaction, superstep or upsert.
`CreateRun`, `Prepare` (model configuration, evidence, compaction, context),
`ResumeRun`, `FinishRun`, `IndexReport` and `FailRun` follow the order and the two
`except Exception` branches of the code: whatever raises between the first row and
the answer ends in `FailRun`, with the counters of that branch. Every transaction may
commit, roll back, or commit and raise. A superstep costs one model call where
`RcaGraph` may count several; `calls` stands for all three counters, which are
handled alike. `raced`, `spent` and `alone` are history. A process that stops takes
its calls one by one, which includes all at once. Memory lookups feed only prompts and
are left out.

**Evidence** is the path from a tool to a verified read. `rows` is the table, `temporary`
and `artifact` the two names a file can have, and `call` a request in progress with the
next thing it does. Steps that nobody else and no crash can tell apart are one: a tool's
observation, the fresh uuid and the opening of the temporary file (`ToolExecutes`); filling
it, `os.link` and `unlink` (`LinkArtifact`). The insert, the read back on another connection,
the list of what an incident has, the planner's answer, and the two reads of a verified
read are steps of their own. `Observes` says which replies are observations, tool by tool
(an error status is one for the order flow only). The planner model is an adversary: it may
propose any tools in any order, with repetitions, and `Accepted` is what the code's loop makes
of all that: any one or two distinct kinds that are missing, in any order. `Plans` adds the
fallback, every missing kind in the order of `Desired`, which also stands for a planner that
is absent or raises. The reason and the input of a proposal are left out, as the code replaces them by the
fallback's. Content is at once the bytes and their hash. `Fail` (an exception), `Stop` (the
process) and `Damage` (somebody else, or a power failure: the directory is not synced) spend
`MaxFaults`. `observed` and `damaged` are history. The MCP server's tools are `CallMcpTool`:
the same call from another process, for four kinds.

**LabServices** is the lab: the fault state with its lock, the order service, and what
Prometheus last scraped of each, at its own times. A duration is the milliseconds a fault
adds, a rate the percents `next_request` rounds it to. An order is two steps, since the
inventory takes the request, sleeps, and the order service answers later; meanwhile the
fault may be changed. Other users set a fault, order, or restart a service (`MaxOthers`).
**LabScenario** is `run_scenario` on top of it: every request a step, rounds of orders
collected one by one, both `except` branches (`Raised`), requests that fail before or after
their effect, a killed runner, and the evaluation as operators over what was observed.
A runner stopped by Ctrl-C still resets and orders before it goes without a result: that is
`Killed` followed by another user's reset and orders, and has no action of its own.
Waiting for Prometheus may end at any time in the time-out; the polling loop itself needs
no fairness, since only what it ends with is of interest. `under` (the fault an order met),
`alone` and `left` are history.

**ContextCompaction** is the loop over the lengths of texts. The encoded size of the capsules
is not determined by lengths, for JSON texts inside JSON are escaped: it lies between
`Overhead + Text` and `Overhead + 2 * Text`, and `Fits`, `Shrink` and `GiveUp` may each
happen wherever that interval allows. When a limit leaves no room beside the marker, the slice
`[-0:]` is the whole text, so a text of 33 to 54 characters grows by 22 when it is cut.

**MC*** modules only add the symmetry sets. The `*Without*`, `*Always*` and similar
operators in a module's section "Mutated operations" are used by no specification:
they are the bugs that each property has been seen to notice.

## Runs

| Run | Question | Bounds | Distinct states |
| --- | --- | --- | --- |
| `incident_intake` | what do answers tell clients, and does it stay true | 3 calls, 3 uuids, 2 keys, 2 bodies | 143,739 |
| `outbox_safety` | is anything lost, queued twice, or settled by the wrong relay | 2 incidents, 2 relays, 2 consumers, batch of 2, receive of 1, 2 faults | 378,369 |
| `outbox_liveness` | does everything arrive in the end | 2 incidents, 2 relays, 1 consumer, batch and receive of 2, 1 fault | 45,016 |
| `recovery` | who may act, what is recorded, is it so | 3 users, 2 incidents, 1 run, 2 approvals, 2 executions, 2 calls, 2 faults, 1 use of the lab by others | 1,233,545 |
| `recovery_side_effect` | is an approval's side effect unique (violated) | 2 users, 1 approval, 1 execution, 2 calls, no fault | - |
| `recovery_lost_reset` | is a rollback always recorded (violated) | 2 users, 1 approval, 1 execution, 2 calls, 1 fault | - |
| `rca_graph` | what is approved, asked twice, told by the steps, does an attempt end | 3 roles, 2 ids, the default budget of 8, 3 attempts | 281,218 |
| `rca_runs` | who works on a run, what is final, grounded, counted, and is every call answered | 2 incidents, 2 ids, 1 run, 3 calls, 2 faults | 459,551 |
| `evidence` | are rows backed, is only what was observed served, what do selections collect | 1 incident, 3 kinds, 3 ids, 2 calls, 2 contents, 1 fault | 1,967,146 |
| `lab_scenario` | what does a result of passed say | the 3 scenarios with 2 orders each, 2 runs, 2 faults, 1 use by others | 8,202,884 |
| `context_compaction` | does the loop end, and how | 2 texts of 0 to 140, limits 110 and 130, overhead 60 | 15,312 |
| `rca_interrupted` | is an interrupted run resumable (violated) | 1 run, 2 calls, 1 fault | - |

Why the bounds are enough for the interesting cases. Intake: with three calls and
two keys, two calls race for one key while a third uses another; the third uuid
lets a wrongly accepted second insert of a key happen at all. Outbox: an event
can be published twice and handed from one relay to the other and back, each with
a stop or an expired lease in between (two faults); two consumers hold two copies
of one message at a time. Receiving one message at a time loses nothing for
safety: a larger receive is several consumers' worth of inboxes, and the liveness
run receives two. Recovery: two calls are two approvers
(three users, so that both may approve and differ), two operators on one approval,
or two approvals' executors interfering on the lab; two faults reach the restore that
fails after it took effect and is retried; the one use by others sets the fault that
the executors find, or disturbs one of them. Graph: one role always lacks evidence, the ids outside the run's
evidence are the invented ones, a budget of 8 for 6 results is exhausted by three wasted
calls, and two resumptions resume a resumed attempt. Runs: all that calls share is per run,
so one run with three calls has the races: one fails, two resume, the late one was
overtaken; two faults fail the run and its resumption, or a commit of either. The second
incident exists so that foreign evidence can be cited. Evidence: two selections, or a
selection and a tool, or a collection and a read; three ids for a whole fallback of three
kinds, or for selections of two that overlap; one fault damages a file between the two reads of a verified read, or leaves a file
without its row. Three of six kinds are enough, since all that tells kinds apart is which
replies they accept, and one of each sort is there. Lab: a second run inherits what the
first one left when it was killed or failed (fault, counters, scrapes); two orders are the
least that can meet different faults; the other user sets a half error rate, or a latency
beyond the order service's time-out. Compaction: one text alone, two equal ones, one that is
cut through the growing lengths, and both outcomes; lengths and settings are scaled to the
constants 32 and 22 that decide.

`CHECK_DEADLOCK FALSE` stands in the two outbox configurations: when every uuid
has been used and every message acknowledged, the relays poll and the consumers
wait, which the models do by standing still. It also stands in the RCA configurations: a graph
with all its attempts used, or a run that is settled with no uuid left, has nothing left
to do; in `Evidence.cfg`, where tools need a fresh uuid and damage a fault; in
`LabScenario.cfg`, where the runs are used up; and in `ContextCompaction.cfg`, whose loop
ends. `IncidentIntake` and `Recovery` are
checked for deadlock.

Liveness uses weak fairness of each relay loop, each consumer loop, the retry
clock and the lease clock, and of nothing else: both loops are `while True` in
containers with `restart: unless-stopped`, and clocks advance. Fairness is of the
whole loop, so a relay must keep moving but may move by failing, until the faults
are spent; nobody is obliged to create an incident. `BacklogDrains` ranges over all
message ids a bounded number of faults can produce.

`RcaGraph` and `RcaRuns` have weak fairness of an invocation's, or one call's,
progress as a whole: threads run, the model's and the database's requests have
timeouts. Nobody is obliged to start or resume a run, and progress may be failure.
`ContextCompaction` has weak fairness of its next step: a loop in one thread that waits for
nothing. `Evidence` and `LabScenario` state safety only and have none.

### What the properties say

* `AuditTrailAgrees`: status, version, audit trail, outbox row and processed row
  of an incident always tell one story.
* `NoLostInvestigation`: the message a published row names is at the broker, or
  the incident is queued.
* `OnlyHolderSettles`, `PublishedIsFinal`: leases are respected, and a late relay
  cannot reopen or rename what is published.
* `DuplicatesCountedAsAttempts`: the `attempts` column bounds the duplicates.
* `KeepsPromise`, `FulfilsPromise`: the refinement, without and with liveness.
* `BacklogDrains`: every accepted message is acknowledged in the end.
* `OneIncidentPerKey`, `NoFalseConflict`, `AnswersStand`: what clients may conclude
  from answers.
* `ActsOnlyWhenApproved`, `ApprovalIsFinal`: the lab is touched only for an approval
  by somebody other than its requester, for a root cause verified for that incident.
* `AnswersAgree`: all answers for one approval name its one stored execution.
* `ReportedStateHolds`: success means the fault is gone, a rollback means the fault
  read before is back, unless somebody else set it meanwhile.
* `OneWorker`: of several resumes one works on the run and its checkpoint.
* `FinalStays`, `OneStory`: what is completed or rejected stays so, with its report,
  its steps once and its context, whatever late calls do; the memory holds nothing
  unverified.
* `ReportGrounded`: reports cite evidence their run started with and which belongs to
  its incident.
* `CallsCounted`: the counters of a settled run count every attempt, unless a resume
  was overtaken between its read and its UPDATE (`raced`): then the code does forget the
  overtaken attempt's calls, which no document denies.
* `CallsAnswered`, `AttemptEnds`: nothing waits for ever.
* `StepsTellThePath`, `AnsweredOnce`: through any failures and resumptions a run's steps
  are the graph's path, in the plan's order, and no node's answer is paid for twice.
* `FindingsStayInRole`, `ApprovedIsGrounded`: what a model may make the graph accept.
* `BudgetSuffices`: an attempt runs out of calls only if enough of them were wasted.
* `KeepsPromise` of `RcaGraph`: the refinement of `GraphPromise`.
* `RowsBacked`: a row names a whole file with what its tool observed, for an existing
  incident, unless the file was damaged from outside; what a 201 names is stored.
* `ServedIsObserved`: a verified read answers what the tool observed or nothing, also when
  the file changes between the read of the row and that of the file.
* `SelectionFillsGaps`: a selection collects only kinds that none of the rows it read had,
  each once, at least one if any was missing, more than two only as the fallback, which then
  leaves none missing. So a kind collected twice means overlapping selections, and after a
  failure half way what is stored is not collected again.
* `ResultTruthful`: a scenario passes only without error, with all its orders and with
  metrics that Prometheus showed; with the services to itself, every fault order met the
  scenario's fault and every recovery order none; a result without error leaves no fault.
* `EndsWithinBudget`: the compaction ends, with capsules that fit, or with the budget error
  where each text would have less than 64 characters beside the metadata (the error's
  message speaks of metadata alone; texts are not cut below 32, which escapes may double).

### Findings

* `SideEffectOnce` is violated without any fault: `execute` checks for a row, resets
  the lab, and only then inserts the unique row (`CP/recovery_service.py:188`). Two
  overlapping executes both reset the lab and the second ends in an IntegrityError,
  where `docs/project-background.md:132` says that a repeated execution returns the
  same result and has no repeated side effect. What does hold is `AnswersAgree`.
* `RollbackRecorded` is violated by one lost answer: the reset took effect,
  `action_result` is still empty, and the `except` branch
  (`CP/recovery_service.py:75`) neither rolls back nor records that it did not,
  where `docs/architecture.md:80` says that rollback information is recorded if
  verification fails.
* `InterruptedResumable` is violated by one stop: the row stays RUNNING, nothing fails it,
  and `resume` accepts only FAILED (`CP/rca_runtime.py:194`), so the checkpoint is of no
  use, where `README.md:57` and `docs/optimization-evaluation.md:12` say that an
  interrupted run is resumed from its checkpoint. A run whose graph raised is resumable.

Four more observations need no run. The latency scenario states the success condition
`average_latency_returns_below_500ms` (`ops-lab/scenarios/inventory_latency.json`), and
`evaluate_observations` only asks recovery orders for status 200. A scenario that raised
before it collected metrics is reported with `metrics_match` true; its `passed` is false all
the same. The SSE frames are written with `\\n` (`CP/app.py:210`), a backslash and an n, so no
frame ever ends; `docs/architecture.md:24` has the console fed by them. And where
`docs/agent-planner-verifier-evaluation-design.md:14` says that a proposal which is invalid or
over its budget falls back, `plan_tool_selection` (`CP/evidence_service.py:219`) keeps its
first two valid tools and counts the rest as rejected, and
`tests/control_plane/test_evidence.py:154` expects that of an invalid one; only a proposal
without any valid tool falls back. `SelectionFillsGaps` holds for either reading.

## Proofs

All theorems hold for every value of the constants under the modules' named
assumptions: `StoreAssumption` (NULL is no name, a claim's limit is positive),
`DispatchAssumption` (finitely many relays, NULL is no message, numbers are
numbers), `RecoveryAssumption`, `RunsAssumption` and `ReportAssumption` (NULL is no name
and no report, numbers are numbers), `GraphAssumption` (the roles are finitely many, as
`CP/models.py` lists them, and no role is a node's name), `EvidenceAssumption` (the fallback
names each kind once at most, NULL is no name, a torn file is no content), `LabAssumption`
and `ScenarioAssumption` (what users and scenario files may set, up to the limits of
`FaultConfig` and `ScenarioDefinition`; NULL is neither a fault nor a measurement). Each inductive
invariant has been checked by TLC, on the bounds of its run, beside the proof.

| Module | Theorems |
| --- | --- |
| `IncidentIntakeProofs` | `Typing`, `Inductive`, `KeyNamesOneIncident`, `ConflictsAreTrue`, `AnswersKept` |
| `OutboxDispatchProofs` | `Typing`, `AuditTrail`, `Inductive`, `NoneLost`, `HolderSettles`, `PublishedStays`, `AttemptsBound`, `Implements` |
| `RecoveryProofs` | `Typing`, `ApprovalStays`, `OneExecution`, `OnlyWhenApproved`, `ReportedIsSo` |
| `RcaGraphProofs` | `Typing`, `Inductive`, `PathIsTold`, `RolesRespected`, `Grounded`, `OneAnswerEach`, `BudgetIsEnough`, `Refines` |
| `RcaRunsProofs` | `Typing`, `WorkersAlone`, `FinalRuns`, `StoriesAgree`, `ReportsGrounded`, `CallsAreCounted` |
| `EvidenceProofs` | `Typing`, `Inductive`, `RowsAreBacked`, `ServedAsObserved`, `SelectionFills` |
| `LabProofs` | `ScenarioTyping`, `ScenarioInductive`, `ResultsAreTruthful`, `ErrorRateExact` |
| `ContextCompactionProofs` | `Typing`, `TurnsPay` |

`IncidentIntakeProofs`:

* `Inductive`: what clients may conclude from answers is not inductive without what the calls
  in progress know. `IInv` adds the unique key (`KeyUnique`), that no incident is without its
  outbox row (`EventStored`), that a call past its insert or its lookup holds the id of a row
  with its key (`Knows`), and that every answer speaks of a row (`SpeaksOfRow`): the one it
  names, or, if it is a conflict, the row that holds the key with another body.
* `KeyNamesOneIncident`, `ConflictsAreTrue` and `AnswersKept` follow: two answers about one
  key speak of one row.

`OutboxDispatchProofs`:

* `Typing`, then `AuditTrail`: typed states whose rows agree step to such states.
  A claim, a mark or a clock touches only rows of existing incidents; the only
  steps that touch an incident are its creation and its consumption.
* `Inductive`: `IInv` adds `BrokerInv`, which `NoLostInvestigation` alone lacks: the
  claim "a published row's message is queued or processed" is not inductive, since
  marking needs to know that the receipt in the relay's hand is the id of an accepted
  message, and acknowledging needs to know that the message in the consumer's hand is
  processed. So: every accepted message is queued or its event processed; a message
  being acknowledged is processed; receipts and published ids are accepted ids.
  `NoneLost` follows.
* `HolderSettles` and `PublishedStays` are action properties, from `IInv` and one look
  at every action.
* `AttemptsBound`: `copies <= attempts` is not inductive either; counting the claims not
  yet used up (`ClaimsCounted`: messages accepted plus relays that still have the event
  in their batch) is. This needs facts on cardinalities, hence the finite set of relays.
* `Implements`: initial states map to initial states, and every step to `Submit`,
  `Queue`, `Settle` or a stutter.

`RecoveryProofs`:

* `Typing`, for which every action's new call record is typed by a lemma of its own.
* `ApprovalStays`: from `Typing`, since only `RequestRecovery` and `Approve` write rows
  and both look at the status.
* `OneExecution`: the strengthening `LedgerInv` says that executions of one approval
  are one, and that a call about to answer, like an answer given, names a stored row.
* `OnlyWhenApproved`: the strengthening `ApprovalInv` says that a call past its checks
  carries an approved row (or, about to approve, a user other than the requester), that
  approvals point to reports of their incident, and that resets and rows have approved
  approvals.
* `ReportedIsSo`: `SureInv` follows an executor that nobody has disturbed from its first
  request to its last: before the reset the fault is as it was read, before the verification
  it is gone, and what is about to be recorded is true (`Told`). `SureMoves` is the one
  lemma about steps: whoever sets the fault disturbs all the others.

`RcaGraphProofs`:

* `Inductive`: `IInv` gives, next to the types, what each stage of the checkpoint owes to
  the nodes before it (`Staged`: no plan before the commander, no findings before the last
  investigator, a draft after the synthesis whose uncited ids are the guard's errors, an approval
  only at the end and without errors), that the steps told are
  the path up to the next node (`StepsUpToNext`), that results kept and merged stay in their
  role (`InRole`), that a node was answered exactly if its result is in the checkpoint or
  pending (`AnswersAreResults`), and that the calls of an attempt are the wasted ones and at
  most one per result (`CallsAccounted`), for which the roles must be finitely many.
* `PathIsTold`, `RolesRespected`, `Grounded`, `OneAnswerEach`, `BudgetIsEnough` follow from it.
* `Refines`: a superstep that saves a checkpoint is a step of `GraphPromise`, the results of
  parallel investigators stutter until the last one is merged, and so do failures and
  resumptions.

`RcaRunsProofs`:

* `Typing`, from `Shape`, which adds what a call and a checkpoint say of themselves
  (`GoodThread`: an approved draft cites evidence of the run; `AfterGood`: every step of
  `GraphPromise` keeps that).
* `WorkersAlone` and `FinalRuns`: `OneWorker` alone is not inductive, because a call that
  settles its run is no longer a worker but still writes. `WorkInv` therefore covers every
  call that has drawn or won its run (`Holder`) and gives the row's status at each step
  (`StatusAt`), among them that no holder is left when the row is FAILED, so that the one
  resume whose UPDATE succeeds is alone. `Moves` reduces each action to the one call and row
  it touches.
* `StoriesAgree`, `ReportsGrounded`: `Facts` adds that what a call
  carries (incident, evidence) is what its row has, that a checkpoint's evidence is its
  row's, and that a call about to finish has an ended graph. `Frame` is to `Facts` what
  `Moves` is to `WorkInv`.
* `CallsAreCounted`: the counter of a row is right only when no call holds its run;
  otherwise the rest is with the holder. `Accounts` says that what a holder knew and used
  is all that was spent, and that a resume which nobody has overtaken knows the counter as
  it still is, of a run that is still FAILED. A resume that was overtaken and wins all the
  same puts its run among `raced`: there only the bound from above is left, which is what
  the code keeps.

`EvidenceProofs`:

* `Inductive`: `IInv` says that nothing exists under an uuid not yet drawn (`Untouched`),
  that a file or a row has what was observed, unless the file was damaged (`FilesHold`,
  `RowsHold`), and of each call that it writes what was observed, file before row before
  answer (`Writes`), reads by the hash of a stored row (`Reads`), has collected rows of its
  incident (`Gathers`), and has collected and has still to collect distinct missing kinds, at
  most two of them or all (`Selects`).
* `RowsAreBacked`, `ServedAsObserved`, `SelectionFills` follow. The last needs that as many
  rows as kinds were collected, which is a bijection from the rows to their kinds.

`LabProofs`:

* `ScenarioInductive`: a result is written long after what it tells of, so `IInv` follows a
  run from its start. `Honest` says what the stages owe each other: orders exist only while
  they are collected or evaluated, an error leads to the final reset, and who gets there
  without one has the metrics and all the fault orders. `Undisturbed` says what is known
  while `alone` holds: the lab has the fault that the runner set last, and every order so
  far met the fault of its round. An error with orders left from a broken round would break
  it, and `Raised` is where the code drops them (`RaisedIsSound`).
* `ScenarioTyping` and `ResultsAreTruthful` follow; `WrittenIsTruthful` is the one step
  that writes a result.
* `ErrorRateExact`: the buckets of a hundred requests in a row are a bijection onto 0..99,
  because 37 has the inverse 73 modulo 100, so exactly `rate` of them are below the rate,
  wherever the hundred begins. Over fewer requests the share may be off.

`ContextCompactionProofs`: `Typing`, and `TurnsPay`: every turn brings the measure of one
text down (its length, and 23 more up to 54 characters, where a cut makes it longer) and
leaves the others. That a decreasing measure ends the loop is an induction over a sum,
which TLC's `EndsWithinBudget` stands for.

Only model-checked: liveness (`FulfilsPromise`, `BacklogDrains`, `AttemptEnds`,
`CallsAnswered`, `EndsWithinBudget`), which is outside the prover's reach. Every invariant
and every action property of the passing runs is a theorem.

## Not modelled, and limits of what is

* Late effects: a request to the lab that times out takes effect before its sender goes on,
  or never. In reality it may arrive after the rollback or after the scenario; it then acts
  like one more use of the lab by others, for which no property makes a claim.
* The broker's own limits (retention, dead letters), poison messages (the one producer
  writes none), MySQL failover, clock skew beyond an early lease expiry.
* The content of prompts and reports; embeddings; formatting; the buffers of traces and
  changes in the lab, which only tools read.
* Redis losing a checkpoint it acknowledged: a resume finds the last one that was saved.
  The evaluation baseline without a verifier.
* Hash collisions, a uuid drawn twice, paths that leave the evidence root (every path in
  the table was written by `EvidenceStorage.write`).
* Evaluation reports (`evaluation/`) and the verification scripts (`scripts/`): each computes
  fixed numbers from files, once, with no state and no second actor. SSE stream and web
  console: reads with no effect on anything modelled. Observability, configuration, the
  phase 0 application: no behaviour a state machine would add to.
* Recovery and the RCA runs share only that a report exists; `Recovery` has that as one
  action (`Verify`), whose premise, that reports never change, is `FinalStays`. A composed
  module would check nothing more.

## Plan

1. Done: `IncidentStore`, `IncidentIntake`, `OutboxDispatch`, `InvestigationQueue`,
   `Recovery`, with the proofs above.
2. Done: `GraphPromise`, `RcaGraph`, `RcaRuns`, with the proofs about `RcaRuns`.
3. Done: `Evidence`, `LabServices`, `LabScenario`, `ContextCompaction`, with the proofs of
   the error rate and of the loop's measure.
4. Done: the proofs about `IncidentIntake`, `RcaGraph` with its refinement and `Evidence`,
   `ReportedStateHolds` and `CallsCounted`. In `Evidence` the plans of a selection are given
   by what they contain, not by a fold over a proposal, so that they can be reasoned about.
   `LabScenario`, with the runner's locals as one record set.
