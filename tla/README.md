# A TLA+ model of fevex

fevex runs agents, workflows and teams over a durable store: a run may be started, paused for
a human, lost with its process, taken over by another one, retried and cancelled, and several
runtimes may share one store. Around that core it has gateways to models, tools of its own and of
remote servers, sandboxes, artifacts, an HTTP interface, channels and traces. This directory models these
parts, checks them with TLC on small instances and proves part of the properties with TLAPS for all
instances.

Paths below are relative to `src/packages/fevex/src` unless they start with `src/`; `postgres`,
`sqlite`, `mcp`, `openai`, `deepseek`, `sandbox-docker` and `opentelemetry` stand for
`src/packages/<name>/src`.

## 1. Inventory

| part | state it keeps | operations | talks to |
|---|---|---|---|
| run store (`runtime/in-memory-run-store.ts`, `sqlite`, `postgres`) | runs with a revision, sessions with a revision and a history, checkpoints, tool records, events, leases with a generation | `createExecution`, `commitExecution`, `saveSession`, `acquireLease`, `renewLease`, `releaseLease`, `purgeRuns`, reads | called by everything below, from any number of processes |
| run core (`internal/run-core.ts`) | `activeRuns`, `activeSessions`, `pendingStarts`, `closed`, timers of leases | `admitStart`, `commit`, `startLease`, `cancelExecution`, `releaseExecution`, `notifyIdle` | store; called by both engines and the facade |
| agent engine (`internal/agent-engine.ts`) | one `ExecutionState` per run being worked on | `prepareExecution`, the generator `executeAgent`, `resumeAgent`, `cancelStoredAgent` | run core, model gateways, tools, policies, compactor |
| tool calls (in `executeAgent`) | `ToolExecutionRecord`, `approvedToolCallId`, `forcedRetryToolCallId`, the attempt | approval, record, effect, retry, resolution by a human | store, tools, policies |
| context (`internal/context-compaction.ts`, `runtime/compaction.ts`) | the conversation, the session's summary | `compactContext`, the digest and the model compactor | agent engine, gateways |
| workflow engine and teams (`internal/workflow-engine.ts`, `teams/team.ts`) | step records, a commit queue, the shared budget | `step.agent`, `parallel`, waits, compensation, resume, cancel, delegation | agent engine for children, run core |
| facade (`internal/runtime.ts`) | none of its own | `streamAgent`, `startAgent`, `cancelRun`, `shutdown`, `compactSession`, `purgeRuns` | engines |
| configuration (`internal/configuration.ts`, `internal/definition-hash.ts`) | registries; a hash in each checkpoint | `createComposition`, comparison of hashes on resume | facade, engines |
| HTTP (`http/transport.ts`), channels (`channels/`) | connections, the host's map of owners, deliveries | start, read, observe, cancel, resume; handle, deliver again | facade |
| model stream and gateways (`internal/model-stream.ts`, `openai`, `deepseek`) | buffers of one answer | framing, decoding, chunks and deadlines | providers, agent engine |
| tools (`internal/tool-search.ts`, `tools/tool-index.ts`, `mcp`) | loaded tools, an embedding cache, one discovery, tasks | search, build of the index, remote calls | agent engine, servers |
| sandboxes (`sandbox/local-sandbox.ts`, `sandbox-docker`) | containers, workspaces, processes and their timers | calls, resets, `cleanupRun`, `dispose` | tools |
| artifacts (`artifacts/`, catalogs in `sqlite`, `postgres`) | bytes, sidecars, index rows | `put`, `get`, `delete`, `deleteByRun` | tools, hosts |
| traces (`internal/observability.ts`, `internal/trace-export.ts`, `opentelemetry`) | spans, a bounded queue | enqueue, flush, export | store, exporters |
| evaluations (`evals/evaluation.ts`) | reports | run, parse, compare | facade |

The behaviours that are hard to test:

* *Interleaving*: every `await` of an attempt is a place where other attempts, in this process or
  another, go on; the attempt then uses what it read before.
* *Failure*: a process dies anywhere; a store call throws with or without having been applied; a lease
  expires under a worker that does not know it yet; a container, a server or a connection goes away.
* *Ordering*: a renewal arrives after the release; a cancellation commits while the consumer of a
  stream holds the generator at a `yield`; a `docker kill` lands late; the network cuts a stream anywhere.
* *Effects*: a tool may have run although no record says how it ended.
* *Replacement*: a run is resumed by a host with other definitions.

What makes each part correct:

* store and attempts: a session has at most one active run; the history of a session is the
  completed runs; a terminal run is final; a takeover continues from the last checkpoint; event
  numbers increase; transactions are as good as atomic calls;
* tool calls: nothing runs before it was approved; what ran is on record; a non-keyed tool runs again
  only when a human says so; attempts stay bounded;
* run core and facade: the limit of active runs holds while starts are on their way; whoever works on a
  run can be found and cancelled; stored status and stored events agree; shutdown returns;
* workflows and teams: a completed step is never executed again, what was done is undone once and in
  reverse, a cancellation reaches the children, limits are not widened by a replay;
* context and answers: every request is one the provider takes, nothing of an answer is lost or made
  up, found tools stay loaded;
* host: what is accepted is in force, a run executes under the definition it began with, only its owner
  learns of it, and every observer hears its events once, in order, to the end;
* tools, sandboxes, artifacts, traces: one identity per call, one container per run, nothing
  stranded, each failure told once.

`PROJECT.json` lists forty hazards at their lines, with the properties that cover them. Its map gives the lines of every
operation; names of a line or two (shapes of records, absent values, readings of a field) stand for part of the lines of the
definitions that use them and are not listed again.

## 2. Modules

    SessionReservation  <-refinement-  DurableRuns  --EXTENDS--> RunStore
    StepLedger          <-refinement-  WorkflowEngine
    SqliteRunStore      <-refinement-  PgRunStore
    Startup, Redeploy  --EXTENDS-->  Composition
    SpanExport         --EXTENDS-->  RunTrace

    MCDurableRuns   DurableRuns
    MCToolCalls     ToolCalls
    MCEngines       RuntimeProcess, TeamBudget
    MCWorkflows     WorkflowEngine
    MCHost          Redeploy, Startup, HttpApi, EventStream, ChannelDelivery; what must end
    MCAnswers       TraceExport, SseFraming, GatewayStream, ModelStream, AgentLoop,
                    ContextDigest, ModelCompactor, RunTrace and SpanExport, Evaluation
    MCTools         SandboxProcess, McpProvider, ToolSearch, ToolIndex, DockerSandbox
    MCStores        SqliteRunStore, PgRunStore, ArtifactStore

Operators whose comment says *Mutant* are plausible bugs of the operator after them, kept to test the
properties: with it in the place of the original a property fails.

### Instances side by side

`MCEngines`, `MCWorkflows`, `MCHost`, `MCAnswers`, `MCTools` and `MCStores` hold several instances, some of the same
module with different constants. The variable `part` says which instance a behaviour belongs to and
never changes, so the behaviours of the instances are disjoint and a run checks each of them exactly as
if it were alone; `Parts` in a configuration selects them. They share the variables `x1`, `x2`, ..., onto which each
INSTANCE maps its own; a variable an instance does not need keeps the value `"rest"`. A property of a run is the conjunction
of properties of the instances, each guarded by its `part`. The module
whose theorems a run's properties have is extended instead (`MCEngines` extends RuntimeProcess, `MCWorkflows` WorkflowEngine, `MCHost` Redeploy, `MCTools`
SandboxProcess, `MCStores` SqliteRunStore, `MCAnswers` TraceExport), so that the property TLC checks is the very definition the
theorem is about. The components do not
call each other there: where two of them meet, the module of the one has what the other may do (the
store's answers in the engines, the server's in McpProvider, the run's events in EventStream).

### RunStore, DurableRuns

`RunStore` is the contract of `DurableRunStore` as `InMemoryRunStore` implements it: one operator for
what each call tests (`CreateAllowed`, `CommitAllowed`, `AcquireAllowed`, ...) and one for what it writes. A
commit is a record with the fields of `ExecutionCommit`; an optional field is a set with at most
one element. A session's history is the set of runs it accounts for (verbatim or in a
summary), a checkpoint a position, events their sequence numbers, time a counter.

`DurableRuns` has the attempts that work on runs, from any number of processes. Each start, resume,
recovery or out-of-band cancellation draws a fresh owner id (`runtimeOwner:randomUUID`), so an element of
`Owners` *is* one attempt, and `exec[o]` what it holds in memory: run id, session snapshot, revision, event
sequence, lease token, a renewal under way.

| action | code |
|---|---|
| `PrepareNewSession`, `PrepareKnownSession`, `Create` | `prepareExecutionBody` around its two awaits |
| `Locate`, `ReadCheckpoint`, `ReadSession`, `Acquire`, `ReadEvents`, `TakeOver` | `resumeAgentBody`, in the order of its reads and commits |
| `LocateToCancel`, `TakeOverToCancel` | `cancelStoredAgent`, and the rejection of an approval |
| `EmitEvent`, `SaveProgress`, `CompactInRun`, `Pause`, `Complete`, `Abandon` | the commits of `executeAgent` |
| `IssueRenewal`, `ApplyRenewal`, `LoseLease`, `Release` | `startLease`, `releaseExecution` |
| `ReadForCompaction`, `SaveCompaction`, `Purge` | `compactSession`, `purgeRuns` |
| `Crash`, `Tick` | a killed process, the clock |

Every commit may be accepted, accepted with the answer lost, refused, or throw. After an exception the run
goes on with its old revision, as the code does. An attempt has one flow of control here; a second caller
that works on the same `ExecutionState` is the subject of RuntimeProcess, where some of these properties fail (section 5).

### ToolCalls

One batch of tool calls and the workers that execute it one after the other: `ReadRecord` to
`StartAttempt` follow one iteration of the loop in `executeAgent`, `Invoke` is the effect, and
`Approve`, `Retry`, `SupplyOutput` are the resolutions of `resumeAgentBody`. The lease is reduced to
`holder`, the worker whose commits the store accepts; `behind` says that a commit was applied without an
answer, so that the worker's revision is old. `begun`, `approved`, `licences` and `retried` are history
variables the code does not have. Which human, which credential and how long a
back-off takes are not told apart; each of these is a failure (`EndRun`) or nothing.

### RuntimeProcess

One process. An element of `Executions` is one `ExecutionState`; its fields are shared by the *driver*, who
advances the generator, and the *canceller* (`cancelRun`, `shutdown`), who acts only when nobody advances
it. A stretch of code without an await is one action. `phase = "yielded"` is a consumer holding a
stream between two events, which exists only with `Streaming`. `LateSnapshot` says that the store copies the
run object some time after it was called, as PostgreSQL's does (`postgres/postgres-run-store.ts:305`).

| action | code |
|---|---|
| `AdmitStart`, `Authorize`, `ReserveSession`, `Create` | `admitStart`, `prepareExecution` |
| `AdmitResume`, `ReadRun`, `CheckSession`, `AcquireLease`, `Resumed` | `resumeAgent` |
| `Advance`, `Abandon`, `Released` | `streamAgent` |
| `SendCommit`, `Execute`, `Accepted`, `Rejected`, `Fail` | `commit` and the `try`/`catch` of `executeAgent` |
| `CancelRun`, `CancellationAnswered`, `CancellationReleased` | `cancelRun`, `cancelExecution` |
| `BeginShutdown`, `GraceExpires`, `GoOnCancelling`, `CleanupExpires` | `shutdown` |
| `ExpireLease`, `ChangeElsewhere` | the store's clock and other processes, seen from here |

Tenant limits are folded into `maxActiveRuns`; a process without `admission` is one whose limit is never
reached; sessions are known ones; a run is cancelled by one canceller at a time, which is what
`cancelExecution`'s test of the status gives; workflows are left out.

### WorkflowEngine, StepLedger, TeamBudget

`WorkflowEngine` has one coordinator run, the attempts that work on it and its child runs. A
program is a sequence of items: an agent step, several in parallel, a wait. Each attempt replays it from its
start against the records of the checkpoint (`CreateChild`, `AwaitQueue`, the commit queue), pauses with
its children, is resolved (`resumeWorkflowBody`), recovers, compensates (`NextUndone`) or cancels (`CancelAll`); a store
call may throw and a process may die between any two commits. A revision is abstracted to whether
the attempt's is the stored one. It is checked to implement `StepLedger`: a step completes at most once and after
the steps before it, is undone at most once, and a workflow succeeds only with all its steps.

`TeamBudget` is the accounting of `team.ts` and `workflow-budget.ts`: which delegations may begin, with what
is left of the shared budget, and what is counted again after a crash. One limit, `maxSteps`, stands for the four
that are shared.

### SqliteRunStore, PgRunStore, ArtifactStore

`SqliteRunStore`: every call is one `BEGIN IMMEDIATE` transaction without an await, so one step. `PgRunStore`: a call
is a transaction of statements at READ COMMITTED with row locks, waits, deadlocks that the server breaks, and
lost connections; its writes appear at the commit. It is checked to implement SqliteRunStore where nobody purges.
An `INSERT ... ON CONFLICT DO NOTHING` does not wait for a row that is merely
locked; a purge locks runs before the session and the other calls the session before the runs, so a purge and a
commit can wait for each other, and one of them is aborted by the server: `NoDeadlock` is about calls that do not purge.

`ArtifactStore` has the byte store (files, objects, memory) with its sidecar, the catalog, and the events of the run;
every call of either store may fail, a worker may crash between two, and with `LostAnswers` a catalog may have
applied what it reports as failed. Bytes are their presence, expiry is a clock.

### HttpApi, EventStream, ChannelDelivery

`HttpApi`: a request is authorized against the host's map of owners (`src/examples/nest-api`), looks the run up
and performs its operation, with an await between any two; the host may crash and keeps the owners it has on disk. A cancellation, by a DELETE or for a start
whose owner could not be recorded, is cut where the code is: the registry, the store, the lease, the commit of what was read before it. Between
these the run may pause, end, be taken up by another process and be left by it; store calls that fail within a cancellation are left out.
`EventStream`: `observeEvents` with its pages, cursor, polling and the limit of connections, the host's copying loop and a client
that reconnects with `Last-Event-ID`. `ChannelDelivery`: `handleChannelInput` and `deliverChannelRun` with
repeated, late and lost deliveries. Assumed there: a question is answered only by someone it was shown to, and
the adapter's transport drops a `deliveryId` it has seen (external).

### Composition, Startup, Redeploy

`Composition` gives, as folds over the declared definitions, the registries and the first reason for which
`createComposition` refuses a configuration; a definition carries the names of its ill-shaped fields in `flaws`. `Startup`
runs it loop by loop and compares it with what should be accepted. `Redeploy` replaces the host under a run: a hash is
the record of what is hashed, `Resume` compares it and `Begin` compares it once more. Request options other than the
model are left out; `TakeDown` is a crash, or a shutdown of a host that does not hold the run; a team run as a workflow
drops `maxToolResultBytes`, as the code does. Outside the hash, in the code too: what a gateway does behind its
name, the body of a workflow function, the schemas a remote connection declares.

### AgentLoop, ContextDigest, ModelCompactor

`AgentLoop` is what a run shows its model: the loop of `executeAgent`, `compactContext`, the tools it finds, and
what the two gateways demand of a conversation. Runs of one session follow each other; a message
is one token and has the runs it speaks of, its calls and the call it answers. `ContextDigest` is the
arithmetic of the budget and the digest, in characters and hundredths. `ModelCompactor` splits, summarizes and joins a
transcript whose letters are facts, with a model that may answer longer than it was asked.

### ModelStream, GatewayStream, SseFraming

`ModelStream` is `readModelStream`: the race between the gateway's next item and the flush of the buffered
characters. `GatewayStream` puts a message of text and calls together from fragments, for DeepSeek and OpenAI,
with limits, errors and early ends. The two differ in one thing the properties see: with an output schema, OpenAI's gateway
requires the text to be JSON also beside tool calls, DeepSeek's does not. `SseFraming` has the three readers of
server-sent events over a wire cut into chunks anywhere.

### RunTrace, SpanExport, TraceExport

`RunTrace` writes the events of a run, with its checkpoints, pauses and crashes at any point, and builds the spans from them
(`observability.ts`). A crash after a model's answer and before the next checkpoint repeats the step with the checkpoint's usage: every beginning has its
own span all the same, and what the spans used lies between what the run says it used and what its models did.
`SpanExport` is the walk of the OpenTelemetry exporter over these spans. `TraceExport` is the queue:
slots, waiting runs, drops, timers and flushes.

### McpProvider, ToolSearch, ToolIndex

`McpProvider`: calls that share a discovery and an identity, rounds of input, tasks that are polled until they settle, expire or
are aborted, and the subscription. The server answers as it likes; requests may be lost and their effect kept, the host may be unable to answer a
request for input and the adapter to read a status. A handler of the host's is assumed to return. `ToolSearch`: ranking by words, fusion with a list by meaning, reranking,
loading, the version of the model's tool list, and crashes that go back to the last checkpoint. `ToolIndex`: builds that share an embedding cache.

### DockerSandbox, SandboxProcess

`DockerSandbox` cuts a call at its awaits: every docker command is a process the call waits for. When its timer or the caller ends it,
its request has been carried out or is dropped by then, and the `docker kill` that is sent without waiting lands at any later time. That holds of
the inspections too, after which the container may be found ready with the kill on its way; and `Remove`, `docker rm -f`, may fail, which nobody reads. The
properties except the containers these two concern (`Unanswered`), and no others.
`SandboxProcess` is one process with its timer, the caller's signal, SIGTERM and SIGKILL, and the cut of its output.

### Evaluation

`runEvaluation`, `parseEvalReport` and `compareEvaluationReports`: cases whose runs complete, fail, pause or break off,
scorers that throw, and reports compared one after the other.

## 3. Runs

Deadlock is not checked, because every instance stops at its bounds or when its runs have ended. Each run takes from seconds to
three minutes with two workers.

| run | instances | shows |
|---|---|---|
| `DurableRuns` | 3 attempts, lease of 1 tick, 2 positions, 2 events to go on after; 1 run with the clock to 3, or 2 runs of 1 session with the clock to 2 that are begun, taken over and ended | takeovers, renewals and expiry: fencing, one believer, final ends, increasing events; stale starts, compaction, purges: exclusive reservation, complete history; implements SessionReservation |
| `ToolCalls` | 2 calls, one gated without a key, one policed with a key and 2 attempts, 3 workers, 3 disruptions | approvals, records, decisions |
| `Engines` | a process that runs one at a time: 2 executions, 1 throwing call, late copies, 2 runs of one session in the background or 1 run streamed; teams of 2 with all combinations of 3 limits | admission, registries, status, events and history; budgets |
| `Workflows` | 2 attempts at a fork (step, timer, pair in parallel, compensated; 1 crash, lost lease or store failure), a chain with pauses (1 crash and 1 store failure), a pair whose children pause and expire (1 crash) | work once, in order and recorded, compensation, cancellation; implements StepLedger |
| `Host` | 20 hosts that differ in one thing, configurations with one flaw, 2 requests of 2 actors on 2 runs that move twice, 1 client with 2 drops, 1 message with 3 deliveries | definitions kept, references, ownership, gapless streams, channels |
| `Progress` | smaller instances of the same and of the engines, tools and sandboxes, with fairness | everything that must end does |
| `Answers` | wires of 5 pieces, messages of 2 texts and 2 calls, 5 characters, 2 runs of 4 steps, prompts of 3 old messages, 8 events, 4 traces, chains of 3 reports | nothing lost or made up between the wire and the reports |
| `Tools` | 2 remote calls, 3 tools, 2 builds, 2 sandbox calls of a run with 1 death and 2 unanswered commands of docker, a call of a run beside one without, 1 command | terms of remote calls, search, containers, processes |
| `Stores` | 3 runs in SQLite, 3 connections and 4 calls in PostgreSQL (5 with a purge), 2 workers and 2 artifacts | atomicity, fencing, no deadlock, nothing stranded |
| `ToolCallsUnkeyedRetry` (violation) | non-keyed tool with `maxAttempts` 2, 1 disruption | `UnkeyedToolsAskFirst` fails |
| `RuntimeCancelledStream` (violation) | a held stream, no failure | `CancelledRunsStayOutOfHistory` fails |
| `WorkflowLostHandlers` (violation) | a pair with a handler, a timer, a step that fails; no crash, no failure of the store | `FailureIsCompensated` fails |

**Why the bounds are enough.** The races are between an attempt and the one that takes its run over, plus one that
cancels or renews meanwhile: three attempts on one run have all of them, and a clock of three ticks allows two
expiries. Two runs suffice for the exclusion within one session, since a violation has two. `MaxPosition` and
`MaxEvents` of 2 leave one step after the first commit. The constraint `Small` of MCDurableRuns keeps two runs to what an exclusion or a
history can depend on: each attempt writes its beginning, saves at most once and ends. In ToolCalls three
disruptions allow a lost answer, a crash and a lost lease in one history, with a third worker that takes over from the second while the first still
has its effect in hand. In RuntimeProcess a second execution is a takeover or a competing
start; `MaxRevision` of 2 lets another process change a run once after it was created, or the run progress once. A workflow of two steps has a step before and one after a crash, and a pair in parallel the two orders of
completion; a second child of a step is created when the record of the first was lost, and a third would be no different. Three connections are two that race and one that holds what both need. A stream of five pieces has a frame, its end and a cut in each place.
Two calls and two texts are enough for fragments to interleave; three reports are the shortest chain. Four traces fill two slots, the queue and one more.
A run behind a request moves twice: once away from the process that began it and once to another.
Queues, caches and limits have one or two places, so that they are full in most states. Symmetry is used for
interchangeable attempts, workers, connections and runs, and only in runs without liveness.

**Fairness** (run `Progress`; `AllFairSpec` in MCHost joins the fairness of the components, which most modules state as `FairSpec`).
*Tool calls*: a worker goes on, a lease nobody renews runs out, and the deployment recovers orphans and resolves pauses, as the package README
asks of it ("deployments need an external orphan detector"). Cancelling is never assumed.
*Shutdown*: store calls settle (promises resolve) and the timers fire; a consumer is not assumed to advance its stream. `shutdown` awaits each
cancellation without a deadline, so with a store call that hangs it hangs.
*Workflow leases*: attempts go on and the store's clock advances.
*Streams*: the run ends, clients read and reconnect, the host's loop goes on; drops are finitely many.
*Remote calls*: a discovery is answered or fails (its request has a deadline), a caller's turn goes on, and a deadline that is looked at again and again
is once found passed (strong fairness, since polling turns it off in between); the server owes nothing.
*Containers*: docker commands answer or time out, removals end. *Commands*: timers fire, a process that got SIGKILL exits; the command itself owes nothing.
Liveness is stated as `[]<>~Waiting`: no behaviour waits for ever from some point on.

**Mutants.** Each property of a passing run has one in `PROJECT.json`, which TLC finds violated; the other operators marked *Mutant*
break the component properties that the run's property consists of.

**The violations.**

1. *A non-keyed tool is repeated* (`internal/agent-engine.ts:1402`). A record `failed` with attempts left is not an uncertain one, so a recovery starts
   the next attempt, while the execution that saw the failure would not have.
2. *A cancelled run completes* (`internal/agent-engine.ts:953`). Between the answer to the cancellation's commit, which advances the revision of the
   shared run object, and the release of the lease, the consumer's `next()` may reach the completion commit. As a consequence
   `TerminalIsFinal` and `EventsTellTheStatus` of RuntimeProcess hold for background runs and not for streams
   that are held (`StoreTellsOneStory` says so, and is proved); the theorem about `TerminalIsFinal` is about attempts with one flow of control.
3. *Compensation handlers are lost* (`internal/workflow-engine.ts:849`). Handlers live in one attempt and the replay registers them again, as it passes the
   steps. But a parallel step that is completed returns its record without calling its tasks, so the handlers of the agent steps inside are not registered.
   If the workflow waited or crashed after such a step and a later one fails, `runCompensations` throws at the first of them ("has no compensation handler",
   552) and undoes nothing before it either. In the passing run the parallel step is the last item, where this cannot happen, and the theorem
   `FailedWorkflowsAreUndone` has it as a hypothesis, `HandlersOutlive`: this run shows that it is necessary.

## 4. Proofs

Eight modules hold theorems, about arbitrary constants: any number of runs, sessions, attempts, workers and executions, any bounds. What is assumed of
the constants is named in the module that declares them (`ConstantsAssumption` of DurableRuns and of WorkflowEngine, `ToolAssumption`, `RuntimeAssumption`, `SqliteAssumption`,
`RedeployAssumption`, `ProcessAssumption`, `TraceAssumption`): bounds are naturals, the lease term is positive, the absent values are not elements, the calls
of a batch are distinct, and the executions of one process are finitely many, since it counts them. Every other hypothesis stands in the theorem.

A proof has the same shape everywhere: the property alone is not inductive, so it is made a conjunct of an invariant (defined in the component's module,
where TLC checked it on the run's instance first); one lemma per action, or per group of actions of the same form, shows that it is kept; the action properties
and the refinement follow from it step by step.

### DurableRuns: `DurableRunsProofs`

* `RunsAreTyped`: `Spec => []TypeOK`. `TypeOK` alone is not inductive: a commit of an attempt without a run would write outside the table. `WellFormed`
  adds that an attempt in a phase that uses a run or a session has one (`Engaged`) and that a stored run has a session and a positive revision
  (`StoredRunsAreWhole`). Commits are treated once, for any commit record.
* `SessionsAreExclusive`: `Spec => []OneActiveRunPerSession`. Creation tests the reservation, and every other step must not make a settled run active
  again. That needs `ReservationInv`: an attempt whose view has the stored revision sees the stored status and session (`ViewsAreAccurate`), so that
  an accepted commit, which tests the revision, comes from an active run; and a run that is being created is used by nobody else (`CreatedOnce`).
* `TerminalRunsAreFinal`: `Spec => TerminalIsFinal`, from the same invariant: an accepted commit starts from an active run, so only a purge changes a terminal one.
* `HistoryIsComplete`: `Spec => []HistoryIsTheCompletedRuns`. A completion, a creation and a compaction write back a session they read earlier. `HistoryInv`
  adds that a snapshot with the stored revision is the stored session and every other one is behind it (`SnapshotsAreAccurate`), so that the accepted one loses
  nothing; that an id of a session which was never stored is known to the start that drew it only (`NewSessionsAreUnshared`, `SessionsAreWhole`), without which
  two starts could both create it; and that a run in a history is not about to be created (`HistoriesAreSettled`). A session
  that is purged is not created again, since ids are drawn once, so the snapshots a purge leaves behind are never accepted.
* `RunsReserveSessions`: `Spec => ReservesSessions`, the refinement of SessionReservation. Under `Standing`, a creation is `Reserve`, an accepted completion `Complete`,
  an accepted failure or cancellation `Abandon`, a purge `Forget`; every other step stutters. The guards of the abstract actions (the
  session is free, the run is active) come from `HistoryInv`.
* `RunsHaveOneBeliever`: `Spec => []OneBelieverPerRun`. `BeliefInv` says that whoever believes in its lease holds it in the store, with an expiry at least
  as late (`BeliefsAreRight`), and that a lease which was granted and not yet used is still as it was granted or was taken over (`GrantsAreKept`): a renewal
  is issued by an owner only, so none can arrive between the grant and its use.
* `TakeoversReplaceWhatTheyRead`: `Spec => TakeoversAreNotOvertaken`, from `BeliefInv`: a commit needs the lease, and the lease is the taker's from its acquisition on.
* `ActiveRunsHaveCheckpoints`: `Spec => []CheckpointIffActive`. `CheckpointInv` adds to it that an attempt which resumes holds a position other than 0, since it is
  what its first commit writes back.
* `EventNumbersIncrease`: `Spec => []EventsIncrease`. `EventsInv` adds that an attempt which writes at the stored revision numbers on from the last stored event; a commit
  that was applied leaves every other view behind, so nobody else can write the same number.

### ToolCalls: `ToolCallsProofs`

One invariant, `ToolInv`, for any batch and any number of workers, of which all but one may be left behind by a takeover with a call in hand.
The worker whose commits are accepted has decided on the record the store has (`HolderIsCurrent`); whoever is past the gate of a call
has its approval, and so has every record (`WorkersAreSound`, `RecordsAreApproved`); attempts are counted (`FailuresAreCounted`).

* `EffectsWaitForApproval`: `Spec => []NoEffectBeforeApproval`. The approval a worker used may be older than its lease, and the record it left lets its successor
  pass the gate without one: this is why the invariant carries the approval of every record and of every worker past the gate, the ones left behind included.
* `EffectsAreRecorded`: `Spec => []EffectsAreOnRecord`. A commit may be applied without its answer, or throw: the worker ends, and the record stays.
* `EffectsBeginOnce`: `Spec => []OneBeginningPerDecision`, if every tool without an idempotency key has one attempt, which is the default. Without
  that hypothesis it is false: the run `ToolCallsUnkeyedRetry` shows how. `EffectsAreLicensed` counts the workers that are about to begin the effect, and one more
  while the record still lets somebody start: each needs a licence, given by the first record or by a human's retry.

### RuntimeProcess: `RuntimeProcessProofs`

`RuntimeInv` joins the form of the states (`FormInv`: `pendingStarts` is the number of starts and resumptions on their way, what is registered has started), what an
execution knows of its run (`StoreInv`: no revision the store has not reached, a run that is being created is nobody else's), and three parts that hold under
conditions a step can end but never restore.

* `RuntimeIsTyped`: `Spec => []TypeOK`.
* `WorkStaysAdmittedAndFindable`: `Spec => []WorkIsAdmittedAndFindable`. Admission holds for every process: a registration either replaces a pending start or
  overwrites an older one of the same run. That whoever advances a run is registered holds for a process with `MaxActiveRuns = 1` that runs in the background, until a
  shutdown runs out of its grace, and under no weaker condition (section 5 has the two behaviours that refute it otherwise). `RegistryInv` says when: who is
  about to register finds its session free of other runs (`IsReserved`), because with one place nobody else can pass the check in between.
* `StoriesAgree`: `Spec => []StoreTellsOneStory`. `HistoryInv`: who knows the last revision of a run in the history ended that run itself, so that a
  cancellation, which writes at the revision it knows, cannot follow a completion. `BackgroundInv`: nobody cancels an execution that its driver still advances, so that a commit says what the execution
  is. A held stream breaks exactly this, and the run `RuntimeCancelledStream` shows it.

### WorkflowEngine: `WorkflowEngineProofs`

For every program in which a step stands once, any number of attempts (as many of them at a time as there are owners), any bounds on children, crashes and failures of
the store.

`EngineInv` (`WorkflowsAreSound`) describes how far an attempt and the store may differ, since nothing tells an attempt that it was replaced until its next commit.

* *The store* (`StoreIsSound`, `ChildrenAreSound`): items are recorded in order, each after the completion of the one before; a record names a child that was
  created for that step; only a child that the store has on record completes. A child whose record was lost in a crash is outside, and is never resumed.
* *What an attempt knows* (`KnowsTheStore`): every record it has in memory the store has too, with the same child, unless one of its own commits was thrown away. Only
  then does it have more, and it cannot write again (`poisoned`: the commit queue is rejected for good, line 1209).
* *The current attempt* (`IsInStep`): at the stored revision the two are equal. An accepted commit tests the revision, so that from this conjunct follows that
  it adds one step to what the store has, which is what the ledger asks.
* *Its replay* (`ReplayIsSound`, `TaskIsSound`): what stands before its item is done, each task of the item is where its record says.

From it follow, step by step through `StoreMoves` (an accepted commit begins, completes or undoes steps of the record, or ends the workflow):

* `WorkflowsKeepTheLedger`: `Spec => KeepsTheLedger`, the refinement of StepLedger.
* `WorkflowWorkIsDoneOnce`: `Spec => []WorkIsDoneOnce`. `CompletedWorkflowsAreWhole`, `WorkflowResultsStay`, `EndedWorkflowsStay`: a completed workflow has
  all its results, from children that completed; no commit takes a result back; an end is final. `WorkflowTypes`: `Spec => []TypeOK`.

`StopInv` says how attempts stop. It is separate, because its parts hold under conditions on the program and on what children may do.

* `FailedWorkflowsAreUndone`: `Undoable => (Spec => []FailureIsCompensated)`. The failure is the last of a chain of steps (an error, the wait for the commit queue, one handler
  and one commit for each step, the commit of the end), through which `UndoesAll` carries that nothing is pending which has no handler, down to the point where nothing is
  pending at all. It rests on `ReplayRegisters`: the replay has a handler for whatever it has passed, and a
  step that was not passed has nothing recorded after it. `Undoable` excludes the two things that break it: handlers that the replay misses (the violation
  `WorkflowLostHandlers`) and a resumed child past its deadline, which ends the workflow without compensation (section 5, line 1647).
* `ReplaysBringHandlersBack`: the same of whoever compensates, `HandlersAreBack`, which is part of `PausedWorkIsOfOnePiece` in the run.
* `CancelledWorkflowsStopTheirChildren`: `Unpaused => (Spec => []CancellationReachesRecordedChildren)`. An attempt that cancels has ended every child it has on record, what it has
  on record is what the store has, and a child that ended is not started again. `Unpaused` excludes the rejection of one of two paused children, which ends the workflow beside the other
  (section 5, line 1686).

### Stores, hosts, processes, traces

* `SqliteOneActiveRun`, `SqliteRunsHaveSessions` (in `SqliteRunStore` itself): the same exclusion for the store alone, whatever its callers do, with the rows that a run needs.
* `RunsExecuteAsTheyBegan` (`RedeployProofs`): `Spec => []ExecutesAsItBegan`. The invariant says that the host that executes holds the definition whose hash the checkpoint has, and the
  lemmas that equal hashes are equal definitions but for what the hash leaves out (`ErasedHash`).
* `ProcessesAreTerminatedOnce`, `NothingIsLeftArmed`, `TheCauseIsTold` (`ProcessProofs`): one invariant for a sandboxed process: which signals were sent, in which order and by which
  timer, and that a call whose answer was given has no timer.
* `EveryFailureIsToldOnce` (`TraceExport`): `Spec => []FailuresAreToldOnce`. Failures are told, kept by name or counted, and flushes that overlap take each of them once.

### Only model-checked

* Liveness (`RunsEnd`, `EveryoneHearsTheEnd`, `NobodyHoldsOnForEver`, `CallsReturn`): fairness and ENABLED are out of the prover's reach.
* `Composition`, `Evaluation`, `ContextDigest`, `RunTrace`, `ToolSearch`, `GatewayStream` compute with folds and sequences over data, about which induction would
  be needed: what they compute is checked over the inputs of their runs.
* `CompensationReversesTheRecord` and the rest of `PausedWorkIsOfOnePiece`, which is about workflows whose children pause and expire: the parts of it that the theorems
  of WorkflowEngineProofs state hold for these instances too, as far as their hypotheses do.
* The refinement of SqliteRunStore by PgRunStore, and the properties of TeamBudget, PgRunStore, ArtifactStore, HttpApi, EventStream, ChannelDelivery,
  McpProvider and DockerSandbox: nothing there is out of reach, the proofs are not written (section 7).

## 5. Disagreements met while modelling

Besides the three violations of section 3, the modules state these properties, which a document, a comment or a test claims and the code does not keep. Each is defined
in the module, with a comment, and TLC refutes it with the instance given; they are not among the runs.

| where | property | instance | what the code does |
|---|---|---|---|
| `internal/agent-engine.ts:1409` | ToolCalls `ApprovalsAreHeeded` (FairSpec) | `Policed = {b}`, `Keyed = {b}`, two attempts for b, no disruption | The approval is consumed before the attempts loop; for a second attempt the policies are asked again and the run pauses again, for ever (README.md:666 of the package: "Continue an approval"). |
| `internal/runtime.ts:153` | RuntimeProcess `ShutdownDrains` | 2 executions, 2 runs, no failure | `isIdle` does not see a start that waits for the store, which is at work after a shutdown that did not time out (fevex.ts:66). |
| `internal/run-core.ts:484` | RuntimeProcess `SettledRunsFreeTheirSession` | the same, 1 failing store call | `cancelExecution` releases the registries only after its own commit was accepted. |
| `internal/run-core.ts:381` | RuntimeProcess `WorkersAreFindable` | 3 executions, `MaxActiveRuns = 2`, background | `releaseExecution` and the registration overwrite and delete by run id: a resumption that registers late, after its lease ran out, is replaced by or removes the one that took over, and a create that fails frees the session of a registered resumption (`internal/agent-engine.ts:311`). `cancelRun` then finds nobody ("Cancels a running or paused run", README). |
| `internal/runtime.ts:166` | RuntimeProcess `WorkersAreFindable` | 3 executions, `MaxActiveRuns = 1`, background | A shutdown past its grace goes on with the runs it noted; one whose lease was lost meanwhile is over, and cancelling it removes the registration of the execution that resumed the same run. |
| `internal/workflow-engine.ts:1686` | WorkflowEngine `CancellationReachesRecordedChildren` | a pair of paused children | A rejection of one of two paused children cancels the workflow and leaves the other waiting. |
| `internal/workflow-engine.ts:702` | WorkflowEngine `CancellationReachesChildren` | a chain, 1 crash | A child is created before the record that names it: a crash in between leaves a child no cancellation finds. |
| `internal/workflow-engine.ts:1209` | WorkflowEngine `StoppedAttemptsFreeTheRun` | a chain, 1 failing store call | A rejected commit is thrown again by `await state.commitQueue` in the catch, before compensation and release. |
| `internal/workflow-engine.ts:1661` | WorkflowEngine `PausedRunsCanBeResumed` | a chain, outcomes failed and paused | A resumed child that fails makes `resumeAgent` throw; the error is thrown on and only the lease is released. The workflow stays paused on a failed child, and every later resolution is refused as not resumable. |
| `internal/workflow-engine.ts:1560` | WorkflowEngine `PausedRunsCanBeResumed` | a chain, outcomes completed and paused | The parent's lease is not renewed while a resumed child runs; when it runs out the resumption is lost and the child is over. |
| `internal/workflow-engine.ts:1647` | WorkflowEngine `FailureIsCompensated` | a chain with handlers, outcomes completed, paused, expired | A resumed child that times out fails the workflow without compensation. |
| `internal/workflow-engine.ts:544` | WorkflowEngine `CompensationReversesCompletion` | parallel steps with handlers, `StepLimit = 2` | Steps are undone in the reverse order of their records, which for parallel steps is not that of completion (README.md:182). |
| `internal/workflow-engine.ts:653` | WorkflowEngine `BudgetIsKept` | a pair, `StepLimit = 1`, 1 crash | The budget is asserted after the commit of a completion; a recovery takes the record and does not assert. |
| `internal/workflow-engine.ts:1212` | WorkflowEngine `SuccessIsNotUndone` | a chain with handlers, 1 crash, 1 failing call | A crash after a compensation and before the failure: the recovery may complete a workflow that was undone. |
| `http/transport.ts:86` | HttpApi `FailedStartIsCancelled` | 2 runs, 2 requests, `MaxMoves = 2` | The answer of `cancelRun` is ignored: a run that paused and was taken up again before the cancellation got its lease, or paused over the signal to stop, goes on after the 500 (`http/protocol.ts:112`, "the handler cancels the new run and returns 500"). |
| `http/transport.ts:329` | HttpApi `DeleteCancels` | 2 runs, 2 requests, `MaxMoves = 2` | A DELETE compares statuses before and after; a resumption elsewhere in between reads as success. So does a pause over the signal to stop. |
| `mcp/index.ts:391` | McpProvider `AbortedTasksAreCancelled` | 1 call, aborts | An abort during `tasks/get` throws outside the try that cancels the task. |
| `mcp/index.ts:362` | McpProvider `RefusedTasksAreCancelled` | as in `MCTools` | A request for input the host cannot answer, or a status the adapter does not know (372), throws past `cancelTask`: the task is left as it is (packages/mcp/README.md:82, "cancels best-effort"). |
| `mcp/index.ts:503` | McpProvider `ClosedMeansSilent` | 1 call, aborts | A discovery that outlives `close()` opens the subscription. |
| `internal/agent-engine.ts:811` | AgentLoop `ContinuationFits` | stateful gateway with a context budget | Compaction removes tool turns that the provider state still names, and the gateway throws. |
| `internal/agent-engine.ts:829` | AgentLoop `FailedRunsLeaveNoTrace` | budget of 9 messages, 2 runs | The summary of a run that may still fail is stored in the session. |
| `internal/agent-engine.ts:831` | AgentLoop `SessionIsRemembered` | budget, and the host compacts too | A summary the host stored is counted as covered but not summarised. |
| `artifacts/cataloged-artifact-store.ts:53` | ArtifactStore `CorruptMeansIndexed` | 2 workers, no faults | The row is read before the bytes; a delete in between is reported as corruption. |
| `sqlite/sqlite-artifact-catalog.ts:82` | ArtifactStore `ListedIsReadable` | `Offsets = {0, 1}`, clock to 2 | Expiries are compared as texts with a UTC text. |
| `artifacts/cataloged-artifact-store.ts:43` | ArtifactStore `IndexedIsWhole` | objects, postgres, `LostAnswers` | A save whose answer is lost leaves a row that points at deleted bytes. |
| `internal/agent-engine.ts:1547` | ArtifactStore `PutsAreAnnounced` | 2 workers, files, sqlite | Two puts of one tool commit with one revision; the second is refused and ends the run. |
| `postgres/postgres-run-store.ts:96` | PgRunStore `NoLostUpdate` | 2 connections, one purges | Revisions of a purged session start again, so a stale snapshot may fit. |
| `postgres/postgres-run-store.ts:170` | PgRunStore `NoSessionLeftBehind` | 2 runs, 2 purges | Neither of two purges sees the other's deletion, and the session stays. |
| `postgres/postgres-run-store.ts:404` | PgRunStore `OneActiveRun` | 3 connections, one purges, 5 calls | A purge between the INSERT and the SELECT of `#lockSession` leaves nothing locked: two creations both succeed. |
| `internal/trace-export.ts:14` | TraceExport `CallsAreBounded` | 4 runs, 1 slot | An exporter that hangs holds a trace after its timer has freed the slot. |
| `internal/observability.ts:100` | RunTrace `UsageAddsUp` | as in `MCAnswers` | A step that a crash made the run repeat is told twice, the second time from the checkpoint's usage; the differences are cut at 0 and add up to more than the run says. |
| `internal/observability.ts:352` | RunTrace `ToolsLieUnderTheirCall` | as in `MCAnswers` | The parent is the latest model span of the step: a tool of the engine's own that a crash cut off is closed under the call that repeated the step (packages/fevex/README.md:801, "nested under the model call that requested them"). |
| `sandbox-docker/docker-sandbox.ts:204` | DockerSandbox `NamesAreFree` | `SlowStart` | A start that timed out leaves its name in use. |
| `sandbox-docker/docker-sandbox.ts:258` | DockerSandbox `OneContainerPerRun` | `CallsOverlap` | Two overlapping calls each start a container. |
| `sandbox-docker/docker-sandbox.ts:387` | DockerSandbox `NothingIsLeft` | `CleanupOverlaps` | A call that is starting makes its container after the cleanup. |
| `sandbox-docker/docker-sandbox.ts:234` | DockerSandbox `ReadyContainersStay` | `MaxFailures = 1` | An inspection that its timer ends sends a `docker kill`; the next one may find the container ready, which the kill then ends under a command. |
| `sandbox-docker/docker-sandbox.ts:304` | DockerSandbox `ContainersAreRemoved` | `MaxFailures = 1` | The failure of `docker rm -f` is not read and its container forgotten (README.md:78 of the package, "Both remove containers and workspaces"). |
| `sandbox/local-sandbox.ts:138` | SandboxProcess `LimitsHold` (FairSpec) | `Docker = FALSE`, `HoldsPipe` | `close` waits for whoever holds the output, beyond the limit. |
| `internal/agent-internal-tools.ts:175` | ToolSearch `RerankingKeepsAll` | as in `MCTools` | A reranker that leaves candidates out removes them. |
| `runtime/compaction.ts:284` | ContextDigest `FittingPromptsAreSent` | as in `MCAnswers` | A digest may be longer than what it replaces, so that a prompt that fitted is refused. |
| `evals/evaluation.ts:399` | Evaluation `ScoresAreKept` | verdicts with and without a score, chains of 3 | A report without a score lets a lower one pass after it. |
| `internal/configuration.ts:870` | Startup `AgentSchemasAreChecked` | as in `MCHost` | The check of an agent's input schema stands in the loop over the tools. |
| `internal/agent-engine.ts:507` | Redeploy `RefusalsLeaveTheRun` | two hosts, with and without a default context budget | A resumption that should be refused is committed and fails the run. |
| `internal/agent-engine.ts:504` | Redeploy `RunsKeepTheirModel` | an agent with its own gateway | A recovery passes the name "default" on as the model asked for. |
| `internal/workflow-engine.ts:1338` | Redeploy `WorkflowsStayWorkflows` | a team of a workflow's name, schemas and limits | The hash of a workflow does not tell it from a team. |

In the passing runs these properties are left out, or their instances exclude the cause (no purge beside `OneActiveRun`, no host compaction beside
`SessionIsRemembered`, no overlap in the containers of `Tools`), so that the runs still show that nothing else breaks them.

## 6. Not modelled

* The JSON schema profile (`tools/json-schema-profile.ts`), header and field validation, request bodies of the gateways, content of messages,
  redaction, costs and annotations of traces: sequential conversions that keep no state.
* The low-level `saveRun` and `appendEvent`, reads and cursors of the SQL stores, schema migrations, SQLITE_BUSY after the busy timeout.
* The non-durable fallback of the engines (a `RunStore` without leases), the cap on events, credentials.
* Memory and context providers: callbacks of the host. That memory is written before the completion commit, which may be refused
  (`internal/agent-engine.ts:953`), and that a rejected start deletes the `activeSessions` entry of a resumption (`internal/agent-engine.ts:311`; the
  store still refuses a second run) are hazards without a property.
* The digest's heading counts lines where it speaks of messages (`runtime/compaction.ts:294`), and a baseline cost of zero never rises
  (`evals/evaluation.ts:428`): nothing documents what these numbers should be.
* The OpenAPI adapter (`packages/openapi`): one request per tool call, built from the document and the input; it keeps no state between calls.
* Web site, examples other than the nest-api host, browser tools, scripts: no state of the runtime is kept there.

## 7. Plan

1. Proofs: the budget of TeamBudget (`BudgetIsKept` where no recovery intervenes), `ClosedMeansSilent`'s opposite part of McpProvider, the refinement
   of SqliteRunStore by PgRunStore; for each, its MC module extends it instead of instantiating it.
2. Connection tools in `internal/configuration.ts` (178-356): the timeout of a remote call against its late answer.
3. Workflows inside RuntimeProcess: their registries, and children that are cancelled by a shutdown.
4. The schema profile as recursive functions against a reference definition.
