# A verification project for agent-dag-workflow

TLA+ models of the durable workflow core of this repository, checked with TLC
and, where a result should hold for every workflow and any number of executors,
proved with TLAPS. Paths are relative to the repository; `engine.ts` is
`src/core/engine.ts`.

## 1. Inventory

The system runs *workflows*: acyclic graphs of nodes, compiled once and executed
with a durable record of each run, so that another process can go on where one
has stopped.

| Component | State it keeps | Operations | What makes it correct |
|---|---|---|---|
| Compiler (`core/compiler.ts`, `schema.ts`) | none | compile, diagnostics, topological order, dominators, guaranteed nodes | accepted graphs are acyclic, connected, with one start; accepted bindings resolve on every path |
| Engine (`core/engine.ts`) | per execution: node and edge states, ready queue, attempts, sequence number, active promises, commit queue, abort controller | start, queue, invoke, resume, cancel; scheduling loop, commits, retries, pause, interruption | attempts are unique, justified and recorded; outcomes are final; every run comes to rest |
| Run store (`core/run-store.ts`, `storage/sqlite/run-store.ts`) | one record per run: checkpoint and events | createRun, commit (compare-and-set on the sequence number), load, readEvents | a commit is atomic and refused when the record has moved |
| Nodes (`core/nodes.ts`, `registry.ts`) | foreach frames, in the node's progress | execute | effects and retry contract; a foreach recovers each child |
| Scripts (`core/expression.ts`) | none | parse, evaluate, builtins | an expression means what its author sees |
| Runtime (`runtime/runtime.ts`) | idempotent launches, active handles | launch, resume, cancel, replay, subworkflow gateway | one run per idempotency key; a cancel wins or reports the outcome; a recorded replay repeats its run |
| Live events (`runtime/live.ts`) | bounded buffers per subscriber | publish, subscribe, close | order of progress kept, only the oldest lost |
| Run queue and worker (`triggers/core/coordinator.ts`, `storage/sqlite/run-coordinator.ts`) | queue rows, leases | enqueue, claim, heartbeat, release, runOnce | no running run is forgotten |
| Ingress (`triggers/core/ingress.ts`) | received, rejected and launched events | accept, launch, recoverPending | one run per event, none lost |
| Delivery (`triggers/core/delivery.ts`) | delivery records with attempts | deliver, retryAttention | every call recorded before it is made; a promised payload is never replaced |
| Catalog (`catalog/`) | drafts with revisions, published revisions | create, update, publish, search | no update lost; what is published can be executed for ever |
| Bindings (`triggers/core/bindings.ts`) | revisions of bindings | publish, read | a binding's target and mapping hold |
| Access layer (`access/`) | none | authorises and forwards each operation, normalises errors | the caller's run only; errors keep their meaning |
| Command line (`adapters/cli/`) | none across commands | one command per process | what is asked is what the line says; the exit code hides no failure |
| DSH adapter (`adapters/dsh/`) | sessions' handles | start, resume, reject, recovery of running runs | recovery and live sessions do not disturb each other |
| Canvas (`canvas/`) | the studio's document, its label, a recovery snapshot, a trace | edit, rename, save, publish, validate, load, new, starter, reload, close and open, trace | labels tell the truth; what a reload restores is what was shown |
| Artifacts (`journal/`, `storage/sqlite/artifact-store.ts`) | captured inputs and outputs by digest | put, read, verify | a replay is refused when an artifact it needs is gone or damaged |
| MCP gateway, trigger sources, schemas, database migrations | none worth modelling | formats, parsing, I/O | - |

How they interact: a trigger source hands an envelope to the ingress, which
launches through the runtime; the runtime builds an execution plan from the
catalog, creates an engine, and either runs it or creates the record and puts the
run in the queue; a worker claims it and resumes it; the engine executes nodes, which
call Host gateways and, for `workflow.call` and `core.foreach`, the engine again
for child runs; every step is committed to the run store; the worker delivers
the result. Authors and operators come in through the access layer, from the command
line, the DSH adapter, the MCP gateway or the canvas.

Where it is hard. Everything in one process is cooperative JavaScript, so the
interleavings are those of awaits: the scheduling loop awaits commits, promises
of nodes, captures; each node's promise awaits commits and Host code; commits are
serialised by a promise chain (`commitTail`) and snapshot the *whole* shared
state when their turn comes. The core has no lease, so any number of executors, in
any processes, may work on one run, and processes crash between any two steps.
Host code may ignore aborts and answer late. Two authors, two deliverers, two
recoveries each read, wait and write. The studio goes on editing beside its own
requests. PROJECT.json lists the hazards with the line where each bites, and the
properties that watch it.

## 2. Modules

| Module | Models |
|---|---|
| `WorkflowGraph` | the compiled graph as constants (with what compilation guarantees, `IsWorkflowGraph`, as `GraphAssumption`) and edge settlement as a declarative definition |
| `EdgeSettlement` | the same settlement as the code's recursion, with the stack of its pending calls, run over all orders of completions |
| `DagEngine` | executors, the run store's record, Host code, aborts, crashes |
| `DurableRun` | the abstract specification of a run's record |
| `RunStore`, `RunQueue`, `TriggerIngress`, `Delivery` | the background side, a module per component: the record of a run for those who do not look into it, the queue and its leases, the ingress, the outbox |
| `Hosting` | these four composed with workers, the console of an operator and a cancellation, in processes that crash |
| `Compiler` | the set of diagnostic codes of a template, as a function |
| `Admission` | a template that compiled, executed along every path |
| `Catalog`, `Bindings` | authors, readers and binders over drafts, published revisions and bindings |
| `NestedRuns` | the tree of runs that calls and loops start, under crashes, interruptions, lost leases and recoveries |
| `Lifecycle` | `Admission`, `Catalog`, `Bindings` and `NestedRuns` composed: what is published is bound and executed |
| `Scripts` | tokenizer, parser and evaluator of script expressions (TLC only) |
| `Studio` | the canvas's document and its requests |
| `Observation` | traces read by pages, and live streams |
| `Replay` | a run, its captured artifacts, and its replays under other deployments |
| `Commands` | one command of the command line |
| `MCEdgeSettlement`, `MCDiamond`, `MCBranch`, `MCFan`, `MCHosting`, `MCLifecycle`, `MCReplay`, `MCCommands`, `MCParts` | instances for TLC; `MCParts` puts the parts that share no state side by side |
| `DagEngineProofs` | type correctness of `DagEngine`; its attempts are unique and recorded |
| `DagEngineNodes` | what a checkpoint says of each node: ready queue, attempts, pauses, activations; final outcomes, and the refinement of `DurableRun` by `DagEngine` |
| `HostingProofs` | types, delivery, cancellation and the refinement of `DurableRun` by every record of `Hosting`; no running run is forgotten |
| `LifecycleProofs` | what is published and what is bound, proved of `Lifecycle` |
| `AdmissionProofs` | the compiler's analyses against every execution of a template that compiled, proved of `Lifecycle` |
| `NestedProofs` | the tree of runs, and the types of the whole composition, proved of `Lifecycle` (it extends `AdmissionProofs`, which extends `LifecycleProofs`) |
| `PartsProofs` | parts that `MCParts` checks: the document of the studio, its label and its snapshot, proved of `Studio`; traces and streams, proved of `Observation`; the recursion of edge settlement, proved of `EdgeSettlement`; the command line, proved of `Commands` |
| `ReplayProofs` | a recorded replay is the run it replays, proved of `Replay` |

### 2.1 The engine


| Model | Code |
|---|---|
| `db` | the store's record (its checkpoint; the sequence number grows by one per commit, in the code by the number of events) |
| `mem[x]` | `RuntimeState` of one `#execute` call (engine.ts:66) |
| `pc[x]` | the await main is at: `boot` (initial commit, 546), `loop` (561), `launch` (583), `race` (627), `capture` (666-677), `advance` (649, 700), `settle` (736), `finish` (the commit of 720, 762, 776, 812 or, in `resume` and `cancel`, 308, 317, 389), `done` |
| `why[x]` | which finish function main is in |
| `task[x][n]` | the promise in `active`: `request` (979), `exec` (981-1002), `failing`/`pausing` (1033), or settled |
| `fifo[x]`, `sent[x]` | `commitTail`, and the checkpoint of the commit whose turn it is (879), taken when its turn comes |
| `abort[x]` | the abort controller and the reason it was aborted for (449-458, 480-490, 548-558, 570, 654, 682, 792) |
| `late[x]` | attempts that have timed out and still run in the Host |
| `hosted`, `doubled`, `allowed`, `used` | history for the properties, and the bounds |

| Actions | Code |
|---|---|
| `Recover`, `Resume`, `Cancel` | `resume` (264-355) for a recovery and for an operator, `cancel` without a live executor (357-394), each with `#startOwnedRun` (429-493) |
| `LaunchBatch`, `ExceedNodeRuns`, `AwaitNodes`, `StopAborted`, `EndOfRun` | the top and the end of the scheduling loop (561-585, 626, 703-731) |
| `TakeLost`, `TakePause`, `TakeAborted`, `TakeRetry`, `TakeFailure`, `TakeInterrupted`, `TakeSuccess` | what main does with the promise that wins the race (627-665) |
| `CaptureReturns`, `CaptureThrows` | after the capture gateway: `settleOutgoingEdges` and the completion commit, or the failure (666-700) |
| `Settle` | `settleActive` with `finishFailure`, `finishCancellation`, `finishPause` (736-814) |
| `StartBatch`, `MainCommitted`, `RequestCommitted`, `FailureCommitted`, `ReportCommitted` | what continues when a commit has been accepted (546, 582-624, 979-1002, 1030-1040, 596-618) |
| `CommitConflicts`, `StoreFails`, `DropReport` | what continues when it has not |
| `HostReturns`, `HostThrows`, `HostTimesOut`, `ChildPaused`, `Report` | what Host code does in `#executeNode` (979-1048) and through `checkpointProgress` (596) |
| `AbortRun`, `Crash` | abort of the controller (446-491); the death of the process |

One action is what the code does between two awaits. `Store` is the
compare-and-set of the store; `StoreFails` a write that fails without an effect;
`CommitConflicts` one that is refused. After a failed commit main is `done`
(`WorkflowCommitFailure`, 722) but promises it leaves behind go on: the model
keeps them, until the executor slot is reused. The turn that follows an answer is
taken in the same action, because the next link of the promise chain runs
before the continuation that the answer wakes in main.

Abstractions. A commit's events are not modelled, only the checkpoint that is
atomic with them; outputs exist exactly for succeeded nodes; progress values are
not kept (a report is a commit that changes nothing but the sequence number). The
ready queue is a set, because `sortReady` keeps it in topological order (`Rank`)
and "the first k" (`First`) is what the loop takes. Creating a record (`#startNew`,
`queue`) is the initial state with sequence number 0, from which the first
`Recover` starts, with the same effect as `start`. A report whose turn comes after
an abort is dropped by an action of its own (`DropReport`): its rejection takes promise
ticks before the next turn, in which main may run.
A size that is exceeded fails a node, which `MayFail` covers; nested invocation is in
`NestedRuns`, a replay's recorded outputs in `Replay`.

`DurableRun` is the abstract specification of a run's record: one of absent, running and
paused, then one outcome for good; attempts grow by at most one per commit, and not
while the run is paused. `DagEngine` implements it (`RecordIsDurable`, with
`status <- db.status`, `attempts <- db.attempts`), and so does the record that the
ingress, the workers and the console of `Hosting` share (`RecordsAreDurable`).

### 2.2 The background side: Hosting

| Model | Code |
|---|---|
| `record[r]`, `seen[r]` | the status in the store, and who holds its current sequence number: loading puts an actor in, a commit of another takes it out, so that `Commit` succeeds exactly for holders (RunStore) |
| `queue` | the rows of the queue in order, each with its holder and whether `lease_expires_at` is ahead (RunQueue) |
| `ingress`, `inbox`, `calls[c]` | the ingress records, those `recoverPending` goes through in its order, and the await each call of `ingest` or `recoverPending` is at (TriggerIngress) |
| `outbox`, `sending[d]` | the delivery records with their attempts, and the await each deliverer is at (Delivery); `posts` is what the gateway has seen |
| `exec[x]`, `cancel` | a worker or the console in `runOnce` or `resume`, and `runtime.cancel` of the operator (Hosting) |

| Actions | Code |
|---|---|
| `Ingest`, `RecoverPending`, `Bind`, `Refuse`, `Authorize`, `LoadExisting`, `CreateOrJoin`, `AcceptRun`, `EnqueueRun`, `MarkLaunched`, `MarkRejected`, `LaunchFails` | ingress.ts with the launch it asks the runtime for, an action per await; calls of one process that launch the same event are joined |
| `Claim`, `Release`, `Expire`, `ClaimRun`, `ResumeRun`, `ReleaseRun`, `CheckRun`, `RequeueRun`, `LeaseLost`, `ResumeFails` | run-coordinator.ts and `runOnce` with its `finally` |
| `Boot`, `Progress`, `Finish`, `FinishCancelled`, `FinishInterrupted`, `CommitPause`, `LoseCommit`, `Reconcile` | what the engine does to the record meanwhile, its nodes left out |
| `GetRecord`, `SavePending`, `CallGateway`, `SaveAnswer` | delivery.ts: the compare-and-set before and after each call; a gateway may deliver and fail |
| `CancelRun`, `CancelLoads`, `CancelCommits`, `ResumePaused`, `Retry`, `StopExecutor` | the operator and the Host |
| `Crash`, `HeartbeatLate`, `DeadLeaseRunsOut`, `Outage`, `Arrival` | a process dies with all its calls; a lease runs out under a live or a dead worker; a store fails under a launch; an event arrives (again) |

A deployment (`MCDeployments`) is a cast of actors with a bound on arrivals and shocks;
the ten of them replace the product of all actors. Events may be poisoned (their launch
always throws) or unmappable.

### 2.3 From template to runs: Lifecycle

| Model | Code |
|---|---|
| `Diagnostics(t)` | `compileWorkflow`: the codes about limits, nodes, edges, roles, the graph, bindings and outputs, with the early returns between the groups |
| `given`, `verdict`, `nodes`, `edges` | a template under study and an execution of it, node after node, each selecting ports the definition allows |
| `drafts`, `published`, `authors`, `readers` | the catalog repository, what an author has read, and where its publish or its search is |
| `bindings`, `binders` | the binding repository and the publish of a binding |
| `record`, `main`, `attempts`, `frames` | the durable state of each run of a tree: status, its one main node, its attempts, its foreach frames; a run is named by the path of items from the root |
| `exec[s][r]` | the execution of run `r` in session `s`, with the reason it was aborted for, and for a foreach its `hands`: where each item is |

| Actions | Code |
|---|---|
| `Refuse`, `Accept`, `ExecuteSome` | compile; the engine settling one node |
| `CreateDraft`, `ReadDraft`, `UpdateDraft`, `BeginPublish`, `ReadLatest`, `Validate`, `PublishDraft` | catalog.ts, an action per call of the repository |
| `BeginSearch`, `ReadPage` | search by pages with a cursor |
| `OfferBinding`, `ReadTarget`, `PublishBinding` | bindings.ts |
| `Load`, `Create`, `CommitPause`, `Boot`, `Launch`, `CallHost`, `Reply`, `Settle`, `Fail`, `Yield`, `FinishCancelled`, `Complete`, `LoseCommit` | invoke or resume of one run, its main node, its outcome |
| `Take`, `Mark`, `Gather`, `Close`, `Converge`, `Abort` | the foreach loop, `#createEngine`'s gateway for children, and a parent that aborts what it started |
| `StartRoot`, `ResumeRoot`, `RecoverChild`, `LeaseExpires`, `Interrupted`, `Crashed`, `HostFails`, `Cancelled`, `Decide`, `Reject` | workers, recoverPersistedWorkflowRuns, operators and faults |

### 2.4 Parts of their own

| Module | State | Actions |
|---|---|---|
| `Scripts` | the tree under study, its text, what the parser makes of it, its value | `ExecuteScript`, `StopScript` (budget or abort) |
| `Studio` | `template`, `draft`, `documentState`, `recovery`, `busy` of studio.tsx; `due`: the 250 ms timer is armed (171-177); `pending`: each request with what its click captured; `kept`: the host's drafts; `slipped`, `astray`: history, for what the properties except | `Edit`, `Rename`, `Save`, `Publish`, `Validate`, `LoadDraft`, `SyncCatalog`, `StartNew`, `UseStarter`, `WriteRecovery`, `Restore` (a studio mounted after a reload, or opened again: controller.ts and overlay.tsx mount one per opening), `OpenAt`, `Answer` (the stages of a request on the host and back), `AnswerElsewhere` (to a studio closed before), `AgentPuts` |
| `Observation` | `journal`; `shown` and `asked`: a trace and its requests; `queue`: live subscriptions | `CommitEvents` (a batch of which any subset is the progress that `#projectLive` publishes, runtime.ts:500; none of another process), `Refresh`, `LoadMore`, `ReadCheckpoint`, `ReadPage`, `ShowTrace`, `Subscribe`, `TakeNext`, `AbortStream`, `CloseStreams` |
| `Replay` | `past`: the run and its replay; `artifacts`; `deployment`: definitions, capture policy and limits; `hostCalls` and `told` for the properties | `LaunchRun`, `StartNode`, `ComputeNode`, `CallExternal`, `ExternalAnswers`, `ExternalFails`, `RestoreNode`, `FinishRun`, `ReplayLive`, `ReplayRecorded`, `Inspect`, `LoseArtifact`, `Redeploy` |
| `Commands` | `line`, `stage`, `opened`, `request`, `printed`, `exit`; `followed` and `seen` (with the size of the last page) for `trace --follow` | `ValidateLine`, `ResolveOptions`, `LoadHost`, `OpenApplication`, `ExecuteCommand`, `AccessAnswers`, `AccessThrows`, `PollRun`, `PrintEvents`, `RunGoesOn`, `InterruptCommand`, `CloseApplication` |

Abstractions. A script's strings are sequences of atoms and its numbers integers; `/`, `%`
and the builtins that only reword a text are left out. A studio's template is an
identifier and a content that is valid or not; its run inputs are left out, an effect is cleaned up together with
the change it depends on, the browser takes every snapshot, and one page at a time writes a session's snapshot. The requests of a studio that was
closed are not followed: what they may store an agent may store, and an answer to one may clear the snapshot at any time. An event is its sequence number. In `Replay` runs execute node
after node and are redeployed only in between; of sizes only short and long are told
apart. In `Commands` a word is a string of which only option names, flags and a few
values matter (`Dashed` stands for all words that begin with two dashes), a file is one that can be read or not, and what the access layer answers
is any status or any error it can throw.

## 3. Runs

`tlc -config X.cfg M`; sizes are those of the complete state graphs.

| Run | Module | What it shows | States |
|---|---|---|---|
| `engine_recovery` | MCDiamond | two executors, a crash, a resume with operator decisions, a pausing child, failures and retries; the record implements `DurableRun` | 654 630 |
| `engine_faults` | MCDiamond | a crash, a failed write, timeouts, progress reports | 567 915 |
| `engine_branch` | MCBranch | a condition, a human wait, aborts of each kind, the node-run budget, throwing captures; liveness | 42 004 |
| `hosting` | MCHosting | ingress, queue, workers, delivery, operator, in two processes that crash; refinement and liveness | 180 863 |
| `lifecycle` | MCLifecycle | templates compiled, published, searched, bound and executed as trees of runs; liveness | 164 598 |
| `parts` | MCParts | edge settlement, scripts, the studio beside an agent, observation, replay, the command line | 1 784 613 |
| `cancel_queue`, `late_report`, `split_completion`, `failed_completes` | MCDiamond, MCFan | disagreements of the engine with its documentation (section 6) | violated |
| `early_delivery`, `nested_cancel` | MCHosting, MCLifecycle | disagreements of the worker and of nested runs | violated |

Bounds of the engine runs. `Executors` is two: the record and one competitor exhibit
every conflict the compare-and-set can resolve, a third could only repeat it. The
graphs have four or five nodes: a fork, a join, a branch, a retry-never and a safe
external node. `MaxResumes`, `MaxCrashes`, `MaxAborts`, `MaxReports` and `MaxFaults`
say how often the environment acts and are one where a run is about it; one crash with
two executors already gives a zombie, a recovery and a competitor. Reports are two in
`engine_faults`, so that one is still queued when the executor is aborted.
`MaxNodeRuns` is 4 in `engine_branch`, so that a retry exceeds it. Nothing else is
bounded: attempts and sequence numbers are finite because the above are.

Bounds of `hosting`. Two runs, two workers, three concurrent calls of the ingress, two
deliverers per process, two processes. A deployment switches on the actors it needs and
says how many arrivals and shocks (crash, late heartbeat, failing store) there are, so that
the ten of them add up where a product would multiply: two deliverers of two payloads
around a crash, a poisoned event before a healthy one, a queue row lost by a crash, a
cancel against a pause, and so on. `MaxAttempts` is 2, the fewest that tell a retry from a
first attempt and from an exhausted one.

Bounds of `lifecycle`. Templates: every choice of more than three out of eight candidate
edges among four nodes, with a condition, a call and two ends, so that every diagnostic of
the graph and of bindings occurs and so do templates without any. Three revisions are
enough for an author to be overtaken twice; `PageSize` 1 makes each search a matter of
several pages. Ten deployments: six of authors, readers and binders, four of executing
trees, with nesting of calls and loops, two sessions, one or two shocks and one decision. `Runs` has
a path for every run of the trees that these start; `StartRoot` takes a plan only if that
is so (`HasRoom`), which bounds the model and not the code.

Bounds of `parts`. Its six parts share no state; one is chosen in the initial state, so
states add up. The studio has two identifiers, so that a draft can be opened, renamed to the other or replaced (the
identifiers are symmetric: `Renamings`); a blank content, which does not compile, and one with nodes, which does and is
the starter's; two stored revisions, so that one who saved is overtaken by the agent; and two requests at once.
`MaxNesting` is 3 (64 in the code), with expressions that exceed it.
`PageLimit`, `MaxBuffered` and `MaxSeq` let a request overtake
another, a page be full, a buffer overflow. `MaxPast` is a run and one replay of it. Command
lines are all lines of up to three words of a vocabulary, and whole lines of interest.

Fairness. In the engine (`engine_branch`): the event loop
eventually runs what is runnable (`Main`, `Commits`); Host code answers, throws or
times out (`Host`; the code guarantees the end of an *aborted* call by itself,
`awaitExecutionOrAbort`, and has `policy.timeoutMs` for others); a run that has no
executor is eventually recovered by its owner (`Recover`: a restarted process or
a worker). In `hosting`: calls, workers, deliverers and the console of live processes
take their steps, leases of the dead run out, a retrier and the Host that calls
`recoverPending` keep at it (`docs/security.md:30` makes that the Host's duty). In
`lifecycle`: each session's steps, and a worker that resumes the root
(`ResumeRoot`). All of it is weak fairness of single actions or of one actor's
actions. Nothing is assumed of aborts, crashes, reports, faults, arrivals or operators.

Deadlock is not checked: runs at rest, rejected templates, finished commands and reached bounds are ends of
behaviours.

## 4. Properties

Each has a mutant of the model, a plausible bug in the code, that violates it: the
operators called "a wrong version", named in PROJECT.json.

The engine:

- `NoAttemptRunsTwice`: the Host is called at most once for each attempt number of
  a node, whatever executors compete. `EffectsAreRecorded`: an attempt that called
  the Host is never forgotten by the record. `AttemptsJustified`: attempts beyond
  the policy are those an operator, a recovery or a pause put back, and a
  retry-never node only an operator. The three together are the promise of
  `docs/core-hardening.md` sections 3 and 6.
- `TerminalStatusFinal`: an outcome, once durable, stays, also under zombies.
  `RecordIsDurable` says more, as a refinement of `DurableRun`.
- `ReadyQueueExact`: a recoverable record queues exactly its ready nodes.
- `PausedNeedsDecision`: a paused run names a decision and nobody works on it.
- `ActivationJustified`: what ran was reached by a taken edge of a succeeded node,
  with all other edges decided.
- `RecursionMeetsDefinition`: settlement as the code recurses reaches, in every order of
  completions, what `WorkflowGraph` defines.
- `RunComesToRest`: completed, failed, cancelled, or paused for an operator, under fairness. It speaks
  of the run: nodes that `maxNodeRuns` cut off in the middle of a batch (engine.ts:569) stay `running` in
  the record of a run that has failed, and no property judges them.

The background side (`hosting`):

- `CallsAreRecorded`, `DeliveredWasAnswered`, `PromiseKept`: no call of the gateway without
  a record of it, no record of a delivery that was not acknowledged, and a payload that has
  been promised is not replaced by another.
- `NoRunForgotten`: what is launched is durable, and a running run has a queue row, an
  actor or a pending ingress record that leads to it. The exceptions written in it
  (`orphaned`) are runs whose worker dies between releasing and requeueing, and runs an
  operator takes up without a queue.
- `CancelTellsTruth`: the outcome a cancellation reports is the durable one, whoever else
  was committing; after three conflicts it reports none.
- `RecordsAreDurable`: every record implements `DurableRun`.
- `EventsAreLaunched`, `RunsComeToRest`: under fairness an event that arrived is launched or
  rejected, save those that a poisoned record blocks; and runs come to rest.

From template to runs (`lifecycle`):

- `SourcesResolve`: in no execution of a template that compiled does a binding read the
  output of a node that did not run. `EveryPathEnds`: every execution reaches an end that may
  be its outcome. These two meet the analyses of the compiler (dominators, guaranteed nodes)
  with executions of the same graph.
- `NoUpdateLost`: a draft's revision moves from what its author has read, even when an
  update and a publish race. `ClosuresHold`: a published revision calls published
  revisions only, without cycles, within its ceilings; `DepthsAgree`: their nesting is what
  execution will enforce. `AnswersHold`, `SearchIsComplete`: what a publish answered is stored,
  and a search by pages returns what was there all along.
- `BindingsResolve`: a binding's target is published and its mapping fits it.
- `ParentsTellTruth`: what a parent records of a child, the child's record says.
  `ChildIsTraced`: no child runs that its parent has no trace of. `ItemsRunOnce`: Host code
  that must not be retried is called once per item, and once more for each decision of an
  operator, whoever crashes, resumes and recovers.
- `TreeComesToRest`: under fairness the root of a tree of runs comes to rest, whatever becomes of
  the runs below it.

The canvas (`parts`):

- `CleanMeansStored`: what the studio shows under a label without "unsaved" is the stored revision it is
  based on, apart from edits made while a publication was under way (`slipped`).
- `RecoveryIsCurrent`: once the timer has run, a reload restores just what is shown, edits and the draft they
  are based on; when nothing is unsaved it restores nothing, so that nothing saved, loaded over or
  replaced comes back. Within the 250 ms the snapshot may be an older one, of the document discarded for
  the starter for instance, and a reload then restores that. Two exceptions are written in it: `slipped`, and
  `astray`, a snapshot that was cleared by an answer to a studio closed since, or passed over for a target.

The other parts (`parts`):

- `PrintedIsParsed`: a tree that is printed and parsed again is the same tree, for every
  study that has no string the parser may take for an operator or a bracket (`Misread`, section 6).
  `BuiltinsKeepPromises`: what `docs`
  and tests promise of `sort`, `sortBy`, `unique`, `joinBy` and `has`, stated without their algorithms.
- `ViewsFollowJournal`: a trace shows a prefix of the journal without gaps or repeats; a
  subscription gets the progress that this process committed, in order, and loses only the oldest of what
  it buffers. Nothing tells it of a loss (live.ts:57).
- `RecordedReplayIsFaithful`: a recorded replay that completes has called no Host code and
  selected and returned what the original did, or differs because of a changed policy or a
  port that was not recorded (both written in it).
- `CommandsAreTakenAtTheirWord`: a command asks the access layer for what its line says, never
  for something else; exit code 0 means that it was answered; `trace --follow` prints events
  in order, without gaps, and to the end of the run unless its last page was full (section 6).

## 5. Proofs

Each theorem holds for every value of the constants that satisfies the assumptions of
its model, so for any number of executors, sessions, workers, authors, runs, crashes and
faults:

- `GraphAssumption` (what a template that compiles has: finitely many nodes, edges between
  nodes, ranks that number the nodes and grow along edges, no edge into the start; the
  theorem `CompiledGraphs` proves it of the compiler's model) and
  `EngineAssumption` (types of the limits and policies; a `NeverRetry` node has one attempt,
  which the compiler demands), for `DagEngine`; the first also for `EdgeSettlement`;
- `ActorsAssumption` (actors of different kinds are different, and belong to processes) and
  `BoundsAssumption` (types of the bounds, and of the deployments), for `Hosting`;
- `CatalogAssumption` and `BindingsAssumption` (a template has an identifier of the catalog, a
  binding one of the bindings; identifiers are numbered in the order in which a search lists them; a page
  holds at least one entry, which the schema of a search demands; types of the bounds, of which the one on revisions is at least 1), `RunsAssumption` (runs are named by paths from
  the root; sessions are among the actors of the run store), `DeploymentsAssumption`, `TemplatesAssumption` (a template lists its nodes, and their
  identifiers are compared as numbers) and `RegistryAssumption` (a built-in node has one port or
  requires an edge on each, as every definition in nodes.ts does), for `Lifecycle`;
- `StudioAssumption` (there are documents; the blank template and the starter are among the contents; the bound is a number) for `Studio`, and `WatchAssumption` (a stream buffers at
  least one event, as the constructor demands at live.ts:7, and the page limit is a number) for `Observation`;
- `PlansAssumption` (the order of a plan lists each node once, edges lead on in it, and every node but the first
  is entered: what compilation leaves) and `LimitsAssumption` (limits are numbers), for `Replay`;
- `CommandsAssumption` (a line is a command and its words; the bound is a number), for `Commands`.

TLC evaluates them on the instances of section 3, in the runs.

| Theorem | Module | States of the specification |
|---|---|---|
| `TypeCorrect` | DagEngineProofs | `TypeOK` |
| `CallsCorrect` | DagEngineProofs | `CallInv`, inductive |
| `UniqueAttempts`, `RecordedEffects` | DagEngineProofs | `NoAttemptRunsTwice`, `EffectsAreRecorded` |
| `NodesCorrect` | DagEngineNodes | `NodeInv`, inductive |
| `QueueIsExact`, `AttemptsAreJustified`, `PausesWait`, `ActivationsAreJustified` | DagEngineNodes | `ReadyQueueExact`, `AttemptsJustified`, `PausedNeedsDecision`, `ActivationJustified` |
| `RecordCorrect` | DagEngineNodes | `RecordInv`, inductive |
| `OutcomesFinal`, `RecordRefines` | DagEngineNodes | `TerminalStatusFinal`, `RecordIsDurable` (the refinement of `DurableRun`) |
| `HostingCorrect` | HostingProofs | `HostInv`, inductive |
| `HostingTypes` | HostingProofs | `TypeOK` |
| `CallsRecorded`, `DeliveriesWereAnswered`, `PromisesKept` | HostingProofs | `CallsAreRecorded`, `DeliveredWasAnswered`, `PromiseKept` |
| `CancellationsTellTruth`, `HostedRecordsRefine` | HostingProofs | `CancelTellsTruth`, `RecordsAreDurable` (the refinement of `DurableRun`, for every run) |
| `RunsAreHeld`, `NothingIsForgotten` | HostingProofs | `HeldInv`, inductive; `NoRunForgotten` |
| `CatalogCorrect` | LifecycleProofs | `CatalogInv`, inductive |
| `AnswersAreTrue`, `UpdatesAreKept` | LifecycleProofs | `AnswersHold`, `NoUpdateLost` |
| `PublishedForEver`, `CallsAreAllowed` | LifecycleProofs | `ClosuresHold`, `DepthsAgree` |
| `BindingsCorrect`, `BindingsAreServed` | LifecycleProofs | `BindingInv`, inductive; `BindingsResolve` |
| `SearchesCorrect`, `SearchesAreComplete` | LifecycleProofs | `SearchInv`, inductive; `SearchIsComplete` |
| `RevisionsAreNumbered` | LifecycleProofs | `NumbersInv`, inductive |
| `ExecutionCorrect` | AdmissionProofs | `ExecutionInv`, inductive |
| `BindingsHaveSources`, `PathsEnd` | AdmissionProofs | `SourcesResolve`, `EveryPathEnds` |
| `CompiledGraphs` | AdmissionProofs | `verdict = "accepted" => G!IsWorkflowGraph` |
| `NestedCorrect` | NestedProofs | `NestedInv`, inductive |
| `ParentsTellTheTruth`, `ChildrenAreTraced`, `HostRunsOncePerItem` | NestedProofs | `ParentsTellTruth`, `ChildIsTraced`, `ItemsRunOnce` |
| `AnswersAreAwaited` | NestedProofs | `WaitInv`, inductive |
| `LifecycleTyped` | NestedProofs | `TypeOK` |
| `StudioCorrect` | PartsProofs | `StudioInv`, inductive |
| `LabelsAreTrue`, `RecoveriesAreCurrent` | PartsProofs | `CleanMeansStored`, `RecoveryIsCurrent` |
| `WatchCorrect` | PartsProofs | `WatchInv`, inductive |
| `ViewsFollow` | PartsProofs | `ViewsFollowJournal` |
| `SettlementsEnd`, `RecursionIsDefinition` | PartsProofs | `SettlementInv`, inductive; `RecursionMeetsDefinition` |
| `CommandsCorrect`, `CommandsAreObeyed` | PartsProofs | `CommandInv`, inductive; `CommandsAreTakenAtTheirWord` |
| `RunsAndReplays` | ReplayProofs | `ReplayInv`, inductive |
| `ReplaysAreFaithful` | ReplayProofs | `RecordedReplayIsFaithful` |

The inductive invariants were checked with TLC as invariants of the run of their model
before they were proved (by a module that EXTENDS the MC module and the proofs), as far as TLC
can enumerate them: `CatalogInv` says that some set of depths and limits exists, among all
numbers, and was checked without that part. The
arguments follow the code's own reasons, which are few: a compare-and-set, a value read
before an await that nobody can have changed if the write is accepted, and traces that
are written before what they are traces of.

### 5.1 The engine

`TypeCorrect` is inductive by itself: one lemma per kind of state change, then one
per group of actions.

`NoAttemptRunsTwice` and `EffectsAreRecorded` are not. That an attempt is new
when the Host is called depends on why the executor may believe so: the record it
extends has not moved since it loaded it, and in its own memory the attempt was counted
for this launch. `CallInv` says this in four parts, for each executor `x`.

- `QueueOK(x)`: each queued commit belongs to somebody who waits for it (main at an
  await of its own commit, or the promise of one node), and only progress reports can
  be queued twice. Without it two `capability.requested` commits of one node could
  each call the Host.
- `SchedulingOK(x)`: while main schedules, active nodes are busy and queued nodes are
  ready. Without it a node could be launched while its promise is active.
- `Abreast(x)`: no executor is ahead of the record, and the checkpoint in flight has the
  sequence number of the executor's memory. Hence a commit that the store accepts moves
  the record by one and leaves every *other* executor behind, for good: the
  compare-and-set at work.
- `CallsOK(x)`: an executor that is not behind counts on from the record (its attempts
  and those in flight are at least the record's), what it is about to call is an attempt
  without a call, and the checkpoint in flight records that attempt. An executor that is
  behind may believe what it likes, since the store refuses its commits and it calls the
  Host only after a commit.

The proof classifies the steps of one executor: those that neither write, call nor count
(`CallKept`), launches (`CallsLaunched`), accepted commits (`Stored`, `CallsStored`) and the
entering or death of an executor (`CallsEntered`). `OthersUntouched` and `CallsOthers` deal
with everybody else.

`NodeInv` adds that every checkpoint is good (`CheckpointOK`): the record, what each
executor remembers and what it has in flight. A good checkpoint accounts for each node: a
ready node is in the queue and nothing else is, unless the run was cancelled (section 6,
1); attempts are within what the policy and the decisions so far allow (`allowed`, which
only grows); a node that was reached has all edges decided and a taken one from a node
that was done; a paused checkpoint names a node. Since checkpoints are only ever taken
from memory, what remains is one lemma per transition of the memory. Settlement needs
`WorkflowGraph`'s definition only, its recursion being the business of `EdgeSettlement`.

`RecordInv` relates main's place in the code to the record: main that has committed
an outcome has stopped, and while somebody who is not behind may still commit, the
record's status is running, or it is the outcome which that somebody holds as well
(`late` reports, section 6, 2, therefore keep it). From it come the final outcomes and,
step by step, the refinement of `DurableRun`.

### 5.2 The background side

`HostInv` rests on one observation: whoever holds a record's sequence number (`seen`)
knows its status, since only commits change it and a commit takes the number from
everybody else. For each await of a worker, the console, a launch or a cancellation it
says what status a holder stands on. Attempts of a delivery are numbered by the
compare-and-set on the delivery record: the deliverer at the gateway is the one whose
attempt is the last on record and pending, and no deliverer at that await shares it.

`HeldInv` says for each running run who will take care of it: its row is in the queue, or its
event is still `received`, or an actor is at an await after which it will be in the queue or
at rest, or it is `orphaned` in one of the ways the model names. The obligation is handed on within
one step each time, and a crash hands it to the queue or to the ingress record.

### 5.3 Catalog and bindings

`CatalogInv` says what an author holds at each await: the draft it has read, unless its
revision has moved. What publish has validated is `Checked`: the content compiles, can be
replayed, and is `Callable`, that is, some set of published revisions with depths and limits
is closed under calls and exceeds no limit; the traversal of publish yields it. Revisions are
never taken back, so that what is checked stays checked (`CheckedKept`), and the called ones
were published earlier (`Grounded`), so that no call leads back. `ClosuresHold` and `DepthsAgree`
follow by unfolding the functions the model's traversal is defined by. `BindingInv` uses the same
growth: bindings are only appended, and a mapping that was validated against a published target
stays valid.

A search is read page by page while others publish. `SearchInv` says of one under way that what it has found
ascends, and that up to its cursor nothing is missing that has matched all the time (`always`); that the page
which ends it leaves nothing out is a matter of the sorted sequence of all matches (`Ordered`, unfolded by `Iterates`), of which
a page is a stretch. A publication makes one identifier match otherwise than before
(`MatchingGrows`); it may come too late for a cursor, but then it has not matched all the time.

### 5.4 The tree of runs

`NestedInv` has three layers, for each run and each session's execution of it.

- `Recorded(r)`: what the durable record tells, whoever wrote it. A node that is done has
  its frames done; whatever child exists has a launched parent that traces it; the Host
  calls made, with those that are certain to follow, are at most the attempts (`Spent`).
- `Claims(r, e)`: what an execution relies on whatever others commit: its place in the
  tree, its trace in the parent, and the items it has in hand, whose children are durably
  completed. These stay true because nothing durable is taken back.
- `Knows(r, e)`: what it relies on only while it holds the sequence number: that the
  record is live, that what it launches is ready, that a call it is about to make is
  allowed. An execution that has lost the number may be wrong about these, and its commits
  are refused.

A step writes the record of at most one run and takes nothing durable back (`Writes`,
`Still`), so that a lemma per class of step suffices: what it does to its own execution and
record, and that everybody else's claims are kept.

That an execution which is over has a parent waiting for it (the last part of `TypeOK`) needs an invariant
of its own, `WaitInv`: an answer is awaited as long as the parent is at work with the item in hand. The steps of the child
keep it at once (`EndsHeard`, `ReplyHeard`), those of the parent need that a parent leaves its item only
with the answer (`GatherHeard`, `CloseHeard`) or for good. In the second case nobody is left to take the
answers below it: the parent's promise has settled, or its process is gone. The operator `Unheard`
says so, of a parent that aborts and of one that is started again; a child that is still in flight from an
earlier attempt gives way to the one the new attempt starts. Without `Unheard` at the start the
invariant held of every state TLC reached, and was not inductive.

`LifecycleTyped` collects the types from the invariants of all components, with `NumbersInv` for the numbers in the catalog:
a published revision names a revision its draft has had, because an author who publishes holds one
(`CatalogInv`).

### 5.5 The compiler's analyses

The engine resolves bindings by looking up outputs, and fails a run with
BINDING_SOURCE_UNAVAILABLE when one is missing. That it never does so for a template that
compiled is the claim of the compiler's data-flow analysis (compiler.ts:517-627): ancestors,
dominators and the nodes that the start is bound to reach.

The analyses are loops over the topological order, in the model recursive functions that write one
set at a time. `AncestorsUnfold`, `DominatorsUnfold` and `MustReachSolves` unfold them (`Iterates`
shows that a function computed from its predecessor exists), and since the order is sorted
(`OrderIsSorted`) and lists each node of an acyclic graph once (`OrderIsComplete`), each set is
written once, after those it is read from (`WrittenOnce`). So `AncestorsSolve` and
`DominatorsSolve` may say that the results solve the equations of data flow. What
a template without diagnostics has besides is collected from the codes (`NodesConnected`,
`StartOfTemplate`, `PortsOfTemplate`, `InputsOfTemplate`, `OutputsOfTemplate`).

`ExecutionInv` says of each node of an execution, whatever ports were selected: an edge of a node that was
not executed is undecided (`Untried`), an executed one has taken all edges of one of its ports
(`Chose`), a skipped one has only skipped edges around it (`Passed`), one that is ready
or executed has a taken edge and no undecided one (`Entitled`), and a pending one has an
undecided edge (`Waits`). Along the order (`Downstream`) the ancestors of a node that no longer waits are
settled, and the dominators of an active one active: a source that dominates is executed. Against
the order (`Upstream`), if a guaranteed node were skipped then so were every node that leads to it,
the start among them. `PathsEnd` uses the same directions: nothing waits at rest, and the last
executed built-in node, having a taken edge on every port it may leave by, is an end.

`CompiledGraphs` closes a gap between models: what `DagEngine` assumes of its graph
(`GraphAssumption`) is proved of whatever graph the compiler lets through, ranked by its order.

### 5.6 The canvas

The theorems are about `StudioSpec` and `WatchSpec`, two of the parts of `PartsSpec`.

A request of the studio carries what its click captured and overlaps with any other, with
edits, and with agents that create and update drafts. Its answer may be believed because drafts
only grow (`DraftsGrow`): a revision that was stored or read is held for ever (`Sure`), and so
is the revision an unedited document is based on (`Based`). A publication labels what it
finds when it ends; so `StudioInv` says of one whose draft is stored (`Late`) that an unsaved label beside it
can only come from an edit after its save was answered, which is the exception `slipped`.

The snapshot needs that the timer is armed only over an unsaved document (`Armed`): every answer and every new
document stops it with the change that makes the document clean, so that it cannot write what has just been
saved; and whatever changes an unsaved document starts it, so that a snapshot which is not current is about to
be written. What is left are the answers to closed studios, which clear the snapshot without changing the
document (`AnswersElsewhere`).

A trace is always a beginning of the journal (`Begins`): an answer replaces it by the beginning its
request set out with and a page that goes on from there (`Continues`), in whatever order answers
arrive. A stream's events
rise, and end what was published (`EndOf`); as long as no more was published than it may buffer, nothing was dropped
and what was taken and what waits make up all of it. Here the work is in the lemmas on
sequences: stretches of the journal join and are cut into stretches, and the ends of a
sequence are kept when its head is dropped or an event is pushed.

### 5.7 Replays

A replay is not told which branches its run took: it has the outputs of external nodes, computes the others
anew and takes its branches from these (the theorems are about `ReplaySpec`, the part of `PartsSpec` that runs and
replays). That they are the same branches needs what a *record* says about the run it is of. `RunOK`: edges follow
their source (`EdgesFollow`), nodes their incoming edges (`NodesFollow`), nodes execute in the order of the plan
(`Sequential`), and what a deterministic node left is what it computes from the outputs of the nodes before it
(`Computed`; later outputs do not matter, `SeesEverything`). Settling a node reconciles the nodes after it one by
one, in the model a recursive function; `Partly` says what holds after the first k of them, and `SettlingEnds` follows by
induction over k. Of a replay, `ReplayOK` says only that it agrees with its run on the outputs it has. `Tracks`
derives the branches: were some node or an edge out of it different, then so would be a first one in the
order, but that one saw the same outputs. Hence a node finds its inputs as it did then (`AsThen`), commits what was committed then
unless a limit is lower now (`CommitsAsThen`), and the end is the same (`WholeReplay`).

### 5.8 Edge settlement

Everything that is proved of the engine rests on `WorkflowGraph`, which says by an equation (`IsSkipSet`) what
a settlement leaves; the code recurses. `Settles` is what holds between two calls of the recursion: the
edges and ready nodes are those of the nodes skipped so far, a node was decided only once its incoming edges were known and one of
them came from where the settlement began or from a skipped node, and each pending node of which this is true has a call
waiting. A call either is idle or takes a node, and with it its arcs, from those that are open, in exchange for a call per arc
(`CallTakesAnArc`), so the calls and open arcs together count down and `SettlementEnds` follows. At the end no call
waits, and what was skipped solves the equation (`SettledAsDefined`). That it is the only solution
(`SkipSetIsUnique`) is where the graph must be acyclic: two solutions that differed would differ first in a node of least rank,
of which the incoming edges are the same.

### 5.9 Commands

The words of a line are read twice, by the check (`assertArguments`) and by what executes the command (`option`,
`hasFlag`, `positional`), each a loop over the words with a state of its own; what a line *means* is said by sets of
positions, without a loop. `CheckedTo` says what the check knows after the first k words it let through: the names so far,
different and all of the contract; whether the next word is a value; and the other words, in their order (`Lists`, with
`Ordinal` the place of a position among them). The second reading lists the same words. It needs no contract for that, only the flags of all commands, which works
because no command's option is another's flag (`ContractsAgree`); and an option finds its value behind its first occurrence because the
check refused a second one. Hence `LinesUnderstood`: a line that is let through is well formed, and asks what it means, for
lines of any length. `CommandInv` adds how far a command has come: nothing is opened before the check, pages of
events continue each other (`APageOfEvents`), an error is printed after them and last (`ErrorsEnd`), and the exit
code is that of what was printed, or 1 when the host could not be disposed of.

### 5.10 What is only model-checked

- Liveness: `RunComesToRest`, `EventsAreLaunched`, `RunsComeToRest`, `TreeComesToRest`. Like
  everything about ENABLED it is out of the prover's reach.
- `PrintedIsParsed` and `BuiltinsKeepPromises`, about what the recursive operators of `Scripts` compute from
  trees of any depth: an induction over data. (Recursive *functions* over numbers, as in `Catalog`, `Commands` and `EdgeSettlement`,
  can be reasoned about: induction is made first-order by the least element of a set of numbers, see `LeastNatural`.)

## 6. Disagreements found

1. **A cancelled run keeps its ready queue** (`cancel_queue`). `finishCancellation`
   (engine.ts:766) marks nodes and leaves `state.ready`; `docs/core-hardening.md:68`
   says a cancellation clears it. `restoreState` (1182) refuses such a record as
   CHECKPOINT_INVALID, so a later `resume`, or a queued handle that waits for the
   result (410), fails instead of reporting the cancellation.
2. **Late progress replaces a terminal checkpoint** (`late_report`). A timed-out
   attempt that goes on in the Host may call `checkpointProgress` (596), which checks
   the run's abort signal only; the commit succeeds after `run.completed`.
   `docs/core-hardening.md:72` excludes it.
3. **A completion can become durable in two commits** (`split_completion`). The
   node is `succeeded` (664) before the capture is awaited, and a commit of
   another node's event snapshots that. A crash between the two leaves a run
   that recovery fails with "scheduler stopped with unresolved nodes".
   `docs/core-hardening.md:51` says they are one commit.
4. **A failed node in a completed run** (`failed_completes`). The node is `failed`
   (653) before `run.failed` is committed; a commit queued earlier leaks that
   state. After a crash in between, recovery finds nothing wrong with the failed
   node (283), finishes the rest, and completes the run.
5. **A result is delivered before it is one** (`early_delivery`). A worker that is
   interrupted, or whose lease was lost, gets the local result `failed` of a run that goes
   on elsewhere, and delivers it (coordinator.ts:76). `README.md:306` has a worker deliver the
   state of a run that has entered it. The outbox then never delivers the outcome,
   because a promised payload is kept.
6. **A detached caller cancels a child** (`nested_cancel`). The signal of a parent's node is
   handed on as the caller's signal of the child run (runtime.ts:379), and an aborted
   caller's signal commits `run.cancelled` (engine.ts:449). A parent that waits for its
   child and is left by its own caller stays running, to be recovered; the child is durably
   cancelled. `docs/core-hardening.md:74` reserves that for the explicit cancel operation.

Met while modelling, without a run of their own:

- Studio: the end of a publication labels edits made meanwhile "published"
  (studio.tsx:241, against `docs/experience.md:15`), the exception `slipped`; the answer to a save replaces edits typed
  meanwhile (studio.tsx:204).
- Studio, its snapshot: `useStarter` (373) does not clear it, unlike `startNew`, so that a reload within 250 ms
  restores the document just discarded; closing after the question whether to discard (370) keeps it, so that
  the discarded edits are restored when the studio is opened again; the answer to a request of a closed studio
  clears that of the one open now (206, 252); opening at a target passes over it without asking, and
  loading the target clears it (83, 262). The last two are the exception `astray`.
- Scripts: the parser compares a token's text and not its kind, so that a string whose
  text is an operator or a bracket may be misread, as in `join(x, "-")` (expression.ts:259); operator names are looked
  up in a plain object, so that inherited names count as operators (157).
- Runtime: a condition's `eq` depends on the order of an object's keys (nodes.ts:654); a recorded
  replay is refused for runs that skipped an external node, and does not restore the
  port a Host node with several ports had selected, though `docs/core-hardening.md:55`
  promises its branches; inspecting a running run reports `failed`.
- Live events: subscribing with a signal that is aborted already touches `queue` before it
  is initialised (live.ts:25); a subscription made after the result is settled is never
  closed (21).
- DSH: its check for an active run precedes an await (services.ts:441).
- Command line: `trace --follow` ends after one page once the run is not running, with
  events left (run.ts:183-188, against `README.md:235`); with `--config` the database's path is
  resolved against the directory of that file (run.ts:208-214, against `README.md:224`); an
  unreadable `--input` file ends with exit code 6, or 4 if the message says "permission denied"
  (errors.ts:39), an unreadable template with 2; when opening the application fails half-way, what was
  opened before stays open (application.ts:35-74); an option in first place is taken for the
  command's name in error reports (run.ts:370).

## 7. What is not modelled, and what is left

Not modelled: the MCP gateway, the trigger sources and their formats, validation against JSON schemas
beyond required and closed properties, digests (an artifact's digest is its value), database
schema and migrations, rendering, layout and the operations panel of the canvas, the
DSH tools and authoring gateway. These translate data or perform I/O, and keep no
state that another component relies on. Of what is modelled as `partly`, the components'
notes in PROJECT.json name the operations that are missing.

Some hazards have no property, because the code lets them happen; each has a note in PROJECT.json. By design: a paused
background run whose operator resumes it elsewhere has no queue row (coordinator.ts:91), so nothing delivers its
result, a promise nobody makes; and Host code is called although its run was aborted a moment ago (engine.ts:979),
since the attempt is already on record. Excepted by name in the properties that come near: a run whose worker dies
between release and requeue (coordinator.ts:89, `orphaned`), events behind a poisoned record (ingress.ts:34), the
label after a publication (studio.tsx:241, `slipped`), a snapshot cleared for a closed studio or passed over
for a target (studio.tsx:206 and 83, `astray`). Out of sight of the properties: nodes that stay `running` in a
failed run (engine.ts:569), and a subscription that waits for ever (live.ts:57).

Left to prove: nothing of what can be stated without induction over data or ENABLED (5.10). Every invariant
and every action property that a run expects to hold is a theorem, but for the two of `Scripts`.
