# AgentInfer: a TLA+ verification project

AgentInfer schedules the requests of LLM agents inside a vLLM engine
(*AgentCache*), measures and replays agent workloads (*AgentBench*), and keeps the
knowledge and experiments of its self-improvement loop (*InferRSI*). An agent's
conversation is a *Program*; the scheduler decides per Program, not per request,
which ones are ACTIVE (their requests may enter vLLM) and which are PAUSED (their
requests are retained). This directory models these parts in TLA+, checks them
with TLC on small instances, and proves the main invariants of the scheduler, its
vLLM bridge, the Progress-TTL strategy, the replay executor and the replay run, the
tokenizer client, the request proxy, the benchmark run and its workspaces, the three
agent drivers, the knowledge store and the experiment loop with TLAPS for instances of
any size.

## 1. Inventory of the system

Paths are relative to `src/`; `agentinfer/` is left out where no confusion arises.

**AgentCache**

| Component | State it keeps | Operations | Hard behaviour |
| --- | --- | --- | --- |
| Program registry (`scheduling/program_registry.py`) | live records by id, last generation per id, task index, blocking-children index, cached `blocking_children` per parent | `materialize`, `release`, queries | children before parents, hints that change, ids that come back |
| Agent identity (`scheduling/identity.py`, middleware of `agentcache/core/api_adapter.py`) | the buffered messages of a request | resolve from body, context and headers; adapt the body | three places parse the same metadata and must agree; a request cut into messages and replayed |
| Program runtime (`scheduling/runtime.py`, `request_pool.py`, `transitions.py`) | Program state, status and pause mark; request bindings; the RequestPool; shared-prefix observations; side tables; dirty flag | `on_request_arrival`, `on_request_completion`, `on_response_completion`, `cancel_request`, `schedule_cycle`, `consume_admitted_requests`, `_apply_transition` | overlapping requests, delayed pauses, transitions in the middle of an arrival, late facts about an older generation, estimates that are stale when used |
| Progress-TTL strategy (`scheduling/progress_ttl/strategy.py`) | per-Program sidecars (deadlines, privileges, segments) | admission, resume, capacity repair, TTL checks, hooks on every event | deadlines that are never set, starvation, decisions on a snapshot its own transitions have outdated, selection at the exact boundary of the capacity |
| Rolling statistics (`progress_ttl/rolling_stats.py`) | bounded windows with running sums, AUTO mode | observe a request, a pause, an interval | incremental sums that drift from the window, mode flapping |
| vLLM bridge (`agentcache/core/scheduler.py`) | `tracked_native`, prefix observations, the controller | the overridden `add_request`, `schedule`, `update_from_output`, `finish_requests`, `get_num_unfinished_requests` | who owns a request, aborts that hit both owners, polls that return early |
| API lifecycle channel (`agentcache/core/api_adapter.py`) | one response observer per request, a Unix datagram socket per rank | classify a streamed response; send and receive TERMINAL | any cut of the stream, lost and late datagrams that name only the Program id, engines that die and leave their path |
| Controller, configuration, CLI, logging | none after start-up | construct, validate | none |
| Router affinity (`agentrouter`) | none | choose a worker by hint | none |

**AgentBench**

| Component | State it keeps | Operations | Hard behaviour |
| --- | --- | --- | --- |
| Replay executor (`agentbench/replay/executor.py`, `transport.py`) | a future per node, two semaphores, results | run a trace's dependency graph | cancellation of shared futures, task timeouts, a writer that fails |
| Replay run (`replay/runner.py`) | open resources, manifest, plan, summary | `run_replay()` | a fault or a timeout at any step |
| Replay prompts (`replay/prompt.py`) | the tokenizer client's caches and operations in flight; token prompts per actor | tokenize once, calibrate to a target, reuse prefixes | a cancelled waiter that started a shared operation; searches over a count that is not monotone |
| Planning and conversion (`replay/analyzer.py`, `planner.py`, `timing.py`, `unified_trace_ir.py`, `converters/`) | none between inputs | analyse, plan, convert, validate | retries, overlaps, crashes between the files of an IR |
| Datasets (`replay/tracelab_source.py`, `inferact_source.py`) | a shared cache directory | select and publish | two processes race, either may die |
| Request proxy (`request_proxy/`) | in-flight count, trace queue, process handle | admit, record, drain, close | shutdown races with requests and with a dying writer |
| Benchmark runner and finalizer (`benchkit/runner.py`, `artifacts/finalizer.py`, `workspace.py`) | tasks, results, artifacts, setup processes | run tasks, prepare workspaces, finalise | one of several finalisation steps fails; interrupts at any await; threads, subprocesses and `killpg` |
| Claude, Dsh and Jiuwen drivers (`agents/`) | processes, transcripts, dialogs, lineage file | start, watch, judge, stop an agent | an agent that hangs, forks, asks, dies; cancellation at any wait; evidence read while it is written |

**InferRSI** (`inferrsi/src/inferrsi`) **and tools**

| Component | State it keeps | Operations | Hard behaviour |
| --- | --- | --- | --- |
| Knowledge store (`knowledge_store.py`, `knowledge_operations.py`) | revisions, resources and current pointers in SQLite | open, publish, read, collect | several processes, crashes between statements, compare-and-set |
| Experiment loop (`harness/runner.py`, `harness/scenarios/external.py`, `evaluation.py`, `infra/`) | trials, snapshots, status, the server of a helper | `run_experiment()` | a source that changes meanwhile, interrupts, processes that outlive a trial |
| Workbench, `tools/`, `skills/` | files | command line, search, rendering, calibration and report scripts | sequential |

How they interact. EngineCore is single-threaded: it calls the bridge's entry
points one at a time, the bridge calls the runtime, the runtime calls the
strategy inside a hook, and the strategy calls back through a
`TransitionController` whose transitions take effect at once. The API workers
are other processes; they meet EngineCore only through the request queue and the
datagram socket. vLLM itself is external. AgentBench is one asyncio process per
run with threads for set-up and a child process for the proxy; it meets AgentCache
only as an HTTP client. InferRSI's processes share the SQLite file and the
repositories under test.

What makes each part correct:

* registry: every index agrees with the records; a reference that stopped
  resolving never resolves again;
* identity: engine, lifecycle fact and sampling arguments name the same Program;
* runtime: each unfinished request has one owner and is bound to a live
  generation; a Program is REASONING exactly while it has unfinished requests;
  only ACTIVE Programs are served; nothing in flight is interrupted;
* bridge: it and vLLM agree with the runtime on ownership; an admitted request
  reaches vLLM;
* strategy: no retained request waits for ever; no idle Program stays for ever;
  privileges and capacity bounds hold; incremental arithmetic equals its definition;
* replay, proxy, runner, drivers: every node, request and task has exactly one
  recorded outcome, a verdict is backed by what is on disk, nothing that was
  started survives, and every run comes to an end;
* knowledge: one line of whole revisions per identity, no lost update;
* experiment: a verdict rests on full, paired trials of one source.

The list `hazards` of `PROJECT.json` names the places in the code where these can
go wrong, with the properties that would notice.

## 2. Modules

| Module | Models | Extends |
| --- | --- | --- |
| `ProgramRegistry` | program registry | |
| `ProgramScheduler` | runtime, request pool, transitions; open strategy | `ProgramRegistry` |
| `VllmBridge` | bridge, native scheduler (external), lifecycle facts | `ProgramScheduler` |
| `ProgressTTL` | the strategy inside the runtime, over discrete time | `ProgramScheduler` |
| `AgentCacheProofs` | theorems about registry, runtime, bridge and strategy | `VllmBridge`, `ProgressTTL` |
| `CapacityFit`, `GrowthReserve`, `RollingStats`, `PrefixFreshness` | the strategy's arithmetic on real token counts, and the prefix observations it rests on | |
| `AgentIdentity`, `ApiIdentity` | identity resolution; the middleware around it | `ApiIdentity` extends `AgentIdentity` |
| `LifecycleObserver`, `LifecycleChannel` | classification of a response; the sockets | |
| `ReplayExecutor`, `ReplayRunner`, `TokenizerCache`, `PromptCalibration` | a replay's concurrent parts | |
| `ReplayExecutorProofs`, `TokenizerCacheProofs` | theorems about the two | the module each is about |
| `ReplayPlanner`, `TraceIR`, `TraceLabTiming`, `AgentXTrace`, `JsonArrayStream`, `PromptTokens`, `TraceLabPrompt`, `DatasetSource` | a replay's inputs | |
| `RequestTrace`, `RequestProxy` | trace writer; proxy around it | `RequestProxy` extends `RequestTrace` |
| `RequestProxyProofs` | theorems about both | `RequestProxy` |
| `BenchRunner`, `WorkspaceSetup` | benchmark run with its theorem; its workspaces | |
| `ClaudeInteraction`, `ClaudeRunner`, `JiuwenRunner`, `DshBridge`, `DshRunner` | the agent drivers | |
| `RunProofs` | theorems about `ReplayRunner`, `WorkspaceSetup`, the agent drivers and `Experiment` | instances of them |
| `KnowledgeLog` | abstract specification of the knowledge store | |
| `KnowledgeStore`, `KnowledgeCollect` | the store; `collect()` | |
| `Experiment` | the experiment loop | |
| `MC*` | instances for TLC; `MCAgentBench` also carries theorems over to its instances, `MCKnowledgeStore` extends the two modules on the knowledge store and proves their theorems | see sections 3 and 4 |

Short proofs stand at the end of the module they are about, long ones in a module of
their own.

Three refinements relate modules. `VllmBridge` and `ProgressTTL` implement
`ProgramScheduler`, whose strategy and host are open; `ProgramScheduler` implements
`ProgramRegistry`; `KnowledgeStore` implements `KnowledgeLog` with the mapping at its
end (`Log`).

Operators whose comment says "Mutant of ..." are not part of the model: each is a
plausible bug in the definition it names, kept to show that a property notices it.
The source lines of the definitions are in `PROJECT.json` under `map`; a helper is
listed there where its lines are not already those of the definition that uses it.

### ProgramRegistry

One variable per dictionary of the class and per field of `RuntimeProgram` the
registry reads. A live record always carries the last generation of its id, so
`Ref(p)` stands for `record.ref`. `Create` and `ApplyMetadata` are the two
branches of `materialize`; `Release` is `release`, including the orphaning of
blocking children. The order of attach, detach and refresh in the code matters
because `_refresh_parent` reads the relations: `RefreshParents` reads the values
the operation leaves (primed). A task conflict (`TaskConflict`) raises in the
code and is an action of the runtime, `OnRequestArrivalRefused`. Role, spawn
reason and `expected_resume` are left out.

### ProgramScheduler

The strategy is left *open*: between the start and the end of a hook (`hook`
records which one is open) any transition may be requested on any Program, and
`_apply_transition`'s guards decide. A refused transition changes nothing and is
a stuttering step. Everything shown here therefore holds for every strategy that
keeps one contract: an admission is answered ADMITTED exactly when the
candidate's Program is left ACTIVE (as `handle_admission` of the Progress-TTL
strategy does; with any other answer the runtime would serve a paused Program or
strand a request of an active one).

| Action | Code |
| --- | --- |
| `OnRequestArrival`, then `AdmissionAdmitted` or `AdmissionQueued` | `on_request_arrival`, cut at the call of `handle_admission` |
| `OnRequestArrivalRefused` | the `ValueError` of a task conflict |
| `AdmitOrResume`, `Pause`, `MarkForPause`, `ReleaseIdle` | `_apply_transition` |
| `OnRequestCompletion`, `EndHook` | `on_request_completion`, cut at `handle_request_completion` |
| `OnResponseTerminal` | `on_response_completion` |
| `CancelRequest` | `cancel_request` |
| `ScheduleCycle`, `EndHook` | `schedule_cycle`, the strategy's three calls as one hook |
| `ConsumeAdmitted` | `consume_admitted_requests` |

An operation is stated twice: what it does (`BindArrival`, `RefuseArrival`, `FinishBound`,
`ReleaseTerminal`, `DropBound`, `OpenCycle`, `TakeAdmitted`) and, around it, when the
runtime counts on being called: one hook at a time, an id that is bound nowhere
(`Unused`), a completion of what the host was given. The code checks none of these
conditions; whether the host keeps them is a question to `VllmBridge`.

`native` is a history of what the host was given and has not reported back.
Token counts, time and diagnostics are left out: no guard of these operations
depends on them. `step_count` is reduced to `served` (it is only compared with 0).

### VllmBridge

The bridge calls what the runtime's operations do, under the conditions of its own code
(its place in an entry point, `tracked_native`, the ids EngineCore passes, the pool) and
not under those of the runtime. A call at a moment the runtime does not allow is therefore a
step of the model, and `RuntimeContract` would be violated by it.

`call` is the program counter of the entry point EngineCore is in; API steps
interleave with all of its steps, EngineCore steps do not interleave with each
other. `engine` is what vLLM's scheduler holds; it may finish any of its
requests in any step (`NativeOutput`) and is told to abort given ids or
everything (`EnterFinish`, `EnterFinishAll`). `finish_requests` is modelled with
its four stages: cancellation of each given id, native finish, completion of each
tracked request, return. `socket` holds the TERMINAL datagrams under way;
`NothingSent` covers loss as well as CONTINUE and unknown outcomes, which the
runtime ignores. A response may end before EngineCore learns of it (a stop string
is found by the API worker, which then aborts the request) and long after.
Prefix-cache observations are a module of their own (`PrefixFreshness`); capacity
facts are left out, as the open strategy does not read them. Parents are left to the registry's run (`OwnIdentity`).

### ProgressTTL

The strategy that `ProgramScheduler` leaves open. A hook is cut into the decisions
of the strategy and the transitions they request: a decision puts transitions on
`requests`, and `Apply...` has the runtime accept the first of them, runs the
event handler that updates the `factors` of its Program and caches the next
deadlines, as `_apply_transition` and `_dispatch_event` do. Decisions read
`snapshot`, the snapshot their hook was given, and not the current state; the
runtime derives the next stage's snapshot from the ledger of accepted transitions
(`AdvanceSnapshot`).

| Actions | Code |
| --- | --- |
| `Arrive`, then one of `Admission`, then `HandOver` or `Retain` | `on_request_arrival` with `handle_admission` |
| `Complete`, `YieldCompleted`, `FinishCompletion` | `on_request_completion` with `handle_request_completion` |
| `BeginCycle`, `ResumeAtOnce`, `ResumeOrdinary` | `schedule_cycle` up to the end of `schedule_resume` |
| `BeginRepair`, `RepairVictim` | `repair_capacity` |
| `BeginCheck`, `KeepActing`, `RecordExpiry`, `ExpireActing`, `ReleaseExpired`, `FinishCycle` | `handle_scheduled_check`, the end of `schedule_cycle` |
| `Cancel`, `Terminal`, `Consume` | `cancel_request`, `on_response_completion`, `consume_admitted_requests` |
| `LightweightCheck` | `run_due_lightweight_checks` |
| `Tick` | the clock (external); a hook takes no time |

Deadlines are kept as the ticks that remain, so that time needs no bound. A
sidecar is reduced to what control depends on. Token counts and estimates are
left out here; every comparison of them may come out either way, so the model allows
more than the code: a Program may fit or not at any moment, any victims may be
chosen that the layering allows, a TTL is anything up to its maximum, and the
AUTO mode may switch at any completion. Blocking hints are not read by the
strategy.

### The strategy's arithmetic

`CapacityFit` is `_select_capacity_fit` with its table of reachable sums and
`_select_layered_capacity_fit` around it; a step handles one Program of a tier, and
the result is compared with all subsets. `GrowthReserve` is the projection that
admits a Program (`Activate`), the batch-gain rule (`ActivateForGain`), the rounds
that grow a context, reclaiming idle Programs, and the force timeout; a rational is
a numerator and a denominator. `RollingStats` keeps the windows (`UpdateRequest`,
`UpdatePause`, `ObserveInterval`, `ObserveContinuity`) with every running sum the
code keeps, next to the samples the sums must equal; the lognormal fit is absent,
degenerate or fitted, and a fitted one may recommend any TTL of the range.

`PrefixFreshness` follows one Program id through its generations: `Lookup` is the
bridge's observation of vLLM's prefix lookup (cached tokens and block reference
counts), `ScheduleNew` and `Finish` hand it to the runtime with the request,
`Refresh` is the re-lookup of a retained request, and the freshness duration comes
from the statistics of the KV pool. `found` is a history of the last lookup per
request.

### Identity and lifecycle

`AgentIdentity` is pure: an identifier is the sequence of its components, a metadata
object a function from keys to values, and the operators keep the names of
`identity.py`. `ApiIdentity` runs the middleware over it, one ASGI message at a time
(`ReadMessage`, `AdaptBody`, `AppReceive`), then vLLM's own parse (`BuildRequest`,
external). `LifecycleObserver` is the observer of one response: bytes are
`<<line, position>>` pairs and `SendBody` cuts them anywhere, so that an event may be
split, and the size limits bite at any byte. `LifecycleChannel` has the engines'
`Open`, `Bind`, `CloseSocket`, `Unlink`, `Die`, and the workers' `BeginSend`, `SendTo`,
`EndSend`; `Stray` is a foreign file under a rank's path.

### Replay

`ReplayExecutor`: `pc` of a node's coroutine, its shared completion future and its
result are separate state, as in the code, so that a cancellation may come between
any two; `TaskStep`, `Timeout` and `WriterFails` are the task, its timeout and the
trace writer. `ReplayRunner` cuts `_run_replay()` at every call that may raise:
`Setup`, `Execute`, `Finish` go forward, `Raise` and `Handler` unwind; `held` are the
open resources, `files` and `captures` what is on disk. The captures of vLLM's metrics at
the start and the end (`StartMetrics`, `EndMetrics`) are listed whether the endpoint
answered or not; an unavailable one has no file and is no evidence. `TokenizerCache` has one
operation per key (`OpStep`), callers that join it behind a shield (`CallStep`,
`NodeCancelled`) and the release of a task's private entries. `PromptCalibration`
makes the backend's count an arbitrary but fixed function, discovered call by call
(`counted`): no monotonicity is assumed.

The inputs are sequential algorithms; Init chooses an arbitrary bounded input and
the properties compare the result with a definition that does not follow the code:
`ReplayPlanner` (classification, retry matching, dependency inference, plan),
`TraceLabTiming`, `AgentXTrace` (two sweeps with a heap), `TraceIR` (publication
through a temporary file with crashes and later changes, and validation),
`JsonArrayStream` (a parser fed in arbitrary chunks against the grammar),
`PromptTokens` and `TraceLabPrompt` (a token is where it came from, so reuse is
equality of prefixes; in the code two tokens from different places may have the same
value, and the number it reports is then a lower bound of the prefix they share; the
check of `context_adjustment_mode` is configuration and left out), `DatasetSource` (several processes over one directory).

### Proxy, benchmark, workspaces

`RequestTrace` keeps the queue and asyncio's own count of unfinished items apart:
`queue.join()` waits for the second. `RequestProxy` adds admission, streaming,
disconnects, the drain, the process and its parent's shutdown with timeouts.
`BenchRunner` follows `execute()` and the finalizer: an `Interrupt` at any await, up
to `MaxFaults` raising steps, and each guarded finalisation step as an action. `workers`
are the threads that have a process registered with the owner, filling the repository
cache or preparing a workspace: only on one of these can `terminate_all()` raise.
`WorkspaceSetup` has the worker threads, the owner's table of processes and the main
thread's `terminate_all()`; a process may have descendants in its group, so that
`killpg` may or may not raise. The reuse of a destination that already exists is left out:
a run prepares a new one for each task.

### Drivers

`ClaudeInteraction` is the handler chain over snapshots that are sets of markers;
`ClaudeRunner` the poll loop, prompt delivery, transcript signature, stuck detection,
clean-up and verdict, with Claude, the tmux server and a half-written transcript line
as the environment. `JiuwenRunner` has the start of three services and of the client,
`stop()` with its SIGTERM and SIGKILL waits as a coroutine of its own (the runner's is
shielded), and cancellations; a service stands for its process group, so that descendants
which outlive their leader are not represented, and whatever start() raises may be a
missing or forbidden file, which the runner calls a failed startup. `DshBridge` is the plug-in inside the harness (guards
on tool calls, plan mode, step and read limits, the lineage file) and `DshRunner` the
process around it (deadlines, helpers that outlive their leader, evidence, verdict). A
subagent that a handler refuses by a throw is "absent", or "vetoed" when the bridge had
already recorded it; the runner judges a run with such a child by its lineage file.
The collection of `DshRunner` asks for one session id in the output stream and a root log
of that id, and not that there is no second root log (`dsh/runner.py`, the checks before
the lineage file); `Evidence` of `MCAgentBench` contains such a pair of roots, and
`CompletedIsBacked` says what a completed run then still means.

### InferRSI

`KnowledgeStore`: a writer validates, takes the lock with BEGIN IMMEDIATE, compares and
inserts in three statements, commits; a reader uses one query after the other; `Crash`
rolls back. A revision is the hash of its bundle and so determines identity, state and
contents. `KnowledgeLog` is what this promises: one line of revisions per identity,
each published once and whole. `KnowledgeCollect` reads several items under limits
while the sources change (`Change`): by a list of ids or of everything there is, with a
revision pinned for each reference or none (one for something that is not requested
refuses the call), and with any identities filtered out. `Experiment` is `run_experiment()` as a loop over
trials with `step` as its place inside a trial, the source's `version` against the
`locked` one, the process `group` of the command and what the helper started `outside`
it, and `files`; `Interrupt`, `WriteFails`, `StopRaises` and `SourceChanges` are the
environment.

## 3. Runs

The components of a union module share no state. So that one run can ask one
question of a family of components, `MCAgentCache`, `MCAgentBench`, `MCTraceData` and
`MCKnowledgeStore` choose one component per behaviour: `part` says which, and, except in
the last, `v1`, `v2`, ... are its variables, given by `INSTANCE ... WITH`. A property of such a module
is the conjunction, over the parts, of the named invariants of the components, each
of which is stated with a comment in its own module. A `.cfg` names the parts and the
bounds that differ between runs. `ProgramScheduler`, `VllmBridge` and `ProgressTTL` are
run as they are; the identities that their configurations choose from are defined in
them.

| Run | Distinct states | Checks |
| --- | --- | --- |
| `scheduler` | 470,850 | `RegistryExact`, `RuntimeConsistent`, `RequestsOwned`, `GenerationsNeverReused`, `NeverInterrupted`, `HandedOverOnce`; no deadlock |
| `bridge` | 363,098 | `BridgeConsistent`, `RuntimeContract`, `AdmittedReachesEngine`; no deadlock |
| `ttl` | 1,183,299 | `DecisionsCurrent`, `WaitersHaveForceDeadline`, `PrivilegesBounded`, `CachedDeadlinesExact`; no deadlock |
| `ttl_live` | 126,006 | `IdleHasDeadline`, `OpenStrategyContract`, `WaiterServed`; no deadlock |
| `agentcache` | 1,958,562 | `IdentityExact`, `LifecycleExact`, `PolicyExact`, `PolicySteps` |
| `services` | 2,773,329 | `ExecutorExact`, `RunnerSound`, `TokenizerShared`, `CalibrationSound`, `ProxySound`, `WorkspaceSound`, `ClaudeSound`, `TrimSearches` |
| `runs` | 2,395,250 | `BenchSound`, `RunnersSound`, `DriverSteps` |
| `agentbench_live` | 311,532 | `RunsEnd`, `WaitersAnswered` |
| `data` | 2,273,520 | `ConversionExact`, `PromptsReuse`, `InputsComplete` |
| `knowledge` | 945,511 | `StoreConsistent`, `CollectSound`, `NoLostUpdate`, `ImplementsLog` |
| `ttl_retention` | stops early | `RetentionRuns`, violated: section 6 |
| `bench_terminate` | stops early | `ManifestReflectsRun`, violated: section 6 |

What they show:

* `scheduler`: with a strategy that may request any transition at any moment of a
  hook, the registry's indexes stay exact in every order of parents, children and
  returns; every unfinished request has one owner; a Program leaves ACTIVE only when
  nothing of it is in flight; a request is handed over once.
* `bridge`: between entry points the bridge, vLLM and the pool agree on owners; the
  bridge, which decides on its own bookkeeping, calls the runtime only when
  `ProgramScheduler` allows it (`RuntimeContract` is its specification); no poll pattern leaves a request in `recent_admit`.
* `ttl`: every transition the strategy asks for still applies when its turn comes, a
  waiter has a force deadline, privileges stay within the limit, cached deadlines are
  the strategy's. `ttl_live`: the strategy implements the open one
  (`OpenStrategyContract`), and no retained request starves.
* `agentcache`: all parses of one request agree; the outcome of a response does not
  depend on its cuts; a broadcast reaches every bound engine, in order, through
  restarts; incremental sums equal their windows; the capacity fit is optimal; the
  reserve fits; an estimate is believed for its own time only, and a completion
  reports the request's own lookup.
* `services`: one result per node, agreeing with its future; each resource closed
  once; cancelling one waiter never cancels another's operation; a count that is
  accepted was measured on the prompt returned; a clean shutdown has every fact in
  the file; a ready workspace is at its base commit and no process is stray; Claude's
  dialogs are answered once, and its verdict rests on the transcript as it is.
* `runs`: however a run ends, no task, process or server outlives it, index, summary
  and manifest agree, the first failure is not masked, and a completed verdict is
  backed by the evidence.
* `agentbench_live`: all of these end, and nobody waits for ever.
* `data`: conversions equal their reference definitions for every bounded input.
* `knowledge`: with crashes between any two statements, bundles are whole, histories
  are lines, no update is lost, and the store implements the log.

Bounds. `scheduler`: two Programs that may name each other as parents, three requests
(two that overlap and one for the other Program), two tasks, two generations (a
reference becomes stale and its id comes back). `bridge` and `ttl*` use one generation:
reuse of ids is covered by `scheduler` and, for the bridge, by the proofs. In `ttl*`
every timeout is one tick (acting TTLs up to two), so that each deadline is seen
running, due and overdue against each other in every order; two Programs give a holder
and a receiver of a privilege, a victim and a waiter. `Cancellation` is on in `ttl` and
off in `ttl_live`, because `IdleHasDeadline` holds only without (section 6). A replay
graph has three nodes (a predecessor, a node, a third that shares the future), or two
tasks of two nodes under AgentX limits of one; the tokenizer two callers of one
operation, or of two tasks; the trace writer three facts and two closers; the proxy two
requests; a benchmark two tasks over one slot with two faults. A workspace run has two
threads over one repository, any of whose commands may fail or time out, so that
`terminate_all()` meets the other thread at any place, or one thread and two
interrupts; both go on with further runs over the cache that the earlier ones left. An
interrupt that meets two threads is left to the proof, which has no bound. Screens are
explored for 13 polls with a retry time of 2 and an idle time of 4; the Jiuwen client
writes two events; the Dsh bridge has step limits of 3 to 5, and the Dsh runner meets
every flaw of the lineage file, of the transcripts and of the event log, one kind at a
time. Windows have 3 samples, the capacity fit 4 Programs in 2 tiers, the channel 3
engines of which two share a rank. The store has two writers, one reader and five
revisions of two identities, one of them reserved; `collect()` is called with
every list of the instance, no reference, one or two pinned at different revisions,
requested or not, and at most one identity filtered. An experiment has one repetition
over two repositories with two interrupts, or two repetitions over a shared one, and
one change of the source. Bounds on counters are constants named in the modules.

Symmetry (of Programs and requests, of tasks, of lifecycle facts and workers, of two
alike revisions) is used only in runs without liveness. Deadlock checking is off in the
union runs: their components end.

Fairness. `BridgeFairness`: EngineCore's busy loop alternates between draining its
input queue and stepping while there is unfinished work, so neither arrivals nor aborts
keep it from `schedule()` for ever: strong fairness of `EnterSchedule`. A poll finds a
cycle due once `schedule_interval` has passed: strong fairness of `CycleDue`, which
early polls disable again and again. Entry points run to their end: weak fairness of
their steps. `TTLFairness`: time passes and EngineCore polls while a request is
retained: strong fairness of `Tick` and of a cycle with work, as hooks disable both
again and again; hooks run to their end. `FairStep(i)` of `MCAgentBench`, weak fairness
for i in 1..10, is the i-th fair step of whichever component the behaviour runs: the
event loop runs what is ready, configured timeouts expire, threads end within their
limits, SIGKILL ends a process. Nothing is assumed of API workers, vLLM's outputs,
arrivals, capacity, the strategy's choices, the proxy's child, backends, agents, or the
commands of an experiment.

## 4. Proofs

All theorems hold for every value of the constants that satisfies the named
assumptions: `None` (`NoRev`, `NoRoot`, `NoWriter`, `Torn`) is none of the values it is
mixed with (`RegistryAssumption`, `SchedulerAssumption`, `NullsAssumption`,
`TraceAssumption`, `ExecutorAssumption`), callers, workers, tasks and namespaces of the
tokenizer client are told apart (`TokenizerAssumption`), hosted requests carry
well-formed identities (`OwnIdentityAssumption`), a bundle has an identity and at least
one resource (`BundlesAssumption`), timeouts and limits are natural numbers in the
ranges that the configuration accepts (`ProgressTTLAssumption`), the three callers of
the trace writer's `close()` are distinct and the requests finite (`ClosersAssumption`),
a replay has finitely many tasks (`ExecutorAssumption`); `BenchAssumption` is of the
same kind, and so are the assumptions of `RunProofs`' parts: the values that a variable
starts with are told apart from those it gets (`RunnerAssumption`, `WorkspaceAssumption`,
`InteractionAssumption`), deadlines, windows and limits are natural numbers
(`InteractionAssumption`, `ClaudeRunnerAssumption`, `JiuwenAssumption`,
`DshRunnerAssumption`, `BridgeAssumption`), the roots that a Dsh run leaves are finitely
many (`DshRunnerAssumption`), and an experiment has at least one repetition
(`ExperimentAssumption`; `inferrsi/runspec.py` refuses fewer). References are well formed
and occur once in a list, which `collect()` checks, and a view has a size
(`CollectAssumption`). TLC evaluates each of them
on the instances it runs. Five theorems have a hypothesis beyond these, named with
each below: it excludes a behaviour of the code under which the property is false, and
section 6 describes that behaviour.

Each proof has the same form: an inductive invariant, one lemma per action that it is
kept, and an `...Implies` lemma that it yields the properties. The parts of an invariant
that are not properties themselves are why the properties hold.

*Registry.* `RegistryInv` is the conjunction of the type invariant, the exactness
invariants, and `EdgesHaveParents`. It is inductive only as a whole: a refresh computes
the right set only because the edge index is exact (`RefreshIsExact`), and the index
stays exact only because a live record has the last generation of its id. One lemma per
operation, then `RegistryIndexesExact` and `RegistryGenerationsFresh`.

*Runtime.* `SchedulerInv` adds the invariants of the run and two auxiliary facts:
`LiveStates` (a Program has a record exactly while it is not terminated) and
`HookConsistent` (an open admission hook names a request that the pool holds).
`NeverInterrupted` shows why the conjunction is needed: a pause requires ACTING, which
means "no unfinished request" only by `StatusTracksRequests`, which in turn needs
`BindingsExact` for a request that outlives others. Theorems: `RuntimeStaysConsistent`,
`RequestsAccounted`, `ServiceNeverInterrupted`, `RequestsHandedOverOnce`. Every step of
the runtime is a step of the registry or leaves it alone (`RuntimeImplementsRegistry`),
so the registry's theorems carry over (`SchedulerKeepsRegistry`,
`SchedulerGenerationsFresh`).

*Bridge.* `OwnersAgree` speaks of the moments between entry points and is not inductive:
`OwnersInv` says how far `tracked_native`, vLLM and the runtime may differ inside one, by
the requests an abort has unbound and vLLM has yet to finish (`Aborted`) and those it has
finished and the bridge has yet to report (`Unreported`). `CallInv` ties the place in an
entry point to the hook that is open. Both are what makes the calls legal: with them every
step of the bridge is a step of `ProgramScheduler` or a stutter
(`BridgeImplementsRuntime`), a completion for instance because what the bridge tracks and
the runtime still binds is what the runtime handed over. The theorems above carry over to
the integration (`BridgeNeverInterrupts` is one of them), and `BridgeOwnersAgree` follows.

*Progress-TTL strategy.* A hook decides on a list of transitions and then has them
applied one after the other; in between, the factors are half way and hardly any
property of them is inductive. `TTLInv` therefore speaks of where the pending list
leads: every request on it is valid and no earlier one undoes what a later one needs
(`RequestsValid`), the outcome of an admission is the one its list produces
(`OutcomeFacts`), the privileges held once the list is applied are within the limit
(`PrivilegeInv`). `HookTypes` and `HookPhase` tie the strategy's place to the runtime's
hook, `AdmissionFacts`, `CompletionFacts` and `CycleFacts` say what each hook may count
on of the snapshot it was given, and `DeadlineInv`, `WaiterInv` and `ClockInv` are about
clocks: the cached deadlines are the strategy's wherever they are read, only the
candidate of an open admission waits without a force deadline, and an idle Program has
the clock of its state. `MoveKeeps` is the argument that applying the head of the list
keeps all this; each kind of request is an instance of it. Theorems:
`DecisionsStayCurrent`, `EveryWaiterHasForceDeadline`, `PrivilegesStayBounded`,
`CachedDeadlinesStayExact`, and `IdleProgramsHaveDeadline`, which needs
`Cancellation = FALSE`: with cancellation `IdleHasDeadline` is false, as the first
finding of section 6 shows. `StrategyKeepsContract` is the refinement of the open
strategy: admissions are answered as the contract of `ProgramScheduler` requires and
every step is one of its steps. So the runtime's theorems hold under this strategy for
every instance (`RuntimeSoundUnderStrategy`).

*Replay executor.* `ExecInv` adds to the properties how a node's future follows its
coroutine: it is resolved exactly when the node has ended by itself, pending while it
runs, and lost at most when it was cancelled (`FutureInv`, with `PhaseInv` for where
nodes can be while their task waits, runs, is timed out or over). This is what makes a
timeout safe: it cancels only futures that somebody awaits, such a future belongs to a
node that has not ended, and the same step cancels that node. `DependencyInv` remembers
what a node waited for (a resolved future never changes, so it stays true), `ResultInv`
and `FactInv` tie results and facts to futures. Nearly every action is one of two
general steps, a running node that goes on (`NodeMoves`) or ends (`NodeEnds`). Theorem:
`ExecutorIsExact`.

*Tokenizer client.* That nobody else is hit by a cancellation rests on who can be
cancelled: `DoomedInv` (a cancelled operation is the count of a node that was cancelled
itself, belongs to a task that is being released, or the client closes; a text goes with
its seed) and `WantInv` (a caller wants keys of its own or of a shared namespace).
`ReleaseInv` says what is left of a task whose release has begun, `FetchInv` why a seed
is not fetched again, `AnswerInv` what a woken waiter finds, `PhaseInv` who may be under
way when, `PermitInv` counts the permits. Theorems: `CancellationStaysPrivate`,
`ReleaseIsFinal`, `FetchesAndPermitsExact`.

*Trace writer and proxy.* `QueueInv`: while the writer runs, the queue is the rest of
what was accepted and, after `close()`, the sentinel; `FileInv`: the file has the written
facts and at most one, perhaps torn, line more; `HealthInv`: nothing is accepted after
`close()`, so a returned health still counts everything. `TraceIsFaithful` follows, and
with the proxy's parts `ProxyIsSound`: `DrainInv` (whoever closes the writer has
first refused new requests and seen the last one go), `RecordInv` (an answered request
has its fact among the accepted ones, or the writer had failed), `HandlerInv` and
`ResultInv` (what the parent reports is the health of the shutdown handler's own
`close()`, and clean only for a child that exited by itself).

*Benchmark run.* `BenchInv` says what `_recompute_status()` will not change any more:
when `summary.json` and `manifest.json` are written, no later step can record an error
before the run ends except the one that writes the manifest, and then no manifest says
otherwise (`VerdictInv`). `ErrorInv` orders the finalisation by `Stage`: a step reports
at most one error, of its own stage, so no error is reported twice, and all of them are
captures before the manifest copies them. `TaskInv`: no coroutine exists before
`_run_tasks()`, all have ended when the finalisation begins, and without an exception
each has a result of its agent; list and files agree after every step. Theorem:
`BenchIsSound`, under the hypothesis that `terminate_all()` does not raise; if it does,
`ManifestReflectsRun` is false, as the run `bench_terminate` shows (section 6).

*Replay run.* `RunnerInv` divides the program counters of `_run_replay()` into zones in
which the run holds the same resources (`HoldsNothing`, ..., `HoldsReplay`) and says for
each zone which variables are set and which objects are open; a step that opens or closes
is where two zones meet. The handler may be entered from any zone with any of them, so for
it the invariant is a countdown: what stands before its place in the closing order is
closed or was never opened. `CapturesExact` and `NotYetWritten` tie what the run has
recorded to what is on disk. Theorem: `RunnerSafe`.

*Workspaces.* That no process survives `terminate_all()` is a race between threads that
register processes and a main thread that walks a snapshot of the table. `StillToTerminate` says
what the lock buys: after the owner is cancelled nobody registers, and every process that is
alive is in the snapshot that is left, or the one being signalled. `Registered` and
`GroupsGone` say when a thread may leave a command, `CacheBooks` and `PrepareBooks` that
cache and workspace are at the last command that succeeded. Theorem: `WorkspaceSafe`, for
any set of tasks.

*Claude driver.* `ScreenInv` ties each flag of the handlers to the snapshot it stands for
(`FlagsVisible`) and the attempts of the fallback to the history of the appearance
(`AppearanceBooks`): a visible flag is set exactly after the Enter that answered the
dialog now on the screen. `ScreenSafe` needs `~BackToBack`: without a snapshot between two
dialogs the second is not answered (section 6). `ClaudeInv` follows the launch thread and
the kill thread against the coroutine: a server exists only while a launch is under way,
or is followed by a kill that sees it; the judged transcript is the one on disk because the
signature is taken before the file is read. `ClaudeSafe` needs `MaxCancels <= 1`: a second
cancellation hits the handler while it waits for the launch, and the server that the
launch then creates is left. `RetryStep` gives the spacing of two Enters.

*Jiuwen driver.* `JwStopBooks`: a process that runs is one whose handle the instance still
has, or the one whose `stop()` is waiting; the rest follows how an outcome is decided once
and only made worse (`OutcomeBooks`), how a cancellation is kept until the runner ends
(`ExitBooks`), and that the tracker forgets no problem (`EventBooks`). `JiuwenSafe` needs
`~CancelInCleanup`: otherwise a cancellation inside the clean-up of `start()` leaves a
process whose handle is gone (section 6).

*Dsh driver and bridge.* `DshInv`: the group of the process is dead wherever the execution
has been left (`GroupBooks`), the reason is that of the first cause (`CauseBooks`), and an
outcome is completed only behind the checks of the collection, on evidence that no longer
changes (`EvidenceBooks`). `BridgeInv`: windows keep the last entries and the history of a
subagent's reads runs beside its window (`WindowBooks`, `HistoryBooks`), which is why a
window with fewer than REPEAT_LIMIT repetitions stays one when it is shifted
(`WindowKeeps`, `NoReadLoopStep`); a subagent's lineage, outcome and the lead's wait agree
(`SessionBooks`), and the guards of the lead keep exploration, approval and work in order
(`PlanBooks`, `WaitBooks`). Theorems: `DshSafe`, `BridgeSafe`; the action properties of
the bridge are `FailureStep` and `ApprovalStep`.

*Experiment.* `ExpInv` counts: the trials of the two sides and the place of the loop agree
(`PairBooks`), the status of a run agrees with its record and its error (`RunBooks`,
`StepBooks`), a source that changed under a command shows in the two snapshots around it
(`SourceBooks`), the group of a command is dead before its record is written
(`ProcessBooks`), and status and verdict are written once, from what was measured
(`FileBooks`). Theorem: `ExperimentSafe`.

*Instances.* `ExecutorAlwaysExact`, `TokenizerAlwaysShared`, `ProxyAlwaysSound`,
`BenchAlwaysSound`, `RunnerAlwaysSound`, `WorkspaceAlwaysSound`, `ClaudeAlwaysSound`,
`RunnersAlwaysSound` (with `~CancelInCleanup`) and `DriverStepsHold` carry these theorems
over to the properties that the runs `services` and `runs` check: `part` never changes, and
while it names a component, every step is a step of that component.

*Knowledge store.* `StoreInv` adds two facts to the invariants of the run.
`TransactionOK`: what a writer compared stays true until its COMMIT, because the lock
keeps others out, and its inserts are a prefix of the three; without it the COMMIT could
be shown neither to extend a line nor to publish a whole bundle. `ReadingOK`: what a
reader found so far is what the store will always answer; without it a reader's later
queries could contradict its first. Theorems: `StoreStaysConsistent`, `UpdatesNeverLost`,
and `StoreImplementsLog`, the refinement of `KnowledgeLog`, where only the COMMIT is not
a stutter.

*Collection.* `CollectInv` keeps four books. `ItemBooks`: an item is the one identity its
reference could stand for by the owners that the call looked up, which do not change with
the sources, at the revision pinned for it, and no item is of an identity seen before.
`RoomBooks`: what was left out for want of room does not fit now, and since items are only
added, it never will. `AnswerBooks`: the references before `at`, and no others, have an
answer, one each; a count of answers alone is not inductive. `CallTypes`: nothing is
answered before the loop. Theorem: `CollectAlwaysSound`.

Only model-checked:

* liveness (`AdmittedReachesEngine`, `WaiterServed`, `RunsEnd`, `WaitersAnswered`),
  ENABLED and the absence of deadlock, which are beyond the prover;
* what recursive functions compute on data, which would need induction over it:
  `ConversionExact`, `PromptsReuse`, `InputsComplete`, `CalibrationSound` with
  `TrimSearches`, and the sums and selections in `PolicyExact` and
  `PolicySteps`;
* the remaining components: `IdentityExact` and `LifecycleExact`, for which no proof has been
  written.

## 5. Plan

Done, in this order: registry and runtime with proofs; bridge with proofs; Progress-TTL
over the open hooks; identity, lifecycle and the strategy's arithmetic; replay
(executor, run, tokenizer, calibration, inputs); proxy, benchmark, workspaces; drivers;
knowledge store with its refinement and proofs; experiment loop; prefix freshness;
proofs of the strategy and its refinement, of the tokenizer client, of trace writer and
proxy, of the replay executor, of the benchmark run; proofs of the replay run, of
workspaces, of the agent drivers and of the experiment loop; proof of `collect()`.

Left, the most valuable first:

1. Proofs of `FreshnessAnchored` (`PrefixFreshness`) and of the ordering of
   `LifecycleChannel`.
2. The composition of `LifecycleChannel` with `VllmBridge`, which now meet in the
   abstract socket of the second.

## 6. Findings

*Cancelled waiter of a served Program* (run `ttl_retention`). A Program is served
and paused, so its retention clock runs. A request arrives and is queued, which
stops the clock (`on_request_pending`, `strategy.py:754`), and is cancelled before
it is served. The Program is idle again, but `on_program_status_changed` does
nothing for ACTING and `cancel_request` discards only Programs that were never
served: no deadline names it, and without a TERMINAL fact or another request it is
never released. The design has it released after `paused_program_ttl_seconds`
(`design/module/scheduling/progress-ttl-scheduling.md:439`), precisely where
TERMINAL facts are missing (`vllm-runtime-integration.md:263`). An explicit abort
of a native request leaves an ACTIVE Program without an acting clock in the same
way; the next due check of any Program repairs that (`invalid_acting_clock`).

*A failing `terminate_all()` hides the failure of a run* (run `bench_terminate`). The
handler of a failed benchmark run calls `setup_owner.terminate_all()` before it assigns
`run_exception` (`benchkit/runner.py:110`). In the trace an interrupt arrives while the
thread that fills the repository cache has its process registered. The second `os.killpg()` of `_terminate()`
(`workspace.py:113`) is not guarded and may raise `ProcessLookupError` when a worker
thread reaps the process in between. The `finally` block then writes a manifest with
status completed while the run raises; `artifacts/finalizer.py:8` says that the manifest
reflects the run.

Met while modelling, in the model where a constant or an action is named, without a run
of their own:

* An explicit abort of a marked Program unbinds the request without completion
  bookkeeping (`agentcache/core/scheduler.py:298`, against
  `vllm-runtime-integration.md:175`): the Program stays ACTIVE, ACTING and marked.
* The force deadline of a cancelled request is taken over by the next one that waits
  (`strategy.py:1787`, against `progress-ttl-scheduling.md:232`).
* A TERMINAL fact names only the Program id (`runtime.py:444`), so a delayed one may
  release a later idle generation.
* With observability on, the diagnostics of a release event recreate the sidecar of the
  released Program (`strategy.py:131`).
* An EngineCore that closes late unlinks the path its successor has bound
  (`api_adapter.py:159`; `Overlap` of `LifecycleChannel`).
* Claude's confirmations that replace each other between two polls count as one
  (`agents/claude/interaction.py:137`; `BackToBack`).
* A Claude run that raises or is cancelled skips the final evidence
  (`agents/claude/runner.py:466`), which a comment says is collected independently of
  the outcome (`:182`).
* A second cancellation of a Claude run, while the handler of the first waits for the
  launch, goes on to `kill_server()` at once; a launch that ends after it leaves its tmux
  server (`agents/claude/runner.py:463`; `MaxCancels`).
* A cancellation during the clean-up of a failed start leaves a Jiuwen process
  (`agents/jiuwenswarm/instance.py:118`; `CancelInCleanup`).
* A repository cache whose set-up was killed between `git init` and `git remote add`
  is never completed: later runs see `.git` and fetch from a remote that does not exist
  (`benchkit/workspace.py:212`).
* TraceLab rounds with invalid timing are not rejected (`converters/tracelab.py:222`).
* In `tools/sr-config-tool`, not modelled: a forced rerun that fails leaves its step
  "completed" (`pipeline.py:42`, `:70`); `check_ports_free` is never called and a second
  SIGTERM may interrupt `cleanup_all` (`run_e2e.py`).

## 7. Not modelled

* Configuration, construction, command lines and logging: no state after start-up.
* The router's affinity hook: a stateless function in an external router's plug-in
  interface, with a vendored patch.
* Metrics, comparison and reports of AgentBench; rendering, text search and the calls of
  external agents in InferRSI: computation on files without state that several steps
  share.
* The text of prompts and screens, HTTP and log formats, and the formats of the source
  datasets: the models start from what recognition yields.
* `tools/` and `skills/`: sequential scripts.
* Floating-point estimates (the lognormal fit, scores): outside TLC's arithmetic; they
  are arbitrary choices, or rationals kept as two integers.
* Data-parallel ranks beyond the lifecycle channel have one runtime each and share
  nothing, so one is modelled. Windows branches are left out.
