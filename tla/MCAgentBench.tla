----------------------------- MODULE MCAgentBench -----------------------------
(***************************************************************************)
(* Small instances of the components of AgentBench, and of InferRSI's       *)
(* experiment loop, for TLC. The components do not share state, so one      *)
(* behaviour runs one of them: part says which, and v1, v2, ... are that    *)
(* component's variables, as its INSTANCE names them. A configuration       *)
(* names the parts it explores and the bounds that differ between the safety*)
(* runs and the liveness run.                                               *)
(***************************************************************************)
EXTENDS Naturals, Integers, Sequences, FiniteSets, TLC, TLAPS

CONSTANTS
  Parts,                 \* the components a run explores
  None, Torn, Main, ShutdownHandler, ExitProxy, ExitWriter,
  Task,                  \* the tasks of a benchmark run, or of a workspace set-up
  Request,               \* the requests that reach the proxy
  a1, n1, n2, n3, w1, \* a task, nodes of a replay, a thread of the tokenizer pool
  BenchConcurrency, MaxFaults, TerminateCanRaise,
  HasTimeout, UsesTokenIds,
  MaxLines,              \* lines Claude appends to its transcript
  CancelInCleanup,
  BridgeSteps, BridgeSubSteps, BridgeArguments,
  Interrupts, Versions   \* of an experiment: interrupts by the user, changes of its source

VARIABLES
  part,   \* the component of this behaviour
  v1, v2, v3, v4, v5, v6, v7, v8, v9, v10, v11, v12, v13, v14, v15, v16, v17, v18, v19, v20, v21,
  v22   \* its variables

vars == <<part, v1, v2, v3, v4, v5, v6, v7, v8, v9, v10, v11, v12, v13, v14, v15, v16, v17, v18,
        v19, v20, v21, v22>>

\* The variables a component does not have.
from21 == <<v21, v22>>
from20 == <<v20, from21>>
from19 == <<v19, from20>>
from18 == <<v18, from19>>
from17 == <<v17, from18>>
from15 == <<v15, v16, from17>>
from14 == <<v14, from15>>
from11 == <<v11, v12, v13, from14>>
from8 == <<v8, v9, v10, from11>>
Unused21 == v21 = 0 /\ v22 = 0
Unused20 == v20 = 0 /\ Unused21
Unused19 == v19 = 0 /\ Unused20
Unused18 == v18 = 0 /\ Unused19
Unused17 == v17 = 0 /\ Unused18
Unused15 == v15 = 0 /\ v16 = 0 /\ Unused17
Unused14 == v14 = 0 /\ Unused15
Unused11 == v11 = 0 /\ v12 = 0 /\ v13 = 0 /\ Unused14
Unused8 == v8 = 0 /\ v9 = 0 /\ v10 = 0 /\ Unused11
-----------------------------------------------------------------------------
\* Tokenizer client: a node's task; two nodes of one task, and a third of another.
TaskOf(c) == IF c = n3 THEN "t2" ELSE "t1"

\* Prompt calibration: the filler lengths of the history, and the repair's
\* offsets as the code orders them, for a whole prompt and for one turn.
FillerLengths == <<1, 0, 2>>
PromptOffsets == <<0, 1>>
TurnOffsets == <<0, 1, -1>>

\* What Claude's two profiles meet: a confirmation, a question, a question
\* whose first option is Yes; and the plan approval.
SingleDialogs == {{"prompt", "yes"}, {"prompt", "generic"}, {"prompt", "yes", "generic"}}
PlanDialogs == SingleDialogs \cup {{"prompt", "plan", "yes"}, {"prompt", "plan", "yes", "generic"}}

\* What a Dsh run leaves behind: transcripts, the lineage file and the tail of
\* the event log.  Every flaw of the lineage file with a complete event log;
\* with a flawless lineage file, every flaw of the transcripts, and every tail
\* of the event log and question left open.
Log(id, parent, whole) == [id |-> id, parent |-> parent, whole |-> whole]
Logs ==
  {{}, {Log("r", "none", TRUE)}, {Log("r", "none", FALSE)}, {Log("r", "none", TRUE), Log("r", "none", FALSE)},
   {Log("r", "none", TRUE), Log("c", "r", TRUE)}, {Log("r", "none", TRUE), Log("c", "r", FALSE)},
   {Log("r", "none", TRUE), Log("c", "none", TRUE)}}
Sessions ==
  {{[id |-> "r", parent |-> "none"]},
   {[id |-> "r", parent |-> "none"], [id |-> "c", parent |-> "r"]},
   {[id |-> "r", parent |-> "none"], [id |-> "c", parent |-> "none"]}}
Lineages ==
  {[sessions |-> s, failure |-> f, question |-> q, approvals |-> a, outcomes |-> o] :
     s \in Sessions, f \in {"none", "subagent_read_loop"}, q \in BOOLEAN, a \in 0 .. 1,
     o \in {<< >>, [x \in {"c"} |-> "completed"], [x \in {"c"} |-> "error"]}}
Tails == {<< >>, <<"end_completed">>, <<"end_completed", "end_max">>, <<"asked", "end_completed">>,
          <<"marker_hang", "marker_hang", "end_other">>, <<"marker_invalid", "marker_invalid">>, <<"end_blocked", "other">>}
Flawless ==
  {[sessions |-> s, failure |-> "none", question |-> FALSE, approvals |-> 1,
    outcomes |-> [x \in {"c"} |-> "completed"]] : s \in Sessions}
Evidence ==
  {[roots |-> {"r"}, logs |-> g, lineage |-> l, events |-> <<"end_completed">>, question |-> FALSE] :
     g \in Logs, l \in Lineages} \union
  {[roots |-> r, logs |-> g, lineage |-> l, events |-> e, question |-> FALSE] :
     r \in {{}, {"r"}, {"c"}, {"r", "c"}}, g \in Logs, l \in Flawless, e \in {<< >>, <<"end_completed">>}} \union
  {[roots |-> {"r"}, logs |-> g, lineage |-> l, events |-> e, question |-> q] :
     g \in {h \in Logs : \A x \in h : x.whole}, l \in Flawless, e \in Tails, q \in BOOLEAN}

\* An experiment's sides: a repository each, or one for both.
Each == [s \in {"baseline", "candidate"} |-> s]
Shared == [s \in {"baseline", "candidate"} |-> "repo"]

\* Requests are taken from Task; where the proxy runs under symmetry, all of it.
Symmetry == Permutations(Task)

Exec == INSTANCE ReplayExecutorProofs WITH
  Task <- {"t1"}, NodesPerTask <- 3, MaxConcurrency <- 1, MaxInflight <- 1, AgentX <- FALSE,
  plan <- v1, state <- v2, timed_out <- v3, pc <- v4, prompt <- v5, completion <- v6, results <- v7,
  facts <- v8, sent <- v9, writer_ok <- v10
ExecX == INSTANCE ReplayExecutorProofs WITH
  Task <- {"t1", "t2"}, NodesPerTask <- 2, MaxConcurrency <- 1, MaxInflight <- 1, AgentX <- TRUE,
  UsesTokenIds <- TRUE, HasTimeout <- TRUE, plan <- v1, state <- v2, timed_out <- v3, pc <- v4,
  prompt <- v5, completion <- v6, results <- v7, facts <- v8, sent <- v9, writer_ok <- v10
Runs == INSTANCE RunProofs WITH   \* several tasks, no interrupt; Claude's first profile; one subagent
  TraceTypes <- {"agentinfer", "agentX", "tracelab", "inferact"}, Request <- {"q1", "q2"},
  RunTimeout <- TRUE, pc <- v1, trace_type <- v2, held <- v3, state <- v4, started <- v5,
  planned <- v6, files <- v7, captures <- v8, evidence <- v9, status <- v10, nodes <- v11,
  facts <- v12, complete <- v13, outcome <- v14,
  Deadline <- TRUE, CommandsFail <- TRUE, MaxInterrupts <- 0, phase <- v1, owner_cancelled <- v2,
  processes <- v3, snapshot <- v4, target <- v5, at <- v6, cmd <- v7, proc <- v8, child <- v9,
  rc <- v10, cache <- v11, ws <- v12, interrupts <- v13,
  Profile <- "single", Dialogs <- SingleDialogs, BackToBack <- FALSE, IdleTimeout <- 4,
  RetrySeconds <- 2, MaxAttempts <- 2, MaxTime <- 13, interaction <- v1, idle <- v2, screen <- v3,
  long <- v4, now <- v5, action <- v6, seen <- v7,
  TaskDeadline <- 2, StartupTime <- 1, PromptTime <- 1, MinEvents <- 2, MinRepeats <- 2, Recent <- 2,
  MaxCancels <- 1, result <- v2, clock <- v3, launch <- v4, kill <- v5, tmux <- v6, pane <- v7,
  prompt <- v8, pastes <- v9, log <- v10, torn <- v11, view <- v12, cancels <- v13, cancelled <- v14,
  MaxEvents <- 2, DriverCancels <- 2, raised <- v2, events <- v3, handle <- v4, stop <- v5,
  stopFailed <- v6, timedOut <- v7, terminal <- v9, verdict <- v10, exit <- v11, reason <- v12,
  TailLength <- 2, Flush <- BOOLEAN, enforce_plan_mode <- v3, flush <- v4, stage <- v5, leader <- v6,
  code <- v7, return_code <- v8, disk <- v9, cause <- v10, collection <- v12, git <- v15,
  helper <- v16, termination_reason <- v17, status_written <- v18,
  Lead <- "lead", Children <- {"c1"}, SUBAGENT_STEP_LIMIT <- BridgeSubSteps,
  AGENT_STEP_LIMIT <- BridgeSteps, TOOL_WINDOW <- 3, REPEAT_LIMIT <- 2, MaxCalls <- 1,
  BadArguments <- BridgeArguments, Enforce <- BOOLEAN, enforce <- v2, call <- v3, lineages <- v4,
  subagentOutcomes <- v5, steps <- v6, reads <- v7, errors <- v8, autoPlanApprovals <- v9,
  planRecoveries <- v11, failure <- v12, unansweredQuestion <- v13, file <- v14, planActive <- v15,
  notices <- v16, calls <- v17, wrote <- v18, exitCode <- v19,
  Repetitions <- 1, RepoOf <- Each, UserInterrupts <- Interrupts, HasValidation <- TRUE,
  MaxVersion <- Versions, step <- v2, version <- v3, locked <- v5,
  clean <- v6, trials <- v8, validation <- v9, error <- v10, run <- v11, group <- v12,
  outside <- v15, scan <- v17, report <- v18, expired <- v19, ran <- v20
Plan == INSTANCE RunProofs WITH   \* one task, interrupts; Claude's second profile; two subagents
  TraceTypes <- {"agentinfer", "agentX", "tracelab", "inferact"}, Request <- {"q1", "q2"},
  RunTimeout <- TRUE, pc <- v1, trace_type <- v2, held <- v3, state <- v4, started <- v5,
  planned <- v6, files <- v7, captures <- v8, evidence <- v9, status <- v10, nodes <- v11,
  facts <- v12, complete <- v13, outcome <- v14,
  Task <- {"t1"}, Deadline <- TRUE, CommandsFail <- TRUE, MaxInterrupts <- 2, phase <- v1,
  owner_cancelled <- v2, processes <- v3, snapshot <- v4, target <- v5, at <- v6, cmd <- v7,
  proc <- v8, child <- v9, rc <- v10, cache <- v11, ws <- v12, interrupts <- v13,
  Profile <- "plan-subagent", Dialogs <- PlanDialogs, BackToBack <- FALSE, IdleTimeout <- 4,
  RetrySeconds <- 2, MaxAttempts <- 2, MaxTime <- 13, interaction <- v1, idle <- v2, screen <- v3,
  long <- v4, now <- v5, action <- v6, seen <- v7,
  TaskDeadline <- 2, StartupTime <- 1, PromptTime <- 1, MinEvents <- 2, MinRepeats <- 2, Recent <- 2,
  MaxCancels <- 1, result <- v2, clock <- v3, launch <- v4, kill <- v5, tmux <- v6, pane <- v7,
  prompt <- v8, pastes <- v9, log <- v10, torn <- v11, view <- v12, cancels <- v13, cancelled <- v14,
  MaxEvents <- 2, DriverCancels <- 2, raised <- v2, events <- v3, handle <- v4, stop <- v5,
  stopFailed <- v6, timedOut <- v7, terminal <- v9, verdict <- v10, exit <- v11, reason <- v12,
  TailLength <- 2, Flush <- BOOLEAN, enforce_plan_mode <- v3, flush <- v4, stage <- v5, leader <- v6,
  code <- v7, return_code <- v8, disk <- v9, cause <- v10, collection <- v12, git <- v15,
  helper <- v16, termination_reason <- v17, status_written <- v18,
  Lead <- "lead", Children <- {"c1", "c2"}, SUBAGENT_STEP_LIMIT <- 1, AGENT_STEP_LIMIT <- 5,
  TOOL_WINDOW <- 3, REPEAT_LIMIT <- 2, MaxCalls <- 1,
  BadArguments <- {FALSE}, Enforce <- {TRUE}, enforce <- v2, call <- v3, lineages <- v4,
  subagentOutcomes <- v5, steps <- v6, reads <- v7, errors <- v8, autoPlanApprovals <- v9,
  planRecoveries <- v11, failure <- v12, unansweredQuestion <- v13, file <- v14, planActive <- v15,
  notices <- v16, calls <- v17, wrote <- v18, exitCode <- v19,
  Repetitions <- 2, RepoOf <- Shared, UserInterrupts <- 1, HasValidation <- TRUE,
  MaxVersion <- Versions, step <- v2, version <- v3, locked <- v5,
  clean <- v6, trials <- v8, validation <- v9, error <- v10, run <- v11, group <- v12,
  outside <- v15, scan <- v17, report <- v18, expired <- v19, ran <- v20
Tok == INSTANCE TokenizerCacheProofs WITH
  Task <- {"t1", "t2"}, SharedNs <- {"s", "u"}, PreparedNs <- {"s"}, Node <- {n1, n3},
  Worker <- {w1}, NumPermits <- 1, MaxAttempts <- 2, UsesTokenIds <- FALSE, phase <- v1,
  local <- v2, todo <- v3, seeds <- v4, texts <- v5, op <- v6, tries <- v7, doomed <- v8,
  permits <- v9, at <- v10, want <- v11, answer <- v12, release <- v13, fetched <- v14
Pair == INSTANCE TokenizerCacheProofs WITH
  Task <- {"t1"}, SharedNs <- {"s"}, PreparedNs <- {}, Node <- {n1, n2}, Worker <- {w1},
  NumPermits <- 1, MaxAttempts <- 2, UsesTokenIds <- FALSE, phase <- v1, local <- v2, todo <- v3,
  seeds <- v4, texts <- v5, op <- v6, tries <- v7, doomed <- v8, permits <- v9, at <- v10,
  want <- v11, answer <- v12, release <- v13, fetched <- v14
Calib == INSTANCE PromptCalibration WITH
  Current <- FALSE, Target <- 3, MaxCount <- 4, History <- FillerLengths, UserLength <- 0,
  Rounds <- 2, Offsets <- PromptOffsets, Variants <- 2, TrimLimit <- 1, Tolerance <- 1, pc <- v1,
  prompt <- v2, count <- v3, counted <- v4, history <- v5, stalled <- v6, round <- v7,
  requested <- v8, attempts <- v9, trimmed <- v10, base <- v11, search <- v12, rep <- v13
Turn == INSTANCE PromptCalibration WITH
  Current <- TRUE, Target <- 2, MaxCount <- 4, History <- FillerLengths, UserLength <- 3,
  Rounds <- 2, Offsets <- TurnOffsets, Variants <- 2, TrimLimit <- 1, Tolerance <- 0, pc <- v1,
  prompt <- v2, count <- v3, counted <- v4, history <- v5, stalled <- v6, round <- v7,
  requested <- v8, attempts <- v9, trimmed <- v10, base <- v11, search <- v12, rep <- v13
Trace == INSTANCE RequestProxyProofs WITH   \* the trace writer alone; v11 to v22 stay unused
  Fact <- {"f1", "f2", "f3"}, Closer <- {"c1", "c2"}, queue <- v1, unfinished <- v2, writer <- v3,
  current <- v4, file <- v5, accepted <- v6, written <- v7, failed <- v8, closed <- v9,
  closer <- v10, accepting <- v11, active <- v12, request <- v13, completed <- v14, outcome <- v15,
  closing <- v16, close_health <- v17, server <- v18, process <- v19, lifecycle <- v20,
  cancelled <- v21, result <- v22
Proxy == INSTANCE RequestProxyProofs WITH
  Fact <- Request, Closer <- {ShutdownHandler, ExitProxy, ExitWriter}, queue <- v1,
  unfinished <- v2, writer <- v3, current <- v4, file <- v5, accepted <- v6, written <- v7,
  failed <- v8, closed <- v9, closer <- v10, accepting <- v11, active <- v12, request <- v13,
  completed <- v14, outcome <- v15, closing <- v16, close_health <- v17, server <- v18,
  process <- v19, lifecycle <- v20, cancelled <- v21, result <- v22
Bench == INSTANCE BenchRunner WITH
  MaxConcurrency <- BenchConcurrency, RunTimeout <- TRUE, pc <- v1, interrupted <- v2, task <- v3,
  cancel <- v4, results <- v5, files <- v6, proxy <- v7, preflight_succeeded <- v8,
  run_exception <- v9, facts <- v10, vllm <- v11, errors <- v12, captures <- v13, disk <- v14,
  faults <- v15, outcome <- v16, workers <- v17

ASSUME ExecAssumption == Exec!ExecutorAssumption
ASSUME ExecXAssumption == ExecX!ExecutorAssumption
ASSUME RunnerAssumption == Runs!Replay!RunnerAssumption
ASSUME TokAssumption == Tok!TokenizerAssumption
ASSUME PairAssumption == Pair!TokenizerAssumption
ASSUME TraceAssumption == Trace!TraceAssumption
ASSUME ProxyAssumption == Proxy!TraceAssumption /\ Proxy!ClosersAssumption
ASSUME BenchAssumption == Bench!BenchAssumption
ASSUME SpaceAssumption == Runs!Space!WorkspaceAssumption
ASSUME InterruptAssumption == Plan!Space!WorkspaceAssumption
ASSUME ScreenAssumption == Runs!Dialog!InteractionAssumption
ASSUME PlanAssumption == Plan!Dialog!InteractionAssumption
ASSUME ClaudeAssumption == Runs!Claude!ClaudeRunnerAssumption
ASSUME JiuwenAssumption == Runs!Jiuwen!JiuwenAssumption
ASSUME BridgeAssumption == Runs!Bridge!BridgeAssumption
ASSUME DshPlanAssumption == Plan!Bridge!BridgeAssumption
ASSUME DshAssumption == Runs!Dsh!DshRunnerAssumption
ASSUME ExptAssumption == Runs!Expt!ExperimentAssumption
ASSUME SharedAssumption == Plan!Expt!ExperimentAssumption

Init ==
  /\ part \in Parts
  /\ \/ part = "executor" /\ Exec!Init /\ Unused11
     \/ part = "executor_agentx" /\ ExecX!Init /\ Unused11
     \/ part = "runner" /\ Runs!Replay!Init /\ Unused15
     \/ part = "tokenizer" /\ Tok!Init /\ Unused15
     \/ part = "tokenizer_pair" /\ Pair!Init /\ Unused15
     \/ part = "calibration" /\ Calib!Init /\ Unused14
     \/ part = "calibration_turn" /\ Turn!Init /\ Unused14
     \/ part = "trace" /\ Trace!TraceInit /\ Unused11
     \/ part = "proxy" /\ Proxy!Init
     \/ part = "bench" /\ Bench!Init /\ Unused18
     \/ part = "workspace" /\ Runs!Space!Init /\ Unused14
     \/ part = "workspace_interrupt" /\ Plan!Space!Init /\ Unused14
     \/ part = "screen" /\ Runs!Dialog!Init /\ Unused8
     \/ part = "screen_plan" /\ Plan!Dialog!Init /\ Unused8
     \/ part = "claude" /\ Runs!Claude!Init /\ Unused15
     \/ part = "jiuwen" /\ Runs!Jiuwen!JwInit /\ Unused15
     \/ part = "dsh_bridge" /\ Runs!Bridge!BridgeInit /\ Unused20
     \/ part = "dsh_plan" /\ Plan!Bridge!BridgeInit /\ Unused20
     \/ part = "dsh_run" /\ Runs!Dsh!DshInit /\ Unused19
     \/ part = "experiment" /\ Runs!Expt!ExpInit /\ Unused21
     \/ part = "experiment_shared" /\ Plan!Expt!ExpInit /\ Unused21

Next ==
  \/ part = "executor" /\ Exec!Next /\ UNCHANGED <<part, from11>>
  \/ part = "executor_agentx" /\ ExecX!Next /\ UNCHANGED <<part, from11>>
  \/ part = "runner" /\ Runs!Replay!Next /\ UNCHANGED <<part, from15>>
  \/ part = "tokenizer" /\ Tok!Next /\ UNCHANGED <<part, from15>>
  \/ part = "tokenizer_pair" /\ Pair!Next /\ UNCHANGED <<part, from15>>
  \/ part = "calibration" /\ Calib!Next /\ UNCHANGED <<part, from14>>
  \/ part = "calibration_turn" /\ Turn!Next /\ UNCHANGED <<part, from14>>
  \/ part = "trace" /\ Trace!TraceNext /\ UNCHANGED <<part, from11>>
  \/ part = "proxy" /\ Proxy!Next /\ UNCHANGED part
  \/ part = "bench" /\ Bench!Next /\ UNCHANGED <<part, from18>>
  \/ part = "workspace" /\ Runs!Space!Next /\ UNCHANGED <<part, from14>>
  \/ part = "workspace_interrupt" /\ Plan!Space!Next /\ UNCHANGED <<part, from14>>
  \/ part = "screen" /\ Runs!Dialog!Next /\ UNCHANGED <<part, from8>>
  \/ part = "screen_plan" /\ Plan!Dialog!Next /\ UNCHANGED <<part, from8>>
  \/ part = "claude" /\ Runs!Claude!Next /\ UNCHANGED <<part, from15>>
  \/ part = "jiuwen" /\ Runs!Jiuwen!JwNext /\ UNCHANGED <<part, from15>>
  \/ part = "dsh_bridge" /\ Runs!Bridge!BridgeNext /\ UNCHANGED <<part, from20>>
  \/ part = "dsh_plan" /\ Plan!Bridge!BridgeNext /\ UNCHANGED <<part, from20>>
  \/ part = "dsh_run" /\ Runs!Dsh!DshNext /\ UNCHANGED <<part, from19>>
  \/ part = "experiment" /\ Runs!Expt!ExpNext /\ UNCHANGED <<part, from21>>
  \/ part = "experiment_shared" /\ Plan!Expt!ExpNext /\ UNCHANGED <<part, from21>>

Spec == Init /\ [][Next]_vars
-----------------------------------------------------------------------------
(* Fairness.  The part of a behaviour never changes, so the i-th condition  *)
(* of weak fairness of every component is stated together with those of the *)
(* other components: FairStep(i).                                           *)

\* The coroutines of the tokenizer client, and of the run that uses it.
PairKeys == <<Pair!Seed("t1"), Pair!Seed("s"), Pair!Text("t1"), Pair!Text("s"), Pair!Count(n1), Pair!Count(n2)>>
PairCallers == <<n1, n2, w1>>
Closers == <<"c1", "c2">>

\* Executor: the event loop runs every ready coroutine, Prompt construction
\* ends, and every request ends (the HTTP client has a timeout).  Runner: the
\* local steps are taken, the timeouts expire and the closes return; prepare()
\* and execute() may hang.  Tokenizer client: the semaphore is FIFO and the
\* HTTP client has a timeout; nothing makes a node be cancelled.
ReplayStep(i) ==
  \/ part = "executor" /\ UNCHANGED from11
     /\ \/ i = 1 /\ Exec!TaskStep("t1")
        \/ \E k \in 1 .. 3 : i = k + 1 /\ Exec!NodeStep(<<"t1", k>>)
  \/ part = "runner" /\ UNCHANGED from15
     /\ \/ i = 1 /\ Runs!Replay!Local
        \/ i = 2 /\ Runs!Replay!Expire
  \/ part = "tokenizer_pair" /\ UNCHANGED from15
     /\ \/ \E k \in 1 .. 6 : i = k /\ Pair!OpStep(PairKeys[k])
        \/ \E k \in 1 .. 3 : i = k + 6 /\ Pair!CallStep(PairCallers[k])
        \/ i = 10 /\ Pair!RunStep

\* Trace writer: the loop runs the task and the callers, and the executor
\* thread ends every file operation; a caller that closes is not assumed to
\* come.  Proxy: the parent runs and its timeouts expire; nothing is assumed of
\* the child.  Benchmark: the run timeout fires, a cancellation is delivered
\* and what follows an await that has finished runs; no command, no backend
\* and no agent has to answer.
ServiceStep(i) ==
  \/ part = "trace" /\ UNCHANGED from11
     /\ \/ i = 1 /\ Trace!WriterStep
        \/ i = 2 /\ (Trace!Joined("c1") \/ Trace!CloseReturns("c1"))
        \/ i = 3 /\ (Trace!Joined("c2") \/ Trace!CloseReturns("c2"))
  \/ part = "proxy" /\ i = 1 /\ Proxy!ParentStep
  \/ part = "bench" /\ UNCHANGED from18
     /\ \/ i = 1 /\ Bench!Interrupt
        \/ i = 2 /\ (Bench!LoadTasks \/ Bench!CreateProxy)
        \/ i = 3 /\ (Bench!GatherDone \/ Bench!GatherFails \/ Bench!Drained)
        \/ i = 4 /\ Bench!Finalize
        \/ i = 5 /\ Bench!CancelTask(a1)

\* Claude: the loop runs the coroutine, threads end within their time limits
\* and time passes; nothing is assumed of Claude or of the tmux server.
\* Jiuwen: every wait of the runner is bounded by a timeout, and SIGKILL ends
\* a process.  Dsh: the harness goes on with every agent as long as it can.
\* Experiment: run_experiment() goes on and the deadline of the run passes;
\* nothing is assumed of the commands.
DriverStep(i) ==
  \/ part = "claude" /\ UNCHANGED from15
     /\ \/ i = 1 /\ Runs!Claude!Runner
        \/ i = 2 /\ Runs!Claude!LaunchEnds
        \/ i = 3 /\ Runs!Claude!KillEnds
        \/ i = 4 /\ Runs!Claude!Tick
  \/ part = "jiuwen" /\ UNCHANGED from15 /\ i = 1 /\ Runs!Jiuwen!Step
  \/ part = "dsh_bridge" /\ UNCHANGED from20 /\ i = 1 /\ Runs!Bridge!BridgeNext
  \/ part = "experiment" /\ UNCHANGED from21
     /\ \/ i = 1 /\ Runs!Expt!Loop
        \/ i = 2 /\ Runs!Expt!Expire

FairStep(i) == UNCHANGED part /\ (ReplayStep(i) \/ ServiceStep(i) \/ DriverStep(i))
FairSpec == Spec /\ \A i \in 1 .. 10 : WF_vars(FairStep(i))
-----------------------------------------------------------------------------
(* Replay.                                                                 *)

\* The executor's books: a node has one result and its shared completion says
\* the same as the result; a result is lost only to a cancellation; a request
\* is sent after every dependency of its node and skipped only for its context;
\* a task that is reported completed has exactly its nodes' results, and the
\* AgentX limits on open tasks and on requests in flight hold
\* (ReplayExecutor._execute_node, execute).
ExecutorExact ==
  /\ part = "executor" =>
       /\ Exec!ExecutorTypeOK
       /\ Exec!OneResultPerNode /\ Exec!CompletionAgreesWithResult /\ Exec!LostOnlyWhenCancelled
       /\ Exec!SentAfterDependencies /\ Exec!SkippedOnlyByContext
       /\ Exec!ExchangesCarryIds /\ Exec!CompletedTaskIsExact
  /\ part = "executor_agentx" => ExecX!WithinLimits /\ ExecX!CompletedTaskIsExact

\* However run_replay() ends, each resource it opened is closed once and the
\* writer outlives the transport whose facts it records; a run reported
\* completed has a fact for every planned node, manifest, plan and summary
\* agree, and the evidence the verdict rests on is on disk.
RunnerSound ==
  part = "runner" =>
    /\ Runs!Replay!RunnerTypeOK
    /\ Runs!Replay!ClosedOnce /\ Runs!Replay!WriterOutlivesTransport /\ Runs!Replay!NothingLeftOpen
    /\ Runs!Replay!CompletedIsCovered /\ Runs!Replay!VerdictsAgree /\ Runs!Replay!EvidenceOnDisk

\* Nodes of several tasks share one tokenization: cancelling one waiter never
\* cancels what another one awaits, a text is fetched once, a released task
\* leaves no entry behind, and the semaphore's permits are neither lost nor
\* duplicated (BackendTokenizer._shared_or_start, release_task).
TokenizerShared ==
  /\ part = "tokenizer" =>
       /\ Tok!TokenizerTypeOK
       /\ Tok!NoForeignCancellation /\ Tok!ReleasedLeavesNothing /\ Tok!FetchedOnce /\ Tok!PermitsBalance
  /\ part = "tokenizer_pair" => Pair!NoForeignCancellation /\ Pair!FetchedOnce

\* The count that a calibration accepts was measured on the prompt it returns,
\* its running totals describe that prompt, the repair keeps the closest
\* candidate it tried, nearest offsets first, and a turn keeps the longest
\* prefix that fits.
CalibrationSound ==
  /\ part = "calibration" =>
       /\ Calib!CalibrationTypeOK
       /\ Calib!FinalCountIsMeasured /\ Calib!TotalsDescribePrompt
       /\ Calib!RepairPicksClosest /\ Calib!NearestFirst
  /\ part = "calibration_turn" =>
       Turn!FinalCountIsMeasured /\ Turn!RepairPicksClosest /\ Turn!LongestPrefixKept

\* The binary search of the trim ends on the cut it looked for.
TrimSearches == [][part = "calibration" => Calib!TrimFindsCut]_vars
-----------------------------------------------------------------------------
(* Benchmark run.                                                          *)

\* The request proxy and its trace writer: the queue's join count is what is
\* pending, the file is a prefix of the accepted facts and complete when the
\* writer reports health; the number of active requests is exact, a clean
\* shutdown means that all of them were drained and every fact of theirs is in
\* the file, and a request is cancelled only after its completion is recorded.
ProxySound ==
  /\ part = "trace" =>
       /\ Trace!TraceTypeOK
       /\ Trace!JoinCountsPending /\ Trace!FileIsPrefix /\ Trace!CleanHealthIsComplete
  /\ part = "proxy" =>
       /\ Proxy!ProxyTypeOK
       /\ Proxy!ActiveIsExact /\ Proxy!CleanCloseHasEveryFact /\ Proxy!CleanMeansDrained
       /\ Proxy!CancelAfterCompletion

\* However a benchmark run ends: no task outlives it, the index lists exactly
\* the results on disk, a returned run is complete, summary and manifest agree,
\* the first failure is not masked by a later one of the finalisation and every
\* fault of it is reported, the proxy is closed and the manifest on disk says how
\* the run ended.
BenchSound ==
  part = "bench" =>
    /\ Bench!BenchTypeOK
    /\ Bench!NoTaskOutlivesRun /\ Bench!IndexMatchesResults /\ Bench!ReturnedIsComplete
    /\ Bench!SummaryAgreesWithManifest /\ Bench!FailureNotMasked /\ Bench!EveryFaultReported
    /\ Bench!ProxyClosed /\ Bench!ManifestReflectsRun

\* The manifest a run leaves on disk says how the run ended
\* (benchkit/artifacts/finalizer.py: the manifest is the last thing written).
ManifestReflectsRun == part = "bench" => Bench!ManifestReflectsRun

\* A workspace that is handed to a task is at its base commit, the threads that
\* set it up leave no lock and no partial clone behind when they end, and no
\* subprocess survives its command.
WorkspaceSound ==
  /\ part = "workspace" =>
       /\ Runs!Space!WorkspaceTypeOK
       /\ Runs!Space!ReadyIsBase /\ Runs!Space!ThreadsLeaveNothing /\ Runs!Space!NoStrayProcess
  /\ part = "workspace_interrupt" =>
       /\ Plan!Space!WorkspaceTypeOK
       /\ Plan!Space!ReadyIsBase /\ Plan!Space!ThreadsLeaveNothing /\ Plan!Space!NoStrayProcess

\* Claude's terminal: every dialog that appears is answered, with one Enter,
\* and the patch check waits for an idle screen; the runner stops its tmux
\* server, a completed run is backed by what the transcript holds now, a lost
\* session is named as such, and the prompt is pasted once.
ClaudeSound ==
  /\ part = "screen" =>
       /\ Runs!Dialog!InteractionTypeOK
       /\ Runs!Dialog!EveryAppearanceAnswered /\ Runs!Dialog!OneEnterPerAppearance
       /\ Runs!Dialog!CheckAfterIdle
  /\ part = "screen_plan" =>
       /\ Plan!Dialog!InteractionTypeOK
       /\ Plan!Dialog!EveryAppearanceAnswered /\ Plan!Dialog!OneEnterPerAppearance
  /\ part = "claude" =>
       /\ Runs!Claude!ClaudeRunnerTypeOK
       /\ Runs!Claude!ServerStopped /\ Runs!Claude!CompletedIsBacked /\ Runs!Claude!JudgedOnCurrent
       /\ Runs!Claude!LostSessionNamed /\ Runs!Claude!PromptPastedOnce

\* The Jiuwen and Dsh drivers: no process of theirs is left when they return, a
\* completed verdict is backed by the evidence on disk, the first cause of a
\* failure stands and a cancellation is raised again; the Dsh bridge's file is
\* current at every moment, a read loop is stopped, and no work starts before
\* the plan is approved.  An InferRSI experiment: a verdict rests on both sides'
\* full and paired trials over one and the same source, status.json says how the
\* run went, the server of a helper that crashed dies with it, and stop_server()
\* reports completed only if nothing is left.
RunnersSound ==
  /\ part = "jiuwen" =>
       /\ Runs!Jiuwen!JwTypeOK /\ Runs!Jiuwen!NoProcessLeft
       /\ Runs!Jiuwen!CompletedIsBacked /\ Runs!Jiuwen!CancelledRaises
  /\ part = "dsh_bridge" => Runs!Bridge!BridgeTypeOK /\ Runs!Bridge!FileIsCurrent /\ Runs!Bridge!NoReadLoop
  /\ part = "dsh_plan" => Plan!Bridge!NoWorkBeforeApproval /\ Plan!Bridge!CleanExitIsPlanned
  /\ part = "dsh_run" =>
       /\ Runs!Dsh!DshTypeOK
       /\ Runs!Dsh!NoProcessLeft /\ Runs!Dsh!CompletedIsBacked /\ Runs!Dsh!CauseStands
       /\ Runs!Dsh!CancelledRaises
  /\ part = "experiment" =>
       /\ Runs!Expt!ExpTypeOK
       /\ Runs!Expt!VerdictIsBacked /\ Runs!Expt!StatusIsTrue /\ Runs!Expt!NoProcessLeft
       /\ Runs!Expt!ReportIsTrue /\ Runs!Expt!TrialsPaired
  /\ part = "experiment_shared" =>
       /\ Plan!Expt!VerdictIsBacked /\ Plan!Expt!StatusIsTrue
       /\ Plan!Expt!NoProcessLeft /\ Plan!Expt!TrialsPaired

\* What a driver's step never does: press a key again before its retry time,
\* replace the first failure of a Dsh run, approve a plan before exploration.
DriverSteps ==
  [][/\ part = "screen" => Runs!Dialog!RetriesSpaced
     /\ part = "screen_plan" => Plan!Dialog!RetriesSpaced
     /\ part = "dsh_bridge" => Runs!Bridge!FirstFailureStands
     /\ part = "dsh_plan" => Plan!Bridge!ApprovedAfterExploration]_vars
-----------------------------------------------------------------------------
(* Liveness.                                                               *)

\* The component of this behaviour has come to its end.
RunOver ==
  CASE part = "executor" -> Exec!Finished("t1")
    [] part = "runner" -> Runs!Replay!RunOver
    [] part = "tokenizer_pair" -> Pair!ClientClosed
    [] part = "proxy" -> Proxy!ShutDown
    [] part = "bench" -> Bench!RunOver
    [] part = "claude" -> Runs!Claude!Over
    [] part = "jiuwen" -> Runs!Jiuwen!RunOver
    [] part = "dsh_bridge" -> Runs!Bridge!RunOver
    [] part = "experiment" -> Runs!Expt!RunOver
    [] OTHER -> TRUE

\* Every run ends: the tasks of a replay finish, run_replay() ends even if
\* preparation or execution hangs, the tokenizer client closes, the
\* parent's shutdown of the proxy returns whatever the child does,
\* the benchmark run ends after its timeout whoever hangs, the Claude and
\* Jiuwen runners return although the agent hangs, a Dsh process exits, and an
\* experiment ends although its commands hang.
RunsEnd == <>RunOver

\* The i-th waiter: a call of the tokenizer client, a close() of the trace
\* writer, Jiuwen's stop of a process.
Waiting(i) ==
  \/ part = "tokenizer_pair" /\ Pair!Waits(PairCallers[i])
  \/ part = "trace" /\ i < 3 /\ Trace!Closing(Closers[i])
  \/ part = "jiuwen" /\ i = 1 /\ ~Runs!Jiuwen!NothingToStop
Answered(i) ==
  \/ part = "tokenizer_pair" /\ Pair!Stopped(PairCallers[i])
  \/ part = "trace" /\ i < 3 /\ Trace!Returned(Closers[i])
  \/ part = "jiuwen" /\ i = 1 /\ Runs!Jiuwen!NothingToStop

\* Nobody waits for ever: a call of the tokenizer client ends although the
\* waiter that started the shared operation is cancelled, a close() of the
\* trace writer returns even if the writer dies meanwhile, and a process that
\* Jiuwen began to stop is not left half stopped.
WaitersAnswered == \A i \in 1 .. 3 : Waiting(i) ~> Answered(i)
-----------------------------------------------------------------------------
(***************************************************************************)
(* What the components' own theorems say, of the behaviours of this        *)
(* module: part never changes, so the steps of a behaviour are those of    *)
(* its component, and the component's inductive invariant is one here.     *)
(***************************************************************************)

\* The trace writer and the request proxy are sound in every run of this
\* module, for any set of requests (request_trace.py, server.py, lifecycle.py).
THEOREM ProxyAlwaysSound == Spec => []ProxySound
<1> DEFINE Inv == /\ part = "trace" => Trace!TraceInv
                  /\ part = "proxy" => Proxy!ProxyInv
<1>1. Init => Inv
  BY TraceAssumption, ProxyAssumption, Trace!TraceInitInv, Proxy!ProxyInitInv DEF Init
<1>2. Inv /\ [Next]_vars => Inv'
  <2> SUFFICES ASSUME Inv, [Next]_vars PROVE Inv'
    OBVIOUS
  <2>1. part' = part
    BY DEF Next, vars
  <2>2. CASE part = "trace"
    <3>1. Trace!TraceNext \/ UNCHANGED Trace!traceVars
      BY <2>2 DEF Next, vars, Trace!traceVars
    <3> QED BY <2>1, <2>2, <3>1, TraceAssumption, Trace!TraceStep
  <2>3. CASE part = "proxy"
    <3>1. Proxy!Next \/ UNCHANGED Proxy!vars
      BY <2>3 DEF Next, vars, Proxy!vars, Proxy!traceVars, Proxy!proxyVars
    <3> QED BY <2>1, <2>3, <3>1, ProxyAssumption, Proxy!ProxyStep
  <2> QED BY <2>1, <2>2, <2>3
<1>3. Inv => ProxySound
  BY TraceAssumption, ProxyAssumption, Trace!TraceInvImplies, Proxy!ProxyInvImplies DEF ProxySound
<1> QED BY <1>1, <1>2, <1>3, PTL DEF Spec

\* The shared tokenizer client never lets a cancellation reach another caller,
\* forgets a released task and balances its permits, in every run of this module
\* (BackendTokenizer._shared_or_start, release_task).
THEOREM TokenizerAlwaysShared == Spec => []TokenizerShared
<1> DEFINE Inv == /\ part = "tokenizer" => Tok!TokenizerInv
                  /\ part = "tokenizer_pair" => Pair!TokenizerInv
<1>1. Init => Inv
  BY TokAssumption, PairAssumption, Tok!InitInv, Pair!InitInv DEF Init
<1>2. Inv /\ [Next]_vars => Inv'
  <2> SUFFICES ASSUME Inv, [Next]_vars PROVE Inv'
    OBVIOUS
  <2>1. part' = part
    BY DEF Next, vars
  <2>2. CASE part = "tokenizer"
    <3>1. Tok!Next \/ UNCHANGED Tok!vars
      BY <2>2 DEF Next, vars, Tok!vars
    <3> QED BY <2>1, <2>2, <3>1, TokAssumption, Tok!TokenizerStep
  <2>3. CASE part = "tokenizer_pair"
    <3>1. Pair!Next \/ UNCHANGED Pair!vars
      BY <2>3 DEF Next, vars, Pair!vars
    <3> QED BY <2>1, <2>3, <3>1, PairAssumption, Pair!TokenizerStep
  <2> QED BY <2>1, <2>2, <2>3
<1>3. Inv => TokenizerShared
  BY Tok!TokenizerInvImplies, Pair!TokenizerInvImplies DEF TokenizerShared
<1> QED BY <1>1, <1>2, <1>3, PTL DEF Spec

\* The replay executor's results, futures, facts and permits agree, in every run
\* of this module (ReplayExecutor._execute_node, execute).
THEOREM ExecutorAlwaysExact == Spec => []ExecutorExact
<1> DEFINE Inv == /\ part = "executor" => Exec!ExecInv
                  /\ part = "executor_agentx" => ExecX!ExecInv
<1>1. Init => Inv
  BY ExecAssumption, ExecXAssumption, Exec!ExecutorInitInv, ExecX!ExecutorInitInv DEF Init
<1>2. Inv /\ [Next]_vars => Inv'
  <2> SUFFICES ASSUME Inv, [Next]_vars PROVE Inv'
    OBVIOUS
  <2>1. part' = part
    BY DEF Next, vars
  <2>2. CASE part = "executor"
    <3>1. Exec!Next \/ UNCHANGED Exec!vars
      BY <2>2 DEF Next, vars, Exec!vars
    <3> QED BY <2>1, <2>2, <3>1, ExecAssumption, Exec!ExecutorStep
  <2>3. CASE part = "executor_agentx"
    <3>1. ExecX!Next \/ UNCHANGED ExecX!vars
      BY <2>3 DEF Next, vars, ExecX!vars
    <3> QED BY <2>1, <2>3, <3>1, ExecXAssumption, ExecX!ExecutorStep
  <2> QED BY <2>1, <2>2, <2>3
<1>3. Inv => ExecutorExact
  BY ExecAssumption, ExecXAssumption, Exec!ExecInvImplies, ExecX!ExecInvImplies DEF ExecutorExact
<1> QED BY <1>1, <1>2, <1>3, PTL DEF Spec

\* A benchmark run ends as its manifest says, whatever raises and whenever it
\* is interrupted, in every run of this module in which terminate_all() does not
\* raise (run_benchmark, RunFinalizer.finalize).
THEOREM BenchAlwaysSound ==
  ASSUME ~TerminateCanRaise
  PROVE  Spec => []BenchSound
<1> DEFINE Inv == part = "bench" => Bench!BenchInv
<1>1. Init => Inv
  BY BenchAssumption, Bench!BenchInitInv DEF Init
<1>2. Inv /\ [Next]_vars => Inv'
  <2> SUFFICES ASSUME Inv, [Next]_vars, part = "bench" PROVE Bench!BenchInv'
    BY DEF Next, vars
  <2>1. Bench!Next \/ UNCHANGED Bench!vars
    BY DEF Next, vars, Bench!vars, Bench!exec, Bench!final
  <2> QED BY <2>1, BenchAssumption, Bench!BenchStep
<1>3. Inv => BenchSound
  BY BenchAssumption, Bench!BenchInvImplies DEF BenchSound
<1> QED BY <1>1, <1>2, <1>3, PTL DEF Spec

\* run_replay() closes what it opened, and its verdict rests on facts and evidence
\* on disk, in every run of this module (replay/runner.py).
THEOREM RunnerAlwaysSound == Spec => []RunnerSound
<1> DEFINE Inv == part = "runner" => Runs!RunnerInv
<1>1. Init => Inv
  BY RunnerAssumption, Runs!RunnerInitInv DEF Init
<1>2. Inv /\ [Next]_vars => Inv'
  <2> SUFFICES ASSUME Inv, [Next]_vars, part = "runner" PROVE Runs!RunnerInv'
    BY DEF Next, vars
  <2>1. Runs!Replay!Next \/ UNCHANGED Runs!Replay!vars
    BY DEF Next, vars, Runs!Replay!vars, Runs!Replay!run, Runs!Replay!disk, Runs!Replay!data
  <2> QED BY <2>1, RunnerAssumption, Runs!RunnerStep
<1>3. Inv => RunnerSound
  BY RunnerAssumption, Runs!RunnerInvImplies DEF RunnerSound
<1> QED BY <1>1, <1>2, <1>3, PTL DEF Spec

\* A workspace is handed over at its base commit and no process outlives its
\* command or terminate_all(), for any set of tasks (benchkit/workspace.py).
THEOREM WorkspaceAlwaysSound == Spec => []WorkspaceSound
<1> DEFINE Inv == /\ part = "workspace" => Runs!WorkspaceInv
                  /\ part = "workspace_interrupt" => Plan!WorkspaceInv
<1>1. Init => Inv
  BY SpaceAssumption, InterruptAssumption, Runs!WorkspaceInitInv, Plan!WorkspaceInitInv DEF Init
<1>2. Inv /\ [Next]_vars => Inv'
  <2> SUFFICES ASSUME Inv, [Next]_vars PROVE Inv'
    OBVIOUS
  <2>0. part' = part
    BY DEF Next, vars
  <2>1. ASSUME part = "workspace" PROVE Runs!WorkspaceInv'
    <3>1. Runs!Space!Next \/ UNCHANGED Runs!Space!vars
      BY <2>1 DEF Next, vars, Runs!Space!vars, Runs!Space!main, Runs!Space!owner, Runs!Space!os, Runs!Space!disk
    <3> QED BY <2>1, <3>1, SpaceAssumption, Runs!WorkspaceStep
  <2>2. ASSUME part = "workspace_interrupt" PROVE Plan!WorkspaceInv'
    <3>1. Plan!Space!Next \/ UNCHANGED Plan!Space!vars
      BY <2>2 DEF Next, vars, Plan!Space!vars, Plan!Space!main, Plan!Space!owner, Plan!Space!os, Plan!Space!disk
    <3> QED BY <2>2, <3>1, InterruptAssumption, Plan!WorkspaceStep
  <2> QED BY <2>0, <2>1, <2>2
<1>3. Inv => WorkspaceSound
  BY SpaceAssumption, InterruptAssumption, Runs!WorkspaceInvImplies, Plan!WorkspaceInvImplies
  DEF WorkspaceSound
<1> QED BY <1>1, <1>2, <1>3, PTL DEF Spec

\* Every dialog of Claude's terminal is answered once, run_claude() stops its
\* server, and its verdict rests on the transcript as it is, in both profiles and
\* however many lines Claude writes (claude/interaction.py, claude/runner.py).
THEOREM ClaudeAlwaysSound == Spec => []ClaudeSound
<1> DEFINE Inv == /\ part = "screen" => Runs!ScreenInv
                  /\ part = "screen_plan" => Plan!ScreenInv
                  /\ part = "claude" => Runs!ClaudeInv
<1>1. Init => Inv
  BY ScreenAssumption, PlanAssumption, ClaudeAssumption, Runs!ScreenInitInv, Plan!ScreenInitInv,
     Runs!ClaudeInitInv DEF Init
<1>2. Inv /\ [Next]_vars => Inv'
  <2> SUFFICES ASSUME Inv, [Next]_vars PROVE Inv'
    OBVIOUS
  <2>0. part' = part
    BY DEF Next, vars
  <2>1. ASSUME part = "screen" PROVE Runs!ScreenInv'
    <3>1. Runs!Dialog!Next \/ UNCHANGED Runs!Dialog!vars
      BY <2>1 DEF Next, vars, Runs!Dialog!vars
    <3> QED BY <2>1, <3>1, ScreenAssumption, Runs!ScreenStep
  <2>2. ASSUME part = "screen_plan" PROVE Plan!ScreenInv'
    <3>1. Plan!Dialog!Next \/ UNCHANGED Plan!Dialog!vars
      BY <2>2 DEF Next, vars, Plan!Dialog!vars
    <3> QED BY <2>2, <3>1, PlanAssumption, Plan!ScreenStep
  <2>3. ASSUME part = "claude" PROVE Runs!ClaudeInv'
    <3>1. Runs!Claude!Next \/ UNCHANGED Runs!Claude!vars
      BY <2>3 DEF Next, vars, Runs!Claude!vars, Runs!Claude!claude
    <3> QED BY <2>3, <3>1, ClaudeAssumption, Runs!ClaudeStep
  <2> QED BY <2>0, <2>1, <2>2, <2>3
<1>3. Inv => ClaudeSound
  BY ScreenAssumption, PlanAssumption, ClaudeAssumption, Runs!ScreenInvImplies, Plan!ScreenInvImplies,
     Runs!ClaudeInvImplies DEF ClaudeSound
<1> QED BY <1>1, <1>2, <1>3, PTL DEF Spec

\* The Jiuwen and Dsh drivers leave no process behind and report a completion that
\* is backed by what is on disk, the Dsh bridge keeps its file current and its plan
\* in order, and an InferRSI experiment gives a verdict on full and paired trials
\* of one source, in every run of this module in which a cancellation does not hit
\* Jiuwen's start() while it cleans up (jiuwen/runner.py, dsh/runner.py, the bridge
\* extension, harness/runner.py).
THEOREM RunnersAlwaysSound ==
  ASSUME ~CancelInCleanup
  PROVE  Spec => []RunnersSound
<1> DEFINE Inv == /\ part = "jiuwen" => Runs!JiuwenInv
                  /\ part = "dsh_bridge" => Runs!BridgeInv
                  /\ part = "dsh_plan" => Plan!BridgeInv
                  /\ part = "dsh_run" => Runs!DshInv
                  /\ part = "experiment" => Runs!ExpInv
                  /\ part = "experiment_shared" => Plan!ExpInv
<1>1. Init => Inv
  BY JiuwenAssumption, BridgeAssumption, DshPlanAssumption, DshAssumption, ExptAssumption,
     SharedAssumption, Runs!JiuwenInitInv, Runs!BridgeInitInv, Plan!BridgeInitInv, Runs!DshInitInv,
     Runs!ExpInitInv, Plan!ExpInitInv DEF Init
<1>2. Inv /\ [Next]_vars => Inv'
  <2> SUFFICES ASSUME Inv, [Next]_vars PROVE Inv'
    OBVIOUS
  <2>0. part' = part
    BY DEF Next, vars
  <2>1. ASSUME part = "jiuwen" PROVE Runs!JiuwenInv'
    <3>1. Runs!Jiuwen!JwNext \/ UNCHANGED Runs!Jiuwen!jwVars
      BY <2>1 DEF Next, vars, Runs!Jiuwen!jwVars
    <3> QED BY <2>1, <3>1, JiuwenAssumption, Runs!JiuwenStep
  <2>2. ASSUME part = "dsh_bridge" PROVE Runs!BridgeInv'
    <3>1. Runs!Bridge!BridgeNext \/ UNCHANGED Runs!Bridge!bridgeVars
      BY <2>2 DEF Next, vars, Runs!Bridge!bridgeVars, Runs!Bridge!memory, Runs!Bridge!budgets
    <3> QED BY <2>2, <3>1, BridgeAssumption, Runs!BridgeStep
  <2>3. ASSUME part = "dsh_plan" PROVE Plan!BridgeInv'
    <3>1. Plan!Bridge!BridgeNext \/ UNCHANGED Plan!Bridge!bridgeVars
      BY <2>3 DEF Next, vars, Plan!Bridge!bridgeVars, Plan!Bridge!memory, Plan!Bridge!budgets
    <3> QED BY <2>3, <3>1, DshPlanAssumption, Plan!BridgeStep
  <2>4. ASSUME part = "dsh_run" PROVE Runs!DshInv'
    <3>1. Runs!Dsh!DshNext \/ UNCHANGED Runs!Dsh!dshVars
      BY <2>4 DEF Next, vars, Runs!Dsh!dshVars
    <3> QED BY <2>4, <3>1, DshAssumption, Runs!DshStep
  <2>5. ASSUME part = "experiment" PROVE Runs!ExpInv'
    <3>1. Runs!Expt!ExpNext \/ UNCHANGED Runs!Expt!expVars
      BY <2>5 DEF Next, vars, Runs!Expt!expVars
    <3> QED BY <2>5, <3>1, ExptAssumption, Runs!ExpStep
  <2>6. ASSUME part = "experiment_shared" PROVE Plan!ExpInv'
    <3>1. Plan!Expt!ExpNext \/ UNCHANGED Plan!Expt!expVars
      BY <2>6 DEF Next, vars, Plan!Expt!expVars
    <3> QED BY <2>6, <3>1, SharedAssumption, Plan!ExpStep
  <2> QED BY <2>0, <2>1, <2>2, <2>3, <2>4, <2>5, <2>6
<1>3. Inv => RunnersSound
  BY BridgeAssumption, DshPlanAssumption, DshAssumption, ExptAssumption, SharedAssumption,
     Runs!JiuwenInvImplies, Runs!BridgeInvImplies, Plan!BridgeInvImplies, Runs!DshInvImplies,
     Runs!ExpInvImplies, Plan!ExpInvImplies DEF RunnersSound
<1> QED BY <1>1, <1>2, <1>3, PTL DEF Spec

\* No key is pressed again before its retry time, the first failure of a Dsh run is
\* never replaced, and no plan is approved before exploration, in every run of this
\* module (InteractionController.process, the bridge's recordFailure and its handler
\* of user questions).
THEOREM DriverStepsHold == Spec => DriverSteps
<1> DEFINE Inv == /\ part = "screen" => Runs!ScreenInv
                  /\ part = "screen_plan" => Plan!ScreenInv
                  /\ part = "dsh_plan" => Plan!BridgeInv
           Allowed == /\ part = "screen" => Runs!Dialog!RetriesSpaced
                      /\ part = "screen_plan" => Plan!Dialog!RetriesSpaced
                      /\ part = "dsh_bridge" => Runs!Bridge!FirstFailureStands
                      /\ part = "dsh_plan" => Plan!Bridge!ApprovedAfterExploration
<1>1. Init => Inv
  BY ScreenAssumption, PlanAssumption, DshPlanAssumption, Runs!ScreenInitInv, Plan!ScreenInitInv,
     Plan!BridgeInitInv DEF Init
<1>2. Inv /\ [Next]_vars => Inv'
  <2> SUFFICES ASSUME Inv, [Next]_vars PROVE Inv'
    OBVIOUS
  <2>0. part' = part
    BY DEF Next, vars
  <2>1. ASSUME part = "screen" PROVE Runs!ScreenInv'
    <3>1. Runs!Dialog!Next \/ UNCHANGED Runs!Dialog!vars
      BY <2>1 DEF Next, vars, Runs!Dialog!vars
    <3> QED BY <2>1, <3>1, ScreenAssumption, Runs!ScreenStep
  <2>2. ASSUME part = "screen_plan" PROVE Plan!ScreenInv'
    <3>1. Plan!Dialog!Next \/ UNCHANGED Plan!Dialog!vars
      BY <2>2 DEF Next, vars, Plan!Dialog!vars
    <3> QED BY <2>2, <3>1, PlanAssumption, Plan!ScreenStep
  <2>3. ASSUME part = "dsh_plan" PROVE Plan!BridgeInv'
    <3>1. Plan!Bridge!BridgeNext \/ UNCHANGED Plan!Bridge!bridgeVars
      BY <2>3 DEF Next, vars, Plan!Bridge!bridgeVars, Plan!Bridge!memory, Plan!Bridge!budgets
    <3> QED BY <2>3, <3>1, DshPlanAssumption, Plan!BridgeStep
  <2> QED BY <2>0, <2>1, <2>2, <2>3
<1>3. Inv /\ [Next]_vars => [Allowed]_vars
  <2> SUFFICES ASSUME Inv, Next PROVE UNCHANGED vars \/ Allowed
    OBVIOUS
  <2>1. ASSUME part = "screen" PROVE UNCHANGED vars \/ Allowed
    <3>1. Runs!Dialog!Next /\ UNCHANGED <<part, from8>>
      BY <2>1 DEF Next
    <3>2. UNCHANGED Runs!Dialog!vars \/ Runs!Dialog!RetriesSpaced
      BY <2>1, <3>1, ScreenAssumption, Runs!RetryStep
    <3>3. UNCHANGED Runs!Dialog!vars => UNCHANGED vars
      BY <3>1 DEF vars, Runs!Dialog!vars, from8, from11, from14, from15, from17, from18, from19, from20, from21
    <3> QED BY <2>1, <3>2, <3>3
  <2>2. ASSUME part = "screen_plan" PROVE UNCHANGED vars \/ Allowed
    <3>1. Plan!Dialog!Next /\ UNCHANGED <<part, from8>>
      BY <2>2 DEF Next
    <3>2. UNCHANGED Plan!Dialog!vars \/ Plan!Dialog!RetriesSpaced
      BY <2>2, <3>1, PlanAssumption, Plan!RetryStep
    <3>3. UNCHANGED Plan!Dialog!vars => UNCHANGED vars
      BY <3>1 DEF vars, Plan!Dialog!vars, from8, from11, from14, from15, from17, from18, from19, from20, from21
    <3> QED BY <2>2, <3>2, <3>3
  <2>3. ASSUME part = "dsh_bridge" PROVE Allowed
    <3>1. Runs!Bridge!BridgeNext
      BY <2>3 DEF Next
    <3> QED BY <2>3, <3>1, Runs!FailureStep
  <2>4. ASSUME part = "dsh_plan" PROVE Allowed
    <3>1. Plan!Bridge!BridgeNext
      BY <2>4 DEF Next
    <3> QED BY <2>4, <3>1, Plan!ApprovalStep
  <2>5. part \notin {"screen", "screen_plan", "dsh_bridge", "dsh_plan"} => Allowed
    OBVIOUS
  <2> QED BY <2>1, <2>2, <2>3, <2>4, <2>5
<1> QED BY <1>1, <1>2, <1>3, PTL DEF Spec, DriverSteps
=============================================================================
