------------------------------ MODULE RunProofs ------------------------------
(***************************************************************************)
(* The parts of a run that own resources, files and processes, proved for  *)
(* every value of their constants: run_replay() (ReplayRunner), the        *)
(* threads that set up the workspaces of a benchmark run together with the *)
(* main thread that may cancel them (WorkspaceSetup), the handlers that    *)
(* answer Claude's terminal (ClaudeInteraction), run_claude()              *)
(* (ClaudeRunner), the Jiuwen and Dsh drivers (JiuwenRunner, DshRunner),   *)
(* the bridge inside a Dsh process (DshBridge) and an experiment of        *)
(* InferRSI (Experiment).  Each part has an inductive invariant, one lemma *)
(* per conjunct that a step can disturb, and the theorem that the part's   *)
(* properties hold of all its behaviours.                                  *)
(***************************************************************************)
EXTENDS Naturals, Sequences, FiniteSets, TLAPS, FiniteSetTheorems

CONSTANTS
  TraceTypes, Request, RunTimeout, None,              \* of a replay run
  Task, Deadline, CommandsFail, MaxInterrupts, Main,  \* of a workspace set-up
  Profile, Dialogs, BackToBack, IdleTimeout, RetrySeconds, MaxAttempts, MaxTime,   \* of the handlers
  TaskDeadline, StartupTime, PromptTime, MinEvents, MinRepeats, Recent, MaxLines,
  MaxCancels,          \* of run_claude()
  MaxEvents, CancelInCleanup, DriverCancels,          \* of the Jiuwen driver
  TailLength, Evidence, Flush,                        \* of the Dsh driver, with DriverCancels
  Lead, Children, SUBAGENT_STEP_LIMIT, AGENT_STEP_LIMIT, TOOL_WINDOW, REPEAT_LIMIT, MaxCalls,
  BadArguments, Enforce,                              \* of the bridge
  Repetitions, HasValidation, RepoOf, MaxVersion, UserInterrupts   \* of an experiment

VARIABLES
  pc, trace_type, held, state, started, planned, files, captures, evidence, status, nodes, facts,
  complete, outcome,   \* of a replay run
  phase, owner_cancelled, processes, snapshot, target, at, cmd, proc, child, rc, cache, ws,
  interrupts,          \* of a workspace set-up
  interaction, idle, screen, long, now, action, seen,   \* of the handlers
  result, clock, launch, kill, tmux, pane, prompt, pastes, log, torn, view, cancels,
  cancelled,           \* of run_claude(), with pc
  raised, handle, stop, stopFailed, timedOut, events, terminal, verdict, reason,
  exit,                \* of the Jiuwen driver, with pc, proc, outcome and cancels
  enforce_plan_mode, flush, stage, leader, helper, code, return_code, disk, cause, collection, git,
  termination_reason,
  status_written,      \* of the Dsh driver, with pc, raised, outcome, cancels and exit
  enforce, call, lineages, subagentOutcomes, steps, reads, errors, autoPlanApprovals, planRecoveries,
  failure, unansweredQuestion, file, planActive, notices, calls, wrote,
  exitCode,            \* of the bridge, with pc and log
  step, version, locked, clean, trials, validation, error, run, group, outside, scan, report,
  expired, ran         \* of an experiment, with pc, state, files, helper, interrupts and outcome

Replay == INSTANCE ReplayRunner
Space == INSTANCE WorkspaceSetup WITH cancelled <- owner_cancelled
Dialog == INSTANCE ClaudeInteraction WITH state <- interaction
Claude == INSTANCE ClaudeRunner WITH Deadline <- TaskDeadline
Jiuwen == INSTANCE JiuwenRunner WITH MaxCancels <- DriverCancels
Dsh == INSTANCE DshRunner WITH MaxCancels <- DriverCancels, phase <- stage
Bridge == INSTANCE DshBridge
Expt == INSTANCE Experiment WITH MaxInterrupts <- UserInterrupts
-----------------------------------------------------------------------------
(* run_replay().                                                           *)

\* The run's steps in the order it takes them, cut where a resource or a file appears.
UntilSource == {"requests", "source", "convert"}
UntilWriter == UntilSource \cup {"analysis", "plan", "write plan", "writer"}
UntilPrepared == UntilWriter \cup {"start writer", "tokenizer", "open warmup", "warmup", "close warmup",
                                   "prepare tasks", "preparation"}
Deciding == {"execution", "validation", "end metrics", "summary", "manifest"}
Executing == {"start metrics", "open transport", "execute", "transport done", "tokenizer done", "writer done", "verdict"}
Forward == UntilPrepared \cup Executing \cup Deciding
Closing == {"close transport", "close tokenizer", "close writer"}
Failing == {"fail plan", "fail preparation", "fail error", "fail manifest"}

Name == {"request_trace", "replay_conversion_manifest", "replay_source_analysis", "replay_plan",
         "tracelab_warmup", "replay_preparation", "replay_execution", "trace_record_validation",
         "vllm_start", "vllm_start unavailable", "vllm_end", "vllm_end unavailable", "replay_error"}

RunTypes ==
  /\ pc \in Forward \cup Closing \cup Failing \cup {"ended"}
  /\ started \in BOOLEAN /\ planned \in BOOLEAN /\ complete \in BOOLEAN
  /\ status \in [manifest : {"running", "completed", "failed"},
                 plan : {None, "active", "completed", "failed"},
                 summary : {None, "completed", "failed"}]
  /\ captures \in Seq(Name) /\ evidence \in Seq(Name)
  /\ facts \in [Request -> {"success", "error", "missing"}]

\* The steps at which the run holds nothing, the writer, the writer and the
\* tokenizer, or these and one of its two transports.
HoldsNothing == UntilWriter \cup {"verdict"} \cup Deciding
HoldsWriter == {"tokenizer", "writer done"}
HoldsBoth == {"open warmup", "prepare tasks", "preparation", "start metrics", "open transport", "tokenizer done"}
HoldsWarmup == {"warmup", "close warmup"}
HoldsReplay == {"execute", "transport done"}

Held(t, k, w) == held["transport"] = t /\ held["tokenizer"] = k /\ held["writer"] = w
Opened(S) == \A o \in Replay!Object : state[o] = "open" <=> o \in S

\* While the run goes forward, what it holds is what is open.
ForwardBooks ==
  /\ pc \in HoldsNothing => Held(None, None, None) /\ Opened(IF pc = "convert" THEN {"converter"} ELSE {}) /\ ~started
  /\ pc = "start writer" => Held(None, None, "writer") /\ Opened({}) /\ ~started
  /\ pc \in HoldsWriter => Held(None, None, "writer") /\ Opened({"writer"}) /\ started
  /\ pc \in HoldsBoth => Held(None, "tokenizer", "writer") /\ Opened({"tokenizer", "writer"}) /\ started
  /\ pc \in HoldsWarmup => Held("warmup", "tokenizer", "writer") /\ Opened({"warmup", "tokenizer", "writer"}) /\ started
  /\ pc \in HoldsReplay => Held("replay", "tokenizer", "writer") /\ Opened({"replay", "tokenizer", "writer"}) /\ started
  /\ pc \in UntilWriter \cup {"start writer"} => state["writer"] = "new"

\* The handler: what is open is held and still to be closed, and what is
\* still to be closed was not closed before.
HandlerBooks ==
  /\ pc = "close transport" => \A o \in {"warmup", "replay"} : o = held["transport"] => state[o] # "closed"
  /\ pc \in {"close transport", "close tokenizer"} /\ held["tokenizer"] # None => state["tokenizer"] # "closed"
  /\ pc \in Closing /\ held["writer"] # None => state["writer"] # "closed"
  /\ pc \notin Forward =>
       /\ state["converter"] # "open"
       /\ \A o \in {"warmup", "replay"} : state[o] = "open" => pc = "close transport" /\ held["transport"] = o
       /\ state["tokenizer"] = "open" => pc \in {"close transport", "close tokenizer"} /\ held["tokenizer"] # None
       /\ state["writer"] = "open" => pc \in Closing /\ held["writer"] # None /\ started

ResourceInv == ForwardBooks /\ HandlerBooks /\ Replay!ClosedOnce /\ Replay!WriterOutlivesTransport

\* What is on disk before the run ends.
VerdictInv ==
  /\ pc = "ended" <=> outcome # None
  /\ status.manifest = "completed" => outcome = "returned" /\ pc = "ended" /\ Replay!Complete
  /\ pc \in Deciding => (complete <=> Replay!Complete) /\ status.plan = Replay!Verdict(complete)
  /\ pc = "manifest" => status.summary = Replay!Verdict(complete)
  /\ pc \in {"fail preparation", "fail error", "fail manifest"} /\ planned => status.plan = "failed"
  /\ pc = "fail manifest" => \E i \in DOMAIN captures : captures[i] = "replay_error"
  /\ Replay!VerdictsAgree

\* What is captured is on disk, and each name is captured by one step: before
\* it, the name is not there.
CapturesExact ==
  /\ \A i \in DOMAIN captures : captures[i] \in files
  /\ \A i, j \in DOMAIN captures : captures[i] = captures[j] => i = j
NotYetWritten ==
  /\ pc = "requests" => "request_trace" \notin files
  /\ pc \in UntilSource => "replay_conversion_manifest" \notin files
  /\ pc \in UntilSource \cup {"analysis"} => "replay_source_analysis" \notin files
  /\ pc \in UntilWriter \ {"writer"} => "replay_plan" \notin files
  /\ pc \in UntilPrepared \ {"close warmup", "prepare tasks", "preparation"} => "tracelab_warmup" \notin files
  /\ pc \in UntilPrepared => "replay_preparation" \notin files
  /\ pc \in UntilPrepared \cup {"start metrics"} => "vllm_start" \notin files /\ "vllm_start unavailable" \notin files
  /\ pc \in UntilPrepared \cup Executing \cup {"execution", "validation", "end metrics"} =>
       "vllm_end" \notin files /\ "vllm_end unavailable" \notin files
  /\ pc \in UntilPrepared \cup Executing \cup {"execution"} => "replay_execution" \notin files
  /\ pc \in UntilPrepared \cup Executing \cup {"execution", "validation"} => "trace_record_validation" \notin files
  /\ pc \notin {"fail manifest", "ended"} => "replay_error" \notin files
CaptureInv == CapturesExact /\ Replay!EvidenceOnDisk /\ NotYetWritten

RunnerInv == Replay!RunnerTypeOK /\ RunTypes /\ ResourceInv /\ VerdictInv /\ CaptureInv

(* The steps that only move on, and the steps that raise, keep the books.  *)

ResourceTypes ==
  /\ Replay!RunnerTypeOK
  /\ pc \in Forward \cup Closing \cup Failing \cup {"ended"}
  /\ started \in BOOLEAN

\* A step within one zone touches no resource.
LEMMA QuietKeeps ==
  ASSUME Replay!RunnerAssumption, ResourceTypes, ResourceInv, UNCHANGED <<held, state, started>>,
         NEW Z \in {HoldsNothing, HoldsBoth, HoldsWarmup, HoldsReplay, Failing \cup {"ended"}}, pc \in Z, pc' \in Z,
         pc # "convert", pc' # "convert", pc' \in UntilWriter => pc \in UntilWriter
  PROVE  ResourceInv'
<1> USE DEF ResourceInv, Forward, Closing, Failing, UntilSource, UntilWriter, UntilPrepared, Executing,
    Deciding, Held, Opened, HoldsNothing, HoldsWriter, HoldsBoth, HoldsWarmup, HoldsReplay
<1>1. ForwardBooks'
  <2> USE DEF ForwardBooks
  <2>1. CASE Z = HoldsNothing
    BY <2>1
  <2>2. CASE Z = HoldsBoth
    BY <2>2
  <2>3. CASE Z \in {HoldsWarmup, HoldsReplay}
    BY <2>3
  <2>4. CASE Z = Failing \cup {"ended"}
    BY <2>4
  <2> QED BY <2>1, <2>2, <2>3, <2>4
<1>2. HandlerBooks'
  <2>1. CASE Z = Failing \cup {"ended"}
    BY <2>1 DEF HandlerBooks
  <2>2. CASE Z # Failing \cup {"ended"}
    <3>1. pc' \in Forward
      BY <2>2
    <3> QED BY <3>1 DEF HandlerBooks
  <2> QED BY <2>1, <2>2
<1>3. Replay!ClosedOnce' /\ Replay!WriterOutlivesTransport'
  BY DEF Replay!ClosedOnce, Replay!WriterOutlivesTransport
<1> QED BY <1>1, <1>2, <1>3 DEF ResourceInv

\* An exception while the run goes forward leaves to the handler what is held.
LEMMA RaiseKeeps ==
  ASSUME Replay!RunnerAssumption, ResourceTypes, ResourceInv, UNCHANGED <<held, state, started>>,
         pc \in Forward, pc # "convert", pc' = "close transport"
  PROVE  ResourceInv'
<1> USE DEF ResourceInv, ResourceTypes, Replay!RunnerAssumption, Forward, Closing, Failing,
    UntilSource, UntilWriter, UntilPrepared, Executing, Deciding, Held, Opened, HoldsNothing,
    HoldsWriter, HoldsBoth, HoldsWarmup, HoldsReplay, Replay!Object
<1>1. ForwardBooks'
  BY DEF ForwardBooks
<1>2. HandlerBooks'
  BY DEF ForwardBooks, HandlerBooks
<1>3. Replay!ClosedOnce' /\ Replay!WriterOutlivesTransport'
  BY DEF Replay!ClosedOnce, Replay!WriterOutlivesTransport
<1> QED BY <1>1, <1>2, <1>3 DEF ResourceInv

Quiet == \/ Replay!Requests \/ Replay!Analyze \/ Replay!BuildPlan \/ Replay!WritePlan
         \/ Replay!Warmup \/ Replay!PrepareTasks \/ Replay!WritePreparation \/ Replay!Execute
         \/ Replay!Decide \/ Replay!WriteExecution \/ Replay!WriteValidation \/ Replay!WriteSummary
         \/ Replay!StartMetrics \/ Replay!EndMetrics
         \/ Replay!FailPlan \/ Replay!FailPreparation \/ Replay!FailError \/ Replay!FailManifest
         \/ Replay!HandlerFails

\* The steps that neither open nor close anything stay where the run holds the
\* same resources.
LEMMA QuietZone ==
  ASSUME Quiet
  PROVE  /\ UNCHANGED <<held, state, started>>
         /\ pc # "convert" /\ pc' # "convert" /\ (pc' \in UntilWriter => pc \in UntilWriter)
         /\ \E Z \in {HoldsNothing, HoldsBoth, HoldsWarmup, HoldsReplay, Failing \cup {"ended"}} : pc \in Z /\ pc' \in Z
<1> USE DEF Replay!Go, Replay!Record, Replay!run, Replay!data, Replay!disk, UntilSource, UntilWriter,
    UntilPrepared, Executing, Deciding, Failing, HoldsNothing, HoldsBoth, HoldsWarmup, HoldsReplay
<1>1. CASE Replay!Requests \/ Replay!Analyze \/ Replay!BuildPlan \/ Replay!WritePlan
  BY <1>1 DEF Replay!Requests, Replay!Analyze, Replay!BuildPlan, Replay!WritePlan
<1>2. CASE Replay!Warmup \/ Replay!PrepareTasks \/ Replay!WritePreparation \/ Replay!Execute
  BY <1>2 DEF Replay!Warmup, Replay!PrepareTasks, Replay!WritePreparation, Replay!Execute
<1>3. CASE Replay!Decide \/ Replay!WriteExecution \/ Replay!WriteValidation \/ Replay!WriteSummary
  BY <1>3 DEF Replay!Decide, Replay!WriteExecution, Replay!WriteValidation, Replay!WriteSummary
<1>4. CASE Replay!FailPlan \/ Replay!FailPreparation \/ Replay!FailError \/ Replay!FailManifest
           \/ Replay!HandlerFails
  BY <1>4 DEF Replay!FailPlan, Replay!FailPreparation, Replay!FailError, Replay!FailManifest,
     Replay!HandlerFails
<1>5. CASE Replay!StartMetrics \/ Replay!EndMetrics
  BY <1>5 DEF Replay!StartMetrics, Replay!EndMetrics
<1> QED BY <1>1, <1>2, <1>3, <1>4, <1>5 DEF Quiet

\* An orderly close that raises leaves the object, not open any more, in its variable.
LEMMA CloseRaises ==
  ASSUME Replay!RunnerAssumption, ResourceTypes, ResourceInv,
         pc \in {"close warmup", "transport done", "tokenizer done", "writer done"},
         NEW r \in Replay!Resource, held[r] # None,
         pc \in {"close warmup", "transport done"} => r = "transport",
         pc = "tokenizer done" => r = "tokenizer", pc = "writer done" => r = "writer",
         state' = [state EXCEPT ![held[r]] = "broken"], UNCHANGED <<held, started>>, pc' = "close transport"
  PROVE  ResourceInv'
<1> USE DEF ResourceInv, ResourceTypes, Replay!RunnerAssumption, Replay!RunnerTypeOK, Replay!Resource,
    Replay!Object, Forward, Closing, Failing, UntilSource, UntilWriter, UntilPrepared, Executing,
    Deciding, Held, Opened, HoldsNothing, HoldsWriter, HoldsBoth, HoldsWarmup, HoldsReplay
<1>1. ForwardBooks'
  BY DEF ForwardBooks
<1>2. CASE r = "transport"
  <2>1. HandlerBooks'
    BY <1>2 DEF ForwardBooks, HandlerBooks
  <2>2. Replay!ClosedOnce' /\ Replay!WriterOutlivesTransport'
    BY <1>2 DEF ForwardBooks, Replay!ClosedOnce, Replay!WriterOutlivesTransport
  <2> QED BY <1>1, <2>1, <2>2
<1>3. CASE r = "tokenizer"
  <2>1. HandlerBooks'
    BY <1>3 DEF ForwardBooks, HandlerBooks
  <2>2. Replay!ClosedOnce' /\ Replay!WriterOutlivesTransport'
    BY <1>3 DEF ForwardBooks, Replay!ClosedOnce, Replay!WriterOutlivesTransport
  <2> QED BY <1>1, <2>1, <2>2
<1>4. CASE r = "writer"
  <2>1. HandlerBooks'
    BY <1>4 DEF ForwardBooks, HandlerBooks
  <2>2. Replay!ClosedOnce' /\ Replay!WriterOutlivesTransport'
    BY <1>4 DEF ForwardBooks, Replay!ClosedOnce, Replay!WriterOutlivesTransport
  <2> QED BY <1>1, <2>1, <2>2
<1> QED BY <1>2, <1>3, <1>4

\* The handler's closes go on to the next one and leave everything but the
\* object they close alone.
LEMMA CleanUpMoves ==
  ASSUME NEW i \in 1..3, Replay!CleanUp(i)
  PROVE  /\ pc \in Closing /\ pc' \in {"close tokenizer", "close writer", "fail plan"}
         /\ UNCHANGED <<trace_type, held, started, planned, Replay!disk, Replay!data, outcome>>
<1>0. i \in {1, 2, 3}
  OBVIOUS
<1>1. CASE i = 1
  BY <1>1 DEF Replay!CleanUp, Replay!ClosePC, Replay!NextPC, Replay!AfterClose, Closing
<1>2. CASE i = 2
  BY <1>2 DEF Replay!CleanUp, Replay!ClosePC, Replay!NextPC, Replay!AfterClose, Closing
<1>3. CASE i = 3
  BY <1>3 DEF Replay!CleanUp, Replay!ClosePC, Replay!NextPC, Replay!AfterClose, Closing
<1> QED BY <1>0, <1>1, <1>2, <1>3

\* The object of r after the handler closed it.
Closed(r, failed) ==
  [state EXCEPT ![held[r]] = IF @ = "closed" THEN "closed twice" ELSE IF failed THEN "broken" ELSE "closed"]

\* Each resource is opened when nothing is in its variable, and what the
\* handler closes was not closed before.
LEMMA ResourceStep ==
  ASSUME Replay!RunnerAssumption, RunnerInv, [Replay!Next]_(Replay!vars)
  PROVE  ResourceInv'
<1>a. ResourceTypes /\ ResourceInv
  BY DEF RunnerInv, RunTypes, ResourceTypes
<1>1. CASE Quiet
  BY <1>1, <1>a, QuietZone, QuietKeeps
<1>2. CASE Replay!Raise
  <2>1. pc \in Forward /\ pc # "convert" /\ pc' = "close transport" /\ UNCHANGED <<held, state, started>>
    BY <1>2 DEF Replay!Raise, Replay!RaiseAt, Replay!Steps, Replay!run, Forward, Closing, Failing,
       UntilSource, UntilWriter, UntilPrepared, Executing, Deciding
  <2> QED BY <2>1, <1>a, RaiseKeeps
<1>3. CASE Replay!WriteManifest
  <2>1. pc = "manifest" /\ pc' \in {"close transport", "ended"} /\ UNCHANGED <<held, state, started>>
    BY <1>3 DEF Replay!WriteManifest, Replay!ReturnOrRaise, Replay!run
  <2>2. CASE pc' = "close transport"
    BY <2>1, <2>2, <1>a, RaiseKeeps DEF Forward, Deciding
  <2>3. CASE pc' = "ended"
    BY <2>1, <2>3, <1>a DEF ResourceInv, ForwardBooks, HandlerBooks, Replay!ClosedOnce,
       Replay!WriterOutlivesTransport, Replay!Object, Forward, Closing, Failing, UntilSource,
       UntilWriter, UntilPrepared, Executing, Deciding, Held, Opened, HoldsNothing, HoldsWriter,
       HoldsBoth, HoldsWarmup, HoldsReplay
  <2> QED BY <2>1, <2>2, <2>3
<1>4. CASE Replay!CloseWarmup
  <2>1. pc = "close warmup" /\ held["transport"] = "warmup" /\ "warmup" # None /\ "transport" \in Replay!Resource
    BY <1>4, <1>a DEF Replay!CloseWarmup, Replay!Close, ResourceInv, ForwardBooks,
       Replay!RunnerAssumption, Replay!Object, Replay!Resource, HoldsWarmup, Held
  <2>2. CASE UNCHANGED held
    <3>1. state' = [state EXCEPT ![held["transport"]] = "broken"] /\ pc' = "close transport" /\ UNCHANGED started
      BY <1>4, <1>a, <2>1, <2>2 DEF Replay!CloseWarmup, Replay!Close, ResourceTypes, Replay!RunnerTypeOK
    <3> QED BY <2>1, <2>2, <3>1, <1>a, CloseRaises
  <2>3. CASE held' # held
    <3>1. /\ state' = [state EXCEPT !["warmup"] = "closed"] /\ held' = [held EXCEPT !["transport"] = None]
          /\ pc' = "prepare tasks" /\ started' = started
      BY <1>4, <1>a, <2>1, <2>3 DEF Replay!CloseWarmup, Replay!Close, ResourceTypes, Replay!RunnerTypeOK
    <3> USE <1>a, <2>1, <3>1 DEF ResourceTypes, Replay!RunnerTypeOK, Replay!Resource, Replay!Object,
        Forward, Closing, Failing, UntilSource, UntilWriter, UntilPrepared, Executing, Deciding, Held,
        Opened, HoldsNothing, HoldsWriter, HoldsBoth, HoldsWarmup, HoldsReplay
    <3>2. ForwardBooks'
      BY DEF ResourceInv, ForwardBooks
    <3>3. HandlerBooks'
      BY DEF ResourceInv, ForwardBooks, HandlerBooks
    <3>4. Replay!ClosedOnce' /\ Replay!WriterOutlivesTransport'
      BY DEF ResourceInv, ForwardBooks, Replay!ClosedOnce, Replay!WriterOutlivesTransport
    <3> QED BY <3>2, <3>3, <3>4 DEF ResourceInv
  <2> QED BY <2>2, <2>3
<1>5. CASE Replay!CloseTransport
  <2>1. pc = "transport done" /\ held["transport"] = "replay" /\ "replay" # None /\ "transport" \in Replay!Resource
    BY <1>5, <1>a DEF Replay!CloseTransport, Replay!Close, ResourceInv, ForwardBooks,
       Replay!RunnerAssumption, Replay!Object, Replay!Resource, HoldsReplay, Held
  <2>2. CASE UNCHANGED held
    <3>1. state' = [state EXCEPT ![held["transport"]] = "broken"] /\ pc' = "close transport" /\ UNCHANGED started
      BY <1>5, <1>a, <2>1, <2>2 DEF Replay!CloseTransport, Replay!Close, ResourceTypes,
         Replay!RunnerTypeOK
    <3> QED BY <2>1, <2>2, <3>1, <1>a, CloseRaises
  <2>3. CASE held' # held
    <3>1. /\ state' = [state EXCEPT !["replay"] = "closed"] /\ held' = [held EXCEPT !["transport"] = None]
          /\ pc' = "tokenizer done" /\ started' = started
      BY <1>5, <1>a, <2>1, <2>3 DEF Replay!CloseTransport, Replay!Close, ResourceTypes,
         Replay!RunnerTypeOK
    <3> USE <1>a, <2>1, <3>1 DEF ResourceTypes, Replay!RunnerTypeOK, Replay!Resource, Replay!Object,
        Forward, Closing, Failing, UntilSource, UntilWriter, UntilPrepared, Executing, Deciding, Held,
        Opened, HoldsNothing, HoldsWriter, HoldsBoth, HoldsWarmup, HoldsReplay
    <3>2. ForwardBooks'
      BY DEF ResourceInv, ForwardBooks
    <3>3. HandlerBooks'
      BY DEF ResourceInv, ForwardBooks, HandlerBooks
    <3>4. Replay!ClosedOnce' /\ Replay!WriterOutlivesTransport'
      BY DEF ResourceInv, ForwardBooks, Replay!ClosedOnce, Replay!WriterOutlivesTransport
    <3> QED BY <3>2, <3>3, <3>4 DEF ResourceInv
  <2> QED BY <2>2, <2>3
<1>6. CASE Replay!CloseTokenizer
  <2>1. pc = "tokenizer done" /\ held["tokenizer"] = "tokenizer" /\ "tokenizer" # None /\ "tokenizer" \in Replay!Resource
    BY <1>6, <1>a DEF Replay!CloseTokenizer, Replay!Close, ResourceInv, ForwardBooks,
       Replay!RunnerAssumption, Replay!Object, Replay!Resource, HoldsBoth, Held
  <2>2. CASE UNCHANGED held
    <3>1. state' = [state EXCEPT ![held["tokenizer"]] = "broken"] /\ pc' = "close transport" /\ UNCHANGED started
      BY <1>6, <1>a, <2>1, <2>2 DEF Replay!CloseTokenizer, Replay!Close, ResourceTypes,
         Replay!RunnerTypeOK
    <3> QED BY <2>1, <2>2, <3>1, <1>a, CloseRaises
  <2>3. CASE held' # held
    <3>1. /\ state' = [state EXCEPT !["tokenizer"] = "closed"] /\ held' = [held EXCEPT !["tokenizer"] = None]
          /\ pc' = "writer done" /\ started' = started
      BY <1>6, <1>a, <2>1, <2>3 DEF Replay!CloseTokenizer, Replay!Close, ResourceTypes,
         Replay!RunnerTypeOK
    <3> USE <1>a, <2>1, <3>1 DEF ResourceTypes, Replay!RunnerTypeOK, Replay!Resource, Replay!Object,
        Forward, Closing, Failing, UntilSource, UntilWriter, UntilPrepared, Executing, Deciding, Held,
        Opened, HoldsNothing, HoldsWriter, HoldsBoth, HoldsWarmup, HoldsReplay
    <3>2. ForwardBooks'
      BY DEF ResourceInv, ForwardBooks
    <3>3. HandlerBooks'
      BY DEF ResourceInv, ForwardBooks, HandlerBooks
    <3>4. Replay!ClosedOnce' /\ Replay!WriterOutlivesTransport'
      BY DEF ResourceInv, ForwardBooks, Replay!ClosedOnce, Replay!WriterOutlivesTransport
    <3> QED BY <3>2, <3>3, <3>4 DEF ResourceInv
  <2> QED BY <2>2, <2>3
<1>7. CASE Replay!CloseWriter
  <2>1. pc = "writer done" /\ held["writer"] = "writer" /\ started /\ "writer" # None /\ "writer" \in Replay!Resource
    BY <1>7, <1>a DEF Replay!CloseWriter, Replay!Close, ResourceInv, ForwardBooks,
       Replay!RunnerAssumption, Replay!Object, Replay!Resource, HoldsWriter, Held
  <2>2. CASE UNCHANGED held
    <3>1. state' = [state EXCEPT ![held["writer"]] = "broken"] /\ pc' = "close transport" /\ UNCHANGED started
      BY <1>7, <1>a, <2>1, <2>2 DEF Replay!CloseWriter, Replay!Close, ResourceTypes, Replay!RunnerTypeOK
    <3> QED BY <2>1, <2>2, <3>1, <1>a, CloseRaises
  <2>3. CASE held' # held
    <3>1. /\ state' = [state EXCEPT !["writer"] = "closed"] /\ held' = [held EXCEPT !["writer"] = None]
          /\ pc' \in {"verdict", "close transport"} /\ started' = FALSE
      BY <1>7, <1>a, <2>1, <2>3 DEF Replay!CloseWriter, Replay!Close, ResourceTypes, Replay!RunnerTypeOK
    <3> USE <1>a, <2>1, <3>1 DEF ResourceTypes, Replay!RunnerTypeOK, Replay!Resource, Replay!Object,
        Forward, Closing, Failing, UntilSource, UntilWriter, UntilPrepared, Executing, Deciding, Held,
        Opened, HoldsNothing, HoldsWriter, HoldsBoth, HoldsWarmup, HoldsReplay
    <3>a. Held(None, None, "writer") /\ Opened({"writer"})
      BY DEF ResourceInv, ForwardBooks
    <3>2. ForwardBooks'
      BY DEF ResourceInv, ForwardBooks
    <3>3. HandlerBooks'
      BY <3>a DEF HandlerBooks, Replay!RunnerAssumption
    <3>4. Replay!ClosedOnce' /\ Replay!WriterOutlivesTransport'
      BY DEF ResourceInv, ForwardBooks, Replay!ClosedOnce, Replay!WriterOutlivesTransport
    <3> QED BY <3>2, <3>3, <3>4 DEF ResourceInv
  <2> QED BY <2>2, <2>3
<1>8. ASSUME NEW i \in 1..3, Replay!CleanUp(i) PROVE ResourceInv'
  <2>a. /\ ResourceInv /\ None \notin Replay!Object
        /\ \A r \in Replay!Resource : held[r] \in (IF r = "transport" THEN {"warmup", "replay"} ELSE {r}) \cup {None}
        /\ state \in [Replay!Object -> {"new", "open", "closed", "broken", "closed twice"}]
    BY <1>a DEF ResourceTypes, Replay!RunnerTypeOK, Replay!RunnerAssumption
  <2>b. i \in {1, 2, 3}
    OBVIOUS
  <2>c. pc' \in {"close tokenizer", "close writer", "fail plan"}
    BY <1>8, CleanUpMoves
  <2>1. ForwardBooks'
    BY <2>c DEF ForwardBooks, Forward, Closing, Failing, UntilSource, UntilWriter, UntilPrepared,
       Executing, Deciding, Held, Opened, HoldsNothing, HoldsWriter, HoldsBoth, HoldsWarmup, HoldsReplay
  <2>2. CASE i = 1
    <3>1. pc = "close transport" /\ pc' = "close tokenizer" /\ UNCHANGED <<held, started>>
      BY <1>8, <2>2 DEF Replay!CleanUp, Replay!ClosePC, Replay!AfterClose, Replay!NextPC
    <3>2. CASE UNCHANGED state /\ ~Replay!Closable("transport")
      <4>0. ~Replay!Closable("transport") => held["transport"] = None
        BY DEF Replay!Closable
      <4>1. HandlerBooks'
        BY <2>a, <3>1, <3>2, <4>0 DEF ResourceInv, HandlerBooks, Replay!Object, Closing, Forward,
           UntilPrepared, UntilWriter, UntilSource, Executing, Deciding
      <4>2. Replay!ClosedOnce' /\ Replay!WriterOutlivesTransport'
        BY <3>2, <1>a DEF ResourceInv, Replay!ClosedOnce, Replay!WriterOutlivesTransport
      <4> QED BY <2>1, <4>1, <4>2 DEF ResourceInv
    <3>3. CASE Replay!Closable("transport") /\ \E failed \in BOOLEAN : state' = Closed("transport", failed)
      <4>1. PICK failed \in BOOLEAN : state' = Closed("transport", failed)
        BY <3>3
      <4>2. held["transport"] \in {"warmup", "replay"}
        BY <2>a, <3>3 DEF Replay!Closable, Replay!Resource
      <4>3. state[held["transport"]] # "closed" /\ held["transport"] \in Replay!Object
        BY <2>a, <3>1, <4>2 DEF ResourceInv, HandlerBooks, Closing, Replay!Object
      <4>4. state' = [state EXCEPT ![held["transport"]] = IF failed THEN "broken" ELSE "closed"]
        BY <2>a, <4>1, <4>3 DEF Closed
      <4>5. HandlerBooks'
        BY <2>a, <3>1, <4>2, <4>4 DEF ResourceInv, HandlerBooks, Replay!Object, Closing, Forward,
           UntilPrepared, UntilWriter, UntilSource, Executing, Deciding
      <4>6. Replay!ClosedOnce' /\ Replay!WriterOutlivesTransport'
        BY <2>a, <3>1, <4>2, <4>4 DEF ResourceInv, HandlerBooks, Replay!ClosedOnce,
           Replay!WriterOutlivesTransport, Replay!Object, Forward, UntilPrepared, UntilWriter,
           UntilSource, Executing, Deciding
      <4> QED BY <2>1, <4>5, <4>6 DEF ResourceInv
    <3> QED BY <1>8, <2>2, <3>2, <3>3 DEF Replay!CleanUp, Replay!CloseOrder, Closed
  <2>3. CASE i = 2
    <3>1. pc = "close tokenizer" /\ pc' = "close writer" /\ UNCHANGED <<held, started>>
      BY <1>8, <2>3 DEF Replay!CleanUp, Replay!ClosePC, Replay!AfterClose, Replay!NextPC
    <3>2. CASE UNCHANGED state /\ ~Replay!Closable("tokenizer")
      <4>0. ~Replay!Closable("tokenizer") => held["tokenizer"] = None
        BY DEF Replay!Closable
      <4>1. HandlerBooks'
        BY <2>a, <3>1, <3>2, <4>0 DEF ResourceInv, HandlerBooks, Replay!Object, Closing, Forward,
           UntilPrepared, UntilWriter, UntilSource, Executing, Deciding
      <4>2. Replay!ClosedOnce' /\ Replay!WriterOutlivesTransport'
        BY <3>2, <1>a DEF ResourceInv, Replay!ClosedOnce, Replay!WriterOutlivesTransport
      <4> QED BY <2>1, <4>1, <4>2 DEF ResourceInv
    <3>3. CASE Replay!Closable("tokenizer") /\ \E failed \in BOOLEAN : state' = Closed("tokenizer", failed)
      <4>1. PICK failed \in BOOLEAN : state' = Closed("tokenizer", failed)
        BY <3>3
      <4>2. held["tokenizer"] = "tokenizer" /\ None # "tokenizer"
        BY <2>a, <3>3 DEF Replay!Closable, Replay!Resource
      <4>3. state[held["tokenizer"]] # "closed" /\ held["tokenizer"] \in Replay!Object
        BY <2>a, <3>1, <4>2 DEF ResourceInv, HandlerBooks, Closing, Replay!Object
      <4>4. state' = [state EXCEPT ![held["tokenizer"]] = IF failed THEN "broken" ELSE "closed"]
        BY <2>a, <4>1, <4>3 DEF Closed
      <4>5. HandlerBooks'
        BY <2>a, <3>1, <4>2, <4>4 DEF ResourceInv, HandlerBooks, Replay!Object, Closing, Forward,
           UntilPrepared, UntilWriter, UntilSource, Executing, Deciding
      <4>6. Replay!ClosedOnce' /\ Replay!WriterOutlivesTransport'
        BY <2>a, <3>1, <4>2, <4>4 DEF ResourceInv, HandlerBooks, Replay!ClosedOnce,
           Replay!WriterOutlivesTransport, Replay!Object, Forward, UntilPrepared, UntilWriter,
           UntilSource, Executing, Deciding
      <4> QED BY <2>1, <4>5, <4>6 DEF ResourceInv
    <3> QED BY <1>8, <2>3, <3>2, <3>3 DEF Replay!CleanUp, Replay!CloseOrder, Closed
  <2>4. CASE i = 3
    <3>1. pc = "close writer" /\ pc' = "fail plan" /\ UNCHANGED <<held, started>>
      BY <1>8, <2>4 DEF Replay!CleanUp, Replay!ClosePC, Replay!AfterClose, Replay!NextPC
    <3>2. CASE UNCHANGED state /\ ~Replay!Closable("writer")
      <4>0. ~Replay!Closable("writer") => held["writer"] = None \/ ~started
        BY DEF Replay!Closable
      <4>1. HandlerBooks'
        BY <2>a, <3>1, <3>2, <4>0 DEF ResourceInv, HandlerBooks, Replay!Object, Closing, Forward,
           UntilPrepared, UntilWriter, UntilSource, Executing, Deciding
      <4>2. Replay!ClosedOnce' /\ Replay!WriterOutlivesTransport'
        BY <3>2, <1>a DEF ResourceInv, Replay!ClosedOnce, Replay!WriterOutlivesTransport
      <4> QED BY <2>1, <4>1, <4>2 DEF ResourceInv
    <3>3. CASE Replay!Closable("writer") /\ \E failed \in BOOLEAN : state' = Closed("writer", failed)
      <4>1. PICK failed \in BOOLEAN : state' = Closed("writer", failed)
        BY <3>3
      <4>2. held["writer"] = "writer" /\ None # "writer"
        BY <2>a, <3>3 DEF Replay!Closable, Replay!Resource
      <4>3. state[held["writer"]] # "closed" /\ held["writer"] \in Replay!Object
        BY <2>a, <3>1, <4>2 DEF ResourceInv, HandlerBooks, Closing, Replay!Object
      <4>4. state' = [state EXCEPT ![held["writer"]] = IF failed THEN "broken" ELSE "closed"]
        BY <2>a, <4>1, <4>3 DEF Closed
      <4>5. HandlerBooks'
        BY <2>a, <3>1, <4>2, <4>4 DEF ResourceInv, HandlerBooks, Replay!Object, Closing, Forward,
           UntilPrepared, UntilWriter, UntilSource, Executing, Deciding
      <4>6. Replay!ClosedOnce' /\ Replay!WriterOutlivesTransport'
        BY <2>a, <3>1, <4>2, <4>4 DEF ResourceInv, HandlerBooks, Replay!ClosedOnce,
           Replay!WriterOutlivesTransport, Replay!Object, Forward, UntilPrepared, UntilWriter,
           UntilSource, Executing, Deciding
      <4> QED BY <2>1, <4>5, <4>6 DEF ResourceInv
    <3> QED BY <1>8, <2>4, <3>2, <3>3 DEF Replay!CleanUp, Replay!CloseOrder, Closed
  <2> QED BY <2>b, <2>2, <2>3, <2>4
<1>9. CASE Replay!PrepareSource \/ Replay!Convert
  <2> USE <1>a DEF ResourceTypes, Replay!RunnerTypeOK, Replay!RunnerAssumption, Replay!Resource,
      Replay!Object, Replay!run, Replay!data, Replay!disk, Forward, Closing, Failing, UntilSource,
      UntilWriter, UntilPrepared, Executing, Deciding, Held, Opened, HoldsNothing, HoldsWriter,
      HoldsBoth, HoldsWarmup, HoldsReplay
  <2>1. CASE Replay!PrepareSource /\ trace_type # "inferact"
    BY <2>1, QuietKeeps DEF Replay!PrepareSource, Replay!Go, Replay!Record
  <2>2. CASE Replay!PrepareSource /\ trace_type = "inferact"
    <3>1. /\ pc = "source" /\ pc' = "convert" /\ UNCHANGED <<held, started>>
          /\ state' = [state EXCEPT !["converter"] = "open"]
      BY <2>2 DEF Replay!PrepareSource, Replay!Go
    <3>2. ForwardBooks' /\ HandlerBooks'
      BY <3>1 DEF ResourceInv, ForwardBooks, HandlerBooks
    <3>3. Replay!ClosedOnce' /\ Replay!WriterOutlivesTransport'
      BY <3>1 DEF ResourceInv, Replay!ClosedOnce, Replay!WriterOutlivesTransport
    <3> QED BY <3>2, <3>3 DEF ResourceInv
  <2>3. CASE Replay!Convert
    <3>1. /\ pc = "convert" /\ pc' \in {"analysis", "close transport"} /\ UNCHANGED <<held, started>>
          /\ \E x \in {"closed", "broken"} : state' = [state EXCEPT !["converter"] = x]
      BY <2>3 DEF Replay!Convert
    <3>2. ForwardBooks'
      BY <3>1 DEF ResourceInv, ForwardBooks
    <3>3. HandlerBooks'
      BY <3>1 DEF ResourceInv, ForwardBooks, HandlerBooks
    <3>4. Replay!ClosedOnce' /\ Replay!WriterOutlivesTransport'
      BY <3>1 DEF ResourceInv, Replay!ClosedOnce, Replay!WriterOutlivesTransport
    <3> QED BY <3>2, <3>3, <3>4 DEF ResourceInv
  <2> QED BY <1>9, <2>1, <2>2, <2>3
<1>10. CASE Replay!NewWriter
  <2> USE <1>a, <1>10 DEF Replay!Go, ResourceTypes, Replay!RunnerTypeOK, Replay!RunnerAssumption,
      Replay!Resource, Replay!Object, Forward, Closing, Failing, UntilSource, UntilWriter,
      UntilPrepared, Executing, Deciding, Held, Opened, HoldsNothing, HoldsWriter, HoldsBoth,
      HoldsWarmup, HoldsReplay
  <2>1. ForwardBooks'
    BY DEF Replay!NewWriter, ResourceInv, ForwardBooks
  <2>2. HandlerBooks'
    BY DEF Replay!NewWriter, HandlerBooks
  <2>3. Replay!ClosedOnce' /\ Replay!WriterOutlivesTransport'
    BY DEF Replay!NewWriter, ResourceInv, ForwardBooks, Replay!ClosedOnce,
       Replay!WriterOutlivesTransport
  <2> QED BY <2>1, <2>2, <2>3 DEF ResourceInv
<1>11. CASE Replay!StartWriter
  <2> USE <1>a, <1>11 DEF Replay!Go, ResourceTypes, Replay!RunnerTypeOK, Replay!RunnerAssumption,
      Replay!Resource, Replay!Object, Forward, Closing, Failing, UntilSource, UntilWriter,
      UntilPrepared, Executing, Deciding, Held, Opened, HoldsNothing, HoldsWriter, HoldsBoth,
      HoldsWarmup, HoldsReplay
  <2>1. ForwardBooks'
    BY DEF Replay!StartWriter, ResourceInv, ForwardBooks
  <2>2. HandlerBooks'
    BY DEF Replay!StartWriter, HandlerBooks
  <2>3. Replay!ClosedOnce' /\ Replay!WriterOutlivesTransport'
    BY DEF Replay!StartWriter, ResourceInv, ForwardBooks, Replay!ClosedOnce,
       Replay!WriterOutlivesTransport
  <2> QED BY <2>1, <2>2, <2>3 DEF ResourceInv
<1>12. CASE Replay!NewTokenizer
  <2> USE <1>a, <1>12 DEF Replay!Open, Replay!Go, ResourceTypes, Replay!RunnerTypeOK,
      Replay!RunnerAssumption, Replay!Resource, Replay!Object, Forward, Closing, Failing, UntilSource,
      UntilWriter, UntilPrepared, Executing, Deciding, Held, Opened, HoldsNothing, HoldsWriter,
      HoldsBoth, HoldsWarmup, HoldsReplay
  <2>1. ForwardBooks'
    BY DEF Replay!NewTokenizer, ResourceInv, ForwardBooks
  <2>2. HandlerBooks'
    BY DEF Replay!NewTokenizer, HandlerBooks
  <2>3. Replay!ClosedOnce' /\ Replay!WriterOutlivesTransport'
    BY DEF Replay!NewTokenizer, ResourceInv, ForwardBooks, Replay!ClosedOnce,
       Replay!WriterOutlivesTransport
  <2> QED BY <2>1, <2>2, <2>3 DEF ResourceInv
<1>13. CASE Replay!OpenWarmup
  <2> USE <1>a, <1>13 DEF Replay!Open, Replay!Go, ResourceTypes, Replay!RunnerTypeOK,
      Replay!RunnerAssumption, Replay!Resource, Replay!Object, Forward, Closing, Failing, UntilSource,
      UntilWriter, UntilPrepared, Executing, Deciding, Held, Opened, HoldsNothing, HoldsWriter,
      HoldsBoth, HoldsWarmup, HoldsReplay
  <2>1. ForwardBooks'
    BY DEF Replay!OpenWarmup, ResourceInv, ForwardBooks
  <2>2. HandlerBooks'
    BY DEF Replay!OpenWarmup, HandlerBooks
  <2>3. Replay!ClosedOnce' /\ Replay!WriterOutlivesTransport'
    BY DEF Replay!OpenWarmup, ResourceInv, ForwardBooks, Replay!ClosedOnce,
       Replay!WriterOutlivesTransport
  <2> QED BY <2>1, <2>2, <2>3 DEF ResourceInv
<1>14. CASE Replay!OpenTransport
  <2> USE <1>a, <1>14 DEF Replay!Open, Replay!Go, ResourceTypes, Replay!RunnerTypeOK,
      Replay!RunnerAssumption, Replay!Resource, Replay!Object, Forward, Closing, Failing, UntilSource,
      UntilWriter, UntilPrepared, Executing, Deciding, Held, Opened, HoldsNothing, HoldsWriter,
      HoldsBoth, HoldsWarmup, HoldsReplay
  <2>1. ForwardBooks'
    BY DEF Replay!OpenTransport, ResourceInv, ForwardBooks
  <2>2. HandlerBooks'
    BY DEF Replay!OpenTransport, HandlerBooks
  <2>3. Replay!ClosedOnce' /\ Replay!WriterOutlivesTransport'
    BY DEF Replay!OpenTransport, ResourceInv, ForwardBooks, Replay!ClosedOnce,
       Replay!WriterOutlivesTransport
  <2> QED BY <2>1, <2>2, <2>3 DEF ResourceInv
<1>15. CASE UNCHANGED Replay!vars
  BY <1>15, <1>a DEF Replay!vars, Replay!run, ResourceInv, ForwardBooks, HandlerBooks,
     Replay!ClosedOnce, Replay!WriterOutlivesTransport, Held, Opened, HoldsNothing, HoldsWriter,
     HoldsBoth, HoldsWarmup, HoldsReplay
<1> QED BY <1>1, <1>2, <1>3, <1>4, <1>5, <1>6, <1>7, <1>8, <1>9, <1>10, <1>11, <1>12, <1>13, <1>14,
    <1>15
    DEF Replay!Next, Replay!Setup, Replay!Finish, Replay!Handler, Quiet

(* Types, verdicts and captures.                                           *)

\* The handler closes objects.
LEMMA CleanUpTypes ==
  ASSUME Replay!RunnerAssumption, Replay!RunnerTypeOK, NEW i \in 1..3, Replay!CleanUp(i)
  PROVE  state' \in [Replay!Object -> {"new", "open", "closed", "broken", "closed twice"}]
<1>1. i \in {1, 2, 3}
  OBVIOUS
<1> DEFINE r == Replay!CloseOrder[i]
<1>2. r \in Replay!Resource
  BY <1>1 DEF Replay!CloseOrder, Replay!Resource
<1>3. CASE UNCHANGED state
  BY <1>3 DEF Replay!RunnerTypeOK
<1>4. CASE Replay!Closable(r) /\ \E failed \in BOOLEAN : state' = Closed(r, failed)
  <2>1. held[r] \in Replay!Object
    BY <1>2, <1>4 DEF Replay!RunnerTypeOK, Replay!Closable
  <2> QED BY <1>4, <2>1 DEF Replay!RunnerTypeOK, Closed
<1> QED BY <1>3, <1>4 DEF Replay!CleanUp, Closed

\* The run goes forward, closes, records its failure, and ends.
LEMMA PcStep ==
  ASSUME Replay!RunnerAssumption, RunTypes, [Replay!Next]_(Replay!vars)
  PROVE  pc' \in Forward \cup Closing \cup Failing \cup {"ended"}
<1> USE DEF RunTypes, Forward, Closing, Failing, UntilSource, UntilWriter, UntilPrepared, Executing,
    Deciding
<1>1. CASE Replay!Requests \/ Replay!PrepareSource \/ Replay!Convert \/ Replay!Analyze
  BY <1>1 DEF Replay!Requests, Replay!Go, Replay!Record, Replay!PrepareSource, Replay!Convert,
     Replay!Analyze
<1>2. CASE Replay!BuildPlan \/ Replay!WritePlan \/ Replay!NewWriter \/ Replay!StartWriter
  BY <1>2 DEF Replay!BuildPlan, Replay!Go, Replay!WritePlan, Replay!Record, Replay!NewWriter,
     Replay!StartWriter
<1>3. CASE Replay!NewTokenizer \/ Replay!OpenWarmup \/ Replay!Warmup \/ Replay!CloseWarmup
  BY <1>3 DEF Replay!NewTokenizer, Replay!Go, Replay!Open, Replay!OpenWarmup, Replay!Warmup,
     Replay!Record, Replay!CloseWarmup, Replay!Close
<1>4. CASE Replay!PrepareTasks \/ Replay!WritePreparation \/ Replay!OpenTransport \/ Replay!Execute
  BY <1>4 DEF Replay!PrepareTasks, Replay!Go, Replay!WritePreparation, Replay!Record,
     Replay!OpenTransport, Replay!Open, Replay!Execute
<1>5. CASE Replay!CloseTransport \/ Replay!CloseTokenizer \/ Replay!CloseWriter \/ Replay!Decide
  BY <1>5 DEF Replay!CloseTransport, Replay!Close, Replay!CloseTokenizer, Replay!CloseWriter,
     Replay!Decide, Replay!Go, Replay!Verdict
<1>6. CASE Replay!WriteExecution \/ Replay!WriteValidation \/ Replay!WriteSummary
           \/ Replay!WriteManifest \/ Replay!Raise
  BY <1>6 DEF Replay!WriteExecution, Replay!Go, Replay!Record, Replay!WriteValidation,
     Replay!WriteSummary, Replay!Verdict, Replay!WriteManifest, Replay!ReturnOrRaise, Replay!Raise,
     Replay!RaiseAt, Replay!Steps
<1>7. CASE Replay!FailPlan \/ Replay!FailPreparation \/ Replay!FailError \/ Replay!FailManifest
           \/ Replay!HandlerFails
  BY <1>7 DEF Replay!FailPlan, Replay!Go, Replay!FailPreparation, Replay!Record,
     Replay!PreparationMissing, Replay!FailError, Replay!FailManifest, Replay!HandlerFails
<1>8. ASSUME NEW i \in 1..3, Replay!CleanUp(i)
      PROVE  pc' \in Forward \cup Closing \cup Failing \cup {"ended"}
  BY <1>8, CleanUpMoves
<1>9. CASE UNCHANGED Replay!vars
  BY <1>9 DEF Replay!vars
<1>10. CASE Replay!StartMetrics \/ Replay!EndMetrics
  BY <1>10 DEF Replay!StartMetrics, Replay!EndMetrics, Replay!Go
<1> QED BY <1>1, <1>2, <1>3, <1>4, <1>5, <1>6, <1>7, <1>8, <1>9, <1>10 DEF Replay!Next, Replay!Setup,
    Replay!Finish, Replay!Handler

\* A name is captured when its file is written, by the one step that writes it.
LEMMA CaptureShape ==
  ASSUME Replay!RunnerAssumption, RunTypes, NotYetWritten, [Replay!Next]_(Replay!vars)
  PROVE  \/ UNCHANGED <<files, captures>>
         \/ \E n \in Name : Replay!Record(n) /\ n \notin files
<1> USE DEF NotYetWritten, Name, Replay!run, Replay!data, Replay!disk, UntilSource, UntilWriter,
    UntilPrepared, Executing
<1>1. CASE Replay!Requests
  BY <1>1 DEF Replay!Requests, Replay!Go, Replay!Record
<1>2. CASE Replay!PrepareSource
  BY <1>2 DEF Replay!PrepareSource, Replay!Go, Replay!Record
<1>3. CASE Replay!Convert
  BY <1>3 DEF Replay!Convert, Replay!Record
<1>4. CASE Replay!Analyze
  BY <1>4 DEF Replay!Analyze, Replay!Go, Replay!Record
<1>5. CASE Replay!WritePlan
  BY <1>5 DEF Replay!WritePlan, Replay!Go, Replay!Record
<1>6. CASE Replay!Warmup
  BY <1>6 DEF Replay!Warmup, Replay!Go, Replay!Record
<1>7. CASE Replay!WritePreparation
  BY <1>7 DEF Replay!WritePreparation, Replay!Go, Replay!Record
<1>8. CASE Replay!WriteExecution
  BY <1>8 DEF Replay!WriteExecution, Replay!Go, Replay!Record
<1>9. CASE Replay!WriteValidation
  BY <1>9 DEF Replay!WriteValidation, Replay!Go, Replay!Record
<1>10. CASE Replay!FailPreparation
  BY <1>10 DEF Replay!FailPreparation, Replay!Go, Replay!Record, Replay!PreparationMissing
<1>11. CASE Replay!FailError
  BY <1>11 DEF Replay!FailError, Replay!Go, Replay!Record
<1>12. CASE Replay!BuildPlan \/ Replay!NewWriter \/ Replay!StartWriter
  BY <1>12 DEF Replay!BuildPlan, Replay!Go, Replay!NewWriter, Replay!StartWriter
<1>13. CASE Replay!NewTokenizer \/ Replay!OpenWarmup \/ Replay!OpenTransport \/ Replay!PrepareTasks
            \/ Replay!Execute
  BY <1>13 DEF Replay!NewTokenizer, Replay!Go, Replay!Open, Replay!OpenWarmup, Replay!OpenTransport,
     Replay!PrepareTasks, Replay!Execute
<1>14. CASE Replay!CloseWarmup \/ Replay!CloseTransport \/ Replay!CloseTokenizer \/ Replay!CloseWriter
  BY <1>14 DEF Replay!CloseWarmup, Replay!Close, Replay!CloseTransport, Replay!CloseTokenizer,
     Replay!CloseWriter
<1>15. CASE Replay!Decide \/ Replay!WriteSummary \/ Replay!WriteManifest \/ Replay!Raise
  BY <1>15 DEF Replay!Decide, Replay!Go, Replay!Verdict, Replay!WriteSummary, Replay!WriteManifest,
     Replay!ReturnOrRaise, Replay!Raise, Replay!RaiseAt, Replay!Steps
<1>16. CASE Replay!FailPlan \/ Replay!FailManifest \/ Replay!HandlerFails
  BY <1>16 DEF Replay!FailPlan, Replay!Go, Replay!FailManifest, Replay!HandlerFails
<1>17. ASSUME NEW i \in 1..3, Replay!CleanUp(i) PROVE \/ UNCHANGED <<files, captures>>
         \/ \E n \in Name : Replay!Record(n) /\ n \notin files
  BY <1>17, CleanUpMoves DEF Replay!disk
<1>18. CASE UNCHANGED Replay!vars
  BY <1>18 DEF Replay!vars
<1>19. CASE Replay!StartMetrics
  <2>1. PICK n \in {"vllm_start", "vllm_start unavailable"} : Replay!Record(n)
    BY <1>19 DEF Replay!StartMetrics, Replay!CaptureMetrics
  <2> QED BY <1>19, <2>1 DEF Replay!StartMetrics, Replay!Go
<1>20. CASE Replay!EndMetrics
  <2>1. PICK n \in {"vllm_end", "vllm_end unavailable"} : Replay!Record(n)
    BY <1>20 DEF Replay!EndMetrics, Replay!CaptureMetrics
  <2> QED BY <1>20, <2>1 DEF Replay!EndMetrics, Replay!Go
<1> QED BY <1>1, <1>2, <1>3, <1>4, <1>5, <1>6, <1>7, <1>8, <1>9, <1>10, <1>11, <1>12, <1>13, <1>14,
    <1>15, <1>16, <1>17, <1>18, <1>19, <1>20 DEF Replay!Next, Replay!Setup, Replay!Finish, Replay!Handler

\* A captured name is on disk and captured once.
LEMMA RecordKeeps ==
  ASSUME captures \in Seq(Name), CapturesExact, NEW n \in Name, Replay!Record(n), n \notin files
  PROVE  /\ captures' \in Seq(Name) /\ CapturesExact' /\ files \subseteq files'
         /\ \E i \in DOMAIN captures' : captures'[i] = n
<1>1. captures' = Append(captures, n) /\ files' = files \cup {n}
  BY DEF Replay!Record
<1>2. captures' \in Seq(Name) /\ Len(captures') = Len(captures) + 1 /\ captures'[Len(captures) + 1] = n
  BY <1>1
<1>3. \A i \in DOMAIN captures : captures'[i] = captures[i]
  BY <1>1
<1>4. DOMAIN captures' = 1 .. Len(captures) + 1 /\ DOMAIN captures = 1 .. Len(captures) /\ Len(captures) \in Nat
  BY <1>2
<1>5. \A i \in DOMAIN captures' : i \in DOMAIN captures \/ i = Len(captures) + 1
  BY <1>4
<1>6. CapturesExact'
  BY <1>1, <1>2, <1>3, <1>5 DEF CapturesExact
<1> QED BY <1>1, <1>2, <1>4, <1>6

\* A close forgets the object or leaves it.
LEMMA CloseTypes ==
  ASSUME Replay!RunnerTypeOK, NEW r \in Replay!Resource, held[r] # None, NEW from, NEW to,
         Replay!Close(r, from, to, "closed")
  PROVE  /\ held' \in [Replay!Resource -> Replay!Object \cup {None}]
         /\ \A x \in Replay!Resource : held'[x] \in {held[x], None}
         /\ state' \in [Replay!Object -> {"new", "open", "closed", "broken", "closed twice"}]
<1>1. held[r] \in Replay!Object
  BY DEF Replay!RunnerTypeOK
<1>2. CASE UNCHANGED held
  BY <1>1, <1>2 DEF Replay!Close, Replay!RunnerTypeOK
<1>3. CASE held' = [held EXCEPT ![r] = None]
  BY <1>1, <1>3 DEF Replay!Close, Replay!RunnerTypeOK
<1> QED BY <1>2, <1>3 DEF Replay!Close

\* The objects and the variables that hold them.
HeldTypes ==
  /\ held \in [Replay!Resource -> Replay!Object \cup {None}]
  /\ \A r \in Replay!Resource : held[r] \in (IF r = "transport" THEN {"warmup", "replay"} ELSE {r}) \cup {None}
  /\ state \in [Replay!Object -> {"new", "open", "closed", "broken", "closed twice"}]

\* A variable of run_replay() holds None or an object, and every object is new,
\* open, closed or broken.
LEMMA HeldTypeStep ==
  ASSUME Replay!RunnerAssumption, RunnerInv, [Replay!Next]_(Replay!vars)
  PROVE  HeldTypes'
<1>a. Replay!RunnerTypeOK /\ ForwardBooks
  BY DEF RunnerInv, ResourceInv
<1>1. CASE Quiet \/ Replay!Raise \/ Replay!WriteManifest
  BY <1>1, <1>a, QuietZone DEF Replay!Raise, Replay!RaiseAt, Replay!WriteManifest, Replay!run,
     Replay!RunnerTypeOK, HeldTypes
<1>2. CASE Replay!PrepareSource
  BY <1>2, <1>a DEF Replay!PrepareSource, Replay!Go, Replay!run, Replay!RunnerTypeOK, HeldTypes,
     Replay!Object
<1>3. CASE Replay!Convert
  <2>1. PICK x \in {"closed", "broken"} : state' = [state EXCEPT !["converter"] = x]
    BY <1>3 DEF Replay!Convert
  <2> QED BY <1>3, <1>a, <2>1 DEF Replay!Convert, Replay!RunnerTypeOK, HeldTypes, Replay!Object
<1>4. CASE Replay!NewWriter
  BY <1>4, <1>a DEF Replay!NewWriter, Replay!RunnerTypeOK, HeldTypes, Replay!Object, Replay!Resource
<1>5. CASE Replay!StartWriter
  BY <1>5, <1>a DEF Replay!StartWriter, Replay!RunnerTypeOK, HeldTypes, Replay!Object
<1>6. CASE Replay!NewTokenizer \/ Replay!OpenWarmup \/ Replay!OpenTransport
  <2> USE <1>a DEF Replay!Open, Replay!RunnerTypeOK, HeldTypes, Replay!Object, Replay!Resource
  <2>1. CASE Replay!NewTokenizer
    BY <2>1 DEF Replay!NewTokenizer
  <2>2. CASE Replay!OpenWarmup
    BY <2>2 DEF Replay!OpenWarmup
  <2>3. CASE Replay!OpenTransport
    BY <2>3 DEF Replay!OpenTransport
  <2> QED BY <1>6, <2>1, <2>2, <2>3
<1>7. CASE Replay!CloseWarmup
  <2>1. "transport" \in Replay!Resource /\ held["transport"] # None
    BY <1>7, <1>a DEF Replay!CloseWarmup, Replay!Close, ForwardBooks, HoldsWarmup, Held,
       Replay!Resource, Replay!Object, Replay!RunnerAssumption
  <2> QED BY <1>7, <1>a, <2>1, CloseTypes DEF Replay!CloseWarmup, Replay!RunnerTypeOK, HeldTypes
<1>8. CASE Replay!CloseTransport
  <2>1. "transport" \in Replay!Resource /\ held["transport"] # None
    BY <1>8, <1>a DEF Replay!CloseTransport, Replay!Close, ForwardBooks, HoldsReplay, Held,
       Replay!Resource, Replay!Object, Replay!RunnerAssumption
  <2> QED BY <1>8, <1>a, <2>1, CloseTypes DEF Replay!CloseTransport, Replay!RunnerTypeOK, HeldTypes
<1>9. CASE Replay!CloseTokenizer
  <2>1. "tokenizer" \in Replay!Resource /\ held["tokenizer"] # None
    BY <1>9, <1>a DEF Replay!CloseTokenizer, Replay!Close, ForwardBooks, HoldsBoth, Held,
       Replay!Resource, Replay!Object, Replay!RunnerAssumption
  <2> QED BY <1>9, <1>a, <2>1, CloseTypes DEF Replay!CloseTokenizer, Replay!RunnerTypeOK, HeldTypes
<1>10. CASE Replay!CloseWriter
  <2>1. "writer" \in Replay!Resource /\ held["writer"] # None
    BY <1>10, <1>a DEF Replay!CloseWriter, Replay!Close, ForwardBooks, HoldsWriter, Held,
       Replay!Resource, Replay!Object, Replay!RunnerAssumption
  <2> QED BY <1>10, <1>a, <2>1, CloseTypes DEF Replay!CloseWriter, Replay!RunnerTypeOK, HeldTypes
<1>11. ASSUME NEW i \in 1..3, Replay!CleanUp(i) PROVE HeldTypes'
  BY <1>11, <1>a, CleanUpMoves, CleanUpTypes DEF Replay!RunnerTypeOK, HeldTypes
<1>12. CASE UNCHANGED Replay!vars
  BY <1>12, <1>a DEF Replay!vars, Replay!run, Replay!RunnerTypeOK, HeldTypes
<1> QED BY <1>1, <1>2, <1>3, <1>4, <1>5, <1>6, <1>7, <1>8, <1>9, <1>10, <1>11, <1>12
    DEF Replay!Next, Replay!Setup, Replay!Finish, Replay!Handler, Quiet

\* The remaining variables.
PlainTypes ==
  /\ started \in BOOLEAN /\ planned \in BOOLEAN /\ complete \in BOOLEAN
  /\ outcome \in {None, "returned", "raised", "handler failed"}
  /\ facts \in [Request -> {"success", "error", "missing"}]
StatusType ==
  status \in [manifest : {"running", "completed", "failed"},
             plan : {None, "active", "completed", "failed"},
             summary : {None, "completed", "failed"}]

\* The flags and the facts keep their types.
LEMMA PlainTypeStep ==
  ASSUME Replay!RunnerAssumption, PlainTypes, [Replay!Next]_(Replay!vars)
  PROVE  PlainTypes'
<1> USE DEF PlainTypes, Replay!run, Replay!data, Replay!disk
<1>1. CASE Replay!Requests \/ Replay!PrepareSource \/ Replay!Convert \/ Replay!Analyze
           \/ Replay!BuildPlan
  BY <1>1 DEF Replay!Requests, Replay!Go, Replay!Record, Replay!PrepareSource, Replay!Convert,
     Replay!Analyze, Replay!BuildPlan
<1>2. CASE Replay!NewWriter \/ Replay!StartWriter \/ Replay!NewTokenizer \/ Replay!OpenWarmup
  BY <1>2 DEF Replay!NewWriter, Replay!Go, Replay!StartWriter, Replay!NewTokenizer, Replay!Open,
     Replay!OpenWarmup
<1>3. CASE Replay!Warmup \/ Replay!PrepareTasks \/ Replay!WritePreparation \/ Replay!OpenTransport
  BY <1>3 DEF Replay!Warmup, Replay!Go, Replay!Record, Replay!PrepareTasks, Replay!WritePreparation,
     Replay!OpenTransport, Replay!Open
<1>4. CASE Replay!CloseWarmup \/ Replay!CloseTransport \/ Replay!CloseTokenizer \/ Replay!Raise
  BY <1>4 DEF Replay!CloseWarmup, Replay!Close, Replay!CloseTransport, Replay!CloseTokenizer,
     Replay!Raise, Replay!RaiseAt, Replay!Steps
<1>5. CASE Replay!WriteExecution \/ Replay!WriteValidation
  BY <1>5 DEF Replay!WriteExecution, Replay!Go, Replay!Record, Replay!WriteValidation
<1>6. CASE Replay!FailPreparation \/ Replay!FailError \/ Replay!HandlerFails
  BY <1>6 DEF Replay!FailPreparation, Replay!Go, Replay!Record, Replay!PreparationMissing,
     Replay!FailError, Replay!HandlerFails
<1>7. CASE Replay!CloseWriter
  BY <1>7 DEF Replay!CloseWriter, Replay!Close
<1>8. CASE Replay!Execute
  BY <1>8 DEF Replay!Execute, Replay!Go
<1>9. CASE Replay!Decide \/ Replay!WriteSummary
  BY <1>9 DEF Replay!Decide, Replay!Complete, Replay!WriteSummary
<1>10. CASE Replay!WriteManifest
  BY <1>10 DEF Replay!WriteManifest, Replay!ReturnOrRaise, Replay!Verdict
<1>11. CASE Replay!WritePlan \/ Replay!FailPlan \/ Replay!FailManifest
  BY <1>11 DEF Replay!WritePlan, Replay!Go, Replay!Record, Replay!FailPlan, Replay!FailManifest
<1>12. ASSUME NEW i \in 1..3, Replay!CleanUp(i) PROVE PlainTypes'
  BY <1>12, CleanUpMoves
<1>13. CASE UNCHANGED Replay!vars
  BY <1>13 DEF Replay!vars
<1>14. CASE Replay!StartMetrics \/ Replay!EndMetrics
  BY <1>14 DEF Replay!StartMetrics, Replay!EndMetrics
<1> QED BY <1>1, <1>2, <1>3, <1>4, <1>5, <1>6, <1>7, <1>8, <1>9, <1>10, <1>11, <1>12,
    <1>13, <1>14 DEF Replay!Next, Replay!Setup, Replay!Finish, Replay!Handler

\* The three statuses of a run keep their types.
LEMMA StatusTypeStep ==
  ASSUME Replay!RunnerAssumption, StatusType, PlainTypes, [Replay!Next]_(Replay!vars)
  PROVE  StatusType'
<1> USE DEF StatusType, PlainTypes, Replay!Verdict, Replay!run, Replay!data, Replay!disk
<1>1. CASE Replay!Requests \/ Replay!PrepareSource \/ Replay!Convert \/ Replay!Analyze
           \/ Replay!BuildPlan
  BY <1>1 DEF Replay!Requests, Replay!Go, Replay!Record, Replay!PrepareSource, Replay!Convert,
     Replay!Analyze, Replay!BuildPlan
<1>2. CASE Replay!NewWriter \/ Replay!StartWriter \/ Replay!NewTokenizer \/ Replay!OpenWarmup
  BY <1>2 DEF Replay!NewWriter, Replay!Go, Replay!StartWriter, Replay!NewTokenizer, Replay!Open,
     Replay!OpenWarmup
<1>3. CASE Replay!Warmup \/ Replay!PrepareTasks \/ Replay!WritePreparation \/ Replay!OpenTransport
  BY <1>3 DEF Replay!Warmup, Replay!Go, Replay!Record, Replay!PrepareTasks, Replay!WritePreparation,
     Replay!OpenTransport, Replay!Open
<1>4. CASE Replay!CloseWarmup \/ Replay!CloseTransport \/ Replay!CloseTokenizer \/ Replay!Raise
  BY <1>4 DEF Replay!CloseWarmup, Replay!Close, Replay!CloseTransport, Replay!CloseTokenizer,
     Replay!Raise, Replay!RaiseAt, Replay!Steps
<1>5. CASE Replay!WriteExecution \/ Replay!WriteValidation
  BY <1>5 DEF Replay!WriteExecution, Replay!Go, Replay!Record, Replay!WriteValidation
<1>6. CASE Replay!FailPreparation \/ Replay!FailError \/ Replay!HandlerFails
  BY <1>6 DEF Replay!FailPreparation, Replay!Go, Replay!Record, Replay!PreparationMissing,
     Replay!FailError, Replay!HandlerFails
<1>7. CASE Replay!CloseWriter \/ Replay!Execute
  BY <1>7 DEF Replay!CloseWriter, Replay!Close, Replay!Execute, Replay!Go
<1>8. CASE Replay!Decide
  BY <1>8 DEF Replay!Decide, Replay!Go, Replay!Verdict
<1>9. CASE Replay!WriteSummary
  BY <1>9 DEF Replay!WriteSummary, Replay!Go, Replay!Verdict
<1>10. CASE Replay!WriteManifest
  BY <1>10 DEF Replay!WriteManifest, Replay!ReturnOrRaise, Replay!Verdict
<1>11. CASE Replay!WritePlan
  BY <1>11 DEF Replay!WritePlan, Replay!Go, Replay!Record
<1>12. CASE Replay!FailPlan
  BY <1>12 DEF Replay!FailPlan, Replay!Go
<1>13. CASE Replay!FailManifest
  BY <1>13 DEF Replay!FailManifest, Replay!Go
<1>14. ASSUME NEW i \in 1..3, Replay!CleanUp(i) PROVE StatusType'
  BY <1>14, CleanUpMoves
<1>15. CASE UNCHANGED Replay!vars
  BY <1>15 DEF Replay!vars
<1>16. CASE Replay!StartMetrics \/ Replay!EndMetrics
  BY <1>16 DEF Replay!StartMetrics, Replay!EndMetrics
<1> QED BY <1>1, <1>2, <1>3, <1>4, <1>5, <1>6, <1>7, <1>8, <1>9, <1>10, <1>11, <1>12, <1>13, <1>14,
    <1>15, <1>16 DEF Replay!Next, Replay!Setup, Replay!Finish, Replay!Handler

\* The steps come in the order of the names they write.
LEMMA NotYetStep ==
  ASSUME Replay!RunnerAssumption, RunTypes, NotYetWritten, [Replay!Next]_(Replay!vars)
  PROVE  NotYetWritten'
<1> USE DEF RunTypes, NotYetWritten, Replay!run, Replay!data, Replay!disk, Forward, Closing, Failing,
    UntilSource, UntilWriter, UntilPrepared, Executing, Deciding
<1>1. CASE Replay!Requests
  BY <1>1 DEF Replay!Requests, Replay!Go, Replay!Record
<1>2. CASE Replay!PrepareSource
  BY <1>2 DEF Replay!PrepareSource, Replay!Go, Replay!Record
<1>3. CASE Replay!Convert
  BY <1>3 DEF Replay!Convert, Replay!Record
<1>4. CASE Replay!Analyze
  BY <1>4 DEF Replay!Analyze, Replay!Go, Replay!Record
<1>5. CASE Replay!BuildPlan
  BY <1>5 DEF Replay!BuildPlan, Replay!Go
<1>6. CASE Replay!WritePlan
  BY <1>6 DEF Replay!WritePlan, Replay!Go, Replay!Record
<1>7. CASE Replay!NewWriter
  BY <1>7 DEF Replay!NewWriter, Replay!Go
<1>8. CASE Replay!StartWriter
  BY <1>8 DEF Replay!StartWriter, Replay!Go
<1>9. CASE Replay!NewTokenizer
  BY <1>9 DEF Replay!NewTokenizer, Replay!Go, Replay!Open
<1>10. CASE Replay!OpenWarmup
  BY <1>10 DEF Replay!OpenWarmup, Replay!Go, Replay!Open
<1>11. CASE Replay!Warmup
  BY <1>11 DEF Replay!Warmup, Replay!Go, Replay!Record
<1>12. CASE Replay!CloseWarmup
  BY <1>12 DEF Replay!CloseWarmup, Replay!Close
<1>13. CASE Replay!PrepareTasks
  BY <1>13 DEF Replay!PrepareTasks, Replay!Go
<1>14. CASE Replay!WritePreparation
  BY <1>14 DEF Replay!WritePreparation, Replay!Go, Replay!Record
<1>15. CASE Replay!OpenTransport
  BY <1>15 DEF Replay!OpenTransport, Replay!Go, Replay!Open
<1>16. CASE Replay!Execute
  BY <1>16 DEF Replay!Execute, Replay!Go
<1>17. CASE Replay!CloseTransport
  BY <1>17 DEF Replay!CloseTransport, Replay!Close
<1>18. CASE Replay!CloseTokenizer
  BY <1>18 DEF Replay!CloseTokenizer, Replay!Close
<1>19. CASE Replay!CloseWriter
  BY <1>19 DEF Replay!CloseWriter, Replay!Close
<1>20. CASE Replay!Decide
  BY <1>20 DEF Replay!Decide, Replay!Go, Replay!Verdict
<1>21. CASE Replay!WriteExecution
  BY <1>21 DEF Replay!WriteExecution, Replay!Go, Replay!Record
<1>22. CASE Replay!WriteValidation
  BY <1>22 DEF Replay!WriteValidation, Replay!Go, Replay!Record
<1>23. CASE Replay!WriteSummary
  BY <1>23 DEF Replay!WriteSummary, Replay!Go, Replay!Verdict
<1>24. CASE Replay!WriteManifest
  BY <1>24 DEF Replay!WriteManifest, Replay!ReturnOrRaise, Replay!Verdict
<1>25. CASE Replay!Raise
  BY <1>25 DEF Replay!Raise, Replay!RaiseAt, Replay!Steps
<1>26. CASE Replay!FailPlan
  BY <1>26 DEF Replay!FailPlan, Replay!Go
<1>27. CASE Replay!FailPreparation
  <2>1. pc = "fail preparation" /\ pc' = "fail error" /\ files' \subseteq files \cup {"replay_preparation"}
    BY <1>27 DEF Replay!FailPreparation, Replay!Go, Replay!Record
  <2>2. "replay_error" \notin files'
    BY <2>1
  <2> QED BY <2>1, <2>2
<1>28. CASE Replay!FailError
  BY <1>28 DEF Replay!FailError, Replay!Go, Replay!Record
<1>29. CASE Replay!FailManifest
  BY <1>29 DEF Replay!FailManifest, Replay!Go
<1>30. CASE Replay!HandlerFails
  BY <1>30 DEF Replay!HandlerFails
<1>31. ASSUME NEW i \in 1..3, Replay!CleanUp(i) PROVE NotYetWritten'
  BY <1>31, CleanUpMoves DEF Replay!disk
<1>32. CASE UNCHANGED Replay!vars
  BY <1>32 DEF Replay!vars
<1>33. CASE Replay!StartMetrics
  <2>1. PICK n \in {"vllm_start", "vllm_start unavailable"} : Replay!Record(n)
    BY <1>33 DEF Replay!StartMetrics, Replay!CaptureMetrics
  <2> QED BY <1>33, <2>1 DEF Replay!StartMetrics, Replay!Go, Replay!Record
<1>34. CASE Replay!EndMetrics
  <2>1. PICK n \in {"vllm_end", "vllm_end unavailable"} : Replay!Record(n)
    BY <1>34 DEF Replay!EndMetrics, Replay!CaptureMetrics
  <2> QED BY <1>34, <2>1 DEF Replay!EndMetrics, Replay!Go, Replay!Record
<1> QED BY <1>1, <1>2, <1>3, <1>4, <1>5, <1>6, <1>7, <1>8, <1>9, <1>10, <1>11, <1>12, <1>13, <1>14,
    <1>15, <1>16, <1>17, <1>18, <1>19, <1>20, <1>21, <1>22, <1>23, <1>24, <1>25, <1>26, <1>27, <1>28,
    <1>29, <1>30, <1>31, <1>32, <1>33, <1>34 DEF Replay!Next, Replay!Setup, Replay!Finish, Replay!Handler

\* The verdict is decided once, written to plan, summary and manifest in this
\* order, and overwritten by failed only when the run raises.
LEMMA VerdictStep ==
  ASSUME Replay!RunnerAssumption, RunnerInv, [Replay!Next]_(Replay!vars)
  PROVE  VerdictInv'
<1> USE DEF Replay!RunnerAssumption, RunnerInv, RunTypes, VerdictInv, Replay!VerdictsAgree,
    Replay!Verdict, Replay!Complete, Replay!run, Replay!data, Replay!disk, Forward, Closing, Failing,
    UntilSource, UntilWriter, UntilPrepared, Executing, Deciding
<1>1. CASE Replay!Requests
  BY <1>1 DEF Replay!Requests, Replay!Go, Replay!Record
<1>2. CASE Replay!PrepareSource
  BY <1>2 DEF Replay!PrepareSource, Replay!Go, Replay!Record
<1>3. CASE Replay!Convert
  BY <1>3 DEF Replay!Convert, Replay!Record
<1>4. CASE Replay!Analyze
  BY <1>4 DEF Replay!Analyze, Replay!Go, Replay!Record
<1>5. CASE Replay!BuildPlan
  BY <1>5 DEF Replay!BuildPlan, Replay!Go
<1>6. CASE Replay!WritePlan
  BY <1>6 DEF Replay!WritePlan, Replay!Go, Replay!Record
<1>7. CASE Replay!NewWriter
  BY <1>7 DEF Replay!NewWriter, Replay!Go
<1>8. CASE Replay!StartWriter
  BY <1>8 DEF Replay!StartWriter, Replay!Go
<1>9. CASE Replay!NewTokenizer
  BY <1>9 DEF Replay!NewTokenizer, Replay!Go, Replay!Open
<1>10. CASE Replay!OpenWarmup
  BY <1>10 DEF Replay!OpenWarmup, Replay!Go, Replay!Open
<1>11. CASE Replay!Warmup
  BY <1>11 DEF Replay!Warmup, Replay!Go, Replay!Record
<1>12. CASE Replay!CloseWarmup
  BY <1>12 DEF Replay!CloseWarmup, Replay!Close
<1>13. CASE Replay!PrepareTasks
  BY <1>13 DEF Replay!PrepareTasks, Replay!Go
<1>14. CASE Replay!WritePreparation
  BY <1>14 DEF Replay!WritePreparation, Replay!Go, Replay!Record
<1>15. CASE Replay!OpenTransport
  BY <1>15 DEF Replay!OpenTransport, Replay!Go, Replay!Open
<1>16. CASE Replay!Execute
  BY <1>16 DEF Replay!Execute, Replay!Go
<1>17. CASE Replay!CloseTransport
  BY <1>17 DEF Replay!CloseTransport, Replay!Close
<1>18. CASE Replay!CloseTokenizer
  BY <1>18 DEF Replay!CloseTokenizer, Replay!Close
<1>19. CASE Replay!CloseWriter
  BY <1>19 DEF Replay!CloseWriter, Replay!Close
<1>20. CASE Replay!Decide
  BY <1>20 DEF Replay!Decide, Replay!Go, Replay!Verdict
<1>21. CASE Replay!WriteExecution
  BY <1>21 DEF Replay!WriteExecution, Replay!Go, Replay!Record
<1>22. CASE Replay!WriteValidation
  BY <1>22 DEF Replay!WriteValidation, Replay!Go, Replay!Record
<1>23. CASE Replay!WriteSummary
  BY <1>23 DEF Replay!WriteSummary, Replay!Go, Replay!Verdict
<1>24. CASE Replay!WriteManifest
  BY <1>24 DEF Replay!WriteManifest, Replay!ReturnOrRaise, Replay!Verdict
<1>25. CASE Replay!Raise
  BY <1>25 DEF Replay!Raise, Replay!RaiseAt, Replay!Steps
<1>26. CASE Replay!FailPlan
  BY <1>26 DEF Replay!FailPlan, Replay!Go
<1>27. CASE Replay!FailPreparation
  BY <1>27 DEF Replay!FailPreparation, Replay!Go, Replay!Record, Replay!PreparationMissing
<1>28. CASE Replay!FailError
  <2>1. \E i \in DOMAIN captures' : captures'[i] = "replay_error"
    BY <1>28, RecordKeeps DEF Replay!FailError, Replay!Go, CaptureInv, NotYetWritten, Name
  <2> QED BY <1>28, <2>1 DEF Replay!FailError, Replay!Go, Replay!Record
<1>29. CASE Replay!FailManifest
  BY <1>29 DEF Replay!FailManifest, Replay!Go
<1>30. CASE Replay!HandlerFails
  BY <1>30 DEF Replay!HandlerFails
<1>31. ASSUME NEW i \in 1..3, Replay!CleanUp(i) PROVE VerdictInv'
  BY <1>31, CleanUpMoves
<1>32. CASE UNCHANGED Replay!vars
  BY <1>32 DEF Replay!vars
<1>33. CASE Replay!StartMetrics
  BY <1>33 DEF Replay!StartMetrics, Replay!Go
<1>34. CASE Replay!EndMetrics
  BY <1>34 DEF Replay!EndMetrics, Replay!Go
<1> QED BY <1>1, <1>2, <1>3, <1>4, <1>5, <1>6, <1>7, <1>8, <1>9, <1>10, <1>11, <1>12, <1>13, <1>14,
    <1>15, <1>16, <1>17, <1>18, <1>19, <1>20, <1>21, <1>22, <1>23, <1>24, <1>25, <1>26, <1>27, <1>28,
    <1>29, <1>30, <1>31, <1>32, <1>33, <1>34 DEF Replay!Next, Replay!Setup, Replay!Finish, Replay!Handler

\* The manifest lists what was captured so far.
LEMMA EvidenceShape ==
  ASSUME Replay!RunnerAssumption, RunTypes, [Replay!Next]_(Replay!vars)
  PROVE  UNCHANGED evidence \/ (evidence' = captures /\ UNCHANGED <<files, captures>>)
<1> USE DEF Replay!run, Replay!data, Replay!disk
<1>1. CASE Replay!Requests \/ Replay!PrepareSource \/ Replay!Convert \/ Replay!Analyze
           \/ Replay!BuildPlan \/ Replay!WritePlan
  BY <1>1 DEF Replay!Requests, Replay!Go, Replay!Record, Replay!PrepareSource, Replay!Convert,
     Replay!Analyze, Replay!BuildPlan, Replay!WritePlan
<1>2. CASE Replay!NewWriter \/ Replay!StartWriter \/ Replay!NewTokenizer \/ Replay!OpenWarmup
  BY <1>2 DEF Replay!NewWriter, Replay!Go, Replay!StartWriter, Replay!NewTokenizer, Replay!Open,
     Replay!OpenWarmup
<1>3. CASE Replay!Warmup \/ Replay!PrepareTasks \/ Replay!WritePreparation \/ Replay!OpenTransport
  BY <1>3 DEF Replay!Warmup, Replay!Go, Replay!Record, Replay!PrepareTasks, Replay!WritePreparation,
     Replay!OpenTransport, Replay!Open
<1>4. CASE Replay!CloseWarmup \/ Replay!CloseTransport \/ Replay!CloseTokenizer
           \/ Replay!CloseWriter \/ Replay!Raise
  BY <1>4 DEF Replay!CloseWarmup, Replay!Close, Replay!CloseTransport, Replay!CloseTokenizer,
     Replay!CloseWriter, Replay!Raise, Replay!RaiseAt, Replay!Steps
<1>5. CASE Replay!Execute \/ Replay!Decide \/ Replay!WriteExecution \/ Replay!WriteValidation
           \/ Replay!WriteSummary
  BY <1>5 DEF Replay!Execute, Replay!Go, Replay!Decide, Replay!Verdict, Replay!WriteExecution,
     Replay!Record, Replay!WriteValidation, Replay!WriteSummary
<1>6. CASE Replay!FailPlan \/ Replay!FailPreparation \/ Replay!FailError \/ Replay!HandlerFails
  BY <1>6 DEF Replay!FailPlan, Replay!Go, Replay!FailPreparation, Replay!Record,
     Replay!PreparationMissing, Replay!FailError, Replay!HandlerFails
<1>7. CASE Replay!WriteManifest \/ Replay!FailManifest
  BY <1>7 DEF Replay!WriteManifest, Replay!ReturnOrRaise, Replay!Verdict, Replay!FailManifest, Replay!Go
<1>8. ASSUME NEW i \in 1..3, Replay!CleanUp(i)
      PROVE  UNCHANGED evidence \/ (evidence' = captures /\ UNCHANGED <<files, captures>>)
  BY <1>8, CleanUpMoves DEF Replay!disk
<1>9. CASE UNCHANGED Replay!vars
  BY <1>9 DEF Replay!vars
<1>10. CASE Replay!StartMetrics \/ Replay!EndMetrics
  BY <1>10 DEF Replay!StartMetrics, Replay!EndMetrics
<1> QED BY <1>1, <1>2, <1>3, <1>4, <1>5, <1>6, <1>7, <1>8, <1>9, <1>10 DEF Replay!Next, Replay!Setup,
    Replay!Finish, Replay!Handler

\* Every step of run_replay() keeps the invariant.
LEMMA RunnerStep ==
  ASSUME Replay!RunnerAssumption, RunnerInv, [Replay!Next]_(Replay!vars)
  PROVE  RunnerInv'
<1>1. RunTypes /\ Replay!RunnerTypeOK /\ CapturesExact /\ Replay!EvidenceOnDisk /\ NotYetWritten /\ PlainTypes /\ StatusType
  BY DEF RunnerInv, RunTypes, Replay!RunnerTypeOK, CaptureInv, PlainTypes, StatusType
<1>2. captures' \in Seq(Name) /\ CapturesExact' /\ files \subseteq files'
  <2>1. CASE UNCHANGED <<files, captures>>
    BY <1>1, <2>1 DEF RunTypes, CapturesExact
  <2>2. ASSUME NEW n \in Name, Replay!Record(n), n \notin files
        PROVE  captures' \in Seq(Name) /\ CapturesExact' /\ files \subseteq files'
    BY <1>1, <2>2, RecordKeeps DEF RunTypes
  <2> QED BY <1>1, <2>1, <2>2, CaptureShape
<1>3. UNCHANGED evidence \/ (evidence' = captures /\ UNCHANGED <<files, captures>>)
  BY <1>1, EvidenceShape
<1>4. evidence' \in Seq(Name) /\ Replay!EvidenceOnDisk'
  BY <1>1, <1>2, <1>3 DEF RunTypes, Replay!EvidenceOnDisk, CapturesExact
<1>5. HeldTypes' /\ PlainTypes' /\ StatusType'
  BY <1>1, HeldTypeStep, PlainTypeStep, StatusTypeStep
<1>6. RunTypes'
  BY <1>1, <1>2, <1>4, <1>5, PcStep DEF RunTypes, PlainTypes, StatusType
<1>7. Replay!RunnerTypeOK'
  BY <1>5 DEF HeldTypes, PlainTypes, StatusType, Replay!RunnerTypeOK
<1>8. CaptureInv'
  BY <1>1, <1>2, <1>4, NotYetStep DEF CaptureInv
<1> QED BY <1>6, <1>7, <1>8, ResourceStep, VerdictStep DEF RunnerInv

\* It holds when the run begins.
LEMMA RunnerInitInv ==
  ASSUME Replay!RunnerAssumption, Replay!Init
  PROVE  RunnerInv
<1>1. << >> \in Seq(Name)
  OBVIOUS
<1>2. RunTypes
  BY <1>1 DEF Replay!Init, RunTypes, Forward, Closing, Failing, UntilSource, UntilWriter,
     UntilPrepared, Executing, Deciding
<1>3. Replay!RunnerTypeOK
  BY DEF Replay!Init, Replay!RunnerTypeOK, Replay!Resource, Replay!Object, Replay!RunnerAssumption
<1>4. ResourceInv
  BY DEF Replay!Init, ResourceInv, ForwardBooks, HandlerBooks, Replay!ClosedOnce,
     Replay!WriterOutlivesTransport, Replay!Resource, Replay!Object, Forward, Closing, Failing,
     UntilSource, UntilWriter, UntilPrepared, Executing, Deciding, Held, Opened, HoldsNothing,
     HoldsWriter, HoldsBoth, HoldsWarmup, HoldsReplay
<1>5. VerdictInv
  BY DEF Replay!Init, VerdictInv, Replay!VerdictsAgree, Replay!RunnerAssumption, Deciding
<1>6. CaptureInv
  BY DEF Replay!Init, CaptureInv, CapturesExact, Replay!EvidenceOnDisk, NotYetWritten
<1> QED BY <1>2, <1>3, <1>4, <1>5, <1>6 DEF RunnerInv

\* It implies what run_replay() promises.
LEMMA RunnerInvImplies ==
  ASSUME Replay!RunnerAssumption, RunnerInv
  PROVE  /\ Replay!RunnerTypeOK /\ Replay!ClosedOnce /\ Replay!WriterOutlivesTransport /\ Replay!NothingLeftOpen
         /\ Replay!CompletedIsCovered /\ Replay!VerdictsAgree /\ Replay!EvidenceOnDisk
<1>1. Replay!NothingLeftOpen
  BY DEF RunnerInv, ResourceInv, HandlerBooks, Replay!NothingLeftOpen, Replay!Object, Forward, Closing,
     Failing, UntilSource, UntilWriter, UntilPrepared, Executing, Deciding
<1>2. Replay!CompletedIsCovered
  BY DEF RunnerInv, VerdictInv, Replay!CompletedIsCovered, Replay!Complete
<1> QED BY <1>1, <1>2 DEF RunnerInv, ResourceInv, VerdictInv, CaptureInv

\* run_replay() closes what it opened, once and the writer last, a completed run is
\* covered by facts, and the evidence is on disk, whatever step raises or times
\* out (replay/runner.py: run_replay, _close_replay_resources).
THEOREM RunnerSafe ==
  ASSUME Replay!RunnerAssumption
  PROVE  Replay!Spec => [](/\ Replay!RunnerTypeOK /\ Replay!ClosedOnce /\ Replay!WriterOutlivesTransport /\ Replay!NothingLeftOpen
                    /\ Replay!CompletedIsCovered /\ Replay!VerdictsAgree /\ Replay!EvidenceOnDisk)
<1>1. Replay!Init => RunnerInv
  BY RunnerInitInv
<1>2. RunnerInv /\ [Replay!Next]_(Replay!vars) => RunnerInv'
  BY RunnerStep
<1>3. RunnerInv => /\ Replay!RunnerTypeOK /\ Replay!ClosedOnce /\ Replay!WriterOutlivesTransport /\ Replay!NothingLeftOpen
                   /\ Replay!CompletedIsCovered /\ Replay!VerdictsAgree /\ Replay!EvidenceOnDisk
  BY RunnerInvImplies
<1> QED BY <1>1, <1>2, <1>3, PTL DEF Replay!Spec
-----------------------------------------------------------------------------
(* Workspaces.                                                             *)

\* The places of a thread that runs a command, before and after its process lives.
Signalling == {"sigterm", "wait", "sigkill", "sweep"}
Place == {"idle", "start", "spawn", "register", "communicate", "terminated", "raised", "done", "failed"} \cup Signalling
Cancelled == {"terminating", "terminated", "raised"}

OwnerTypes ==
  /\ at \in [Space!Thread -> Place] /\ target \in Task \cup {None}
  /\ rc \in [Task -> BOOLEAN]
  /\ cache \in [git : BOOLEAN, remote : BOOLEAN, commits : SUBSET Task]
  /\ processes \subseteq Task /\ snapshot \subseteq Task /\ child \subseteq Task
  /\ cmd \in [Task -> Space!CacheCmd \cup Space!PrepareCmd \cup {None}]
  /\ proc \in [Task -> {"none", "running", "zombie", "reaped"}]
  /\ ws \in [Task -> Space!PrepareCmd \cup {None}]

\* The main thread signals one process at a time, and only once the owner is cancelled.
MainBooks ==
  /\ phase \in {"caching", "preparing"} \cup Cancelled
  /\ owner_cancelled <=> phase \in Cancelled
  /\ at[Main] \in {"idle", "terminated", "raised"} \cup Signalling
  /\ target = None <=> at[Main] = "idle"
  /\ target # None => phase = "terminating"

\* A registered process has its thread beyond the registration, and a thread
\* that awaits its process has registered it.
Registered ==
  /\ \A t \in processes : at[t] \in {"communicate", "terminated", "raised"} \cup Signalling
  /\ \A t \in Task : at[t] = "communicate" => t \in processes

\* Outside the places where a thread has a process, its process group is gone;
\* a thread that sweeps has reaped the leader.
GroupsGone ==
  \A t \in Task :
    /\ at[t] \in {"idle", "start", "spawn", "done", "failed", "terminated", "raised"} => ~Space!Alive(t)
    /\ at[t] = "sweep" => proc[t] = "reaped"

\* Once the owner is cancelled, a process whose thread still awaits it is one
\* that terminate_all() has yet to come to, or is at.
StillToTerminate ==
  \A t \in Task : owner_cancelled /\ at[t] = "communicate" =>
    /\ Space!Alive(t) /\ phase # "raised" => phase = "terminating" /\ (t \in snapshot \/ (target = t /\ at[Main] \in Signalling))
    /\ target = t /\ at[Main] = "sweep" => proc[t] = "reaped"

\* What a command that succeeded leaves on disk.
Exited(t) == at[t] \in {"register", "communicate"} /\ proc[t] \in {"zombie", "reaped"} /\ rc[t]
CacheBook(t) ==
  /\ at[t] \in {"spawn", "register", "communicate"} => cmd[t] \in Space!CacheCmd
  /\ at[t] = "done" => t \in cache.commits
  /\ Exited(t) /\ cmd[t] \in {"cat-file", "fetch again"} => t \in cache.commits
PrepareBook(t) ==
  /\ t \in cache.commits
  /\ at[t] \in {"spawn", "register", "communicate"} => cmd[t] \in Space!PrepareCmd
  /\ at[t] = "done" => ws[t] = "commit"
  /\ Exited(t) => ws[t] = cmd[t]
CacheBooks == phase = "caching" => \A t \in Task : CacheBook(t)
PrepareBooks == phase = "preparing" => \A t \in Task : PrepareBook(t)

WorkspaceInv ==
  /\ OwnerTypes /\ MainBooks /\ Registered /\ GroupsGone /\ StillToTerminate /\ CacheBooks /\ PrepareBooks

\* The commands of a cache update end with cat-file or the second fetch, those
\* of a preparation with the commit.
LEMMA FollowingCmd ==
  ASSUME Space!WorkspaceAssumption, NEW t \in Task, rc[t] \in BOOLEAN
  PROVE  /\ cmd[t] \in Space!CacheCmd =>
              /\ Space!Following(t) \in Space!CacheCmd \cup {None}
              /\ Space!Following(t) = None => cmd[t] = "fetch again" \/ (cmd[t] = "cat-file" /\ rc[t])
         /\ cmd[t] \in Space!PrepareCmd =>
              /\ Space!Following(t) \in Space!PrepareCmd \cup {None}
              /\ Space!Following(t) = None => cmd[t] = "commit"
         /\ cmd[t] = None => Space!Following(t) = None
<1> USE DEF Space!WorkspaceAssumption, Space!CacheCmd, Space!PrepareCmd
<1>1. CASE cmd[t] = "init"
  BY <1>1 DEF Space!Following
<1>2. CASE cmd[t] = "remote"
  BY <1>2 DEF Space!Following
<1>3. CASE cmd[t] = "fetch"
  BY <1>3 DEF Space!Following
<1>4. CASE cmd[t] = "cat-file"
  BY <1>4 DEF Space!Following
<1>5. CASE cmd[t] = "fetch again" \/ cmd[t] = None \/ cmd[t] = "commit"
  BY <1>5 DEF Space!Following
<1>6. CASE cmd[t] = "archive"
  BY <1>6 DEF Space!Following
<1>7. CASE cmd[t] = "tar"
  BY <1>7 DEF Space!Following
<1>8. CASE cmd[t] = "git init"
  BY <1>8 DEF Space!Following
<1>9. CASE cmd[t] = "add"
  BY <1>9 DEF Space!Following
<1> QED BY <1>1, <1>2, <1>3, <1>4, <1>5, <1>6, <1>7, <1>8, <1>9

\* A command that succeeds had its effect; the others' workspaces and the
\* commits of the cache are kept.
EffectFacts(t) ==
  /\ cache' \in [git : BOOLEAN, remote : BOOLEAN, commits : SUBSET Task]
  /\ cache.commits \subseteq cache'.commits
  /\ ws' \in [Task -> Space!PrepareCmd \cup {None}]
  /\ \A u \in Task : u # t => ws'[u] = ws[u]

\* A command changes the cache and the workspace of its own thread only.
LEMMA EffectKeeps ==
  ASSUME OwnerTypes, NEW t \in Task, Space!Effect(t)
  PROVE  /\ EffectFacts(t)
         /\ cmd[t] \in {"fetch", "fetch again"} => t \in cache'.commits
         /\ cmd[t] \in Space!PrepareCmd => ws'[t] = cmd[t]
<1>1. /\ cache' \in [git : BOOLEAN, remote : BOOLEAN, commits : SUBSET Task]
      /\ cache.commits \subseteq cache'.commits
      /\ cmd[t] \in {"fetch", "fetch again"} => t \in cache'.commits
  <2> USE DEF OwnerTypes, Space!Effect
  <2>1. CASE cmd[t] = "init"
    BY <2>1
  <2>2. CASE cmd[t] = "remote"
    BY <2>2
  <2>3. CASE cmd[t] \in {"fetch", "fetch again"}
    BY <2>3
  <2>4. CASE cmd[t] \notin {"init", "remote", "fetch", "fetch again"}
    BY <2>4
  <2> QED BY <2>1, <2>2, <2>3, <2>4
<1>2. /\ ws' \in [Task -> Space!PrepareCmd \cup {None}]
      /\ \A u \in Task : u # t => ws'[u] = ws[u]
      /\ cmd[t] \in Space!PrepareCmd => ws'[t] = cmd[t]
  BY DEF OwnerTypes, Space!Effect
<1> QED BY <1>1, <1>2 DEF EffectFacts

\* A process that exits leaves the ones of the other threads alone.
LEMMA ExitKeeps ==
  ASSUME OwnerTypes, NEW t \in Task, Space!Exit(t)
  PROVE  /\ EffectFacts(t)
         /\ rc' \in [Task -> BOOLEAN] /\ \A u \in Task : u # t => rc'[u] = rc[u]
         /\ rc'[t] /\ cmd[t] \in {"fetch", "fetch again", "cat-file"} => t \in cache'.commits
         /\ rc'[t] /\ cmd[t] \in Space!PrepareCmd => ws'[t] = cmd[t]
<1>1. CASE Space!Possible(t) /\ rc' = [rc EXCEPT ![t] = TRUE] /\ Space!Effect(t)
  <2>1. cmd[t] = "cat-file" => t \in cache.commits
    BY <1>1 DEF Space!Possible
  <2> QED BY <1>1, <2>1, EffectKeeps DEF OwnerTypes, EffectFacts
<1>2. CASE rc' = [rc EXCEPT ![t] = FALSE] /\ UNCHANGED Space!disk
  BY <1>2 DEF OwnerTypes, EffectFacts, Space!disk
<1>3. CASE rc' = [rc EXCEPT ![t] = FALSE] /\ Space!Effect(t)
  BY <1>3, EffectKeeps DEF OwnerTypes
<1> QED BY <1>1, <1>2, <1>3 DEF Space!Exit

\* SIGKILL makes no command a success.
LEMMA SigKillKeeps ==
  ASSUME OwnerTypes, NEW k \in Space!Thread, NEW t \in Task, Space!SigKill(k, t)
  PROVE  /\ proc' \in [Task -> {"none", "running", "zombie", "reaped"}]
         /\ rc' \in [Task -> BOOLEAN] /\ child' \subseteq Task
         /\ \A u \in Task : proc'[u] \in {"zombie", "reaped"} /\ rc'[u] => proc[u] \in {"zombie", "reaped"} /\ rc[u]
<1>1. CASE UNCHANGED Space!os
  BY <1>1 DEF OwnerTypes, Space!os
<1>2. CASE /\ proc' = [proc EXCEPT ![t] = IF @ = "running" THEN "zombie" ELSE @]
           /\ rc' = [rc EXCEPT ![t] = @ /\ proc[t] # "running"]
           /\ child' = child \ {t}
  <2>1. proc' \in [Task -> {"none", "running", "zombie", "reaped"}] /\ child' \subseteq Task
    BY <1>2 DEF OwnerTypes
  <2>2. (rc[t] /\ (proc[t] # "running")) \in BOOLEAN
    OBVIOUS
  <2>3. rc' \in [Task -> BOOLEAN]
    BY <1>2, <2>2 DEF OwnerTypes
  <2>4. \A u \in Task : rc'[u] => rc[u] /\ (u = t => proc[t] # "running")
    BY <1>2 DEF OwnerTypes
  <2>5. \A u \in Task : proc[u] # "running" => proc'[u] = proc[u]
    BY <1>2 DEF OwnerTypes
  <2>6. \A u \in Task : u # t => proc'[u] = proc[u]
    BY <1>2 DEF OwnerTypes
  <2> QED BY <2>1, <2>3, <2>4, <2>5, <2>6
<1> QED BY <1>1, <1>2 DEF Space!SigKill

\* Threads, commands and processes keep their types.
LEMMA OwnerTypesStep ==
  ASSUME Space!WorkspaceAssumption, OwnerTypes, [Space!Next]_(Space!vars)
  PROVE  OwnerTypes'
<1> USE DEF Space!Goto, Space!Thread, Space!main, Space!owner, Space!os, Space!disk,
    Space!WorkspaceAssumption, OwnerTypes, Signalling, Place, Space!CacheCmd, Space!PrepareCmd
<1>1. ASSUME NEW t \in Task, Space!Begin(t) PROVE OwnerTypes'
  BY <1>1 DEF Space!Begin, Space!First
<1>2. ASSUME NEW t \in Task, Space!Spawn(t) PROVE OwnerTypes'
  BY <1>2 DEF Space!Spawn
<1>3. ASSUME NEW t \in Task, Space!Register(t) PROVE OwnerTypes'
  <2>1. \E x \in Place : at' = [at EXCEPT ![t] = x]
    BY <1>3 DEF Space!Register
  <2>2. processes' \subseteq Task
    <3> HIDE DEF Place, Space!CacheCmd, Space!PrepareCmd, Space!WorkspaceAssumption, Signalling
    <3>1. processes' = processes \/ processes' = processes \cup {t}
      BY <1>3 DEF Space!Register
    <3> QED BY <3>1
  <2>3. at' \in [Space!Thread -> Place]
    <3> HIDE DEF Place, Space!CacheCmd, Space!PrepareCmd
    <3> QED BY <2>1
  <2>4. UNCHANGED <<target, rc, cache, snapshot, child, cmd, proc, ws>>
    BY <1>3 DEF Space!Register
  <2> HIDE DEF Place, Space!CacheCmd, Space!PrepareCmd, Space!WorkspaceAssumption, Signalling
  <2> QED BY <2>2, <2>3, <2>4
<1>4. ASSUME NEW t \in Task, Space!Communicate(t) PROVE OwnerTypes'
  <2>1. Space!Following(t) \in Space!CacheCmd \cup Space!PrepareCmd \cup {None}
    BY FollowingCmd
  <2>2. \E x \in Place : at' = [at EXCEPT ![t] = x]
    BY <1>4 DEF Space!Communicate
  <2> HIDE DEF Space!CacheCmd, Space!PrepareCmd
  <2>3. cmd' \in [Task -> Space!CacheCmd \cup Space!PrepareCmd \cup {None}]
    BY <1>4, <2>1 DEF Space!Communicate
  <2> QED BY <1>4, <2>2, <2>3 DEF Space!Communicate, Space!Discarded
<1>5. ASSUME NEW t \in Task, Space!Expire(t) PROVE OwnerTypes'
  BY <1>5 DEF Space!Expire, Space!GroupGone
<1>6. ASSUME NEW t \in Task, Space!GiveUp(t) PROVE OwnerTypes'
  BY <1>6 DEF Space!GiveUp, Space!Discarded
<1>7. ASSUME NEW t \in Task, Space!Exit(t) PROVE OwnerTypes'
  BY <1>7, ExitKeeps DEF Space!Exit, EffectFacts
<1>8. ASSUME NEW t \in Task, Space!Descend(t) PROVE OwnerTypes'
  BY <1>8 DEF Space!Descend
<1>9. ASSUME NEW t \in Task, Space!DescendantExits(t) PROVE OwnerTypes'
  BY <1>9 DEF Space!DescendantExits
<1>10. ASSUME NEW t \in Task, Space!StartCache(t) PROVE OwnerTypes'
  BY <1>10 DEF Space!StartCache
<1>11. ASSUME NEW t \in Task, Space!TerminateNext(t) PROVE OwnerTypes'
  BY <1>11 DEF Space!TerminateNext
<1>12. ASSUME NEW k \in Space!Thread, NEW t \in Task, k = t \/ (k = Main /\ target = t),
              Space!SigTerm(k, t)
       PROVE  OwnerTypes'
  BY <1>12 DEF Space!SigTerm, Space!GroupGone
<1>13. ASSUME NEW k \in Space!Thread, NEW t \in Task, k = t \/ (k = Main /\ target = t), Space!Wait(k,
              t)
       PROVE  OwnerTypes'
  BY <1>13 DEF Space!Wait
<1>14. ASSUME NEW k \in Space!Thread, NEW t \in Task, k = t \/ (k = Main /\ target = t),
              Space!SigKill(k, t)
       PROVE  OwnerTypes'
  <2>1. \E x \in Place : at' = [at EXCEPT ![k] = x]
    BY <1>14 DEF Space!SigKill
  <2> QED BY <1>14, <2>1, SigKillKeeps DEF Space!SigKill
<1>15. ASSUME NEW k \in Space!Thread, NEW t \in Task, k = t \/ (k = Main /\ target = t), Space!Sweep(k,
              t)
       PROVE  OwnerTypes'
  BY <1>15 DEF Space!Sweep
<1>16. CASE Space!StartPrepare
  BY <1>16 DEF Space!StartPrepare
<1>17. CASE Space!TerminateReturns
  BY <1>17 DEF Space!TerminateReturns
<1>18. CASE Space!AllTerminated
  BY <1>18 DEF Space!AllTerminated
<1>19. CASE Space!TerminateAll
  BY <1>19 DEF Space!TerminateAll
<1>20. CASE Space!NewRun
  BY <1>20 DEF Space!NewRun
<1>21. CASE UNCHANGED Space!vars
  BY <1>21 DEF Space!vars
<1> QED BY <1>1, <1>2, <1>3, <1>4, <1>5, <1>6, <1>7, <1>8, <1>9, <1>10, <1>11, <1>12, <1>13, <1>14,
    <1>15, <1>16, <1>17, <1>18, <1>19, <1>20, <1>21 DEF Space!Next, Space!MainStep, Space!ThreadStep,
    Space!Terminate, Space!Thread

\* The main thread has a target only while it terminates, after the owner is cancelled.
LEMMA MainBooksStep ==
  ASSUME Space!WorkspaceAssumption, OwnerTypes, MainBooks, [Space!Next]_(Space!vars)
  PROVE  MainBooks'
<1> USE DEF Space!Goto, Space!Thread, Space!main, Space!owner, Space!os, Space!disk,
    Space!WorkspaceAssumption, OwnerTypes, MainBooks, Signalling, Cancelled
<1>1. ASSUME NEW t \in Task, Space!Begin(t) PROVE MainBooks'
  BY <1>1 DEF Space!Begin, Space!First
<1>2. ASSUME NEW t \in Task, Space!Spawn(t) PROVE MainBooks'
  BY <1>2 DEF Space!Spawn
<1>3. ASSUME NEW t \in Task, Space!Register(t) PROVE MainBooks'
  BY <1>3 DEF Space!Register, Space!Refused
<1>4. ASSUME NEW t \in Task, Space!Communicate(t) PROVE MainBooks'
  BY <1>4 DEF Space!Communicate, Space!PipesClosed, Space!Discarded, Space!Accepted, Space!Following
<1>5. ASSUME NEW t \in Task, Space!Expire(t) PROVE MainBooks'
  BY <1>5 DEF Space!Expire, Space!GroupGone
<1>6. ASSUME NEW t \in Task, Space!GiveUp(t) PROVE MainBooks'
  BY <1>6 DEF Space!GiveUp, Space!Discarded
<1>7. ASSUME NEW t \in Task, Space!Exit(t) PROVE MainBooks'
  BY <1>7 DEF Space!Exit, Space!Possible, Space!Effect
<1>8. ASSUME NEW t \in Task, Space!Descend(t) PROVE MainBooks'
  BY <1>8 DEF Space!Descend
<1>9. ASSUME NEW t \in Task, Space!DescendantExits(t) PROVE MainBooks'
  BY <1>9 DEF Space!DescendantExits
<1>10. ASSUME NEW t \in Task, Space!StartCache(t) PROVE MainBooks'
  BY <1>10 DEF Space!StartCache
<1>11. ASSUME NEW t \in Task, Space!TerminateNext(t) PROVE MainBooks'
  BY <1>11 DEF Space!TerminateNext
<1>12. ASSUME NEW k \in Space!Thread, NEW t \in Task, k = t \/ (k = Main /\ target = t),
              Space!SigTerm(k, t)
       PROVE  MainBooks'
  BY <1>12 DEF Space!SigTerm, Space!GroupGone
<1>13. ASSUME NEW k \in Space!Thread, NEW t \in Task, k = t \/ (k = Main /\ target = t), Space!Wait(k,
              t)
       PROVE  MainBooks'
  BY <1>13 DEF Space!Wait
<1>14. ASSUME NEW k \in Space!Thread, NEW t \in Task, k = t \/ (k = Main /\ target = t),
              Space!SigKill(k, t)
       PROVE  MainBooks'
  BY <1>14 DEF Space!SigKill, Space!GroupGone
<1>15. ASSUME NEW k \in Space!Thread, NEW t \in Task, k = t \/ (k = Main /\ target = t), Space!Sweep(k,
              t)
       PROVE  MainBooks'
  BY <1>15 DEF Space!Sweep
<1>16. CASE Space!StartPrepare
  BY <1>16 DEF Space!StartPrepare
<1>17. CASE Space!TerminateReturns
  BY <1>17 DEF Space!TerminateReturns
<1>18. CASE Space!AllTerminated
  BY <1>18 DEF Space!AllTerminated
<1>19. CASE Space!TerminateAll
  BY <1>19 DEF Space!TerminateAll
<1>20. CASE Space!NewRun
  BY <1>20 DEF Space!NewRun
<1>21. CASE UNCHANGED Space!vars
  BY <1>21 DEF Space!vars
<1> QED BY <1>1, <1>2, <1>3, <1>4, <1>5, <1>6, <1>7, <1>8, <1>9, <1>10, <1>11, <1>12, <1>13, <1>14,
    <1>15, <1>16, <1>17, <1>18, <1>19, <1>20, <1>21 DEF Space!Next, Space!MainStep, Space!ThreadStep,
    Space!Terminate, Space!Thread

\* A process is registered before its thread waits for it.
LEMMA RegisteredStep ==
  ASSUME Space!WorkspaceAssumption, OwnerTypes, MainBooks, Registered, [Space!Next]_(Space!vars)
  PROVE  Registered'
<1> USE DEF Space!Goto, Space!Thread, Space!main, Space!owner, Space!os, Space!disk,
    Space!WorkspaceAssumption, OwnerTypes, MainBooks, Registered, Signalling, Cancelled
<1>1. ASSUME NEW t \in Task, Space!Begin(t) PROVE Registered'
  BY <1>1 DEF Space!Begin, Space!First
<1>2. ASSUME NEW t \in Task, Space!Spawn(t) PROVE Registered'
  BY <1>2 DEF Space!Spawn
<1>3. ASSUME NEW t \in Task, Space!Register(t) PROVE Registered'
  BY <1>3 DEF Space!Register, Space!Refused
<1>4. ASSUME NEW t \in Task, Space!Communicate(t) PROVE Registered'
  BY <1>4 DEF Space!Communicate, Space!PipesClosed, Space!Discarded, Space!Accepted, Space!Following
<1>5. ASSUME NEW t \in Task, Space!Expire(t) PROVE Registered'
  BY <1>5 DEF Space!Expire, Space!GroupGone
<1>6. ASSUME NEW t \in Task, Space!GiveUp(t) PROVE Registered'
  BY <1>6 DEF Space!GiveUp, Space!Discarded
<1>7. ASSUME NEW t \in Task, Space!Exit(t) PROVE Registered'
  BY <1>7 DEF Space!Exit, Space!Possible, Space!Effect
<1>8. ASSUME NEW t \in Task, Space!Descend(t) PROVE Registered'
  BY <1>8 DEF Space!Descend
<1>9. ASSUME NEW t \in Task, Space!DescendantExits(t) PROVE Registered'
  BY <1>9 DEF Space!DescendantExits
<1>10. ASSUME NEW t \in Task, Space!StartCache(t) PROVE Registered'
  BY <1>10 DEF Space!StartCache
<1>11. ASSUME NEW t \in Task, Space!TerminateNext(t) PROVE Registered'
  BY <1>11 DEF Space!TerminateNext
<1>12. ASSUME NEW k \in Space!Thread, NEW t \in Task, k = t \/ (k = Main /\ target = t),
              Space!SigTerm(k, t)
       PROVE  Registered'
  BY <1>12 DEF Space!SigTerm, Space!GroupGone
<1>13. ASSUME NEW k \in Space!Thread, NEW t \in Task, k = t \/ (k = Main /\ target = t), Space!Wait(k,
              t)
       PROVE  Registered'
  BY <1>13 DEF Space!Wait
<1>14. ASSUME NEW k \in Space!Thread, NEW t \in Task, k = t \/ (k = Main /\ target = t),
              Space!SigKill(k, t)
       PROVE  Registered'
  BY <1>14 DEF Space!SigKill, Space!GroupGone
<1>15. ASSUME NEW k \in Space!Thread, NEW t \in Task, k = t \/ (k = Main /\ target = t), Space!Sweep(k,
              t)
       PROVE  Registered'
  BY <1>15 DEF Space!Sweep
<1>16. CASE Space!StartPrepare
  BY <1>16 DEF Space!StartPrepare
<1>17. CASE Space!TerminateReturns
  BY <1>17 DEF Space!TerminateReturns
<1>18. CASE Space!AllTerminated
  BY <1>18 DEF Space!AllTerminated
<1>19. CASE Space!TerminateAll
  BY <1>19 DEF Space!TerminateAll
<1>20. CASE Space!NewRun
  BY <1>20 DEF Space!NewRun
<1>21. CASE UNCHANGED Space!vars
  BY <1>21 DEF Space!vars
<1> QED BY <1>1, <1>2, <1>3, <1>4, <1>5, <1>6, <1>7, <1>8, <1>9, <1>10, <1>11, <1>12, <1>13, <1>14,
    <1>15, <1>16, <1>17, <1>18, <1>19, <1>20, <1>21 DEF Space!Next, Space!MainStep, Space!ThreadStep,
    Space!Terminate, Space!Thread

\* A thread leaves a command only when its process group is gone.
LEMMA GroupsGoneStep ==
  ASSUME Space!WorkspaceAssumption, OwnerTypes, MainBooks, GroupsGone, [Space!Next]_(Space!vars)
  PROVE  GroupsGone'
<1> USE DEF Space!Goto, Space!Thread, Space!main, Space!owner, Space!os, Space!disk,
    Space!WorkspaceAssumption, OwnerTypes, MainBooks, GroupsGone, Space!Alive, Signalling
<1>1. ASSUME NEW t \in Task, Space!Begin(t) PROVE GroupsGone'
  BY <1>1 DEF Space!Begin, Space!First
<1>2. ASSUME NEW t \in Task, Space!Spawn(t) PROVE GroupsGone'
  BY <1>2 DEF Space!Spawn
<1>3. ASSUME NEW t \in Task, Space!Register(t) PROVE GroupsGone'
  BY <1>3 DEF Space!Register, Space!Refused
<1>4. ASSUME NEW t \in Task, Space!Communicate(t) PROVE GroupsGone'
  BY <1>4 DEF Space!Communicate, Space!PipesClosed, Space!Discarded, Space!Accepted, Space!Following
<1>5. ASSUME NEW t \in Task, Space!Expire(t) PROVE GroupsGone'
  BY <1>5 DEF Space!Expire, Space!GroupGone
<1>6. ASSUME NEW t \in Task, Space!GiveUp(t) PROVE GroupsGone'
  BY <1>6 DEF Space!GiveUp, Space!Discarded
<1>7. ASSUME NEW t \in Task, Space!Exit(t) PROVE GroupsGone'
  BY <1>7 DEF Space!Exit, Space!Possible, Space!Effect
<1>8. ASSUME NEW t \in Task, Space!Descend(t) PROVE GroupsGone'
  BY <1>8 DEF Space!Descend
<1>9. ASSUME NEW t \in Task, Space!DescendantExits(t) PROVE GroupsGone'
  BY <1>9 DEF Space!DescendantExits
<1>10. ASSUME NEW t \in Task, Space!StartCache(t) PROVE GroupsGone'
  BY <1>10 DEF Space!StartCache
<1>11. ASSUME NEW t \in Task, Space!TerminateNext(t) PROVE GroupsGone'
  BY <1>11 DEF Space!TerminateNext
<1>12. ASSUME NEW k \in Space!Thread, NEW t \in Task, k = t \/ (k = Main /\ target = t),
              Space!SigTerm(k, t)
       PROVE  GroupsGone'
  BY <1>12 DEF Space!SigTerm, Space!GroupGone
<1>13. ASSUME NEW k \in Space!Thread, NEW t \in Task, k = t \/ (k = Main /\ target = t), Space!Wait(k,
              t)
       PROVE  GroupsGone'
  BY <1>13 DEF Space!Wait
<1>14. ASSUME NEW k \in Space!Thread, NEW t \in Task, k = t \/ (k = Main /\ target = t),
              Space!SigKill(k, t)
       PROVE  GroupsGone'
  BY <1>14 DEF Space!SigKill, Space!GroupGone
<1>15. ASSUME NEW k \in Space!Thread, NEW t \in Task, k = t \/ (k = Main /\ target = t), Space!Sweep(k,
              t)
       PROVE  GroupsGone'
  BY <1>15 DEF Space!Sweep
<1>16. CASE Space!StartPrepare
  BY <1>16 DEF Space!StartPrepare
<1>17. CASE Space!TerminateReturns
  BY <1>17 DEF Space!TerminateReturns
<1>18. CASE Space!AllTerminated
  BY <1>18 DEF Space!AllTerminated
<1>19. CASE Space!TerminateAll
  BY <1>19 DEF Space!TerminateAll
<1>20. CASE Space!NewRun
  BY <1>20 DEF Space!NewRun
<1>21. CASE UNCHANGED Space!vars
  BY <1>21 DEF Space!vars
<1> QED BY <1>1, <1>2, <1>3, <1>4, <1>5, <1>6, <1>7, <1>8, <1>9, <1>10, <1>11, <1>12, <1>13, <1>14,
    <1>15, <1>16, <1>17, <1>18, <1>19, <1>20, <1>21 DEF Space!Next, Space!MainStep, Space!ThreadStep,
    Space!Terminate, Space!Thread

\* terminate_all() comes to every process that is registered when the owner is
\* cancelled, and none is registered after that.
LEMMA StillStep ==
  ASSUME Space!WorkspaceAssumption, OwnerTypes, MainBooks, Registered, StillToTerminate,
         [Space!Next]_(Space!vars)
  PROVE  StillToTerminate'
<1> USE DEF Space!Goto, Space!Thread, Space!main, Space!owner, Space!os, Space!disk,
    Space!WorkspaceAssumption, OwnerTypes, MainBooks, Registered, StillToTerminate, Space!Alive,
    Signalling, Cancelled
<1>1. ASSUME NEW t \in Task, Space!Begin(t) PROVE StillToTerminate'
  BY <1>1 DEF Space!Begin, Space!First
<1>2. ASSUME NEW t \in Task, Space!Spawn(t) PROVE StillToTerminate'
  BY <1>2 DEF Space!Spawn
<1>3. ASSUME NEW t \in Task, Space!Register(t) PROVE StillToTerminate'
  BY <1>3 DEF Space!Register, Space!Refused
<1>4. ASSUME NEW t \in Task, Space!Communicate(t) PROVE StillToTerminate'
  BY <1>4 DEF Space!Communicate, Space!PipesClosed, Space!Discarded, Space!Accepted, Space!Following
<1>5. ASSUME NEW t \in Task, Space!Expire(t) PROVE StillToTerminate'
  BY <1>5 DEF Space!Expire, Space!GroupGone
<1>6. ASSUME NEW t \in Task, Space!GiveUp(t) PROVE StillToTerminate'
  BY <1>6 DEF Space!GiveUp, Space!Discarded
<1>7. ASSUME NEW t \in Task, Space!Exit(t) PROVE StillToTerminate'
  BY <1>7 DEF Space!Exit, Space!Possible, Space!Effect
<1>8. ASSUME NEW t \in Task, Space!Descend(t) PROVE StillToTerminate'
  BY <1>8 DEF Space!Descend
<1>9. ASSUME NEW t \in Task, Space!DescendantExits(t) PROVE StillToTerminate'
  BY <1>9 DEF Space!DescendantExits
<1>10. ASSUME NEW t \in Task, Space!StartCache(t) PROVE StillToTerminate'
  BY <1>10 DEF Space!StartCache
<1>11. ASSUME NEW t \in Task, Space!TerminateNext(t) PROVE StillToTerminate'
  BY <1>11 DEF Space!TerminateNext
<1>12. ASSUME NEW k \in Space!Thread, NEW t \in Task, k = t \/ (k = Main /\ target = t),
              Space!SigTerm(k, t)
       PROVE  StillToTerminate'
  BY <1>12 DEF Space!SigTerm, Space!GroupGone
<1>13. ASSUME NEW k \in Space!Thread, NEW t \in Task, k = t \/ (k = Main /\ target = t), Space!Wait(k,
              t)
       PROVE  StillToTerminate'
  BY <1>13 DEF Space!Wait
<1>14. ASSUME NEW k \in Space!Thread, NEW t \in Task, k = t \/ (k = Main /\ target = t),
              Space!SigKill(k, t)
       PROVE  StillToTerminate'
  BY <1>14 DEF Space!SigKill, Space!GroupGone
<1>15. ASSUME NEW k \in Space!Thread, NEW t \in Task, k = t \/ (k = Main /\ target = t), Space!Sweep(k,
              t)
       PROVE  StillToTerminate'
  BY <1>15 DEF Space!Sweep
<1>16. CASE Space!StartPrepare
  BY <1>16 DEF Space!StartPrepare
<1>17. CASE Space!TerminateReturns
  BY <1>17 DEF Space!TerminateReturns
<1>18. CASE Space!AllTerminated
  BY <1>18 DEF Space!AllTerminated
<1>19. CASE Space!TerminateAll
  BY <1>19 DEF Space!TerminateAll
<1>20. CASE Space!NewRun
  BY <1>20 DEF Space!NewRun
<1>21. CASE UNCHANGED Space!vars
  BY <1>21 DEF Space!vars
<1> QED BY <1>1, <1>2, <1>3, <1>4, <1>5, <1>6, <1>7, <1>8, <1>9, <1>10, <1>11, <1>12, <1>13, <1>14,
    <1>15, <1>16, <1>17, <1>18, <1>19, <1>20, <1>21 DEF Space!Next, Space!MainStep, Space!ThreadStep,
    Space!Terminate, Space!Thread

\* The cache holds the commit of a thread whose cache update is done.
LEMMA CacheBooksStep ==
  ASSUME Space!WorkspaceAssumption, OwnerTypes, MainBooks, GroupsGone, CacheBooks,
         [Space!Next]_(Space!vars)
  PROVE  CacheBooks'
<1> USE DEF Space!Goto, Space!Thread, Space!main, Space!owner, Space!os, Space!disk,
    Space!WorkspaceAssumption, OwnerTypes, MainBooks, CacheBooks, CacheBook, Exited, Signalling,
    Cancelled, Space!CacheCmd
<1>1. ASSUME NEW t \in Task, Space!Begin(t) PROVE CacheBooks'
  <2> SUFFICES ASSUME phase' = "caching", NEW u \in Task PROVE CacheBook(u)'
    BY DEF CacheBooks
  <2>1. UNCHANGED <<phase, proc, rc, cache, ws>> /\ (\E x \in {"failed", "spawn"} : at' = [at EXCEPT ![t] = x])
    BY <1>1 DEF Space!Begin
  <2>2. at[t] = "start" /\ (at'[t] = "spawn" => cmd' = [cmd EXCEPT ![t] = Space!First(t)]) /\ (u # t => cmd'[u] = cmd[u])
    BY <1>1 DEF Space!Begin
  <2>8. CASE u = t
    BY <2>8, <1>1, <2>1, <2>2 DEF Space!First
  <2>9. CASE u # t
    BY <2>9, <1>1, <2>1, <2>2 DEF Space!First
  <2> QED BY <2>8, <2>9
<1>2. ASSUME NEW t \in Task, Space!Spawn(t) PROVE CacheBooks'
  BY <1>2 DEF Space!Spawn
<1>3. ASSUME NEW t \in Task, Space!Register(t) PROVE CacheBooks'
  BY <1>3 DEF Space!Register, Space!Refused
<1>4. ASSUME NEW t \in Task, Space!Communicate(t) PROVE CacheBooks'
  <2> SUFFICES ASSUME phase' = "caching", NEW u \in Task PROVE CacheBook(u)'
    BY DEF CacheBooks
  <2>1. at' = [at EXCEPT ![t] = at'[t]] /\ at'[t] \in {"done", "spawn", "failed"}
    BY <1>4 DEF Space!Communicate
  <2>2. UNCHANGED <<phase, rc, cache, ws>> /\ (u # t => proc'[u] = proc[u] /\ cmd'[u] = cmd[u])
    BY <1>4 DEF Space!Communicate
  <2>3. at[t] = "communicate" /\ proc[t] \in {"zombie", "reaped"}
    BY <1>4 DEF Space!Communicate, Space!PipesClosed
  <2>4. at'[t] = "spawn" => cmd'[t] = Space!Following(t) /\ Space!Following(t) # None
    BY <1>4 DEF Space!Communicate
  <2>5. at'[t] = "done" => Space!Accepted(t) /\ Space!Following(t) = None
    BY <1>4 DEF Space!Communicate
  <2>8. CASE u = t
    BY <2>8, <1>4, <2>1, <2>2, <2>3, <2>4, <2>5, FollowingCmd DEF Space!Accepted
  <2>9. CASE u # t
    BY <2>9, <1>4, <2>1, <2>2, <2>3, <2>4, <2>5, FollowingCmd DEF Space!Accepted
  <2> QED BY <2>8, <2>9
<1>5. ASSUME NEW t \in Task, Space!Expire(t) PROVE CacheBooks'
  BY <1>5 DEF Space!Expire, Space!GroupGone
<1>6. ASSUME NEW t \in Task, Space!GiveUp(t) PROVE CacheBooks'
  BY <1>6 DEF Space!GiveUp, Space!Discarded
<1>7. ASSUME NEW t \in Task, Space!Exit(t) PROVE CacheBooks'
  <2> SUFFICES ASSUME phase' = "caching", NEW u \in Task PROVE CacheBook(u)'
    BY DEF CacheBooks
  <2>1. UNCHANGED <<phase, at, cmd>> /\ proc[t] = "running" /\ (u # t => proc'[u] = proc[u])
    BY <1>7 DEF Space!Exit
  <2>2. at[t] # "done"
    BY <2>1, GroupsGone DEF GroupsGone, Space!Alive
  <2>3. (u # t => ws'[u] = ws[u] /\ rc'[u] = rc[u]) /\ cache.commits \subseteq cache'.commits
    <3> HIDE DEF OwnerTypes, MainBooks, CacheBooks, CacheBook, PrepareBooks, PrepareBook, Exited
    <3> QED BY <1>7, ExitKeeps DEF EffectFacts
  <2>4. /\ rc'[t] /\ cmd[t] \in {"fetch", "fetch again", "cat-file"} => t \in cache'.commits
        /\ rc'[t] /\ cmd[t] \in Space!PrepareCmd => ws'[t] = cmd[t]
    <3> HIDE DEF OwnerTypes, MainBooks, CacheBooks, CacheBook, PrepareBooks, PrepareBook, Exited
    <3> QED BY <1>7, ExitKeeps
  <2>8. CASE u = t
    BY <2>8, <2>1, <2>2, <2>3, <2>4
  <2>9. CASE u # t
    BY <2>9, <2>1, <2>2, <2>3, <2>4
  <2> QED BY <2>8, <2>9
<1>8. ASSUME NEW t \in Task, Space!Descend(t) PROVE CacheBooks'
  BY <1>8 DEF Space!Descend
<1>9. ASSUME NEW t \in Task, Space!DescendantExits(t) PROVE CacheBooks'
  BY <1>9 DEF Space!DescendantExits
<1>10. ASSUME NEW t \in Task, Space!StartCache(t) PROVE CacheBooks'
  BY <1>10 DEF Space!StartCache
<1>11. ASSUME NEW t \in Task, Space!TerminateNext(t) PROVE CacheBooks'
  BY <1>11 DEF Space!TerminateNext
<1>12. ASSUME NEW k \in Space!Thread, NEW t \in Task, k = t \/ (k = Main /\ target = t),
              Space!SigTerm(k, t)
       PROVE  CacheBooks'
  BY <1>12 DEF Space!SigTerm, Space!GroupGone
<1>13. ASSUME NEW k \in Space!Thread, NEW t \in Task, k = t \/ (k = Main /\ target = t), Space!Wait(k,
              t)
       PROVE  CacheBooks'
  <2> SUFFICES ASSUME phase' = "caching", NEW u \in Task PROVE CacheBook(u)'
    BY DEF CacheBooks
  <2>1. UNCHANGED <<phase, cmd, rc, cache, ws>> /\ (\E x \in {"sweep", "sigkill"} : at' = [at EXCEPT ![k] = x])
    BY <1>13 DEF Space!Wait
  <2>2. k = t /\ (u # t => proc'[u] = proc[u])
    BY <1>13, <2>1 DEF Space!Wait
  <2>8. CASE u = t
    BY <2>8, <2>1, <2>2
  <2>9. CASE u # t
    BY <2>9, <2>1, <2>2
  <2> QED BY <2>8, <2>9
<1>14. ASSUME NEW k \in Space!Thread, NEW t \in Task, k = t \/ (k = Main /\ target = t),
              Space!SigKill(k, t)
       PROVE  CacheBooks'
  <2> SUFFICES ASSUME phase' = "caching", NEW u \in Task PROVE CacheBook(u)'
    BY DEF CacheBooks
  <2>1. UNCHANGED <<phase, cmd, cache, ws>> /\ (\E x \in {"raised", "wait"} : at' = [at EXCEPT ![k] = x])
    BY <1>14 DEF Space!SigKill
  <2>8. CASE u = t
    BY <2>8, <1>14, <2>1, SigKillKeeps
  <2>9. CASE u # t
    BY <2>9, <1>14, <2>1, SigKillKeeps
  <2> QED BY <2>8, <2>9
<1>15. ASSUME NEW k \in Space!Thread, NEW t \in Task, k = t \/ (k = Main /\ target = t), Space!Sweep(k,
              t)
       PROVE  CacheBooks'
  BY <1>15 DEF Space!Sweep
<1>16. CASE Space!StartPrepare
  BY <1>16 DEF Space!StartPrepare
<1>17. CASE Space!TerminateReturns
  BY <1>17 DEF Space!TerminateReturns
<1>18. CASE Space!AllTerminated
  BY <1>18 DEF Space!AllTerminated
<1>19. CASE Space!TerminateAll
  BY <1>19 DEF Space!TerminateAll
<1>20. CASE Space!NewRun
  BY <1>20 DEF Space!NewRun
<1>21. CASE UNCHANGED Space!vars
  BY <1>21 DEF Space!vars
<1> QED BY <1>1, <1>2, <1>3, <1>4, <1>5, <1>6, <1>7, <1>8, <1>9, <1>10, <1>11, <1>12, <1>13, <1>14,
    <1>15, <1>16, <1>17, <1>18, <1>19, <1>20, <1>21 DEF Space!Next, Space!MainStep, Space!ThreadStep,
    Space!Terminate, Space!Thread

\* The workspace is at the last command that succeeded.
LEMMA PrepareBooksStep ==
  ASSUME Space!WorkspaceAssumption, OwnerTypes, MainBooks, GroupsGone, CacheBooks, PrepareBooks,
         [Space!Next]_(Space!vars)
  PROVE  PrepareBooks'
<1> USE DEF Space!Goto, Space!Thread, Space!main, Space!owner, Space!os, Space!disk,
    Space!WorkspaceAssumption, OwnerTypes, MainBooks, CacheBooks, CacheBook, PrepareBooks, PrepareBook,
    Exited, Signalling, Cancelled, Space!PrepareCmd
<1>1. ASSUME NEW t \in Task, Space!Begin(t) PROVE PrepareBooks'
  <2> SUFFICES ASSUME phase' = "preparing", NEW u \in Task PROVE PrepareBook(u)'
    BY DEF PrepareBooks
  <2>1. UNCHANGED <<phase, proc, rc, cache, ws>> /\ (\E x \in {"failed", "spawn"} : at' = [at EXCEPT ![t] = x])
    BY <1>1 DEF Space!Begin
  <2>2. at[t] = "start" /\ (at'[t] = "spawn" => cmd' = [cmd EXCEPT ![t] = Space!First(t)]) /\ (u # t => cmd'[u] = cmd[u])
    BY <1>1 DEF Space!Begin
  <2>8. CASE u = t
    BY <2>8, <1>1, <2>1, <2>2 DEF Space!First
  <2>9. CASE u # t
    BY <2>9, <1>1, <2>1, <2>2 DEF Space!First
  <2> QED BY <2>8, <2>9
<1>2. ASSUME NEW t \in Task, Space!Spawn(t) PROVE PrepareBooks'
  BY <1>2 DEF Space!Spawn
<1>3. ASSUME NEW t \in Task, Space!Register(t) PROVE PrepareBooks'
  BY <1>3 DEF Space!Register, Space!Refused
<1>4. ASSUME NEW t \in Task, Space!Communicate(t) PROVE PrepareBooks'
  <2> SUFFICES ASSUME phase' = "preparing", NEW u \in Task PROVE PrepareBook(u)'
    BY DEF PrepareBooks
  <2>1. at' = [at EXCEPT ![t] = at'[t]] /\ at'[t] \in {"done", "spawn", "failed"}
    BY <1>4 DEF Space!Communicate
  <2>2. UNCHANGED <<phase, rc, cache, ws>> /\ (u # t => proc'[u] = proc[u] /\ cmd'[u] = cmd[u])
    BY <1>4 DEF Space!Communicate
  <2>3. at[t] = "communicate" /\ proc[t] \in {"zombie", "reaped"}
    BY <1>4 DEF Space!Communicate, Space!PipesClosed
  <2>4. at'[t] = "spawn" => cmd'[t] = Space!Following(t) /\ Space!Following(t) # None
    BY <1>4 DEF Space!Communicate
  <2>5. at'[t] = "done" => Space!Accepted(t) /\ Space!Following(t) = None
    BY <1>4 DEF Space!Communicate
  <2>8. CASE u = t
    BY <2>8, <1>4, <2>1, <2>2, <2>3, <2>4, <2>5, FollowingCmd DEF Space!Accepted
  <2>9. CASE u # t
    BY <2>9, <1>4, <2>1, <2>2, <2>3, <2>4, <2>5, FollowingCmd DEF Space!Accepted
  <2> QED BY <2>8, <2>9
<1>5. ASSUME NEW t \in Task, Space!Expire(t) PROVE PrepareBooks'
  BY <1>5 DEF Space!Expire, Space!GroupGone
<1>6. ASSUME NEW t \in Task, Space!GiveUp(t) PROVE PrepareBooks'
  BY <1>6 DEF Space!GiveUp, Space!Discarded
<1>7. ASSUME NEW t \in Task, Space!Exit(t) PROVE PrepareBooks'
  <2> SUFFICES ASSUME phase' = "preparing", NEW u \in Task PROVE PrepareBook(u)'
    BY DEF PrepareBooks
  <2>1. UNCHANGED <<phase, at, cmd>> /\ proc[t] = "running" /\ (u # t => proc'[u] = proc[u])
    BY <1>7 DEF Space!Exit
  <2>2. at[t] # "done"
    BY <2>1, GroupsGone DEF GroupsGone, Space!Alive
  <2>3. (u # t => ws'[u] = ws[u] /\ rc'[u] = rc[u]) /\ cache.commits \subseteq cache'.commits
    <3> HIDE DEF OwnerTypes, MainBooks, CacheBooks, CacheBook, PrepareBooks, PrepareBook, Exited
    <3> QED BY <1>7, ExitKeeps DEF EffectFacts
  <2>4. /\ rc'[t] /\ cmd[t] \in {"fetch", "fetch again", "cat-file"} => t \in cache'.commits
        /\ rc'[t] /\ cmd[t] \in Space!PrepareCmd => ws'[t] = cmd[t]
    <3> HIDE DEF OwnerTypes, MainBooks, CacheBooks, CacheBook, PrepareBooks, PrepareBook, Exited
    <3> QED BY <1>7, ExitKeeps
  <2>8. CASE u = t
    BY <2>8, <2>1, <2>2, <2>3, <2>4
  <2>9. CASE u # t
    BY <2>9, <2>1, <2>2, <2>3, <2>4
  <2> QED BY <2>8, <2>9
<1>8. ASSUME NEW t \in Task, Space!Descend(t) PROVE PrepareBooks'
  BY <1>8 DEF Space!Descend
<1>9. ASSUME NEW t \in Task, Space!DescendantExits(t) PROVE PrepareBooks'
  BY <1>9 DEF Space!DescendantExits
<1>10. ASSUME NEW t \in Task, Space!StartCache(t) PROVE PrepareBooks'
  BY <1>10 DEF Space!StartCache
<1>11. ASSUME NEW t \in Task, Space!TerminateNext(t) PROVE PrepareBooks'
  BY <1>11 DEF Space!TerminateNext
<1>12. ASSUME NEW k \in Space!Thread, NEW t \in Task, k = t \/ (k = Main /\ target = t),
              Space!SigTerm(k, t)
       PROVE  PrepareBooks'
  BY <1>12 DEF Space!SigTerm, Space!GroupGone
<1>13. ASSUME NEW k \in Space!Thread, NEW t \in Task, k = t \/ (k = Main /\ target = t), Space!Wait(k,
              t)
       PROVE  PrepareBooks'
  <2> SUFFICES ASSUME phase' = "preparing", NEW u \in Task PROVE PrepareBook(u)'
    BY DEF PrepareBooks
  <2>1. UNCHANGED <<phase, cmd, rc, cache, ws>> /\ (\E x \in {"sweep", "sigkill"} : at' = [at EXCEPT ![k] = x])
    BY <1>13 DEF Space!Wait
  <2>2. k = t /\ (u # t => proc'[u] = proc[u])
    BY <1>13, <2>1 DEF Space!Wait
  <2>8. CASE u = t
    BY <2>8, <2>1, <2>2
  <2>9. CASE u # t
    BY <2>9, <2>1, <2>2
  <2> QED BY <2>8, <2>9
<1>14. ASSUME NEW k \in Space!Thread, NEW t \in Task, k = t \/ (k = Main /\ target = t),
              Space!SigKill(k, t)
       PROVE  PrepareBooks'
  <2> SUFFICES ASSUME phase' = "preparing", NEW u \in Task PROVE PrepareBook(u)'
    BY DEF PrepareBooks
  <2>1. UNCHANGED <<phase, cmd, cache, ws>> /\ (\E x \in {"raised", "wait"} : at' = [at EXCEPT ![k] = x])
    BY <1>14 DEF Space!SigKill
  <2>8. CASE u = t
    BY <2>8, <1>14, <2>1, SigKillKeeps
  <2>9. CASE u # t
    BY <2>9, <1>14, <2>1, SigKillKeeps
  <2> QED BY <2>8, <2>9
<1>15. ASSUME NEW k \in Space!Thread, NEW t \in Task, k = t \/ (k = Main /\ target = t), Space!Sweep(k,
              t)
       PROVE  PrepareBooks'
  BY <1>15 DEF Space!Sweep
<1>16. CASE Space!StartPrepare
  BY <1>16 DEF Space!StartPrepare
<1>17. CASE Space!TerminateReturns
  BY <1>17 DEF Space!TerminateReturns
<1>18. CASE Space!AllTerminated
  BY <1>18 DEF Space!AllTerminated
<1>19. CASE Space!TerminateAll
  BY <1>19 DEF Space!TerminateAll
<1>20. CASE Space!NewRun
  BY <1>20 DEF Space!NewRun
<1>21. CASE UNCHANGED Space!vars
  BY <1>21 DEF Space!vars
<1> QED BY <1>1, <1>2, <1>3, <1>4, <1>5, <1>6, <1>7, <1>8, <1>9, <1>10, <1>11, <1>12, <1>13, <1>14,
    <1>15, <1>16, <1>17, <1>18, <1>19, <1>20, <1>21 DEF Space!Next, Space!MainStep, Space!ThreadStep,
    Space!Terminate, Space!Thread

\* Every step of a workspace set-up keeps the invariant.
LEMMA WorkspaceStep ==
  ASSUME Space!WorkspaceAssumption, WorkspaceInv, [Space!Next]_(Space!vars)
  PROVE  WorkspaceInv'
<1>1. OwnerTypes /\ MainBooks /\ Registered /\ GroupsGone /\ StillToTerminate /\ CacheBooks /\ PrepareBooks
  BY DEF WorkspaceInv
<1> QED BY <1>1, OwnerTypesStep, MainBooksStep, RegisteredStep, GroupsGoneStep, StillStep,
    CacheBooksStep, PrepareBooksStep
    DEF WorkspaceInv

\* It holds before the first command.
LEMMA WorkspaceInitInv ==
  ASSUME Space!WorkspaceAssumption, Space!Init
  PROVE  WorkspaceInv
<1>1. OwnerTypes
  BY DEF Space!Init, OwnerTypes, Place
<1>2. MainBooks /\ Registered
  BY DEF Space!Init, MainBooks, Registered, Cancelled, Space!Thread
<1>3. GroupsGone /\ StillToTerminate
  BY DEF Space!Init, GroupsGone, StillToTerminate, Space!Alive, Space!Thread
<1>4. CacheBooks /\ PrepareBooks
  BY DEF Space!Init, CacheBooks, CacheBook, PrepareBooks, Exited, Space!Thread
<1> QED BY <1>1, <1>2, <1>3, <1>4 DEF WorkspaceInv

\* It implies what the set-up promises.
LEMMA WorkspaceInvImplies ==
  ASSUME Space!WorkspaceAssumption, WorkspaceInv
  PROVE  Space!WorkspaceTypeOK /\ Space!ReadyIsBase /\ Space!ThreadsLeaveNothing /\ Space!NoStrayProcess
<1>1. Space!WorkspaceTypeOK
  BY DEF WorkspaceInv, OwnerTypes, Registered, Space!WorkspaceTypeOK, Signalling
<1>2. Space!ReadyIsBase /\ Space!ThreadsLeaveNothing
  BY DEF WorkspaceInv, PrepareBooks, PrepareBook, GroupsGone, Space!ReadyIsBase,
     Space!ThreadsLeaveNothing
<1>3. Space!NoStrayProcess
  BY DEF WorkspaceInv, OwnerTypes, MainBooks, GroupsGone, StillToTerminate, Space!NoStrayProcess,
     Cancelled, Place, Signalling, Space!Thread
<1> QED BY <1>1, <1>2, <1>3

\* A workspace handed to a task is at its base commit, a thread leaves no process
\* group behind, and none survives terminate_all(), for any number of tasks and
\* whenever the owner is cancelled (WorkspaceProcessOwner, prepare_workspace).
THEOREM WorkspaceSafe ==
  ASSUME Space!WorkspaceAssumption
  PROVE  Space!Spec => [](Space!WorkspaceTypeOK /\ Space!ReadyIsBase /\ Space!ThreadsLeaveNothing /\ Space!NoStrayProcess)
<1>1. Space!Init => WorkspaceInv
  BY WorkspaceInitInv
<1>2. WorkspaceInv /\ [Space!Next]_(Space!vars) => WorkspaceInv'
  BY WorkspaceStep
<1>3. WorkspaceInv => Space!WorkspaceTypeOK /\ Space!ReadyIsBase /\ Space!ThreadsLeaveNothing /\ Space!NoStrayProcess
  BY WorkspaceInvImplies
<1> QED BY <1>1, <1>2, <1>3, PTL DEF Space!Spec

-----------------------------------------------------------------------------
(* The handlers of Claude's terminal.                                     *)

\* What the controller and the history of an appearance are.
ScreenTypes ==
  /\ interaction \in [startup_dismissed : BOOLEAN, yes : BOOLEAN, plan : BOOLEAN, generic : BOOLEAN,
                attempts : Nat, sent_at : Nat \cup {None}]
  /\ idle \in [seen_at : Nat \cup {None}, checked : BOOLEAN]
  /\ screen \in Dialog!Screens \cup Dialogs /\ long \in BOOLEAN /\ now \in Nat /\ now <= MaxTime
  /\ action \in {"none", "enter", "check_workspace"}
  /\ seen \in [polls : Nat, enters : Nat, last : Nat \cup {None}, idle : Nat \cup {None}, checks : Nat]

\* A handler remembers only what is still on the screen.
FlagsVisible ==
  /\ interaction.yes => "yes" \in screen
  /\ interaction.plan => "plan" \in screen
  /\ interaction.generic => "generic" \in screen
  /\ interaction.generic => interaction.attempts > 0 /\ interaction.attempts <= MaxAttempts /\ interaction.sent_at # None /\ interaction.sent_at <= now
  /\ ~interaction.generic => interaction.attempts = 0 /\ interaction.sent_at = None

\* A dialog that was not answered yet has been polled once, by the handler that
\* took it for the first prompt; one that was answered is claimed by the first
\* handler of the chain that knows it.
AppearanceBooks ==
  screen \in Dialogs =>
    /\ interaction.startup_dismissed
    /\ seen.enters = 0 => seen.polls <= 1 /\ ~interaction.yes /\ ~interaction.plan /\ ~interaction.generic
    /\ seen.enters > 0 /\ "plan" \in screen => interaction.plan /\ seen.enters = 1
    /\ seen.enters > 0 /\ "plan" \notin screen /\ "yes" \in screen => interaction.yes /\ seen.enters = 1
    /\ seen.enters > 0 /\ "plan" \notin screen /\ "yes" \notin screen =>
         interaction.generic /\ seen.enters = interaction.attempts /\ seen.last = interaction.sent_at

\* The handler's idle period lies within one in which every snapshot was idle.
IdleBooks ==
  /\ seen.idle # None => seen.idle <= now
  /\ idle.seen_at # None =>
       /\ interaction.startup_dismissed /\ long /\ Profile = "single"
       /\ seen.idle # None /\ seen.idle <= idle.seen_at /\ idle.seen_at <= now
  /\ idle.checked => idle.seen_at # None
  /\ seen.checks = IF idle.checked THEN 1 ELSE 0
  /\ Dialog!CheckAfterIdle

ScreenInv == ScreenTypes /\ FlagsVisible /\ AppearanceBooks /\ IdleBooks

\* What the code forgets at the start of a poll.
LEMMA Cleared ==
  ASSUME ScreenTypes, FlagsVisible, NEW scr, NEW s, s = Dialog!ClearVisible(interaction, scr)
  PROVE  /\ s \in [startup_dismissed : BOOLEAN, yes : BOOLEAN, plan : BOOLEAN, generic : BOOLEAN,
                   attempts : Nat, sent_at : Nat \cup {None}]
         /\ s.startup_dismissed = interaction.startup_dismissed
         /\ s.yes <=> interaction.yes /\ "yes" \in scr
         /\ s.plan <=> interaction.plan /\ "plan" \in scr
         /\ s.generic <=> interaction.generic /\ "generic" \in scr
         /\ s.generic => s.attempts = interaction.attempts /\ s.sent_at = interaction.sent_at
         /\ ~s.generic => s.attempts = 0 /\ s.sent_at = None
<1>1. CASE interaction.generic /\ "generic" \notin scr
  BY <1>1 DEF ScreenTypes, FlagsVisible, Dialog!ClearVisible
<1>2. CASE ~(interaction.generic /\ "generic" \notin scr)
  BY <1>2 DEF ScreenTypes, FlagsVisible, Dialog!ClearVisible
<1> QED BY <1>1, <1>2

\* What one poll does, field by field.
PollFacts(scr, enough, same) ==
  /\ now' = now + 1 /\ now < MaxTime /\ screen' = scr /\ long' = enough
  /\ same => scr = screen
  /\ scr \in Dialogs /\ screen \in Dialogs => same
  /\ scr = {"startup"} => ~interaction.startup_dismissed
SeenFacts(scr, enough, same) ==
  /\ seen' \in [polls : Nat, enters : Nat, last : Nat \cup {None}, idle : Nat \cup {None}, checks : Nat]
  /\ ~same => seen'.polls = 1 /\ seen'.enters = (IF action' = "enter" THEN 1 ELSE 0)
  /\ same => /\ seen'.polls >= seen.polls /\ seen'.enters = seen.enters + (IF action' = "enter" THEN 1 ELSE 0)
             /\ action' # "enter" => seen'.last = seen.last
  /\ action' = "enter" => seen'.last = now'
QuietFacts(scr, enough) ==
  LET quiet == Dialog!Idle(scr) /\ enough /\ interaction.startup_dismissed
  IN  /\ ~quiet => seen'.idle = None
      /\ quiet /\ seen.idle = None => seen'.idle = now'
      /\ quiet /\ seen.idle # None => seen'.idle = seen.idle
      /\ seen'.checks = (IF quiet THEN seen.checks ELSE 0) + (IF action' = "check_workspace" THEN 1 ELSE 0)

\* A poll, field by field.
LEMMA PollDoes ==
  ASSUME Dialog!InteractionAssumption, ~BackToBack, ScreenTypes, Dialog!Poll
  PROVE  \E scr \in Dialog!Screens \cup Dialogs, enough \in {long, TRUE}, same \in BOOLEAN :
           PollFacts(scr, enough, same) /\ Dialog!Process(scr, now', enough) /\ SeenFacts(scr, enough, same) /\ QuietFacts(scr, enough)
<1>1. PICK scr \in Dialog!Screens \cup Dialogs, enough \in {long, TRUE}, same \in BOOLEAN :
        PollFacts(scr, enough, same) /\ Dialog!Process(scr, now', enough) /\ Dialog!Recorded(scr, enough, same)
  BY DEF Dialog!Poll, PollFacts
<1>2. now' \in Nat
  BY <1>1 DEF PollFacts, ScreenTypes
<1>3. SeenFacts(scr, enough, same)
  BY <1>1, <1>2 DEF Dialog!Recorded, SeenFacts, ScreenTypes
<1>4. QuietFacts(scr, enough)
  BY <1>1, <1>2 DEF Dialog!Recorded, QuietFacts, ScreenTypes
<1> QED BY <1>1, <1>3, <1>4

\* What a controller that did not type leaves, and what each handler does.
Starts(s, scr) == Dialog!Startup(s, scr) /\ interaction' = [s EXCEPT !.startup_dismissed = "startup" \notin scr]
                 /\ action' = IF "startup" \in scr THEN "enter" ELSE "none"
Claims(s, scr, t) ==
  /\ ~Dialog!Startup(s, scr) /\ action' = "enter"
  /\ \/ Dialog!PlanApproval(s, scr) /\ interaction' = [s EXCEPT !.plan = TRUE]
     \/ ~Dialog!PlanApproval(s, scr) /\ Dialog!YesConfirmation(s, scr) /\ interaction' = [s EXCEPT !.yes = TRUE]
     \/ /\ ~Dialog!PlanApproval(s, scr) /\ ~Dialog!YesConfirmation(s, scr) /\ Dialog!GenericSelection(s, scr, t)
        /\ interaction' = [s EXCEPT !.generic = TRUE, !.attempts = @ + 1, !.sent_at = t]
Passes(s, scr, t, enough) ==
  /\ ~Dialog!Startup(s, scr) /\ ~Dialog!PlanApproval(s, scr) /\ ~Dialog!YesConfirmation(s, scr) /\ ~Dialog!GenericSelection(s, scr, t)
  /\ interaction' = s /\ action' \in {"none", "check_workspace"}
IdleChecked(s, scr, t, enough) ==
  LET on == Profile = "single" /\ enough /\ s.startup_dismissed IN
  /\ action' = "check_workspace" => Dialog!MayCheck(scr, t, on)
  /\ action' = "check_workspace" => idle' = [idle EXCEPT !.checked = TRUE]
  /\ action' # "check_workspace" => IF Profile # "single" THEN idle' = idle ELSE idle' = Dialog!NoProgress(scr, t, on)

\* Exactly one handler of the chain takes a snapshot, or the last one looks at it.
LEMMA ProcessDoes ==
  ASSUME Dialog!InteractionAssumption, ScreenTypes, FlagsVisible, NEW scr, NEW t \in Nat,
         NEW enough \in BOOLEAN, Dialog!Process(scr, t, enough),
         NEW s, s = Dialog!ClearVisible(interaction, scr)
  PROVE  \/ Starts(s, scr) /\ UNCHANGED idle
         \/ Claims(s, scr, t) /\ UNCHANGED idle
         \/ Passes(s, scr, t, enough) /\ IdleChecked(s, scr, t, enough)
<1> USE DEF Starts, Claims, Passes
<1>1. CASE Dialog!Startup(s, scr)
  BY <1>1 DEF Dialog!Process
<1>2. CASE ~Dialog!Startup(s, scr) /\ (Dialog!PlanApproval(s, scr) \/ Dialog!YesConfirmation(s, scr) \/ Dialog!GenericSelection(s, scr, t))
  BY <1>2 DEF Dialog!Process
<1>3. CASE ~Dialog!Startup(s, scr) /\ ~Dialog!PlanApproval(s, scr) /\ ~Dialog!YesConfirmation(s, scr) /\ ~Dialog!GenericSelection(s, scr, t)
  <2> DEFINE on == Profile = "single" /\ enough /\ s.startup_dismissed
  <2>0. interaction' = s /\ (action' = IF Dialog!MayCheck(scr, t, on) THEN "check_workspace" ELSE "none")
        /\ (idle' = IF Profile # "single" THEN idle
                       ELSE IF Dialog!MayCheck(scr, t, on) THEN [idle EXCEPT !.checked = TRUE]
                       ELSE Dialog!NoProgress(scr, t, on))
    BY <1>3 DEF Dialog!Process
  <2>1. Dialog!MayCheck(scr, t, on) => Profile = "single"
    BY DEF Dialog!MayCheck
  <2>2. IdleChecked(s, scr, t, enough)
    BY <2>0, <2>1 DEF IdleChecked
  <2> QED BY <1>3, <2>0, <2>2
<1> QED BY <1>1, <1>2, <1>3

\* A dialog shows markers of dialogs only, and no other screen shows them.
LEMMA DialogMarkers ==
  ASSUME Dialog!InteractionAssumption
  PROVE  /\ \A d \in Dialogs : Dialog!ReadyPrompt(d) /\ Dialog!Idle(d) /\ "startup" \notin d
         /\ \A d \in Dialog!Screens : d \notin Dialogs /\ "plan" \notin d /\ "yes" \notin d /\ "generic" \notin d
BY DEF Dialog!InteractionAssumption, Dialog!Screens, Dialog!ReadyPrompt, Dialog!Idle

\* The handlers remember what they answered, for as long as it is shown.
LEMMA FlagsStep ==
  ASSUME Dialog!InteractionAssumption, ScreenTypes, FlagsVisible,
         NEW scr \in Dialog!Screens \cup Dialogs, NEW enough \in BOOLEAN,
         Dialog!Process(scr, now', enough), screen' = scr, now' = now + 1
  PROVE  /\ interaction' \in [startup_dismissed : BOOLEAN, yes : BOOLEAN, plan : BOOLEAN, generic : BOOLEAN,
                        attempts : Nat, sent_at : Nat \cup {None}]
         /\ action' \in {"none", "enter", "check_workspace"}
         /\ FlagsVisible'
<1>1. now' \in Nat
  BY DEF ScreenTypes
<1> DEFINE s == Dialog!ClearVisible(interaction, scr)
<1>2. /\ s \in [startup_dismissed : BOOLEAN, yes : BOOLEAN, plan : BOOLEAN, generic : BOOLEAN,
                attempts : Nat, sent_at : Nat \cup {None}]
      /\ s.yes => "yes" \in scr
      /\ s.plan => "plan" \in scr
      /\ s.generic => "generic" \in scr
      /\ s.generic => s.attempts > 0 /\ s.attempts <= MaxAttempts /\ s.sent_at # None /\ s.sent_at <= now'
      /\ ~s.generic => s.attempts = 0 /\ s.sent_at = None
  BY Cleared, <1>1 DEF ScreenTypes, FlagsVisible
<1> HIDE DEF s
<1>3. CASE Starts(s, scr)
  BY <1>2, <1>3 DEF Starts, FlagsVisible
<1>4. CASE Claims(s, scr, now')
  <2>1. CASE interaction' = [s EXCEPT !.plan = TRUE] /\ Dialog!PlanApproval(s, scr)
    BY <1>2, <1>4, <2>1 DEF Claims, FlagsVisible, Dialog!PlanApproval
  <2>2. CASE interaction' = [s EXCEPT !.yes = TRUE] /\ Dialog!YesConfirmation(s, scr)
    BY <1>2, <1>4, <2>2 DEF Claims, FlagsVisible, Dialog!YesConfirmation
  <2>3. CASE interaction' = [s EXCEPT !.generic = TRUE, !.attempts = @ + 1, !.sent_at = now'] /\ Dialog!GenericSelection(s, scr, now')
    <3>1. s.attempts + 1 <= MaxAttempts /\ now' # None /\ "generic" \in scr
      BY <1>1, <1>2, <2>3 DEF Dialog!GenericSelection, Dialog!AttemptsLeft, Dialog!InteractionAssumption
    <3>2. /\ interaction' \in [startup_dismissed : BOOLEAN, yes : BOOLEAN, plan : BOOLEAN, generic : BOOLEAN,
                        attempts : Nat, sent_at : Nat \cup {None}]
          /\ interaction'.yes = s.yes /\ interaction'.plan = s.plan /\ interaction'.generic = TRUE
          /\ interaction'.attempts = s.attempts + 1 /\ interaction'.sent_at = now'
      <4>1. interaction' = [startup_dismissed |-> s.startup_dismissed, yes |-> s.yes, plan |-> s.plan, generic |-> TRUE,
                      attempts |-> s.attempts + 1, sent_at |-> now']
        BY <1>2, <2>3
      <4> QED BY <1>1, <1>2, <4>1
    <3> QED BY <1>1, <1>2, <1>4, <3>1, <3>2 DEF Claims, FlagsVisible
  <2> QED BY <1>4, <2>1, <2>2, <2>3 DEF Claims
<1>5. CASE Passes(s, scr, now', enough)
  BY <1>2, <1>5 DEF Passes, FlagsVisible
<1> QED BY <1>1, <1>3, <1>4, <1>5, ProcessDoes DEF s

\* A dialog that appears is unknown to every handler; one that stays is known to
\* the handler that answered it, so that no other answers it again.
LEMMA AppearanceStep ==
  ASSUME Dialog!InteractionAssumption, ScreenTypes, FlagsVisible, AppearanceBooks,
         NEW scr \in Dialog!Screens \cup Dialogs, NEW enough \in BOOLEAN, NEW same \in BOOLEAN,
         PollFacts(scr, enough, same), Dialog!Process(scr, now', enough), SeenFacts(scr, enough, same)
  PROVE  AppearanceBooks'
<1> SUFFICES ASSUME scr \in Dialogs
             PROVE  /\ interaction'.startup_dismissed
                    /\ seen'.enters = 0 => seen'.polls <= 1 /\ ~interaction'.yes /\ ~interaction'.plan /\ ~interaction'.generic
                    /\ seen'.enters > 0 /\ "plan" \in scr => interaction'.plan /\ seen'.enters = 1
                    /\ seen'.enters > 0 /\ "plan" \notin scr /\ "yes" \in scr => interaction'.yes /\ seen'.enters = 1
                    /\ seen'.enters > 0 /\ "plan" \notin scr /\ "yes" \notin scr =>
                         interaction'.generic /\ seen'.enters = interaction'.attempts /\ seen'.last = interaction'.sent_at
  BY DEF PollFacts, AppearanceBooks
<1>1. now' \in Nat
  BY DEF ScreenTypes, PollFacts
<1> DEFINE s == Dialog!ClearVisible(interaction, scr)
<1>2. /\ s \in [startup_dismissed : BOOLEAN, yes : BOOLEAN, plan : BOOLEAN, generic : BOOLEAN,
                   attempts : Nat, sent_at : Nat \cup {None}]
      /\ s.startup_dismissed = interaction.startup_dismissed
      /\ s.yes <=> interaction.yes /\ "yes" \in scr
      /\ s.plan <=> interaction.plan /\ "plan" \in scr
      /\ s.generic <=> interaction.generic /\ "generic" \in scr
      /\ s.generic => s.attempts = interaction.attempts /\ s.sent_at = interaction.sent_at
      /\ ~s.generic => s.attempts = 0 /\ s.sent_at = None
  BY Cleared
<1> HIDE DEF s
<1>3. /\ Dialog!ReadyPrompt(scr) /\ "startup" \notin scr /\ ("plan" \in scr \/ "yes" \in scr \/ "generic" \in scr)
      /\ "plan" \in scr => Profile = "plan-subagent"
  BY DialogMarkers DEF Dialog!InteractionAssumption
<1>4. Dialog!Startup(s, scr) <=> ~interaction.startup_dismissed
  BY <1>2, <1>3 DEF Dialog!Startup
<1>5. ~same => ~s.yes /\ ~s.plan /\ ~s.generic
  BY <1>2, DialogMarkers DEF PollFacts, FlagsVisible, ScreenTypes
<1>6. same => /\ scr = screen /\ s.yes = interaction.yes /\ s.plan = interaction.plan /\ s.generic = interaction.generic
              /\ s.attempts = interaction.attempts /\ s.sent_at = interaction.sent_at
  BY <1>2 DEF PollFacts, FlagsVisible, ScreenTypes
<1>7. /\ seen.enters \in Nat /\ seen'.enters \in Nat /\ seen.polls \in Nat /\ seen'.polls \in Nat
      /\ seen'.enters = (IF same THEN seen.enters ELSE 0) + (IF action' = "enter" THEN 1 ELSE 0)
      /\ ~same => seen'.polls = 1
      /\ action' = "enter" => seen'.last = now'
      /\ same /\ action' # "enter" => seen'.last = seen.last
  BY DEF SeenFacts, ScreenTypes
<1>8. same => /\ interaction.startup_dismissed
              /\ seen.enters = 0 => seen.polls <= 1 /\ ~interaction.yes /\ ~interaction.plan /\ ~interaction.generic
              /\ seen.enters > 0 /\ "plan" \in scr => interaction.plan /\ seen.enters = 1
              /\ seen.enters > 0 /\ "plan" \notin scr /\ "yes" \in scr => interaction.yes /\ seen.enters = 1
              /\ seen.enters > 0 /\ "plan" \notin scr /\ "yes" \notin scr =>
                   interaction.generic /\ seen.enters = interaction.attempts /\ seen.last = interaction.sent_at
  BY <1>6 DEF AppearanceBooks
<1>9. CASE Starts(s, scr)
  <2>1. ~same /\ action' = "none" /\ interaction' = [s EXCEPT !.startup_dismissed = TRUE]
    BY <1>3, <1>4, <1>8, <1>9 DEF Starts
  <2>2. seen'.enters = 0 /\ seen'.polls = 1
    BY <1>7, <2>1
  <2>3. interaction'.startup_dismissed /\ ~interaction'.yes /\ ~interaction'.plan /\ ~interaction'.generic
    BY <1>2, <1>5, <2>1
  <2> QED BY <2>2, <2>3
<1>10. CASE Claims(s, scr, now')
  <2>0. seen'.enters = (IF same THEN seen.enters ELSE 0) + 1 /\ seen'.enters > 0 /\ s.startup_dismissed /\ seen'.last = now'
    BY <1>2, <1>4, <1>7, <1>10 DEF Claims
  <2>1. CASE Dialog!PlanApproval(s, scr) /\ interaction' = [s EXCEPT !.plan = TRUE]
    <3>1. "plan" \in scr /\ ~s.plan
      BY <2>1 DEF Dialog!PlanApproval
    <3>2. seen'.enters = 1
      BY <1>6, <1>7, <1>8, <2>0, <3>1
    <3> QED BY <1>2, <2>0, <2>1, <3>1, <3>2
  <2>2. CASE ~Dialog!PlanApproval(s, scr) /\ Dialog!YesConfirmation(s, scr) /\ interaction' = [s EXCEPT !.yes = TRUE]
    <3>1. "plan" \notin scr /\ "yes" \in scr /\ ~s.yes
      BY <2>2 DEF Dialog!YesConfirmation
    <3>2. seen'.enters = 1
      BY <1>6, <1>7, <1>8, <2>0, <3>1
    <3> QED BY <1>2, <2>0, <2>2, <3>1, <3>2
  <2>3. CASE /\ ~Dialog!PlanApproval(s, scr) /\ ~Dialog!YesConfirmation(s, scr) /\ Dialog!GenericSelection(s, scr, now')
             /\ interaction' = [s EXCEPT !.generic = TRUE, !.attempts = @ + 1, !.sent_at = now']
    <3>1. ~s.plan /\ ~s.yes
      BY <2>3 DEF Dialog!GenericSelection, Dialog!NotClaimed
    <3>2. "plan" \notin scr /\ "yes" \notin scr
      BY <1>3, <2>3, <3>1 DEF Dialog!PlanApproval, Dialog!YesConfirmation
    <3>3. interaction' = [startup_dismissed |-> s.startup_dismissed, yes |-> s.yes, plan |-> s.plan, generic |-> TRUE,
                      attempts |-> s.attempts + 1, sent_at |-> now']
      BY <1>2, <2>3
    <3>4. seen'.enters = s.attempts + 1
      <4>1. CASE ~same
        BY <1>2, <1>5, <2>0, <4>1
      <4>2. CASE same /\ seen.enters = 0
        BY <1>2, <1>6, <1>8, <2>0, <4>2
      <4>3. CASE same /\ seen.enters > 0
        BY <1>2, <1>6, <1>7, <1>8, <2>0, <3>2, <4>3
      <4> QED BY <1>7, <4>1, <4>2, <4>3
    <3> QED BY <2>0, <3>2, <3>3, <3>4
  <2> QED BY <1>10, <2>1, <2>2, <2>3 DEF Claims
<1>11. CASE Passes(s, scr, now', enough)
  <2>0. interaction' = s /\ action' # "enter" /\ s.startup_dismissed
    BY <1>2, <1>4, <1>11 DEF Passes
  <2>1. "plan" \in scr => s.plan
    BY <1>3, <1>11 DEF Passes, Dialog!PlanApproval
  <2>2. "plan" \notin scr /\ "yes" \in scr => s.yes
    BY <1>11 DEF Passes, Dialog!YesConfirmation
  <2>3. "plan" \notin scr /\ "yes" \notin scr => s.generic
    BY <1>2, <1>3, <1>11 DEF Passes, Dialog!GenericSelection, Dialog!NotClaimed
  <2>4. same /\ seen.enters > 0
    BY <1>3, <1>5, <1>6, <1>7, <1>8, <2>1, <2>2, <2>3
  <2>5. seen'.enters = seen.enters /\ seen'.last = seen.last
    BY <1>7, <2>0, <2>4
  <2> QED BY <1>6, <1>8, <2>0, <2>4, <2>5
<1> QED BY <1>1, <1>9, <1>10, <1>11, ProcessDoes DEF s

\* An idle period of the handler ends with the first snapshot that is not idle,
\* because no handler before it recognises such a snapshot once Claude has started.
LEMMA IdleStep ==
  ASSUME Dialog!InteractionAssumption, ScreenTypes, FlagsVisible, IdleBooks,
         NEW scr \in Dialog!Screens \cup Dialogs, NEW enough \in {long, TRUE}, NEW same \in BOOLEAN,
         PollFacts(scr, enough, same), Dialog!Process(scr, now', enough),
         SeenFacts(scr, enough, same), QuietFacts(scr, enough)
  PROVE  IdleBooks' /\ idle' \in [seen_at : Nat \cup {None}, checked : BOOLEAN]
<1>0. long \in BOOLEAN
  BY DEF ScreenTypes
<1>a. enough \in BOOLEAN
  BY <1>0
<1>1. now' \in Nat /\ now \in Nat /\ now' = now + 1 /\ enough \in BOOLEAN /\ None \notin Nat /\ long' = enough
  BY <1>a DEF ScreenTypes, PollFacts, Dialog!InteractionAssumption
<1> DEFINE s == Dialog!ClearVisible(interaction, scr)
           quiet == Dialog!Idle(scr) /\ enough /\ interaction.startup_dismissed
<1>2. s \in [startup_dismissed : BOOLEAN, yes : BOOLEAN, plan : BOOLEAN, generic : BOOLEAN,
                   attempts : Nat, sent_at : Nat \cup {None}] /\ s.startup_dismissed = interaction.startup_dismissed
  BY Cleared
<1>3. /\ ~quiet => seen'.idle = None
      /\ quiet /\ seen.idle = None => seen'.idle = now'
      /\ quiet /\ seen.idle # None => seen'.idle = seen.idle
      /\ seen'.checks = (IF quiet THEN seen.checks ELSE 0) + (IF action' = "check_workspace" THEN 1 ELSE 0)
  BY DEF QuietFacts
<1> HIDE DEF s, quiet
<1>4. /\ seen.idle \in Nat \cup {None} /\ idle.seen_at \in Nat \cup {None} /\ idle.checked \in BOOLEAN
      /\ seen.idle # None => seen.idle <= now
      /\ idle.seen_at # None =>
           /\ interaction.startup_dismissed /\ long /\ Profile = "single"
           /\ seen.idle # None /\ seen.idle <= idle.seen_at /\ idle.seen_at <= now
      /\ idle.checked => idle.seen_at # None
      /\ seen.checks = IF idle.checked THEN 1 ELSE 0
  BY DEF ScreenTypes, IdleBooks
<1>5. /\ seen'.idle # None => seen'.idle <= now'
      /\ quiet => seen'.idle # None /\ (seen.idle # None => seen'.idle = seen.idle)
  BY <1>1, <1>3, <1>4
<1>6. /\ interaction'.startup_dismissed \in BOOLEAN /\ (interaction.startup_dismissed => interaction'.startup_dismissed)
  <2>1. CASE Starts(s, scr)
    BY <1>2, <2>1 DEF Starts, Dialog!Startup
  <2>2. CASE Claims(s, scr, now')
    BY <1>2, <2>2 DEF Claims
  <2>3. CASE Passes(s, scr, now', enough)
    BY <1>2, <2>3 DEF Passes
  <2> QED BY <1>1, <2>1, <2>2, <2>3, ProcessDoes DEF s
<1>7. CASE UNCHANGED idle /\ action' # "check_workspace" /\ (idle.seen_at # None => quiet)
  BY <1>1, <1>3, <1>4, <1>5, <1>6, <1>7 DEF IdleBooks, Dialog!CheckAfterIdle, ScreenTypes, quiet
<1>8. CASE Starts(s, scr) /\ UNCHANGED idle
  BY <1>2, <1>4, <1>7, <1>8 DEF Starts, Dialog!Startup
<1>9. CASE Claims(s, scr, now') /\ UNCHANGED idle
  <2>1. "plan" \in scr \/ "yes" \in scr \/ "generic" \in scr
    BY <1>9 DEF Claims, Dialog!PlanApproval, Dialog!YesConfirmation, Dialog!GenericSelection
  <2>2. Dialog!Idle(scr)
    BY <2>1, DialogMarkers
  <2> QED BY <1>1, <1>4, <1>7, <1>9, <2>2 DEF Claims, quiet
<1>10. CASE Passes(s, scr, now', enough) /\ IdleChecked(s, scr, now', enough)
  <2> DEFINE on == Profile = "single" /\ enough /\ s.startup_dismissed
  <2>0. on /\ Dialog!Idle(scr) => quiet
    BY <1>2 DEF quiet
  <2>1. CASE action' = "check_workspace"
    <3>1. idle' = [idle EXCEPT !.checked = TRUE] /\ on /\ Dialog!Idle(scr) /\ idle.seen_at # None /\ idle.checked = FALSE
          /\ now' - idle.seen_at >= IdleTimeout
      BY <1>4, <1>10, <2>1 DEF IdleChecked, Dialog!MayCheck
    <3>2. quiet /\ idle'.seen_at = idle.seen_at /\ idle'.checked = TRUE
      BY <2>0, <3>1 DEF ScreenTypes
    <3>3. idle' \in [seen_at : Nat \cup {None}, checked : BOOLEAN]
      BY <3>1 DEF ScreenTypes
    <3>4. seen'.checks = 1 /\ seen'.idle = seen.idle /\ seen.idle # None
      BY <1>3, <1>4, <1>5, <2>1, <3>1, <3>2
    <3>5. now' - seen'.idle >= IdleTimeout
      BY <1>1, <1>4, <3>1, <3>4 DEF Dialog!InteractionAssumption
    <3> QED BY <1>1, <1>4, <1>5, <1>6, <3>1, <3>2, <3>3, <3>4, <3>5 DEF IdleBooks,
        Dialog!CheckAfterIdle, quiet
  <2>2. CASE action' # "check_workspace" /\ Profile # "single"
    BY <1>4, <1>7, <1>10, <2>2 DEF IdleChecked
  <2>3. CASE action' # "check_workspace" /\ Profile = "single"
    <3>1. idle' = Dialog!NoProgress(scr, now', on)
      BY <1>10, <2>3 DEF IdleChecked
    <3>2. CASE ~on \/ ~Dialog!Idle(scr)
      <4>1. idle'.seen_at = None /\ idle'.checked = FALSE /\ idle' \in [seen_at : Nat \cup {None}, checked : BOOLEAN]
        BY <3>1, <3>2 DEF Dialog!NoProgress, Dialog!ResetIdle
      <4>2. ~quiet
        BY <1>2, <2>3, <3>2 DEF quiet
      <4> QED BY <1>3, <1>5, <2>3, <4>1, <4>2 DEF IdleBooks, Dialog!CheckAfterIdle
    <3>3. CASE on /\ Dialog!Idle(scr) /\ idle.seen_at = None
      <4>1. idle'.seen_at = now' /\ idle'.checked = FALSE /\ idle' \in [seen_at : Nat \cup {None}, checked : BOOLEAN]
        BY <1>1, <1>4, <3>1, <3>3 DEF Dialog!NoProgress, ScreenTypes
      <4> QED BY <1>1, <1>2, <1>3, <1>4, <1>5, <1>6, <2>0, <2>3, <3>3, <4>1 DEF IdleBooks,
          Dialog!CheckAfterIdle
    <3>4. CASE on /\ Dialog!Idle(scr) /\ idle.seen_at # None
      BY <1>7, <2>0, <2>3, <3>1, <3>4 DEF Dialog!NoProgress
    <3> QED BY <3>2, <3>3, <3>4
  <2> QED BY <2>1, <2>2, <2>3
<1> QED BY <1>1, <1>8, <1>9, <1>10, ProcessDoes DEF s

\* Every poll keeps the invariant.
LEMMA ScreenStep ==
  ASSUME Dialog!InteractionAssumption, ~BackToBack, ScreenInv, [Dialog!Next]_(Dialog!vars)
  PROVE  ScreenInv'
<1>1. CASE UNCHANGED Dialog!vars
  BY <1>1 DEF Dialog!vars, ScreenInv, ScreenTypes, FlagsVisible, AppearanceBooks, IdleBooks,
     Dialog!CheckAfterIdle
<1>2. CASE Dialog!Poll
  <2>0. ScreenTypes /\ FlagsVisible /\ AppearanceBooks /\ IdleBooks
    BY DEF ScreenInv
  <2>1. PICK scr \in Dialog!Screens \cup Dialogs, enough \in {long, TRUE}, same \in BOOLEAN :
          PollFacts(scr, enough, same) /\ Dialog!Process(scr, now', enough) /\ SeenFacts(scr, enough, same) /\ QuietFacts(scr, enough)
    BY <1>2, <2>0, PollDoes
  <2>2. long \in BOOLEAN
    BY <2>0 DEF ScreenTypes
  <2>3. enough \in BOOLEAN
    BY <2>2
  <2>4. screen' = scr /\ now' = now + 1 /\ long' = enough
    BY <2>1 DEF PollFacts
  <2>5. /\ interaction' \in [startup_dismissed : BOOLEAN, yes : BOOLEAN, plan : BOOLEAN, generic : BOOLEAN,
                        attempts : Nat, sent_at : Nat \cup {None}]
        /\ action' \in {"none", "enter", "check_workspace"}
        /\ FlagsVisible'
    BY <2>0, <2>1, <2>3, <2>4, FlagsStep
  <2>6. AppearanceBooks'
    BY <2>0, <2>1, <2>3, AppearanceStep
  <2>7. IdleBooks' /\ idle' \in [seen_at : Nat \cup {None}, checked : BOOLEAN]
    BY <2>0, <2>1, IdleStep
  <2>8. now' \in Nat /\ now' <= MaxTime
    BY <2>0, <2>1 DEF PollFacts, ScreenTypes, Dialog!InteractionAssumption
  <2>9. seen' \in [polls : Nat, enters : Nat, last : Nat \cup {None}, idle : Nat \cup {None}, checks : Nat]
    BY <2>1 DEF SeenFacts
  <2> QED BY <2>3, <2>4, <2>5, <2>6, <2>7, <2>8, <2>9 DEF ScreenInv, ScreenTypes
<1> QED BY <1>1, <1>2 DEF Dialog!Next

\* It holds before the first poll.
LEMMA ScreenInitInv ==
  ASSUME Dialog!InteractionAssumption, Dialog!Init
  PROVE  ScreenInv
<1>1. ScreenTypes
  <2>1. interaction \in [startup_dismissed : BOOLEAN, yes : BOOLEAN, plan : BOOLEAN, generic : BOOLEAN,
                   attempts : Nat, sent_at : Nat \cup {None}]
    BY DEF Dialog!Init, Dialog!InitState
  <2>2. /\ idle \in [seen_at : Nat \cup {None}, checked : BOOLEAN]
        /\ seen \in [polls : Nat, enters : Nat, last : Nat \cup {None}, idle : Nat \cup {None}, checks : Nat]
    BY DEF Dialog!Init
  <2>3. long \in BOOLEAN
    BY DEF Dialog!Init
  <2>4. screen \in Dialog!Screens /\ now = 0 /\ action = "none"
    BY DEF Dialog!Init, Dialog!Screens
  <2> QED BY <2>1, <2>2, <2>3, <2>4 DEF ScreenTypes, Dialog!InteractionAssumption
<1>2. screen \notin Dialogs
  BY DialogMarkers DEF Dialog!Init, Dialog!Screens
<1>3. FlagsVisible /\ AppearanceBooks /\ IdleBooks
  BY <1>2 DEF Dialog!Init, Dialog!InitState, FlagsVisible, AppearanceBooks, IdleBooks,
     Dialog!CheckAfterIdle
<1> QED BY <1>1, <1>3 DEF ScreenInv

\* It implies what the handlers promise.
LEMMA ScreenInvImplies ==
  ASSUME Dialog!InteractionAssumption, ScreenInv
  PROVE  Dialog!InteractionTypeOK /\ Dialog!EveryAppearanceAnswered /\ Dialog!OneEnterPerAppearance /\ Dialog!CheckAfterIdle
<1>1. Dialog!InteractionTypeOK
  BY DEF ScreenInv, ScreenTypes, FlagsVisible, IdleBooks, Dialog!InteractionTypeOK,
     Dialog!InteractionAssumption
<1>2. Dialog!EveryAppearanceAnswered
  BY DEF ScreenInv, ScreenTypes, AppearanceBooks, Dialog!EveryAppearanceAnswered
<1>3. Dialog!OneEnterPerAppearance
  BY DEF ScreenInv, ScreenTypes, FlagsVisible, AppearanceBooks, Dialog!OneEnterPerAppearance,
     Dialog!InteractionAssumption
<1> QED BY <1>1, <1>2, <1>3 DEF ScreenInv, IdleBooks

\* The retry time of a question is counted from the Enter that the history
\* remembers.
LEMMA RetryStep ==
  ASSUME Dialog!InteractionAssumption, ~BackToBack, ScreenInv, [Dialog!Next]_(Dialog!vars)
  PROVE  UNCHANGED Dialog!vars \/ Dialog!RetriesSpaced
<1> SUFFICES ASSUME Dialog!Poll, screen' \in Dialogs, interaction.startup_dismissed, action' = "enter", seen'.enters > 1
             PROVE  now' - seen.last >= RetrySeconds
  BY DEF Dialog!Next, Dialog!RetriesSpaced
<1>0. ScreenTypes /\ FlagsVisible /\ AppearanceBooks
  BY DEF ScreenInv
<1>1. PICK scr \in Dialog!Screens \cup Dialogs, enough \in {long, TRUE}, same \in BOOLEAN :
        PollFacts(scr, enough, same) /\ Dialog!Process(scr, now', enough) /\ SeenFacts(scr, enough, same)
  BY <1>0, PollDoes
<1>2. long \in BOOLEAN /\ now' \in Nat
  BY <1>0, <1>1 DEF ScreenTypes, PollFacts
<1>3. enough \in BOOLEAN
  BY <1>2
<1>4. same /\ scr = screen /\ seen.enters \in Nat /\ seen.enters > 0 /\ seen'.enters = seen.enters + 1
  BY <1>0, <1>1 DEF SeenFacts, ScreenTypes, PollFacts
<1> DEFINE s == Dialog!ClearVisible(interaction, scr)
<1>5. /\ s.startup_dismissed = interaction.startup_dismissed
      /\ s.yes <=> interaction.yes /\ "yes" \in scr
      /\ s.plan <=> interaction.plan /\ "plan" \in scr
      /\ s.generic <=> interaction.generic /\ "generic" \in scr
      /\ s.generic => s.attempts = interaction.attempts /\ s.sent_at = interaction.sent_at
  BY <1>0, Cleared
<1> HIDE DEF s
<1>6. Claims(s, scr, now')
  BY <1>0, <1>1, <1>2, <1>3, <1>5, ProcessDoes DEF s, Starts, Passes, Dialog!Startup
<1>7. AppearanceBooks'
  BY <1>0, <1>1, <1>3, AppearanceStep
<1>8. "plan" \notin screen /\ "yes" \notin screen /\ interaction.generic /\ seen.last = interaction.sent_at
  BY <1>0, <1>1, <1>4, <1>7 DEF AppearanceBooks, PollFacts
<1>9. Dialog!GenericSelection(s, scr, now')
  BY <1>4, <1>6, <1>8 DEF Claims, Dialog!PlanApproval, Dialog!YesConfirmation
<1> QED BY <1>0, <1>4, <1>5, <1>8, <1>9 DEF Dialog!GenericSelection, Dialog!RetryDue, FlagsVisible

\* Every dialog that appears is answered, with one Enter, and the workspace is
\* checked only after the idle time, in both profiles and for any dialogs, while
\* a snapshot without a dialog comes between two of them
\* (claude/interaction.py: InteractionController.process and its handlers).
THEOREM ScreenSafe ==
  ASSUME Dialog!InteractionAssumption, ~BackToBack
  PROVE  /\ Dialog!Spec => [](Dialog!InteractionTypeOK /\ Dialog!EveryAppearanceAnswered)
         /\ Dialog!Spec => [](Dialog!OneEnterPerAppearance /\ Dialog!CheckAfterIdle)
<1>1. Dialog!Init => ScreenInv
  BY ScreenInitInv
<1>2. ScreenInv /\ [Dialog!Next]_(Dialog!vars) => ScreenInv'
  BY ScreenStep
<1>3. ScreenInv => /\ Dialog!InteractionTypeOK /\ Dialog!EveryAppearanceAnswered
                   /\ Dialog!OneEnterPerAppearance /\ Dialog!CheckAfterIdle
  BY ScreenInvImplies
<1> QED BY <1>1, <1>2, <1>3, PTL DEF Dialog!Spec

-----------------------------------------------------------------------------
(* run_claude().                                                           *)

\* The run's steps, in the order it takes them.
Launching == {"setup", "launch", "launching"}
Asking == {"configure", "starting", "poll", "look", "capture", "react", "keys", "ready", "paste"}
Delivering == {"enter", "confirm", "unconfirmed"}
Reading == {"stat", "load", "judge"}
Saving == {"evidence", "export"}
InLoop == Asking \cup Delivering \cup Reading
OverPC == {"returned", "raised"}

ClaudeTypes ==
  /\ Claude!ClaudeRunnerTypeOK
  /\ pc \in Launching \cup InLoop \cup Saving \cup {"handler", "cleanup", "killing", "end"} \cup OverPC
  /\ result \in [outcome : {"failed", "completed"}, reason : Claude!Reasons \cup {None}]
  /\ torn \in BOOLEAN /\ pastes \in Nat /\ cancels \in Nat /\ cancelled \in BOOLEAN
  /\ view \in [dismissed : BOOLEAN, startup : Nat, prompt : Nat, found : BOOLEAN,
               signature : (Nat \X BOOLEAN) \cup {None}, stat : Seq(Claude!Events), raw : Seq(Claude!Events),
               evidence : BOOLEAN, saved : Seq(Claude!Events) \cup {None}]

\* No server starts after the clean-up has looked for one.
ServerBooks ==
  /\ pc \in {"setup", "launch"} => launch = "none"
  /\ pc = "launching" => launch # "none"
  /\ pc \in InLoop \cup Saving => launch = "done"
  /\ launch = "running" => pc \in {"launching", "handler"}
  /\ launch = "none" => tmux = "none"
  /\ pc \notin {"killing", "end"} \cup OverPC => kill = "none"
  /\ pc = "killing" => kill # "none"
  /\ kill = "none" /\ pc \in {"end"} \cup OverPC => launch = "none"
  /\ kill = "ok" => tmux # "up"
  /\ cancelled <=> cancels > 0
  /\ pc = "handler" => cancelled

HasEnd(s) == \E i \in DOMAIN s : s[i] = "end_turn"

\* The result is decided once, and what it says was in the transcript.
ResultBooks ==
  /\ pc \in Launching \cup InLoop => result = Claude!Failed("harness_error")
  /\ result.outcome = "completed" => HasEnd(log) /\ launch = "done"
  /\ ~cancelled /\ pc \notin Saving /\ result.outcome = "completed" => view.saved # None /\ HasEnd(view.saved)
  /\ ~cancelled /\ pc \in {"end", "returned"} /\ result.outcome = "completed" => kill = "ok"
  /\ pc = "returned" => ~cancelled

Begins(s, t) == Len(s) <= Len(t) /\ \A i \in DOMAIN s : s[i] = t[i]

\* The runner has read at least the lines its signature counts.
TranscriptBooks ==
  /\ Begins(view.raw, log) /\ Begins(view.stat, log)
  /\ view.signature # None => view.signature[1] <= Len(log)
  /\ pc \in (Launching \cup InLoop) \ {"load"} /\ view.signature # None => view.signature[1] <= Len(view.raw)
  /\ pc = "judge" => Begins(view.stat, view.raw)

\* A prompt that was pasted is confirmed, or the run ends.
PromptBooks ==
  /\ view.found => Claude!FileExists
  /\ result.reason = "interrupted" => Claude!FileExists
  /\ result.reason = "agent_startup_failed" => ~view.found
  /\ pc \in Delivering \cup {"paste"} => ~view.found
  /\ pc \in Reading => view.found
  /\ pc \in Launching \cup Asking /\ ~view.found => pastes = 0
  /\ pastes <= 1

ClaudeInv == ClaudeTypes /\ ServerBooks /\ ResultBooks /\ TranscriptBooks /\ PromptBooks

(* The steps between the launch and the clean-up. *)
LoopStep ==
  \/ Claude!Configure \/ Claude!Starting \/ Claude!Poll \/ Claude!Look \/ Claude!Capture
  \/ Claude!React \/ Claude!Keys \/ Claude!Ready \/ Claude!Paste \/ Claude!Enter
  \/ Claude!Confirm \/ Claude!Unconfirmed \/ Claude!Stat \/ Claude!LoadTranscript \/ Claude!Judge
  \/ Claude!Evidence \/ Claude!Export
  \/ Claude!CommandRefused \/ Claude!CommandFails \/ Claude!EvidenceFails

\* The loop leaves the threads, the server and the transcript alone.
LEMMA LoopMoves ==
  ASSUME LoopStep
  PROVE  /\ pc \in InLoop \cup Saving /\ pc' \in InLoop \cup Saving \cup {"cleanup"}
         /\ UNCHANGED <<clock, launch, kill, tmux, log, torn, cancels, cancelled>>
<1> USE DEF Asking, Delivering, Reading, Saving, InLoop, Claude!Goto, Claude!Raise, Claude!Break,
    Claude!Continue, Claude!Commands, Claude!claude
<1>1. CASE Claude!Configure
  BY <1>1 DEF Claude!Configure
<1>2. CASE Claude!Starting
  BY <1>2 DEF Claude!Starting
<1>3. CASE Claude!Poll
  BY <1>3 DEF Claude!Poll
<1>4. CASE Claude!Look
  BY <1>4 DEF Claude!Look
<1>5. CASE Claude!Capture
  BY <1>5 DEF Claude!Capture
<1>6. CASE Claude!React
  BY <1>6 DEF Claude!React
<1>7. CASE Claude!Keys
  BY <1>7 DEF Claude!Keys
<1>8. CASE Claude!Ready
  BY <1>8 DEF Claude!Ready
<1>9. CASE Claude!Paste
  BY <1>9 DEF Claude!Paste
<1>10. CASE Claude!Enter
  BY <1>10 DEF Claude!Enter
<1>11. CASE Claude!Confirm
  BY <1>11 DEF Claude!Confirm, Claude!NotDelivered
<1>12. CASE Claude!Unconfirmed
  BY <1>12 DEF Claude!Unconfirmed
<1>13. CASE Claude!Stat
  BY <1>13 DEF Claude!Stat
<1>14. CASE Claude!LoadTranscript
  BY <1>14 DEF Claude!LoadTranscript
<1>15. CASE Claude!Judge
  BY <1>15 DEF Claude!Judge
<1>16. CASE Claude!Evidence
  BY <1>16 DEF Claude!Evidence
<1>17. CASE Claude!Export
  BY <1>17 DEF Claude!Export
<1>18. CASE Claude!CommandRefused
  BY <1>18 DEF Claude!CommandRefused
<1>19. CASE Claude!CommandFails
  BY <1>19 DEF Claude!CommandFails
<1>20. CASE Claude!EvidenceFails
  BY <1>20 DEF Claude!EvidenceFails
<1> QED BY <1>1, <1>2, <1>3, <1>4, <1>5, <1>6, <1>7, <1>8, <1>9, <1>10, <1>11, <1>12, <1>13, <1>14,
    <1>15, <1>16, <1>17, <1>18, <1>19, <1>20 DEF LoopStep

\* Nobody starts a server that the clean-up does not see.
LEMMA ServerStep ==
  ASSUME Claude!ClaudeRunnerAssumption, MaxCancels <= 1, ClaudeTypes, ServerBooks,
         [Claude!Next]_(Claude!vars)
  PROVE  ServerBooks'
<1>a. /\ launch \in {"none", "running", "done", "failed"} /\ kill \in {"none", "running", "ok", "failed"}
      /\ tmux \in {"none", "up", "gone"} /\ cancels \in Nat /\ cancelled \in BOOLEAN /\ MaxCancels \in Nat
  BY DEF ClaudeTypes, Claude!ClaudeRunnerTypeOK, Claude!ClaudeRunnerAssumption
<1> USE <1>a DEF ServerBooks, Launching, Asking, Delivering, Reading, Saving, InLoop, OverPC
<1>1. CASE Claude!Setup
  BY <1>1 DEF Claude!Setup, Claude!Goto, Claude!Continue, Claude!claude
<1>2. CASE Claude!StartLaunch
  <2>1. pc = "launch" /\ UNCHANGED <<kill, tmux, cancels, cancelled>>
    BY <1>2 DEF Claude!StartLaunch, Claude!Raise, Claude!claude
  <2>2. (pc' = "cleanup" /\ UNCHANGED launch) \/ (pc' = "launching" /\ launch' = "running")
    BY <1>2 DEF Claude!StartLaunch, Claude!Raise, Claude!Goto
  <2> QED BY <2>1, <2>2
<1>3. CASE Claude!Launched
  <2>1. pc = "launching" /\ launch \in {"done", "failed"} /\ UNCHANGED <<launch, kill, tmux, cancels, cancelled>>
    BY <1>3 DEF Claude!Launched, Claude!Raise, Claude!Continue, Claude!claude
  <2>2. (pc' = "cleanup") \/ (pc' = "configure" /\ launch = "done")
    BY <1>3 DEF Claude!Launched, Claude!Raise, Claude!Continue, Claude!Goto
  <2> QED BY <2>1, <2>2
<1>4. CASE Claude!Handler
  BY <1>4 DEF Claude!Handler, Claude!LaunchSettled, Claude!Goto, Claude!Continue, Claude!claude
<1>5. CASE Claude!Cleanup
  <2>1. pc = "cleanup" /\ UNCHANGED <<launch, tmux, cancels, cancelled>>
    BY <1>5 DEF Claude!Cleanup, Claude!Continue, Claude!claude
  <2>2. (pc' = "end" /\ launch = "none" /\ UNCHANGED kill) \/ (pc' = "killing" /\ kill' = "running")
    BY <1>5 DEF Claude!Cleanup, Claude!Continue, Claude!Goto
  <2> QED BY <2>1, <2>2
<1>6. CASE Claude!Killed
  BY <1>6 DEF Claude!Killed, Claude!Goto, Claude!Continue, Claude!claude
<1>7. CASE Claude!End
  BY <1>7 DEF Claude!End, Claude!Goto, Claude!Continue, Claude!claude
<1>8. CASE Claude!Cancel
  BY <1>8 DEF Claude!Cancel, Claude!Goto, Claude!Continue, Claude!claude
<1>9. CASE Claude!LaunchEnds
  BY <1>9 DEF Claude!LaunchEnds, Claude!Goto, Claude!Continue, Claude!claude
<1>10. CASE Claude!KillEnds
  BY <1>10 DEF Claude!KillEnds, Claude!Goto, Claude!Continue, Claude!claude
<1>11. CASE Claude!WriteHalf
  BY <1>11 DEF Claude!WriteHalf, Claude!Goto, Claude!Continue, Claude!claude
<1>12. CASE Claude!WriteLine
  BY <1>12 DEF Claude!WriteLine, Claude!Goto, Claude!Continue, Claude!claude
<1>13. CASE Claude!ClaudeExits
  BY <1>13 DEF Claude!ClaudeExits, Claude!Goto, Claude!Continue, Claude!claude
<1>14. CASE Claude!ServerDies
  BY <1>14 DEF Claude!ServerDies, Claude!Goto, Claude!Continue, Claude!claude
<1>15. CASE Claude!Tick
  BY <1>15 DEF Claude!Tick, Claude!Goto, Claude!Continue, Claude!claude
<1>16. CASE UNCHANGED Claude!vars
  BY <1>16 DEF Claude!vars, Claude!claude
<1>17. CASE LoopStep
  BY <1>17, LoopMoves
<1> QED BY <1>1, <1>2, <1>3, <1>4, <1>5, <1>6, <1>7, <1>8, <1>9, <1>10, <1>11, <1>12, <1>13, <1>14,
    <1>15, <1>16, <1>17 DEF Claude!Next, Claude!Runner, LoopStep

\* The run ends with a reason; a lost session is named by whether Claude took the prompt.
GivesUp ==
  \E r \in Claude!Reasons :
    /\ result' = Claude!Failed(r) /\ (r = "interrupted" => view.found)
    /\ r = "agent_startup_failed" => ~view.found \/ pc = "unconfirmed"

\* What one step of the loop does to the result.
LEMMA LoopResult ==
  ASSUME ClaudeTypes, LoopStep
  PROVE  \/ UNCHANGED result /\ pc \in InLoop /\ pc' \in InLoop /\ view'.saved = view.saved
         \/ UNCHANGED result /\ pc = "evidence" /\ pc' = "export"
         \/ UNCHANGED result /\ Claude!Export
         \/ pc \in InLoop /\ pc' = "cleanup" /\ result' = Claude!Failed("harness_error") /\ UNCHANGED view
         \/ pc \in InLoop /\ pc' = "evidence" /\ UNCHANGED view
            /\ GivesUp
         \/ pc = "judge" /\ pc' = "evidence" /\ Claude!IsComplete(view.raw) /\ result' = Claude!Completed /\ UNCHANGED view
         \/ pc \in Saving /\ pc' = "cleanup" /\ result' = Claude!Demoted
<1> USE DEF Asking, Delivering, Reading, Saving, InLoop, Claude!Goto, Claude!Raise, Claude!Break,
    Claude!Continue, Claude!Commands, Claude!Reasons, Claude!LostReason, GivesUp
<1>1. CASE Claude!Configure
  BY <1>1 DEF Claude!Configure, ClaudeTypes
<1>2. CASE Claude!Starting
  BY <1>2 DEF Claude!Starting
<1>3. CASE Claude!Poll
  BY <1>3 DEF Claude!Poll
<1>4. CASE Claude!Look
  BY <1>4 DEF Claude!Look
<1>5. CASE Claude!Capture
  BY <1>5 DEF Claude!Capture
<1>6. CASE Claude!React
  <2>1. CASE UNCHANGED view
    BY <1>6, <2>1 DEF Claude!React
  <2>2. CASE view' = [view EXCEPT !.dismissed = TRUE] /\ pc' = "ready" /\ UNCHANGED result
    <3>1. view'.saved = view.saved
      BY <2>2 DEF ClaudeTypes
    <3> QED BY <1>6, <2>2, <3>1 DEF Claude!React
  <2> QED BY <1>6, <2>1, <2>2 DEF Claude!React
<1>7. CASE Claude!Keys
  BY <1>7 DEF Claude!Keys
<1>8. CASE Claude!Ready
  BY <1>8 DEF Claude!Ready
<1>9. CASE Claude!Paste
  BY <1>9 DEF Claude!Paste
<1>10. CASE Claude!Enter
  <2>1. CASE Claude!Expired /\ Claude!Break("timeout")
    BY <1>10, <2>1 DEF Claude!Enter
  <2>2. CASE view' = [view EXCEPT !.prompt = Claude!Min2(TaskDeadline, clock + PromptTime)] /\ pc' = "confirm" /\ UNCHANGED result
    <3>1. view'.saved = view.saved
      BY <2>2 DEF ClaudeTypes
    <3> QED BY <1>10, <2>2, <3>1 DEF Claude!Enter
  <2> QED BY <1>10, <2>1, <2>2 DEF Claude!Enter
<1>11. CASE Claude!Confirm
  <2>1. CASE view' = view /\ pc' \in {"confirm", "unconfirmed"} /\ UNCHANGED result
    BY <1>11, <2>1 DEF Claude!Confirm
  <2>2. CASE view' = [view EXCEPT !.found = TRUE] /\ pc' = "stat" /\ UNCHANGED result
    <3>1. view'.saved = view.saved
      BY <2>2 DEF ClaudeTypes
    <3> QED BY <1>11, <2>2, <3>1 DEF Claude!Confirm
  <2> QED BY <1>11, <2>1, <2>2 DEF Claude!Confirm, Claude!NotDelivered
<1>12. CASE Claude!Unconfirmed
  BY <1>12 DEF Claude!Unconfirmed
<1>13. CASE Claude!Stat
  BY <1>13 DEF Claude!Stat, ClaudeTypes
<1>14. CASE Claude!LoadTranscript
  BY <1>14 DEF Claude!LoadTranscript, ClaudeTypes
<1>15. CASE Claude!Judge
  BY <1>15 DEF Claude!Judge
<1>16. CASE Claude!Evidence
  BY <1>16 DEF Claude!Evidence
<1>17. CASE Claude!Export
  BY <1>17 DEF Claude!Export
<1>18. CASE Claude!CommandRefused
  BY <1>18 DEF Claude!CommandRefused
<1>19. CASE Claude!CommandFails
  BY <1>19 DEF Claude!CommandFails
<1>20. CASE Claude!EvidenceFails
  BY <1>20 DEF Claude!EvidenceFails
<1> QED BY <1>1, <1>2, <1>3, <1>4, <1>5, <1>6, <1>7, <1>8, <1>9, <1>10, <1>11, <1>12, <1>13, <1>14,
    <1>15, <1>16, <1>17, <1>18, <1>19, <1>20 DEF LoopStep

\* A completed result was judged on lines that are in the file, and is kept only
\* with its evidence and without its server.
LEMMA ResultStep ==
  ASSUME Claude!ClaudeRunnerAssumption, ClaudeTypes, ServerBooks, ResultBooks, TranscriptBooks,
         [Claude!Next]_(Claude!vars)
  PROVE  ResultBooks'
<1>a. /\ cancelled \in BOOLEAN /\ view.raw \in Seq(Claude!Events) /\ log \in Seq(Claude!Events)
      /\ result.outcome = "failed" \/ result.outcome = "completed"
  BY DEF ClaudeTypes, Claude!ClaudeRunnerTypeOK
<1>b. HasEnd(log) => HasEnd(log')
  <2>1. CASE UNCHANGED log
    BY <2>1
  <2>2. CASE Claude!WriteLine
    BY <1>a, <2>2 DEF Claude!WriteLine, HasEnd, Claude!Events
  <2> QED BY <2>1, <2>2, LoopMoves DEF Claude!Next, Claude!Runner, LoopStep, Claude!vars,
      Claude!claude, Claude!Setup, Claude!StartLaunch, Claude!Launched, Claude!Handler, Claude!Cleanup,
      Claude!Killed, Claude!End, Claude!Cancel, Claude!LaunchEnds, Claude!KillEnds, Claude!WriteHalf,
      Claude!ClaudeExits, Claude!ServerDies, Claude!Tick, Claude!Raise, Claude!Continue
<1> USE <1>a, <1>b DEF Launching, Asking, Delivering, Reading, Saving, InLoop, OverPC
<1>1. CASE Claude!Setup
  <2>1. pc = "setup" /\ pc' = "launch" /\ UNCHANGED <<result, launch, kill, view, cancelled>>
    BY <1>1 DEF Claude!Setup, Claude!Continue, Claude!Goto
  <2> QED BY <2>1 DEF ResultBooks, Claude!Failed
<1>2. CASE Claude!StartLaunch
  <2>1. pc = "launch" /\ pc' \in {"cleanup", "launching"} /\ result' = Claude!Failed("harness_error")
    BY <1>2 DEF Claude!StartLaunch, Claude!Raise, Claude!Goto, ResultBooks
  <2> QED BY <2>1 DEF ResultBooks, Claude!Failed
<1>3. CASE Claude!Launched
  <2>1. pc = "launching" /\ pc' \in {"cleanup", "configure"} /\ result' = Claude!Failed("harness_error")
    BY <1>3 DEF Claude!Launched, Claude!Raise, Claude!Continue, Claude!Goto, ResultBooks
  <2> QED BY <2>1 DEF ResultBooks, Claude!Failed
<1>4. CASE Claude!Handler
  <2>1. pc = "handler" /\ pc' = "cleanup" /\ cancelled /\ UNCHANGED <<result, launch, kill, view, cancelled>>
    BY <1>4 DEF Claude!Handler, Claude!Continue, Claude!Goto, ServerBooks
  <2> QED BY <2>1 DEF ResultBooks
<1>5. CASE Claude!Cleanup
  <2>1. pc = "cleanup" /\ UNCHANGED <<result, launch, view, cancelled>> /\ pc' \in {"end", "killing"}
        /\ (pc' = "end" => launch = "none")
    BY <1>5 DEF Claude!Cleanup, Claude!Continue, Claude!Goto
  <2> QED BY <2>1 DEF ResultBooks
<1>6. CASE Claude!Killed
  <2>1. pc = "killing" /\ pc' = "end" /\ UNCHANGED <<launch, kill, view, cancelled>>
        /\ (result' = result \/ result'.outcome = "failed") /\ kill \in {"ok", "failed"}
    BY <1>6 DEF Claude!Killed, Claude!Goto, Claude!Demoted, Claude!Failed
  <2>2. kill = "failed" /\ ~cancelled => result'.outcome = "failed"
    BY <1>6 DEF Claude!Killed, Claude!Demoted, Claude!Failed
  <2> QED BY <2>1, <2>2 DEF ResultBooks
<1>7. CASE Claude!End
  <2>1. pc = "end" /\ UNCHANGED <<result, launch, kill, view, cancelled>> /\ pc' = (IF cancelled THEN "raised" ELSE "returned")
    BY <1>7 DEF Claude!End, Claude!Continue, Claude!Goto
  <2> QED BY <2>1 DEF ResultBooks
<1>8. CASE Claude!Cancel
  <2>1. cancelled' = TRUE /\ pc' \in {"raised", "cleanup", "handler"} /\ UNCHANGED <<result, launch, kill, view>>
    BY <1>8 DEF Claude!Cancel, Claude!Goto
  <2> QED BY <2>1 DEF ResultBooks
<1>9. CASE Claude!LaunchEnds
  <2>1. launch = "running" /\ UNCHANGED <<pc, result, kill, view, cancelled>>
    BY <1>9 DEF Claude!LaunchEnds
  <2> QED BY <2>1 DEF ResultBooks
<1>10. CASE Claude!KillEnds
  <2>1. kill = "running" /\ UNCHANGED <<pc, result, launch, view, cancelled>>
    BY <1>10 DEF Claude!KillEnds
  <2> QED BY <2>1 DEF ResultBooks
<1>11. CASE Claude!WriteHalf
  <2>1. UNCHANGED <<pc, result, launch, kill, view, cancelled>>
    BY <1>11 DEF Claude!WriteHalf, Claude!claude
  <2> QED BY <2>1 DEF ResultBooks
<1>12. CASE Claude!WriteLine
  <2>1. UNCHANGED <<pc, result, launch, kill, view, cancelled>>
    BY <1>12 DEF Claude!WriteLine, Claude!claude
  <2> QED BY <2>1 DEF ResultBooks
<1>13. CASE Claude!ClaudeExits
  <2>1. UNCHANGED <<pc, result, launch, kill, view, cancelled>>
    BY <1>13 DEF Claude!ClaudeExits, Claude!claude
  <2> QED BY <2>1 DEF ResultBooks
<1>14. CASE Claude!ServerDies
  <2>1. UNCHANGED <<pc, result, launch, kill, view, cancelled>>
    BY <1>14 DEF Claude!ServerDies, Claude!claude
  <2> QED BY <2>1 DEF ResultBooks
<1>15. CASE Claude!Tick
  <2>1. UNCHANGED <<pc, result, launch, kill, view, cancelled>>
    BY <1>15 DEF Claude!Tick, Claude!claude
  <2> QED BY <2>1 DEF ResultBooks
<1>16. CASE UNCHANGED Claude!vars
  <2>1. UNCHANGED <<pc, result, launch, kill, view, cancelled>>
    BY <1>16 DEF Claude!vars
  <2> QED BY <2>1 DEF ResultBooks
<1>17. CASE LoopStep
  <2>0. launch = "done" /\ UNCHANGED <<launch, kill, log, torn, cancelled>> /\ pc' \in InLoop \cup Saving \cup {"cleanup"}
    BY <1>17, LoopMoves DEF ServerBooks
  <2>1. CASE UNCHANGED result /\ pc \in InLoop /\ pc' \in InLoop
    BY <2>0, <2>1 DEF ResultBooks, Claude!Failed
  <2>2. CASE UNCHANGED result /\ pc = "evidence" /\ pc' = "export"
    BY <2>0, <2>2 DEF ResultBooks
  <2>3. CASE UNCHANGED result /\ Claude!Export
    <3>1. pc = "export" /\ pc' = "cleanup" /\ view'.saved = IF Claude!FileExists THEN log ELSE None
      BY <2>3 DEF Claude!Export, Claude!Goto, Claude!Load, ClaudeTypes
    <3>2. HasEnd(log) => Claude!FileExists
      BY DEF HasEnd, Claude!FileExists
    <3>3. HasEnd(log) => view'.saved # None /\ HasEnd(view'.saved)
      BY <3>1, <3>2 DEF Claude!ClaudeRunnerAssumption
    <3> QED BY <2>0, <2>3, <3>1, <3>3 DEF ResultBooks
  <2>4. CASE pc' \in Saving \cup {"cleanup"} /\ result'.outcome = "failed"
    BY <2>0, <2>4 DEF ResultBooks
  <2>5. CASE pc = "judge" /\ pc' = "evidence" /\ Claude!IsComplete(view.raw) /\ result' = Claude!Completed /\ UNCHANGED view
    <3>1. HasEnd(log)
      BY <2>5 DEF Claude!IsComplete, TranscriptBooks, Begins, HasEnd
    <3> QED BY <2>0, <2>5, <3>1 DEF ResultBooks
  <2>6. \/ UNCHANGED result /\ pc \in InLoop /\ pc' \in InLoop
        \/ UNCHANGED result /\ pc = "evidence" /\ pc' = "export"
        \/ UNCHANGED result /\ Claude!Export
        \/ pc' \in Saving \cup {"cleanup"} /\ result'.outcome = "failed"
        \/ pc = "judge" /\ pc' = "evidence" /\ Claude!IsComplete(view.raw) /\ result' = Claude!Completed /\ UNCHANGED view
    BY <1>17, LoopResult DEF Claude!Failed, Claude!Demoted, GivesUp
  <2> QED BY <2>1, <2>2, <2>3, <2>4, <2>5, <2>6
<1> QED BY <1>1, <1>2, <1>3, <1>4, <1>5, <1>6, <1>7, <1>8, <1>9, <1>10, <1>11, <1>12, <1>13, <1>14,
    <1>15, <1>16, <1>17 DEF Claude!Next, Claude!Runner, LoopStep

\* Only a look at the file changes what the runner knows of the transcript.
LEMMA LoopReads ==
  ASSUME ClaudeTypes, LoopStep
  PROVE  \/ Claude!Stat
         \/ Claude!LoadTranscript
         \/ /\ view'.raw = view.raw /\ view'.stat = view.stat /\ view'.signature = view.signature
            /\ pc' \notin {"load", "judge"} /\ (pc = "load" => pc' \notin InLoop)
<1> USE DEF Asking, Delivering, Reading, Saving, InLoop, Claude!Goto, Claude!Raise, Claude!Break,
    Claude!Continue, Claude!Commands
<1>1. CASE Claude!Configure
  BY <1>1 DEF Claude!Configure, ClaudeTypes
<1>2. CASE Claude!Starting
  BY <1>2 DEF Claude!Starting
<1>3. CASE Claude!Poll
  BY <1>3 DEF Claude!Poll
<1>4. CASE Claude!Look
  BY <1>4 DEF Claude!Look
<1>5. CASE Claude!Capture
  BY <1>5 DEF Claude!Capture
<1>6. CASE Claude!React
  <2>1. CASE UNCHANGED view
    BY <1>6, <2>1 DEF Claude!React
  <2>2. CASE view' = [view EXCEPT !.dismissed = TRUE] /\ pc' = "ready"
    BY <1>6, <2>2 DEF Claude!React, ClaudeTypes
  <2> QED BY <1>6, <2>1, <2>2 DEF Claude!React
<1>7. CASE Claude!Keys
  BY <1>7 DEF Claude!Keys
<1>8. CASE Claude!Ready
  BY <1>8 DEF Claude!Ready
<1>9. CASE Claude!Paste
  BY <1>9 DEF Claude!Paste
<1>10. CASE Claude!Enter
  <2>1. CASE UNCHANGED view /\ pc' = "evidence"
    BY <1>10, <2>1 DEF Claude!Enter
  <2>2. CASE view' = [view EXCEPT !.prompt = Claude!Min2(TaskDeadline, clock + PromptTime)] /\ pc' = "confirm"
    BY <1>10, <2>2 DEF Claude!Enter, ClaudeTypes
  <2> QED BY <1>10, <2>1, <2>2 DEF Claude!Enter
<1>11. CASE Claude!Confirm
  <2>1. CASE UNCHANGED view /\ pc' \in {"confirm", "unconfirmed"}
    BY <1>11, <2>1 DEF Claude!Confirm
  <2>2. CASE view' = [view EXCEPT !.found = TRUE] /\ pc' = "stat"
    BY <1>11, <2>2 DEF Claude!Confirm, ClaudeTypes
  <2> QED BY <1>11, <2>1, <2>2 DEF Claude!Confirm, Claude!NotDelivered
<1>12. CASE Claude!Unconfirmed
  BY <1>12 DEF Claude!Unconfirmed
<1>13. CASE Claude!Stat
  BY <1>13
<1>14. CASE Claude!LoadTranscript
  BY <1>14
<1>15. CASE Claude!Judge
  BY <1>15 DEF Claude!Judge
<1>16. CASE Claude!Evidence
  BY <1>16 DEF Claude!Evidence, ClaudeTypes
<1>17. CASE Claude!Export
  BY <1>17 DEF Claude!Export, ClaudeTypes
<1>18. CASE Claude!CommandRefused
  BY <1>18 DEF Claude!CommandRefused
<1>19. CASE Claude!CommandFails
  BY <1>19 DEF Claude!CommandFails
<1>20. CASE Claude!EvidenceFails
  BY <1>20 DEF Claude!EvidenceFails, ClaudeTypes
<1> QED BY <1>1, <1>2, <1>3, <1>4, <1>5, <1>6, <1>7, <1>8, <1>9, <1>10, <1>11, <1>12, <1>13, <1>14,
    <1>15, <1>16, <1>17, <1>18, <1>19, <1>20 DEF LoopStep

\* How the steps of the loop deliver the prompt.
LEMMA LoopPrompt ==
  ASSUME ClaudeTypes, LoopStep
  PROVE  \/ /\ view'.found = view.found /\ UNCHANGED pastes
            /\ pc' \in Delivering => pc \in Delivering
            /\ pc' = "paste" => ~view.found
            /\ pc' \in Reading => pc \in Reading \/ view.found
            /\ pc' \in Asking => pc \in Asking \/ pc \in Reading
         \/ pc = "paste" /\ pc' = "enter" /\ pastes' = pastes + 1 /\ UNCHANGED view
         \/ pc = "confirm" /\ pc' = "stat" /\ Claude!FileExists /\ view'.found = TRUE /\ UNCHANGED pastes
<1> USE DEF Asking, Delivering, Reading, Saving, InLoop, Claude!Goto, Claude!Raise, Claude!Break,
    Claude!Continue, Claude!Commands
<1>1. CASE Claude!Configure
  BY <1>1 DEF Claude!Configure, ClaudeTypes
<1>2. CASE Claude!Starting
  BY <1>2 DEF Claude!Starting
<1>3. CASE Claude!Poll
  BY <1>3 DEF Claude!Poll
<1>4. CASE Claude!Look
  BY <1>4 DEF Claude!Look
<1>5. CASE Claude!Capture
  BY <1>5 DEF Claude!Capture
<1>6. CASE Claude!React
  <2>1. CASE UNCHANGED view
    BY <1>6, <2>1 DEF Claude!React
  <2>2. CASE view' = [view EXCEPT !.dismissed = TRUE] /\ pc' = "ready"
    BY <1>6, <2>2 DEF Claude!React, ClaudeTypes
  <2> QED BY <1>6, <2>1, <2>2 DEF Claude!React
<1>7. CASE Claude!Keys
  BY <1>7 DEF Claude!Keys
<1>8. CASE Claude!Ready
  BY <1>8 DEF Claude!Ready
<1>9. CASE Claude!Paste
  BY <1>9 DEF Claude!Paste
<1>10. CASE Claude!Enter
  <2>1. CASE UNCHANGED view /\ pc' = "evidence"
    BY <1>10, <2>1 DEF Claude!Enter
  <2>2. CASE view' = [view EXCEPT !.prompt = Claude!Min2(TaskDeadline, clock + PromptTime)] /\ pc' = "confirm"
    BY <1>10, <2>2 DEF Claude!Enter, ClaudeTypes
  <2> QED BY <1>10, <2>1, <2>2 DEF Claude!Enter
<1>11. CASE Claude!Confirm
  <2>1. CASE UNCHANGED view /\ pc' \in {"confirm", "unconfirmed"}
    BY <1>11, <2>1 DEF Claude!Confirm
  <2>2. CASE view' = [view EXCEPT !.found = TRUE] /\ pc' = "stat"
    BY <1>11, <2>2 DEF Claude!Confirm, ClaudeTypes
  <2> QED BY <1>11, <2>1, <2>2 DEF Claude!Confirm, Claude!NotDelivered
<1>12. CASE Claude!Unconfirmed
  BY <1>12 DEF Claude!Unconfirmed
<1>13. CASE Claude!Stat
  BY <1>13 DEF Claude!Stat, ClaudeTypes
<1>14. CASE Claude!LoadTranscript
  BY <1>14 DEF Claude!LoadTranscript, ClaudeTypes
<1>15. CASE Claude!Judge
  BY <1>15 DEF Claude!Judge
<1>16. CASE Claude!Evidence
  BY <1>16 DEF Claude!Evidence, ClaudeTypes
<1>17. CASE Claude!Export
  BY <1>17 DEF Claude!Export, ClaudeTypes
<1>18. CASE Claude!CommandRefused
  BY <1>18 DEF Claude!CommandRefused
<1>19. CASE Claude!CommandFails
  BY <1>19 DEF Claude!CommandFails
<1>20. CASE Claude!EvidenceFails
  BY <1>20 DEF Claude!EvidenceFails, ClaudeTypes
<1> QED BY <1>1, <1>2, <1>3, <1>4, <1>5, <1>6, <1>7, <1>8, <1>9, <1>10, <1>11, <1>12, <1>13, <1>14,
    <1>15, <1>16, <1>17, <1>18, <1>19, <1>20 DEF LoopStep

\* Nothing but Claude writes the transcript, and it only appends.
LEMMA LogGrows ==
  ASSUME ClaudeTypes, [Claude!Next]_(Claude!vars)
  PROVE  /\ \/ UNCHANGED log
            \/ /\ Claude!WriteLine
               /\ log' \in Seq(Claude!Events) /\ Len(log') = Len(log) + 1 /\ \A i \in DOMAIN log : log'[i] = log[i]
         /\ Claude!FileExists => Claude!FileExists'
<1>1. log \in Seq(Claude!Events) /\ torn \in BOOLEAN
  BY DEF ClaudeTypes, Claude!ClaudeRunnerTypeOK
<1>2. CASE Claude!WriteLine
  <2>1. PICK e \in Claude!Events : log' = Append(log, e)
    BY <1>2 DEF Claude!WriteLine
  <2>2. log' \in Seq(Claude!Events) /\ Len(log') = Len(log) + 1 /\ \A i \in DOMAIN log : log'[i] = log[i]
    BY <1>1, <2>1
  <2>3. log' # << >>
    BY <1>1, <2>1
  <2> QED BY <1>2, <2>2, <2>3 DEF Claude!FileExists
<1>3. CASE UNCHANGED log /\ (torn => torn')
  BY <1>3 DEF Claude!FileExists
<1>4. LoopStep => UNCHANGED <<log, torn>>
  BY LoopMoves
<1>5. Claude!WriteLine \/ (UNCHANGED log /\ (torn => torn'))
  BY <1>4 DEF Claude!Next, Claude!Runner, LoopStep, Claude!vars, Claude!claude, Claude!Setup,
     Claude!StartLaunch, Claude!Launched, Claude!Handler, Claude!Cleanup, Claude!Killed, Claude!End,
     Claude!Cancel, Claude!LaunchEnds, Claude!KillEnds, Claude!WriteHalf, Claude!ClaudeExits,
     Claude!ServerDies, Claude!Tick, Claude!Raise, Claude!Continue
<1> QED BY <1>2, <1>3, <1>5

\* Outside the loop nothing is read, pasted or delivered.
Outside ==
  \/ Claude!Setup \/ Claude!StartLaunch \/ Claude!Launched \/ Claude!Handler \/ Claude!Cleanup
  \/ Claude!Killed \/ Claude!End \/ Claude!Cancel \/ Claude!LaunchEnds \/ Claude!KillEnds
  \/ Claude!WriteHalf \/ Claude!WriteLine \/ Claude!ClaudeExits \/ Claude!ServerDies \/ Claude!Tick
  \/ UNCHANGED Claude!vars

\* What each of them does.
LEMMA OutsideKeeps ==
  ASSUME Outside
  PROVE  /\ UNCHANGED <<view, pastes>>
         /\ pc' = pc \/ (pc \in Launching /\ pc' \in {"launch", "launching", "configure"})
            \/ pc' \in {"handler", "cleanup", "killing", "end", "returned", "raised"}
         /\ result' = result \/ result' = Claude!Demoted \/ result' = Claude!Failed("harness_error")
<1> USE DEF Claude!Raise, Claude!Continue, Claude!Goto, Launching
<1>1. CASE Claude!Setup
  BY <1>1 DEF Claude!Setup
<1>2. CASE Claude!StartLaunch
  BY <1>2 DEF Claude!StartLaunch
<1>3. CASE Claude!Launched
  BY <1>3 DEF Claude!Launched
<1>4. CASE Claude!Handler
  BY <1>4 DEF Claude!Handler, Claude!LaunchSettled
<1>5. CASE Claude!Cleanup
  BY <1>5 DEF Claude!Cleanup
<1>6. CASE Claude!Killed
  BY <1>6 DEF Claude!Killed
<1>7. CASE Claude!End
  BY <1>7 DEF Claude!End
<1>8. CASE Claude!Cancel
  BY <1>8 DEF Claude!Cancel
<1>9. CASE Claude!LaunchEnds
  BY <1>9 DEF Claude!LaunchEnds
<1>10. CASE Claude!KillEnds
  BY <1>10 DEF Claude!KillEnds
<1>11. CASE Claude!WriteHalf
  BY <1>11 DEF Claude!WriteHalf
<1>12. CASE Claude!WriteLine
  BY <1>12 DEF Claude!WriteLine
<1>13. CASE Claude!ClaudeExits
  BY <1>13 DEF Claude!ClaudeExits
<1>14. CASE Claude!ServerDies
  BY <1>14 DEF Claude!ServerDies
<1>15. CASE Claude!Tick
  BY <1>15 DEF Claude!Tick
<1>16. CASE UNCHANGED Claude!vars
  BY <1>16 DEF Claude!vars
<1> QED BY <1>1, <1>2, <1>3, <1>4, <1>5, <1>6, <1>7, <1>8, <1>9, <1>10, <1>11, <1>12, <1>13, <1>14,
    <1>15, <1>16 DEF Outside

\* The runner judges on the lines it stat'ed: an unchanged signature means that
\* what it read before is the file.
LEMMA TranscriptStep ==
  ASSUME Claude!ClaudeRunnerAssumption, ClaudeTypes, TranscriptBooks, [Claude!Next]_(Claude!vars)
  PROVE  TranscriptBooks'
<1>1. /\ view.raw \in Seq(Claude!Events) /\ view.stat \in Seq(Claude!Events) /\ log \in Seq(Claude!Events)
      /\ view.signature \in (Nat \X BOOLEAN) \cup {None}
  BY DEF ClaudeTypes, Claude!ClaudeRunnerTypeOK
<1> USE DEF TranscriptBooks, Begins, Launching, Asking, Delivering, Reading, Saving, InLoop
<1>2. CASE Outside
  <2>0. view' = view /\ (pc' = pc \/ (pc \in Launching /\ pc' \in {"launch", "launching", "configure"})
            \/ pc' \in {"handler", "cleanup", "killing", "end", "returned", "raised"})
    BY <1>2, OutsideKeeps
  <2>1. /\ view' = view
        /\ pc' = "judge" => pc = "judge"
        /\ pc' \in (Launching \cup InLoop) \ {"load"} => pc \in (Launching \cup InLoop) \ {"load"}
    BY <2>0
  <2>2. CASE UNCHANGED log
    BY <1>1, <2>1, <2>2
  <2>3. CASE log' \in Seq(Claude!Events) /\ Len(log') = Len(log) + 1 /\ \A i \in DOMAIN log : log'[i] = log[i]
    BY <1>1, <2>1, <2>3
  <2> QED BY <2>2, <2>3, LogGrows
<1>3. CASE LoopStep
  <2>1. log' = log
    BY <1>3, LoopMoves
  <2>2. CASE Claude!Stat
    <3>1. view'.raw = view.raw /\ view'.stat = log /\ view'.signature = <<Len(log), torn>> /\ view'.signature[1] = Len(log)
      BY <2>2 DEF Claude!Stat, ClaudeTypes, Claude!Signature, Claude!Load
    <3>2. CASE pc' = "load"
      BY <1>1, <2>1, <3>1, <3>2
    <3>3. CASE pc' # "load"
      <4>1. view.signature = <<Len(log), torn>> /\ pc' = "judge" /\ pc = "stat"
        BY <2>2, <3>3 DEF Claude!Stat, Claude!Goto, Claude!Unchanged, Claude!Signature
      <4>2. <<Len(log), torn>> \in Nat \X BOOLEAN
        BY <1>1 DEF ClaudeTypes
      <4>3. view.signature # None /\ view.signature[1] = Len(log)
        BY <4>1, <4>2 DEF Claude!ClaudeRunnerAssumption
      <4>4. Len(log) <= Len(view.raw)
        BY <4>1, <4>3
      <4> QED BY <1>1, <2>1, <3>1, <4>1, <4>4
    <3> QED BY <3>2, <3>3
  <2>3. CASE Claude!LoadTranscript
    <3>1. view'.raw = log /\ view'.stat = view.stat /\ view'.signature = view.signature /\ pc' = "judge"
      BY <2>3 DEF Claude!LoadTranscript, ClaudeTypes, Claude!Load, Claude!Goto
    <3> QED BY <1>1, <2>1, <3>1
  <2>4. CASE /\ view'.raw = view.raw /\ view'.stat = view.stat /\ view'.signature = view.signature
             /\ pc' \notin {"load", "judge"} /\ (pc = "load" => pc' \notin InLoop)
    <3>1. pc' \in Launching \cup InLoop => pc \in (Launching \cup InLoop) \ {"load"}
      <4>1. pc \in InLoop \cup Saving /\ pc' \in InLoop \cup Saving \cup {"cleanup"}
        BY <1>3, LoopMoves
      <4>2. pc \in Saving => pc' \notin InLoop
        BY <1>3, LoopResult DEF Claude!Export, Claude!Goto
      <4> QED BY <2>4, <4>1, <4>2
    <3> QED BY <1>1, <2>1, <2>4, <3>1
  <2> QED BY <1>3, <2>2, <2>3, <2>4, LoopReads
<1> QED BY <1>2, <1>3 DEF Claude!Next, Claude!Runner, LoopStep, Outside

\* A prompt is pasted before the transcript exists, and only then.
LEMMA PromptStep ==
  ASSUME Claude!ClaudeRunnerAssumption, ClaudeTypes, ResultBooks, PromptBooks,
         [Claude!Next]_(Claude!vars)
  PROVE  PromptBooks'
<1>0. pastes \in Nat /\ view.found \in BOOLEAN /\ (Claude!FileExists => Claude!FileExists')
  BY LogGrows DEF ClaudeTypes
<1> USE <1>0 DEF Launching, Asking, Delivering, Reading, Saving, InLoop
<1>1. CASE Outside
  <2>1. UNCHANGED <<view, pastes>> /\ (pc' = pc \/ (pc \in Launching /\ pc' \in {"launch", "launching", "configure"})
            \/ pc' \in {"handler", "cleanup", "killing", "end", "returned", "raised"})
    BY <1>1, OutsideKeeps
  <2>2. result'.reason = result.reason \/ result'.reason = "harness_error"
    BY <1>1, OutsideKeeps DEF Claude!Demoted, Claude!Failed
  <2> QED BY <2>1, <2>2 DEF PromptBooks
<1>2. CASE LoopStep
  <2>0. pc' \in InLoop \cup Saving \cup {"cleanup"}
    BY <1>2, LoopMoves
  <2>1. CASE /\ view'.found = view.found /\ UNCHANGED pastes
             /\ pc' \in Delivering => pc \in Delivering
             /\ pc' = "paste" => ~view.found
             /\ pc' \in Reading => pc \in Reading \/ view.found
             /\ pc' \in Asking => pc \in Asking \/ pc \in Reading
    <3>1. /\ result'.reason = "interrupted" => result.reason = "interrupted" \/ view.found
          /\ result'.reason = "agent_startup_failed" => result.reason = "agent_startup_failed" \/ ~view.found
      <4>1. UNCHANGED result \/ result'.reason = "harness_error" \/ result'.reason = None
            \/ GivesUp
            \/ result' = Claude!Demoted
        <5>1. Claude!Export => result' = result
          BY DEF Claude!Export
        <5>2. Claude!Completed.reason = None /\ Claude!Failed("harness_error").reason = "harness_error"
          BY DEF Claude!Completed, Claude!Failed
        <5> HIDE DEF Saving, InLoop
        <5> QED BY <1>2, <5>1, <5>2, LoopResult
      <4>2. None \notin Claude!Reasons
        BY DEF Claude!ClaudeRunnerAssumption
      <4>3. CASE GivesUp
        BY <4>3 DEF GivesUp, Claude!Failed, PromptBooks
      <4> QED BY <4>1, <4>2, <4>3 DEF Claude!Demoted, Claude!Failed, Claude!Reasons
    <3> QED BY <2>0, <2>1, <3>1 DEF PromptBooks
  <2>2. CASE pc = "paste" /\ pc' = "enter" /\ pastes' = pastes + 1 /\ UNCHANGED view
    <3>1. UNCHANGED result
      BY <1>2, <2>2, LoopResult
    <3> QED BY <2>2, <3>1 DEF PromptBooks
  <2>3. CASE pc = "confirm" /\ pc' = "stat" /\ Claude!FileExists /\ view'.found = TRUE /\ UNCHANGED pastes
    <3>1. result' = Claude!Failed("harness_error")
      BY <1>2, <2>3, LoopResult DEF ResultBooks
    <3> QED BY <2>3, <3>1 DEF PromptBooks, Claude!Failed
  <2> QED BY <1>2, <2>1, <2>2, <2>3, LoopPrompt
<1> QED BY <1>1, <1>2 DEF Claude!Next, Claude!Runner, LoopStep, Outside

ViewType ==
  [dismissed : BOOLEAN, startup : Nat, prompt : Nat, found : BOOLEAN,
   signature : (Nat \X BOOLEAN) \cup {None}, stat : Seq(Claude!Events), raw : Seq(Claude!Events),
   evidence : BOOLEAN, saved : Seq(Claude!Events) \cup {None}]

\* What the runner knows of Claude keeps its type.
LEMMA ViewTypeStep ==
  ASSUME Claude!ClaudeRunnerAssumption, ClaudeTypes, [Claude!Next]_(Claude!vars)
  PROVE  view' \in ViewType
<1>0. /\ view \in ViewType /\ log \in Seq(Claude!Events) /\ torn \in BOOLEAN /\ clock \in Nat
      /\ TaskDeadline \in Nat /\ StartupTime \in Nat /\ PromptTime \in Nat
  BY DEF ClaudeTypes, Claude!ClaudeRunnerTypeOK, Claude!ClaudeRunnerAssumption, ViewType
<1>1. CASE UNCHANGED view
  BY <1>0, <1>1
<1>2. CASE Claude!Configure
  <2>1. Claude!Min2(TaskDeadline, clock + StartupTime) \in Nat
    BY <1>0 DEF Claude!Min2
  <2> QED BY <1>0, <1>2, <2>1 DEF Claude!Configure, ViewType
<1>3. CASE Claude!Enter
  <2>1. Claude!Min2(TaskDeadline, clock + PromptTime) \in Nat
    BY <1>0 DEF Claude!Min2
  <2>2. UNCHANGED view \/ view' = [view EXCEPT !.prompt = Claude!Min2(TaskDeadline, clock + PromptTime)]
    BY <1>3 DEF Claude!Enter, Claude!Break
  <2> QED BY <1>0, <2>1, <2>2 DEF ViewType
<1>4. CASE Claude!React \/ Claude!Confirm
  <2>1. UNCHANGED view \/ view' = [view EXCEPT !.dismissed = TRUE] \/ view' = [view EXCEPT !.found = TRUE]
    BY <1>4 DEF Claude!React, Claude!Confirm, Claude!Break, Claude!Continue
  <2> QED BY <1>0, <2>1 DEF ViewType
<1>5. CASE Claude!Stat
  <2>1. <<Len(log), torn>> \in Nat \X BOOLEAN
    BY <1>0
  <2> QED BY <1>0, <1>5, <2>1 DEF Claude!Stat, Claude!Signature, Claude!Load, ViewType
<1>6. CASE Claude!LoadTranscript
  BY <1>0, <1>6 DEF Claude!LoadTranscript, Claude!Load, ViewType
<1>7. CASE Claude!Evidence \/ Claude!EvidenceFails
  BY <1>0, <1>7 DEF Claude!Evidence, Claude!EvidenceFails, ViewType
<1>8. CASE Claude!Export
  <2>1. (IF Claude!FileExists THEN Claude!Load ELSE None) \in Seq(Claude!Events) \cup {None}
    BY <1>0 DEF Claude!Load
  <2> QED BY <1>0, <1>8, <2>1 DEF Claude!Export, ViewType
<1>9. CASE Claude!Starting \/ Claude!Poll \/ Claude!Look \/ Claude!Capture \/ Claude!Keys
           \/ Claude!Ready \/ Claude!Paste \/ Claude!Unconfirmed \/ Claude!Judge
           \/ Claude!CommandRefused \/ Claude!CommandFails
  <2>1. UNCHANGED view
    BY <1>9 DEF Claude!Starting, Claude!Poll, Claude!Look, Claude!Capture, Claude!Keys, Claude!Ready,
       Claude!Paste, Claude!Unconfirmed, Claude!Judge, Claude!CommandRefused, Claude!CommandFails,
       Claude!Raise, Claude!Break, Claude!Continue
  <2> QED BY <1>1, <2>1
<1>10. CASE Outside
  BY <1>1, <1>10, OutsideKeeps
<1> QED BY <1>2, <1>3, <1>4, <1>5, <1>6, <1>7, <1>8, <1>9, <1>10 DEF Claude!Next, Claude!Runner, Outside

\* The threads, the server, Claude and the counters keep their types.
WorldTypes ==
  /\ launch \in {"none", "running", "done", "failed"} /\ kill \in {"none", "running", "ok", "failed"}
  /\ tmux \in {"none", "up", "gone"} /\ pane \in {"running", "exited"} /\ prompt \in {"none", "pasted", "submitted"}
  /\ clock \in 0 .. TaskDeadline /\ pastes \in Nat /\ cancels \in Nat

\* Every step keeps them.
LEMMA WorldTypeStep ==
  ASSUME Claude!ClaudeRunnerAssumption, WorldTypes, [Claude!Next]_(Claude!vars)
  PROVE  WorldTypes'
<1> USE DEF WorldTypes
<1>1. CASE LoopStep
  <2>0. UNCHANGED <<clock, launch, kill, tmux, cancels>>
    BY <1>1, LoopMoves
  <2>1. UNCHANGED <<pane, prompt, pastes>> \/ Claude!Paste \/ Claude!Enter \/ Claude!Confirm \/ Claude!Evidence
    BY <1>1 DEF LoopStep, Claude!Configure, Claude!Starting, Claude!Poll, Claude!Look, Claude!Capture,
       Claude!React, Claude!Keys, Claude!Ready, Claude!Unconfirmed, Claude!Stat, Claude!LoadTranscript,
       Claude!Judge, Claude!Export, Claude!CommandRefused, Claude!CommandFails, Claude!EvidenceFails,
       Claude!Raise, Claude!Break, Claude!Continue, Claude!claude
  <2>2. CASE UNCHANGED <<pane, prompt, pastes>>
    BY <2>0, <2>2
  <2>3. CASE Claude!Paste \/ Claude!Evidence
    BY <2>0, <2>3 DEF Claude!Paste, Claude!Evidence
  <2>4. CASE Claude!Enter \/ Claude!Confirm
    <3>1. UNCHANGED <<pane, pastes>> /\ prompt' \in {prompt, "pasted", "submitted"}
      BY <2>4 DEF Claude!Enter, Claude!Confirm, Claude!Break, Claude!Continue, Claude!claude
    <3> QED BY <2>0, <3>1
  <2> QED BY <2>1, <2>2, <2>3, <2>4
<1>2. CASE Claude!StartLaunch
  BY <1>2 DEF Claude!StartLaunch, Claude!Raise, Claude!claude
<1>3. CASE Claude!Setup \/ Claude!Launched \/ Claude!Handler \/ Claude!Cleanup \/ Claude!Killed
           \/ Claude!End
  BY <1>3 DEF Claude!Setup, Claude!Launched, Claude!Handler, Claude!Cleanup, Claude!Killed, Claude!End,
     Claude!Raise, Claude!Continue, Claude!claude
<1>4. CASE Claude!Cancel \/ Claude!Tick
  BY <1>4 DEF Claude!Cancel, Claude!Tick, Claude!claude, Claude!ClaudeRunnerAssumption
<1>5. CASE Claude!LaunchEnds \/ Claude!KillEnds
  BY <1>5 DEF Claude!LaunchEnds, Claude!KillEnds
<1>6. CASE Claude!WriteHalf \/ Claude!WriteLine \/ Claude!ClaudeExits \/ Claude!ServerDies
  BY <1>6 DEF Claude!WriteHalf, Claude!WriteLine, Claude!ClaudeExits, Claude!ServerDies
<1>7. CASE UNCHANGED Claude!vars
  BY <1>7 DEF Claude!vars, Claude!claude
<1> QED BY <1>1, <1>2, <1>3, <1>4, <1>5, <1>6, <1>7 DEF Claude!Next, Claude!Runner, LoopStep

\* Every step keeps the types.
LEMMA ClaudeTypesStep ==
  ASSUME Claude!ClaudeRunnerAssumption, ClaudeTypes, [Claude!Next]_(Claude!vars)
  PROVE  ClaudeTypes'
<1>0. LoopStep \/ Outside
  BY DEF Claude!Next, Claude!Runner, LoopStep, Outside
<1>1. pc' \in Launching \cup InLoop \cup Saving \cup {"handler", "cleanup", "killing", "end"} \cup OverPC
  BY <1>0, LoopMoves, OutsideKeeps DEF ClaudeTypes, Launching, InLoop, Asking, OverPC
<1>2. /\ result' \in [outcome : {"failed", "completed"}, reason : Claude!Reasons \cup {None}]
      /\ result' = Claude!Completed \/ (result'.outcome = "failed" /\ result'.reason \in Claude!Reasons)
  <2>0. /\ result \in [outcome : {"failed", "completed"}, reason : Claude!Reasons \cup {None}]
        /\ result = Claude!Completed \/ (result.outcome = "failed" /\ result.reason \in Claude!Reasons)
    BY DEF ClaudeTypes, Claude!ClaudeRunnerTypeOK
  <2>1. result' = result \/ result' = Claude!Completed \/ result' = Claude!Demoted \/ \E r \in Claude!Reasons : result' = Claude!Failed(r)
    <3>1. "harness_error" \in Claude!Reasons
      BY DEF Claude!Reasons
    <3>2. GivesUp => \E r \in Claude!Reasons : result' = Claude!Failed(r)
      BY DEF GivesUp
    <3> QED BY <1>0, <3>1, <3>2, LoopResult, OutsideKeeps
  <2> QED BY <2>0, <2>1 DEF Claude!Completed, Claude!Demoted, Claude!Failed, Claude!Reasons
<1>3. WorldTypes'
  BY WorldTypeStep DEF ClaudeTypes, Claude!ClaudeRunnerTypeOK, WorldTypes
<1>4. log' \in Seq(Claude!Events)
  BY LogGrows DEF ClaudeTypes, Claude!ClaudeRunnerTypeOK
<1>5. torn' \in BOOLEAN /\ cancelled' \in BOOLEAN
  <2>1. torn \in BOOLEAN /\ cancelled \in BOOLEAN
    BY DEF ClaudeTypes
  <2>2. (torn' = torn \/ torn' = TRUE \/ torn' = FALSE) /\ (cancelled' = cancelled \/ cancelled' = TRUE)
    BY <1>0, LoopMoves DEF Outside, Claude!vars, Claude!claude, Claude!Setup, Claude!StartLaunch,
       Claude!Launched, Claude!Handler, Claude!Cleanup, Claude!Killed, Claude!End, Claude!Cancel,
       Claude!LaunchEnds, Claude!KillEnds, Claude!WriteHalf, Claude!WriteLine, Claude!ClaudeExits,
       Claude!ServerDies, Claude!Tick, Claude!Raise, Claude!Continue
  <2> QED BY <2>1, <2>2
<1> QED BY <1>1, <1>2, <1>3, <1>4, <1>5, ViewTypeStep DEF ClaudeTypes, Claude!ClaudeRunnerTypeOK,
    WorldTypes, ViewType

\* Every step of run_claude() keeps the invariant.
LEMMA ClaudeStep ==
  ASSUME Claude!ClaudeRunnerAssumption, MaxCancels <= 1, ClaudeInv, [Claude!Next]_(Claude!vars)
  PROVE  ClaudeInv'
BY ClaudeTypesStep, ServerStep, ResultStep, TranscriptStep, PromptStep DEF ClaudeInv

\* It holds when the run begins.
LEMMA ClaudeInitInv ==
  ASSUME Claude!ClaudeRunnerAssumption, Claude!Init
  PROVE  ClaudeInv
<1>1. ClaudeTypes
  <2>1. << >> \in Seq(Claude!Events)
    OBVIOUS
  <2>2. view \in [dismissed : BOOLEAN, startup : Nat, prompt : Nat, found : BOOLEAN,
               signature : (Nat \X BOOLEAN) \cup {None}, stat : Seq(Claude!Events), raw : Seq(Claude!Events),
               evidence : BOOLEAN, saved : Seq(Claude!Events) \cup {None}]
    BY <2>1 DEF Claude!Init
  <2>3. Claude!ClaudeRunnerTypeOK
    BY <2>1 DEF Claude!Init, Claude!ClaudeRunnerTypeOK, Claude!ClaudeRunnerAssumption, Claude!Failed,
       Claude!Reasons
  <2>4. torn \in BOOLEAN /\ cancelled \in BOOLEAN
    BY DEF Claude!Init
  <2>5. /\ pc \in Launching /\ pastes = 0 /\ cancels = 0
        /\ result \in [outcome : {"failed", "completed"}, reason : Claude!Reasons \cup {None}]
    BY DEF Claude!Init, Launching, Claude!Failed, Claude!Reasons
  <2> QED BY <2>2, <2>3, <2>4, <2>5 DEF ClaudeTypes
<1>2. ServerBooks
  BY DEF Claude!Init, ServerBooks, InLoop, Asking, Delivering, Reading, Saving, OverPC
<1>3. ResultBooks /\ PromptBooks
  BY DEF Claude!Init, ResultBooks, PromptBooks, Claude!Failed, Delivering, Reading
<1>4. TranscriptBooks
  BY DEF Claude!Init, TranscriptBooks, Begins
<1> QED BY <1>1, <1>2, <1>3, <1>4 DEF ClaudeInv

\* It implies what run_claude() promises.
LEMMA ClaudeInvImplies ==
  ASSUME Claude!ClaudeRunnerAssumption, ClaudeInv
  PROVE  /\ Claude!ClaudeRunnerTypeOK
         /\ Claude!ServerStopped /\ Claude!CompletedIsBacked /\ Claude!JudgedOnCurrent /\ Claude!LostSessionNamed /\ Claude!PromptPastedOnce
<1>1. Claude!ServerStopped
  BY DEF ClaudeInv, ClaudeTypes, Claude!ClaudeRunnerTypeOK, ServerBooks, Claude!ServerStopped,
     Claude!Over, OverPC
<1>2. Claude!CompletedIsBacked
  BY DEF ClaudeInv, ResultBooks, HasEnd, Claude!CompletedIsBacked, Saving
<1>3. Claude!JudgedOnCurrent
  BY DEF ClaudeInv, TranscriptBooks, Begins, Claude!JudgedOnCurrent
<1>4. Claude!LostSessionNamed
  BY DEF ClaudeInv, PromptBooks, Claude!FileExists, Claude!LostSessionNamed
<1>5. Claude!PromptPastedOnce
  BY DEF ClaudeInv, PromptBooks, Claude!PromptPastedOnce
<1> QED BY <1>1, <1>2, <1>3, <1>4, <1>5 DEF ClaudeInv, ClaudeTypes

\* The tmux server is stopped when run_claude() returns, a completed result is
\* backed by the transcript, which is judged as it is on disk, a lost session is
\* named by what Claude got, and the prompt is pasted once, if the run is
\* cancelled at most once (claude/runner.py: run_claude).
THEOREM ClaudeSafe ==
  ASSUME Claude!ClaudeRunnerAssumption, MaxCancels <= 1
  PROVE  /\ Claude!Spec => [](Claude!ClaudeRunnerTypeOK /\ Claude!ServerStopped /\ Claude!CompletedIsBacked)
         /\ Claude!Spec => [](Claude!JudgedOnCurrent /\ Claude!LostSessionNamed /\ Claude!PromptPastedOnce)
<1>1. Claude!Init => ClaudeInv
  BY ClaudeInitInv
<1>2. ClaudeInv /\ [Claude!Next]_(Claude!vars) => ClaudeInv'
  BY ClaudeStep
<1>3. ClaudeInv => /\ Claude!ClaudeRunnerTypeOK /\ Claude!ServerStopped /\ Claude!CompletedIsBacked
                   /\ Claude!JudgedOnCurrent /\ Claude!LostSessionNamed /\ Claude!PromptPastedOnce
  BY ClaudeInvImplies
<1> QED BY <1>1, <1>2, <1>3, PTL DEF Claude!Spec

-----------------------------------------------------------------------------
(* The Jiuwen driver.                                                     *)

Instance == {"init", "app", "box"}
StartingPC == {"spawn_init", "init", "init_kill", "spawn_box", "box", "spawn_app", "app"}
ClientPC == {"spawn_cli", "prompt", "waiting", "drain", "interrupt"}

StopType == [by : {"nobody", "start", "runner"}, on : Instance \cup {"none"}]
JwTypes ==
  /\ pc \in StartingPC \cup ClientPC \cup {"cleanup", "cancelled", "final", "patch", "over"}
  /\ raised \in {"none", "timeout", "startup", "error", "cancel"}
  /\ proc \in [Jiuwen!Proc -> {"none", "running", "dead"}]
  /\ handle \subseteq Instance /\ stop \in StopType
  /\ cancels \in 0 .. DriverCancels

JwFlags ==
  /\ stopFailed \in BOOLEAN /\ timedOut \in BOOLEAN /\ terminal \in BOOLEAN
  /\ verdict \in {"none"} \cup (Jiuwen!Events \ {"terminal", "other"})
  /\ outcome \in {"completed", "failed"} /\ exit \in {"no", "raising", "returned", "raised"}

\* Who stops what: start() while it cleans up, the runner from its finally on; a
\* process that runs is one that a stop() will come to, or waits for.
JwStopBooks ==
  /\ stop.by = "start" <=> pc = "cleanup"
  /\ stop.by = "runner" => pc \in {"final", "over"}
  /\ pc = "final" => stop.by = "runner"
  /\ stop.by = "nobody" => stop.on = "none"
  /\ \A p \in Instance : proc[p] = "running" /\ ~stopFailed => p \in handle \/ stop.on = p
  /\ pc \in {"patch", "over"} /\ stop.by = "nobody" /\ ~stopFailed => handle = {}

\* The client runs while the runner waits for it.
ClientBooks ==
  /\ proc["cli"] = "running" <=> pc \in {"prompt", "waiting"}
  /\ pc \in {"drain", "interrupt"} => proc["cli"] = "dead"

\* The outcome is decided when the output is drained, and afterwards only made worse.
OutcomeBooks ==
  /\ outcome = "completed" <=> reason = "none"
  /\ pc \in {"init_kill", "cleanup"} => raised # "none"
  /\ pc \in StartingPC \cup ClientPC \cup {"cleanup"} => outcome = "failed"
  /\ outcome = "completed" => ~timedOut /\ verdict = "none" /\ terminal /\ proc["cli"] = "dead"
  /\ outcome = "completed" /\ stopFailed => exit = "raised"
  /\ stopFailed => pc \in {"cleanup", "cancelled", "final", "patch", "over"}

\* How the runner ends.
ExitBooks ==
  /\ exit = "raising" => pc = "final"
  /\ exit \in {"returned", "raised"} <=> pc = "over"
  /\ exit = "returned" => stop.by = "nobody"
  /\ cancels > 0 /\ ~stopFailed =>
       \/ pc \in {"init_kill", "cleanup"} /\ raised = "cancel"
       \/ pc = "cancelled"
       \/ pc = "final" /\ exit = "raising"
       \/ pc = "over" /\ exit = "raised"

\* The tracker forgets no problem.
EventBooks ==
  /\ events \in Seq(Jiuwen!Events)
  /\ terminal => \E i \in DOMAIN events : events[i] = "terminal"
  /\ verdict = "none" => \A i \in DOMAIN events : events[i] \in {"terminal", "other"}

JiuwenInv == JwTypes /\ JwFlags /\ JwStopBooks /\ ClientBooks /\ OutcomeBooks /\ ExitBooks /\ EventBooks

\* Stages, processes and the stop in progress keep their types.
LEMMA JwTypesStep ==
  ASSUME Jiuwen!JiuwenAssumption, ~CancelInCleanup, JwTypes, OutcomeBooks, EventBooks, JwStopBooks,
         [Jiuwen!JwNext]_(Jiuwen!jwVars)
  PROVE  JwTypes'
<1>a. \A b \in {"nobody", "start", "runner"}, o \in Instance \cup {"none"} : [by |-> b, on |-> o] \in StopType
  BY DEF StopType

<1> USE DEF Jiuwen!tracker, Jiuwen!result, StartingPC, ClientPC, Instance, JwTypes, StopType,
    Jiuwen!Proc, Jiuwen!JiuwenAssumption
<1>1. CASE Jiuwen!Spawn
  <2>1. /\ pc' \in Instance /\ proc' = [proc EXCEPT ![pc'] = "running"] /\ handle' = handle \union {pc'}
        /\ UNCHANGED <<raised, stop, cancels>>
    BY <1>1 DEF Jiuwen!Spawn, Jiuwen!SpawnAt
  <2>2. proc' \in [Jiuwen!Proc -> {"none", "running", "dead"}]
    BY <2>1
  <2>3. handle' \subseteq Instance
    BY <2>1
  <2> QED BY <2>1, <2>2, <2>3
<1>2. CASE Jiuwen!SpawnFails
  BY <1>2 DEF Jiuwen!SpawnFails, Jiuwen!Fail, Jiuwen!SpawnAt
<1>3. CASE Jiuwen!InitKilled
  BY <1>3 DEF Jiuwen!InitKilled, Jiuwen!Fail
<1>4. CASE Jiuwen!Ready
  BY <1>4 DEF Jiuwen!Ready
<1>5. CASE Jiuwen!NotReady
  BY <1>5 DEF Jiuwen!NotReady, Jiuwen!Fail
<1>6. CASE Jiuwen!StartTimeout
  BY <1>6 DEF Jiuwen!StartTimeout, Jiuwen!Fail, Jiuwen!InitBroken, Jiuwen!Starting
<1>7. CASE Jiuwen!StopNext
  BY <1>7 DEF Jiuwen!StopNext
<1>8. CASE Jiuwen!StopWait
  BY <1>8 DEF Jiuwen!StopWait, Jiuwen!Terminated
<1>9. CASE Jiuwen!StartStopped
  BY <1>9 DEF Jiuwen!StartStopped, Jiuwen!StartReason, Jiuwen!NoStop
<1>10. CASE Jiuwen!FinalStopped
  BY <1>10 DEF Jiuwen!FinalStopped, Jiuwen!NoStop
<1>11. CASE Jiuwen!PromptDelivered
  BY <1>11 DEF Jiuwen!PromptDelivered
<1>12. CASE Jiuwen!CliTimeout
  BY <1>12 DEF Jiuwen!CliTimeout, Jiuwen!KillCli
<1>13. CASE Jiuwen!CliError
  BY <1>13 DEF Jiuwen!CliError, Jiuwen!KillCli, Jiuwen!ToFinal
<1>14. CASE Jiuwen!CliExits
  BY <1>14 DEF Jiuwen!CliExits, Jiuwen!KillCli
<1>15. CASE Jiuwen!Drain
  BY <1>15 DEF Jiuwen!Drain, Jiuwen!ToFinal, Jiuwen!Classify
<1>16. CASE Jiuwen!CancelInterrupted
  BY <1>16 DEF Jiuwen!CancelInterrupted, Jiuwen!ToFinal
<1>17. CASE Jiuwen!StopRaises
  BY <1>17 DEF Jiuwen!StopRaises, Jiuwen!NoStop
<1>18. CASE Jiuwen!InitKillRaises
  BY <1>18 DEF Jiuwen!InitKillRaises, Jiuwen!Fail
<1>19. ASSUME NEW ok \in BOOLEAN, Jiuwen!InitExits(ok) PROVE JwTypes'
  BY <1>19 DEF Jiuwen!InitExits, Jiuwen!Fail
<1>20. ASSUME NEW ok \in BOOLEAN, Jiuwen!SpawnCli(ok) PROVE JwTypes'
  BY <1>20 DEF Jiuwen!SpawnCli, Jiuwen!ToFinal
<1>21. ASSUME NEW ok \in BOOLEAN, Jiuwen!Interrupt(ok) PROVE JwTypes'
  BY <1>21 DEF Jiuwen!Interrupt, Jiuwen!ToFinal
<1>22. ASSUME NEW ok \in BOOLEAN, Jiuwen!ExportPatch(ok) PROVE JwTypes'
  BY <1>22 DEF Jiuwen!ExportPatch
<1>23. ASSUME NEW p \in Jiuwen!Proc, Jiuwen!Exits(p) PROVE JwTypes'
  BY <1>23 DEF Jiuwen!Exits
<1>24. ASSUME NEW kind \in Jiuwen!Events, Jiuwen!ReadEvent(kind) PROVE JwTypes'
  BY <1>24 DEF Jiuwen!ReadEvent, Jiuwen!ObserveLine, Jiuwen!Events
<1>25. CASE Jiuwen!Cancel /\ Jiuwen!CancelStart
  BY <1>25 DEF Jiuwen!Cancel, Jiuwen!CancelStart, Jiuwen!Fail, Jiuwen!InitBroken, Jiuwen!Starting
<1>26. CASE Jiuwen!Cancel /\ Jiuwen!CancelCli
  BY <1>26 DEF Jiuwen!Cancel, Jiuwen!CancelCli, Jiuwen!KillCli
<1>27. CASE Jiuwen!Cancel /\ Jiuwen!CancelHandler
  BY <1>27 DEF Jiuwen!Cancel, Jiuwen!CancelHandler, Jiuwen!ToFinal
<1>28. CASE Jiuwen!Cancel /\ Jiuwen!CancelFinal
  BY <1>28 DEF Jiuwen!Cancel, Jiuwen!CancelFinal
<1>29. CASE UNCHANGED Jiuwen!jwVars
  BY <1>29 DEF Jiuwen!jwVars
<1> QED BY <1>1, <1>2, <1>3, <1>4, <1>5, <1>6, <1>7, <1>8, <1>9, <1>10, <1>11, <1>12, <1>13, <1>14,
    <1>15, <1>16, <1>17, <1>18, <1>19, <1>20, <1>21, <1>22, <1>23, <1>24, <1>25, <1>26, <1>27, <1>28,
    <1>29 DEF Jiuwen!JwNext, Jiuwen!Step, Jiuwen!Cancel, Jiuwen!CancelCleanup

\* So do the flags.
LEMMA JwFlagsStep ==
  ASSUME Jiuwen!JiuwenAssumption, ~CancelInCleanup, JwTypes, JwFlags, [Jiuwen!JwNext]_(Jiuwen!jwVars)
  PROVE  JwFlags'
<1> USE DEF Jiuwen!tracker, Jiuwen!result, JwFlags
<1>1. CASE Jiuwen!Spawn
  BY <1>1 DEF Jiuwen!Spawn, Jiuwen!SpawnAt
<1>2. CASE Jiuwen!SpawnFails
  BY <1>2 DEF Jiuwen!SpawnFails, Jiuwen!Fail, Jiuwen!SpawnAt
<1>3. CASE Jiuwen!InitKilled
  BY <1>3 DEF Jiuwen!InitKilled, Jiuwen!Fail
<1>4. CASE Jiuwen!Ready
  BY <1>4 DEF Jiuwen!Ready
<1>5. CASE Jiuwen!NotReady
  BY <1>5 DEF Jiuwen!NotReady, Jiuwen!Fail
<1>6. CASE Jiuwen!StartTimeout
  BY <1>6 DEF Jiuwen!StartTimeout, Jiuwen!Fail, Jiuwen!InitBroken, Jiuwen!Starting
<1>7. CASE Jiuwen!StopNext
  BY <1>7 DEF Jiuwen!StopNext
<1>8. CASE Jiuwen!StopWait
  BY <1>8 DEF Jiuwen!StopWait, Jiuwen!Terminated
<1>9. CASE Jiuwen!StartStopped
  BY <1>9 DEF Jiuwen!StartStopped, Jiuwen!StartReason, Jiuwen!NoStop
<1>10. CASE Jiuwen!FinalStopped
  BY <1>10 DEF Jiuwen!FinalStopped, Jiuwen!NoStop
<1>11. CASE Jiuwen!PromptDelivered
  BY <1>11 DEF Jiuwen!PromptDelivered
<1>12. CASE Jiuwen!CliTimeout
  BY <1>12 DEF Jiuwen!CliTimeout, Jiuwen!KillCli
<1>13. CASE Jiuwen!CliError
  BY <1>13 DEF Jiuwen!CliError, Jiuwen!KillCli, Jiuwen!ToFinal
<1>14. CASE Jiuwen!CliExits
  BY <1>14 DEF Jiuwen!CliExits, Jiuwen!KillCli
<1>15. CASE Jiuwen!Drain
  BY <1>15 DEF Jiuwen!Drain, Jiuwen!ToFinal, Jiuwen!Classify
<1>16. CASE Jiuwen!CancelInterrupted
  BY <1>16 DEF Jiuwen!CancelInterrupted, Jiuwen!ToFinal
<1>17. CASE Jiuwen!StopRaises
  BY <1>17 DEF Jiuwen!StopRaises, Jiuwen!NoStop
<1>18. CASE Jiuwen!InitKillRaises
  BY <1>18 DEF Jiuwen!InitKillRaises, Jiuwen!Fail
<1>19. ASSUME NEW ok \in BOOLEAN, Jiuwen!InitExits(ok) PROVE JwFlags'
  BY <1>19 DEF Jiuwen!InitExits, Jiuwen!Fail
<1>20. ASSUME NEW ok \in BOOLEAN, Jiuwen!SpawnCli(ok) PROVE JwFlags'
  BY <1>20 DEF Jiuwen!SpawnCli, Jiuwen!ToFinal
<1>21. ASSUME NEW ok \in BOOLEAN, Jiuwen!Interrupt(ok) PROVE JwFlags'
  BY <1>21 DEF Jiuwen!Interrupt, Jiuwen!ToFinal
<1>22. ASSUME NEW ok \in BOOLEAN, Jiuwen!ExportPatch(ok) PROVE JwFlags'
  BY <1>22 DEF Jiuwen!ExportPatch
<1>23. ASSUME NEW p \in Jiuwen!Proc, Jiuwen!Exits(p) PROVE JwFlags'
  BY <1>23 DEF Jiuwen!Exits
<1>24. ASSUME NEW kind \in Jiuwen!Events, Jiuwen!ReadEvent(kind) PROVE JwFlags'
  BY <1>24 DEF Jiuwen!ReadEvent, Jiuwen!ObserveLine, Jiuwen!Events
<1>25. CASE Jiuwen!Cancel /\ Jiuwen!CancelStart
  BY <1>25 DEF Jiuwen!Cancel, Jiuwen!CancelStart, Jiuwen!Fail, Jiuwen!InitBroken, Jiuwen!Starting
<1>26. CASE Jiuwen!Cancel /\ Jiuwen!CancelCli
  BY <1>26 DEF Jiuwen!Cancel, Jiuwen!CancelCli, Jiuwen!KillCli
<1>27. CASE Jiuwen!Cancel /\ Jiuwen!CancelHandler
  BY <1>27 DEF Jiuwen!Cancel, Jiuwen!CancelHandler, Jiuwen!ToFinal
<1>28. CASE Jiuwen!Cancel /\ Jiuwen!CancelFinal
  BY <1>28 DEF Jiuwen!Cancel, Jiuwen!CancelFinal
<1>29. CASE UNCHANGED Jiuwen!jwVars
  BY <1>29 DEF Jiuwen!jwVars
<1> QED BY <1>1, <1>2, <1>3, <1>4, <1>5, <1>6, <1>7, <1>8, <1>9, <1>10, <1>11, <1>12, <1>13, <1>14,
    <1>15, <1>16, <1>17, <1>18, <1>19, <1>20, <1>21, <1>22, <1>23, <1>24, <1>25, <1>26, <1>27, <1>28,
    <1>29 DEF Jiuwen!JwNext, Jiuwen!Step, Jiuwen!Cancel, Jiuwen!CancelCleanup

\* A process that runs has a handle, or its stop is under way.
LEMMA JwStopStep ==
  ASSUME Jiuwen!JiuwenAssumption, ~CancelInCleanup, JwTypes, JwFlags, JwStopBooks,
         [Jiuwen!JwNext]_(Jiuwen!jwVars)
  PROVE  JwStopBooks'
<1> USE DEF Jiuwen!tracker, Jiuwen!result, StartingPC, ClientPC, Instance, JwTypes, StopType,
    Jiuwen!Proc, JwStopBooks
<1>1. CASE Jiuwen!Spawn
  BY <1>1 DEF Jiuwen!Spawn, Jiuwen!SpawnAt
<1>2. CASE Jiuwen!SpawnFails
  BY <1>2 DEF Jiuwen!SpawnFails, Jiuwen!Fail, Jiuwen!SpawnAt
<1>3. CASE Jiuwen!InitKilled
  BY <1>3 DEF Jiuwen!InitKilled, Jiuwen!Fail
<1>4. CASE Jiuwen!Ready
  BY <1>4 DEF Jiuwen!Ready
<1>5. CASE Jiuwen!NotReady
  BY <1>5 DEF Jiuwen!NotReady, Jiuwen!Fail
<1>6. CASE Jiuwen!StartTimeout
  BY <1>6 DEF Jiuwen!StartTimeout, Jiuwen!Fail, Jiuwen!InitBroken, Jiuwen!Starting
<1>7. CASE Jiuwen!StopNext
  BY <1>7 DEF Jiuwen!StopNext
<1>8. CASE Jiuwen!StopWait
  BY <1>8 DEF Jiuwen!StopWait, Jiuwen!Terminated
<1>9. CASE Jiuwen!StartStopped
  BY <1>9 DEF Jiuwen!StartStopped, Jiuwen!StartReason, Jiuwen!NoStop
<1>10. CASE Jiuwen!FinalStopped
  BY <1>10 DEF Jiuwen!FinalStopped, Jiuwen!NoStop
<1>11. CASE Jiuwen!PromptDelivered
  BY <1>11 DEF Jiuwen!PromptDelivered
<1>12. CASE Jiuwen!CliTimeout
  BY <1>12 DEF Jiuwen!CliTimeout, Jiuwen!KillCli
<1>13. CASE Jiuwen!CliError
  BY <1>13 DEF Jiuwen!CliError, Jiuwen!KillCli, Jiuwen!ToFinal
<1>14. CASE Jiuwen!CliExits
  BY <1>14 DEF Jiuwen!CliExits, Jiuwen!KillCli
<1>15. CASE Jiuwen!Drain
  BY <1>15 DEF Jiuwen!Drain, Jiuwen!ToFinal, Jiuwen!Classify
<1>16. CASE Jiuwen!CancelInterrupted
  BY <1>16 DEF Jiuwen!CancelInterrupted, Jiuwen!ToFinal
<1>17. CASE Jiuwen!StopRaises
  BY <1>17 DEF Jiuwen!StopRaises, Jiuwen!NoStop
<1>18. CASE Jiuwen!InitKillRaises
  BY <1>18 DEF Jiuwen!InitKillRaises, Jiuwen!Fail
<1>19. ASSUME NEW ok \in BOOLEAN, Jiuwen!InitExits(ok) PROVE JwStopBooks'
  BY <1>19 DEF Jiuwen!InitExits, Jiuwen!Fail
<1>20. ASSUME NEW ok \in BOOLEAN, Jiuwen!SpawnCli(ok) PROVE JwStopBooks'
  BY <1>20 DEF Jiuwen!SpawnCli, Jiuwen!ToFinal
<1>21. ASSUME NEW ok \in BOOLEAN, Jiuwen!Interrupt(ok) PROVE JwStopBooks'
  BY <1>21 DEF Jiuwen!Interrupt, Jiuwen!ToFinal
<1>22. ASSUME NEW ok \in BOOLEAN, Jiuwen!ExportPatch(ok) PROVE JwStopBooks'
  BY <1>22 DEF Jiuwen!ExportPatch
<1>23. ASSUME NEW p \in Jiuwen!Proc, Jiuwen!Exits(p) PROVE JwStopBooks'
  BY <1>23 DEF Jiuwen!Exits
<1>24. ASSUME NEW kind \in Jiuwen!Events, Jiuwen!ReadEvent(kind) PROVE JwStopBooks'
  BY <1>24 DEF Jiuwen!ReadEvent, Jiuwen!ObserveLine, Jiuwen!Events
<1>25. CASE Jiuwen!Cancel /\ Jiuwen!CancelStart
  BY <1>25 DEF Jiuwen!Cancel, Jiuwen!CancelStart, Jiuwen!Fail, Jiuwen!InitBroken, Jiuwen!Starting
<1>26. CASE Jiuwen!Cancel /\ Jiuwen!CancelCli
  BY <1>26 DEF Jiuwen!Cancel, Jiuwen!CancelCli, Jiuwen!KillCli
<1>27. CASE Jiuwen!Cancel /\ Jiuwen!CancelHandler
  BY <1>27 DEF Jiuwen!Cancel, Jiuwen!CancelHandler, Jiuwen!ToFinal
<1>28. CASE Jiuwen!Cancel /\ Jiuwen!CancelFinal
  BY <1>28 DEF Jiuwen!Cancel, Jiuwen!CancelFinal
<1>29. CASE UNCHANGED Jiuwen!jwVars
  BY <1>29 DEF Jiuwen!jwVars
<1> QED BY <1>1, <1>2, <1>3, <1>4, <1>5, <1>6, <1>7, <1>8, <1>9, <1>10, <1>11, <1>12, <1>13, <1>14,
    <1>15, <1>16, <1>17, <1>18, <1>19, <1>20, <1>21, <1>22, <1>23, <1>24, <1>25, <1>26, <1>27, <1>28,
    <1>29 DEF Jiuwen!JwNext, Jiuwen!Step, Jiuwen!Cancel, Jiuwen!CancelCleanup

\* The client runs only while the runner talks to it or drains its output.
LEMMA ClientBooksStep ==
  ASSUME Jiuwen!JiuwenAssumption, ~CancelInCleanup, JwTypes, JwStopBooks, ClientBooks,
         [Jiuwen!JwNext]_(Jiuwen!jwVars)
  PROVE  ClientBooks'
<1> USE DEF Jiuwen!tracker, Jiuwen!result, StartingPC, ClientPC, Instance, JwTypes, StopType,
    JwStopBooks, Jiuwen!Proc, ClientBooks
<1>1. CASE Jiuwen!Spawn
  BY <1>1 DEF Jiuwen!Spawn, Jiuwen!SpawnAt
<1>2. CASE Jiuwen!SpawnFails
  BY <1>2 DEF Jiuwen!SpawnFails, Jiuwen!Fail, Jiuwen!SpawnAt
<1>3. CASE Jiuwen!InitKilled
  BY <1>3 DEF Jiuwen!InitKilled, Jiuwen!Fail
<1>4. CASE Jiuwen!Ready
  BY <1>4 DEF Jiuwen!Ready
<1>5. CASE Jiuwen!NotReady
  BY <1>5 DEF Jiuwen!NotReady, Jiuwen!Fail
<1>6. CASE Jiuwen!StartTimeout
  BY <1>6 DEF Jiuwen!StartTimeout, Jiuwen!Fail, Jiuwen!InitBroken, Jiuwen!Starting
<1>7. CASE Jiuwen!StopNext
  BY <1>7 DEF Jiuwen!StopNext
<1>8. CASE Jiuwen!StopWait
  BY <1>8 DEF Jiuwen!StopWait, Jiuwen!Terminated
<1>9. CASE Jiuwen!StartStopped
  BY <1>9 DEF Jiuwen!StartStopped, Jiuwen!StartReason, Jiuwen!NoStop
<1>10. CASE Jiuwen!FinalStopped
  BY <1>10 DEF Jiuwen!FinalStopped, Jiuwen!NoStop
<1>11. CASE Jiuwen!PromptDelivered
  BY <1>11 DEF Jiuwen!PromptDelivered
<1>12. CASE Jiuwen!CliTimeout
  BY <1>12 DEF Jiuwen!CliTimeout, Jiuwen!KillCli
<1>13. CASE Jiuwen!CliError
  BY <1>13 DEF Jiuwen!CliError, Jiuwen!KillCli, Jiuwen!ToFinal
<1>14. CASE Jiuwen!CliExits
  BY <1>14 DEF Jiuwen!CliExits, Jiuwen!KillCli
<1>15. CASE Jiuwen!Drain
  BY <1>15 DEF Jiuwen!Drain, Jiuwen!ToFinal, Jiuwen!Classify
<1>16. CASE Jiuwen!CancelInterrupted
  BY <1>16 DEF Jiuwen!CancelInterrupted, Jiuwen!ToFinal
<1>17. CASE Jiuwen!StopRaises
  BY <1>17 DEF Jiuwen!StopRaises, Jiuwen!NoStop
<1>18. CASE Jiuwen!InitKillRaises
  BY <1>18 DEF Jiuwen!InitKillRaises, Jiuwen!Fail
<1>19. ASSUME NEW ok \in BOOLEAN, Jiuwen!InitExits(ok) PROVE ClientBooks'
  BY <1>19 DEF Jiuwen!InitExits, Jiuwen!Fail
<1>20. ASSUME NEW ok \in BOOLEAN, Jiuwen!SpawnCli(ok) PROVE ClientBooks'
  BY <1>20 DEF Jiuwen!SpawnCli, Jiuwen!ToFinal
<1>21. ASSUME NEW ok \in BOOLEAN, Jiuwen!Interrupt(ok) PROVE ClientBooks'
  BY <1>21 DEF Jiuwen!Interrupt, Jiuwen!ToFinal
<1>22. ASSUME NEW ok \in BOOLEAN, Jiuwen!ExportPatch(ok) PROVE ClientBooks'
  BY <1>22 DEF Jiuwen!ExportPatch
<1>23. ASSUME NEW p \in Jiuwen!Proc, Jiuwen!Exits(p) PROVE ClientBooks'
  BY <1>23 DEF Jiuwen!Exits
<1>24. ASSUME NEW kind \in Jiuwen!Events, Jiuwen!ReadEvent(kind) PROVE ClientBooks'
  BY <1>24 DEF Jiuwen!ReadEvent, Jiuwen!ObserveLine, Jiuwen!Events
<1>25. CASE Jiuwen!Cancel /\ Jiuwen!CancelStart
  BY <1>25 DEF Jiuwen!Cancel, Jiuwen!CancelStart, Jiuwen!Fail, Jiuwen!InitBroken, Jiuwen!Starting
<1>26. CASE Jiuwen!Cancel /\ Jiuwen!CancelCli
  BY <1>26 DEF Jiuwen!Cancel, Jiuwen!CancelCli, Jiuwen!KillCli
<1>27. CASE Jiuwen!Cancel /\ Jiuwen!CancelHandler
  BY <1>27 DEF Jiuwen!Cancel, Jiuwen!CancelHandler, Jiuwen!ToFinal
<1>28. CASE Jiuwen!Cancel /\ Jiuwen!CancelFinal
  BY <1>28 DEF Jiuwen!Cancel, Jiuwen!CancelFinal
<1>29. CASE UNCHANGED Jiuwen!jwVars
  BY <1>29 DEF Jiuwen!jwVars
<1> QED BY <1>1, <1>2, <1>3, <1>4, <1>5, <1>6, <1>7, <1>8, <1>9, <1>10, <1>11, <1>12, <1>13, <1>14,
    <1>15, <1>16, <1>17, <1>18, <1>19, <1>20, <1>21, <1>22, <1>23, <1>24, <1>25, <1>26, <1>27, <1>28,
    <1>29 DEF Jiuwen!JwNext, Jiuwen!Step, Jiuwen!Cancel, Jiuwen!CancelCleanup

\* An outcome is decided once, from the exit of the client and its events.
LEMMA OutcomeBooksStep ==
  ASSUME Jiuwen!JiuwenAssumption, ~CancelInCleanup, JwTypes, JwFlags, JwStopBooks, ClientBooks,
         ExitBooks, OutcomeBooks, [Jiuwen!JwNext]_(Jiuwen!jwVars)
  PROVE  OutcomeBooks'
<1> USE DEF Jiuwen!tracker, Jiuwen!result, StartingPC, ClientPC, Instance, JwTypes, JwFlags, StopType,
    JwStopBooks, Jiuwen!Proc, ClientBooks, OutcomeBooks, ExitBooks
<1>1. CASE Jiuwen!Spawn
  BY <1>1 DEF Jiuwen!Spawn, Jiuwen!SpawnAt
<1>2. CASE Jiuwen!SpawnFails
  BY <1>2 DEF Jiuwen!SpawnFails, Jiuwen!Fail, Jiuwen!SpawnAt
<1>3. CASE Jiuwen!InitKilled
  BY <1>3 DEF Jiuwen!InitKilled, Jiuwen!Fail
<1>4. CASE Jiuwen!Ready
  BY <1>4 DEF Jiuwen!Ready
<1>5. CASE Jiuwen!NotReady
  BY <1>5 DEF Jiuwen!NotReady, Jiuwen!Fail
<1>6. CASE Jiuwen!StartTimeout
  BY <1>6 DEF Jiuwen!StartTimeout, Jiuwen!Fail, Jiuwen!InitBroken, Jiuwen!Starting
<1>7. CASE Jiuwen!StopNext
  BY <1>7 DEF Jiuwen!StopNext
<1>8. CASE Jiuwen!StopWait
  BY <1>8 DEF Jiuwen!StopWait, Jiuwen!Terminated
<1>9. CASE Jiuwen!StartStopped
  BY <1>9 DEF Jiuwen!StartStopped, Jiuwen!StartReason, Jiuwen!NoStop
<1>10. CASE Jiuwen!FinalStopped
  BY <1>10 DEF Jiuwen!FinalStopped, Jiuwen!NoStop
<1>11. CASE Jiuwen!PromptDelivered
  BY <1>11 DEF Jiuwen!PromptDelivered
<1>12. CASE Jiuwen!CliTimeout
  BY <1>12 DEF Jiuwen!CliTimeout, Jiuwen!KillCli
<1>13. CASE Jiuwen!CliError
  BY <1>13 DEF Jiuwen!CliError, Jiuwen!KillCli, Jiuwen!ToFinal
<1>14. CASE Jiuwen!CliExits
  BY <1>14 DEF Jiuwen!CliExits, Jiuwen!KillCli
<1>15. CASE Jiuwen!Drain
  BY <1>15 DEF Jiuwen!Drain, Jiuwen!ToFinal, Jiuwen!Classify
<1>16. CASE Jiuwen!CancelInterrupted
  BY <1>16 DEF Jiuwen!CancelInterrupted, Jiuwen!ToFinal
<1>17. CASE Jiuwen!StopRaises
  <2>1. /\ stop.on # "none" /\ stopFailed' = TRUE /\ UNCHANGED <<raised, proc, timedOut, terminal, verdict>>
        /\ pc \in {"cleanup", "final", "over"}
    BY <1>17 DEF Jiuwen!StopRaises
  <2>2. \/ pc \in {"cleanup", "final"} /\ outcome' = "failed" /\ reason' # "none" /\ pc' \in {"final", "patch", "over"}
        \/ pc = "over" /\ UNCHANGED <<pc, outcome, reason, exit>>
    BY <1>17, <2>1 DEF Jiuwen!StopRaises
  <2>3. pc = "over" => exit \in {"returned", "raised"}
    OBVIOUS
  <2>4. exit = "returned" => stop.by = "nobody"
    OBVIOUS
  <2> QED BY <2>1, <2>2, <2>3, <2>4
<1>18. CASE Jiuwen!InitKillRaises
  BY <1>18 DEF Jiuwen!InitKillRaises, Jiuwen!Fail
<1>19. ASSUME NEW ok \in BOOLEAN, Jiuwen!InitExits(ok) PROVE OutcomeBooks'
  BY <1>19 DEF Jiuwen!InitExits, Jiuwen!Fail
<1>20. ASSUME NEW ok \in BOOLEAN, Jiuwen!SpawnCli(ok) PROVE OutcomeBooks'
  BY <1>20 DEF Jiuwen!SpawnCli, Jiuwen!ToFinal
<1>21. ASSUME NEW ok \in BOOLEAN, Jiuwen!Interrupt(ok) PROVE OutcomeBooks'
  BY <1>21 DEF Jiuwen!Interrupt, Jiuwen!ToFinal
<1>22. ASSUME NEW ok \in BOOLEAN, Jiuwen!ExportPatch(ok) PROVE OutcomeBooks'
  BY <1>22 DEF Jiuwen!ExportPatch
<1>23. ASSUME NEW p \in Jiuwen!Proc, Jiuwen!Exits(p) PROVE OutcomeBooks'
  BY <1>23 DEF Jiuwen!Exits
<1>24. ASSUME NEW kind \in Jiuwen!Events, Jiuwen!ReadEvent(kind) PROVE OutcomeBooks'
  BY <1>24 DEF Jiuwen!ReadEvent, Jiuwen!ObserveLine, Jiuwen!Events
<1>25. CASE Jiuwen!Cancel /\ Jiuwen!CancelStart
  BY <1>25 DEF Jiuwen!Cancel, Jiuwen!CancelStart, Jiuwen!Fail, Jiuwen!InitBroken, Jiuwen!Starting
<1>26. CASE Jiuwen!Cancel /\ Jiuwen!CancelCli
  BY <1>26 DEF Jiuwen!Cancel, Jiuwen!CancelCli, Jiuwen!KillCli
<1>27. CASE Jiuwen!Cancel /\ Jiuwen!CancelHandler
  BY <1>27 DEF Jiuwen!Cancel, Jiuwen!CancelHandler, Jiuwen!ToFinal
<1>28. CASE Jiuwen!Cancel /\ Jiuwen!CancelFinal
  BY <1>28 DEF Jiuwen!Cancel, Jiuwen!CancelFinal
<1>29. CASE UNCHANGED Jiuwen!jwVars
  BY <1>29 DEF Jiuwen!jwVars
<1> QED BY <1>1, <1>2, <1>3, <1>4, <1>5, <1>6, <1>7, <1>8, <1>9, <1>10, <1>11, <1>12, <1>13, <1>14,
    <1>15, <1>16, <1>17, <1>18, <1>19, <1>20, <1>21, <1>22, <1>23, <1>24, <1>25, <1>26, <1>27, <1>28,
    <1>29 DEF Jiuwen!JwNext, Jiuwen!Step, Jiuwen!Cancel, Jiuwen!CancelCleanup

\* A cancellation is kept until the runner ends, and raised there.
LEMMA ExitBooksStep ==
  ASSUME Jiuwen!JiuwenAssumption, ~CancelInCleanup, JwTypes, JwFlags, JwStopBooks, OutcomeBooks,
         ExitBooks, [Jiuwen!JwNext]_(Jiuwen!jwVars)
  PROVE  ExitBooks'
<1> USE DEF Jiuwen!tracker, Jiuwen!result, StartingPC, ClientPC, Instance, JwTypes, JwFlags, StopType,
    JwStopBooks, Jiuwen!Proc, ExitBooks
<1>1. CASE Jiuwen!Spawn
  BY <1>1 DEF Jiuwen!Spawn, Jiuwen!SpawnAt
<1>2. CASE Jiuwen!SpawnFails
  BY <1>2 DEF Jiuwen!SpawnFails, Jiuwen!Fail, Jiuwen!SpawnAt
<1>3. CASE Jiuwen!InitKilled
  BY <1>3 DEF Jiuwen!InitKilled, Jiuwen!Fail
<1>4. CASE Jiuwen!Ready
  BY <1>4 DEF Jiuwen!Ready
<1>5. CASE Jiuwen!NotReady
  BY <1>5 DEF Jiuwen!NotReady, Jiuwen!Fail
<1>6. CASE Jiuwen!StartTimeout
  BY <1>6 DEF Jiuwen!StartTimeout, Jiuwen!Fail, Jiuwen!InitBroken, Jiuwen!Starting
<1>7. CASE Jiuwen!StopNext
  BY <1>7 DEF Jiuwen!StopNext
<1>8. CASE Jiuwen!StopWait
  BY <1>8 DEF Jiuwen!StopWait, Jiuwen!Terminated
<1>9. CASE Jiuwen!StartStopped
  BY <1>9 DEF Jiuwen!StartStopped, Jiuwen!StartReason, Jiuwen!NoStop
<1>10. CASE Jiuwen!FinalStopped
  BY <1>10 DEF Jiuwen!FinalStopped, Jiuwen!NoStop
<1>11. CASE Jiuwen!PromptDelivered
  BY <1>11 DEF Jiuwen!PromptDelivered
<1>12. CASE Jiuwen!CliTimeout
  BY <1>12 DEF Jiuwen!CliTimeout, Jiuwen!KillCli
<1>13. CASE Jiuwen!CliError
  BY <1>13 DEF Jiuwen!CliError, Jiuwen!KillCli, Jiuwen!ToFinal
<1>14. CASE Jiuwen!CliExits
  BY <1>14 DEF Jiuwen!CliExits, Jiuwen!KillCli
<1>15. CASE Jiuwen!Drain
  BY <1>15 DEF Jiuwen!Drain, Jiuwen!ToFinal, Jiuwen!Classify
<1>16. CASE Jiuwen!CancelInterrupted
  BY <1>16 DEF Jiuwen!CancelInterrupted, Jiuwen!ToFinal
<1>17. CASE Jiuwen!StopRaises
  BY <1>17 DEF Jiuwen!StopRaises, Jiuwen!NoStop
<1>18. CASE Jiuwen!InitKillRaises
  BY <1>18 DEF Jiuwen!InitKillRaises, Jiuwen!Fail
<1>19. ASSUME NEW ok \in BOOLEAN, Jiuwen!InitExits(ok) PROVE ExitBooks'
  BY <1>19 DEF Jiuwen!InitExits, Jiuwen!Fail
<1>20. ASSUME NEW ok \in BOOLEAN, Jiuwen!SpawnCli(ok) PROVE ExitBooks'
  BY <1>20 DEF Jiuwen!SpawnCli, Jiuwen!ToFinal
<1>21. ASSUME NEW ok \in BOOLEAN, Jiuwen!Interrupt(ok) PROVE ExitBooks'
  BY <1>21 DEF Jiuwen!Interrupt, Jiuwen!ToFinal
<1>22. ASSUME NEW ok \in BOOLEAN, Jiuwen!ExportPatch(ok) PROVE ExitBooks'
  BY <1>22 DEF Jiuwen!ExportPatch
<1>23. ASSUME NEW p \in Jiuwen!Proc, Jiuwen!Exits(p) PROVE ExitBooks'
  BY <1>23 DEF Jiuwen!Exits
<1>24. ASSUME NEW kind \in Jiuwen!Events, Jiuwen!ReadEvent(kind) PROVE ExitBooks'
  BY <1>24 DEF Jiuwen!ReadEvent, Jiuwen!ObserveLine, Jiuwen!Events
<1>25. CASE Jiuwen!Cancel /\ Jiuwen!CancelStart
  BY <1>25 DEF Jiuwen!Cancel, Jiuwen!CancelStart, Jiuwen!Fail, Jiuwen!InitBroken, Jiuwen!Starting
<1>26. CASE Jiuwen!Cancel /\ Jiuwen!CancelCli
  BY <1>26 DEF Jiuwen!Cancel, Jiuwen!CancelCli, Jiuwen!KillCli
<1>27. CASE Jiuwen!Cancel /\ Jiuwen!CancelHandler
  BY <1>27 DEF Jiuwen!Cancel, Jiuwen!CancelHandler, Jiuwen!ToFinal
<1>28. CASE Jiuwen!Cancel /\ Jiuwen!CancelFinal
  BY <1>28 DEF Jiuwen!Cancel, Jiuwen!CancelFinal
<1>29. CASE UNCHANGED Jiuwen!jwVars
  BY <1>29 DEF Jiuwen!jwVars
<1> QED BY <1>1, <1>2, <1>3, <1>4, <1>5, <1>6, <1>7, <1>8, <1>9, <1>10, <1>11, <1>12, <1>13, <1>14,
    <1>15, <1>16, <1>17, <1>18, <1>19, <1>20, <1>21, <1>22, <1>23, <1>24, <1>25, <1>26, <1>27, <1>28,
    <1>29 DEF Jiuwen!JwNext, Jiuwen!Step, Jiuwen!Cancel, Jiuwen!CancelCleanup

\* The verdict of the events is that of the lines read so far.
LEMMA EventBooksStep ==
  ASSUME Jiuwen!JiuwenAssumption, ~CancelInCleanup, JwTypes, JwFlags, EventBooks,
         [Jiuwen!JwNext]_(Jiuwen!jwVars)
  PROVE  EventBooks'
<1> USE DEF Jiuwen!tracker, Jiuwen!result, EventBooks
<1>1. CASE Jiuwen!Spawn
  BY <1>1 DEF Jiuwen!Spawn, Jiuwen!SpawnAt
<1>2. CASE Jiuwen!SpawnFails
  BY <1>2 DEF Jiuwen!SpawnFails, Jiuwen!Fail, Jiuwen!SpawnAt
<1>3. CASE Jiuwen!InitKilled
  BY <1>3 DEF Jiuwen!InitKilled, Jiuwen!Fail
<1>4. CASE Jiuwen!Ready
  BY <1>4 DEF Jiuwen!Ready
<1>5. CASE Jiuwen!NotReady
  BY <1>5 DEF Jiuwen!NotReady, Jiuwen!Fail
<1>6. CASE Jiuwen!StartTimeout
  BY <1>6 DEF Jiuwen!StartTimeout, Jiuwen!Fail, Jiuwen!InitBroken, Jiuwen!Starting
<1>7. CASE Jiuwen!StopNext
  BY <1>7 DEF Jiuwen!StopNext
<1>8. CASE Jiuwen!StopWait
  BY <1>8 DEF Jiuwen!StopWait, Jiuwen!Terminated
<1>9. CASE Jiuwen!StartStopped
  BY <1>9 DEF Jiuwen!StartStopped, Jiuwen!StartReason, Jiuwen!NoStop
<1>10. CASE Jiuwen!FinalStopped
  BY <1>10 DEF Jiuwen!FinalStopped, Jiuwen!NoStop
<1>11. CASE Jiuwen!PromptDelivered
  BY <1>11 DEF Jiuwen!PromptDelivered
<1>12. CASE Jiuwen!CliTimeout
  BY <1>12 DEF Jiuwen!CliTimeout, Jiuwen!KillCli
<1>13. CASE Jiuwen!CliError
  BY <1>13 DEF Jiuwen!CliError, Jiuwen!KillCli, Jiuwen!ToFinal
<1>14. CASE Jiuwen!CliExits
  BY <1>14 DEF Jiuwen!CliExits, Jiuwen!KillCli
<1>15. CASE Jiuwen!Drain
  BY <1>15 DEF Jiuwen!Drain, Jiuwen!ToFinal, Jiuwen!Classify
<1>16. CASE Jiuwen!CancelInterrupted
  BY <1>16 DEF Jiuwen!CancelInterrupted, Jiuwen!ToFinal
<1>17. CASE Jiuwen!StopRaises
  BY <1>17 DEF Jiuwen!StopRaises, Jiuwen!NoStop
<1>18. CASE Jiuwen!InitKillRaises
  BY <1>18 DEF Jiuwen!InitKillRaises, Jiuwen!Fail
<1>19. ASSUME NEW ok \in BOOLEAN, Jiuwen!InitExits(ok) PROVE EventBooks'
  BY <1>19 DEF Jiuwen!InitExits, Jiuwen!Fail
<1>20. ASSUME NEW ok \in BOOLEAN, Jiuwen!SpawnCli(ok) PROVE EventBooks'
  BY <1>20 DEF Jiuwen!SpawnCli, Jiuwen!ToFinal
<1>21. ASSUME NEW ok \in BOOLEAN, Jiuwen!Interrupt(ok) PROVE EventBooks'
  BY <1>21 DEF Jiuwen!Interrupt, Jiuwen!ToFinal
<1>22. ASSUME NEW ok \in BOOLEAN, Jiuwen!ExportPatch(ok) PROVE EventBooks'
  BY <1>22 DEF Jiuwen!ExportPatch
<1>23. ASSUME NEW p \in Jiuwen!Proc, Jiuwen!Exits(p) PROVE EventBooks'
  BY <1>23 DEF Jiuwen!Exits
<1>24. ASSUME NEW kind \in Jiuwen!Events, Jiuwen!ReadEvent(kind) PROVE EventBooks'
  <2>1. /\ events' = Append(events, kind)
        /\ verdict' = IF kind \in {"terminal", "other"} \/ verdict # "none" THEN verdict ELSE kind
        /\ terminal' = (terminal \/ (kind = "terminal" /\ verdict = "none"))
    BY <1>24 DEF Jiuwen!ReadEvent, Jiuwen!ObserveLine
  <2>2. /\ events \in Seq(Jiuwen!Events) /\ events' \in Seq(Jiuwen!Events) /\ Len(events') = Len(events) + 1
        /\ events'[Len(events) + 1] = kind /\ \A i \in DOMAIN events : events'[i] = events[i]
    BY <2>1
  <2>3. DOMAIN events' = DOMAIN events \cup {Len(events) + 1} /\ Len(events) + 1 \in DOMAIN events'
    BY <2>2
  <2>4. terminal' => \E i \in DOMAIN events' : events'[i] = "terminal"
    BY <2>1, <2>2, <2>3 DEF JwFlags
  <2>5. verdict' = "none" => kind \in {"terminal", "other"} /\ verdict = "none"
    BY <2>1 DEF Jiuwen!Events
  <2>6. verdict' = "none" => \A i \in DOMAIN events' : events'[i] \in {"terminal", "other"}
    BY <2>2, <2>3, <2>5
  <2> QED BY <2>2, <2>4, <2>6
<1>25. CASE Jiuwen!Cancel /\ Jiuwen!CancelStart
  BY <1>25 DEF Jiuwen!Cancel, Jiuwen!CancelStart, Jiuwen!Fail, Jiuwen!InitBroken, Jiuwen!Starting
<1>26. CASE Jiuwen!Cancel /\ Jiuwen!CancelCli
  BY <1>26 DEF Jiuwen!Cancel, Jiuwen!CancelCli, Jiuwen!KillCli
<1>27. CASE Jiuwen!Cancel /\ Jiuwen!CancelHandler
  BY <1>27 DEF Jiuwen!Cancel, Jiuwen!CancelHandler, Jiuwen!ToFinal
<1>28. CASE Jiuwen!Cancel /\ Jiuwen!CancelFinal
  BY <1>28 DEF Jiuwen!Cancel, Jiuwen!CancelFinal
<1>29. CASE UNCHANGED Jiuwen!jwVars
  BY <1>29 DEF Jiuwen!jwVars
<1> QED BY <1>1, <1>2, <1>3, <1>4, <1>5, <1>6, <1>7, <1>8, <1>9, <1>10, <1>11, <1>12, <1>13, <1>14,
    <1>15, <1>16, <1>17, <1>18, <1>19, <1>20, <1>21, <1>22, <1>23, <1>24, <1>25, <1>26, <1>27, <1>28,
    <1>29 DEF Jiuwen!JwNext, Jiuwen!Step, Jiuwen!Cancel, Jiuwen!CancelCleanup

\* Every step of the Jiuwen driver keeps the invariant.
LEMMA JiuwenStep ==
  ASSUME Jiuwen!JiuwenAssumption, ~CancelInCleanup, JiuwenInv, [Jiuwen!JwNext]_(Jiuwen!jwVars)
  PROVE  JiuwenInv'
BY JwTypesStep, JwFlagsStep, JwStopStep, ClientBooksStep, OutcomeBooksStep, ExitBooksStep,
   EventBooksStep DEF JiuwenInv

\* It holds when the run begins.
LEMMA JiuwenInitInv ==
  ASSUME Jiuwen!JiuwenAssumption, Jiuwen!JwInit
  PROVE  JiuwenInv
<1>1. JwTypes /\ JwFlags
  <2>1. proc \in [Jiuwen!Proc -> {"none", "running", "dead"}] /\ stop \in StopType /\ handle \subseteq Instance
    BY DEF Jiuwen!JwInit, Jiuwen!NoStop, StopType
  <2>2. cancels \in 0 .. DriverCancels
    BY DEF Jiuwen!JwInit, Jiuwen!JiuwenAssumption
  <2> QED BY <2>1, <2>2 DEF Jiuwen!JwInit, JwTypes, JwFlags, StartingPC
<1>2. JwStopBooks /\ ClientBooks /\ OutcomeBooks /\ ExitBooks
  BY DEF Jiuwen!JwInit, JwStopBooks, ClientBooks, OutcomeBooks, ExitBooks, Instance, Jiuwen!Proc,
     Jiuwen!NoStop
<1>3. EventBooks
  <2>1. << >> \in Seq(Jiuwen!Events)
    OBVIOUS
  <2> QED BY <2>1 DEF Jiuwen!JwInit, EventBooks
<1> QED BY <1>1, <1>2, <1>3 DEF JiuwenInv

\* It implies what the Jiuwen driver promises.
LEMMA JiuwenInvImplies ==
  ASSUME JiuwenInv
  PROVE  Jiuwen!JwTypeOK /\ Jiuwen!NoProcessLeft /\ Jiuwen!CompletedIsBacked /\ Jiuwen!CancelledRaises
<1>1. Jiuwen!JwTypeOK
  BY DEF JiuwenInv, JwTypes, JwFlags, OutcomeBooks, Jiuwen!JwTypeOK, StopType, Instance, Jiuwen!Proc
<1>2. Jiuwen!NoProcessLeft
  BY DEF JiuwenInv, JwTypes, JwStopBooks, ClientBooks, Jiuwen!NoProcessLeft, Jiuwen!Proc, Instance
<1>3. Jiuwen!CompletedIsBacked
  BY DEF JiuwenInv, JwFlags, OutcomeBooks, EventBooks, Jiuwen!CompletedIsBacked
<1>4. Jiuwen!CancelledRaises
  BY DEF JiuwenInv, JwTypes, ExitBooks, Jiuwen!CancelledRaises
<1> QED BY <1>1, <1>2, <1>3, <1>4

\* No process of the app, the box or the client is left when the Jiuwen driver
\* returns, a completed run is backed by the client's events, and a cancellation
\* is raised again, unless one hits start() while it cleans up (jiuwen/runner.py).
THEOREM JiuwenSafe ==
  ASSUME Jiuwen!JiuwenAssumption, ~CancelInCleanup
  PROVE  /\ Jiuwen!JwInit /\ [][Jiuwen!JwNext]_(Jiuwen!jwVars) => [](Jiuwen!JwTypeOK /\ Jiuwen!NoProcessLeft)
         /\ Jiuwen!JwInit /\ [][Jiuwen!JwNext]_(Jiuwen!jwVars) => [](Jiuwen!CompletedIsBacked /\ Jiuwen!CancelledRaises)
<1>1. Jiuwen!JwInit => JiuwenInv
  BY JiuwenInitInv
<1>2. JiuwenInv /\ [Jiuwen!JwNext]_(Jiuwen!jwVars) => JiuwenInv'
  BY JiuwenStep
<1>3. JiuwenInv => /\ Jiuwen!JwTypeOK /\ Jiuwen!NoProcessLeft
                   /\ Jiuwen!CompletedIsBacked /\ Jiuwen!CancelledRaises
  BY JiuwenInvImplies
<1> QED BY <1>1, <1>2, <1>3, PTL

-----------------------------------------------------------------------------
(* The Dsh driver.                                                         *)

DshTypes ==
  /\ pc \in {"spawn", "run", "reap", "collect", "flush", "patch", "over"}
  /\ stage \in {"initialization", "configuration", "execution"}
  /\ leader \in {"none", "running", "dead"} /\ helper \in {"none", "running", "dead"}
  /\ git \in {"none", "running", "dead"} /\ code \in {"zero", "nonzero"}
  /\ raised \in {"none", "timeout", "error", "cancel"} /\ return_code \in {"None", "zero", "nonzero"}
  /\ cause \in {"none", "cancel", "timeout", "startup", "error"}
  /\ outcome \in {"failed", "completed"} /\ exit \in {"no", "returned", "raised"} /\ cancels \in Nat

\* Outside run the group is dead; git runs only while the patch is exported.
GroupBooks ==
  /\ pc # "run" => leader # "running" /\ helper # "running"
  /\ git = "running" => pc = "patch"

\* The name of what ended the try block.
Named ==
  /\ cause = "cancel" => termination_reason = "cancelled"
  /\ cause = "timeout" => termination_reason \in {"timeout", "agent_startup_timeout"}
  /\ cause = "startup" => termination_reason = "agent_startup_failed"
  /\ cause = "error" => termination_reason = "harness_error"

\* A run has an exit code or a cause, and the cause names the reason.
CauseBooks ==
  /\ pc \in {"spawn", "run", "reap"} => cause = "none" /\ return_code = "None" /\ outcome = "failed"
  /\ pc \notin {"spawn", "run", "reap"} => (cause = "none" <=> return_code # "None")
  /\ pc = "collect" => outcome = "failed"
  /\ cause # "none" => outcome = "failed"
  /\ Named
  /\ pc \in {"flush", "patch", "over"} => (outcome = "completed" <=> termination_reason = "none")

\* What the code requires of the evidence of a completed run.
Backed ==
  /\ return_code = "zero" /\ Dsh!is_turn_complete(disk.events)
  /\ Dsh!Collectable(disk) /\ disk.lineage.failure = "none" /\ ~disk.lineage.question
  /\ enforce_plan_mode => Dsh!PlanVerdict(disk) = "none"
EvidenceBooks ==
  /\ outcome = "completed" => pc \in {"flush", "patch", "over"} /\ Backed
  /\ disk \in Evidence \cup {Dsh!Nothing}

\* A cancellation is on its way out.
CancelBooks ==
  /\ exit # "no" <=> pc = "over"
  /\ exit = "returned" => status_written /\ cause # "cancel"
  /\ cancels > 0 =>
       \/ pc = "reap" /\ raised = "cancel"
       \/ pc \in {"collect", "flush", "patch", "over"} /\ cause = "cancel"
       \/ pc = "over" /\ exit = "raised"

DshInv == DshTypes /\ GroupBooks /\ CauseBooks /\ EvidenceBooks /\ CancelBooks

\* Without a verdict of its own, a transcript that completed its turn completes the run.
LEMMA ClassifyNone ==
  ASSUME NEW q, NEW e, Dsh!Classify(return_code, q, e) = "none"
  PROVE  return_code = "zero" /\ Dsh!is_turn_complete(e)
BY DEF Dsh!Classify

\* A run without a verdict against it has a complete turn and a clean lineage.
LEMMA VerdictNone ==
  ASSUME NEW d, Dsh!Verdict(d) = "none"
  PROVE  /\ return_code = "zero" /\ Dsh!is_turn_complete(d.events)
         /\ d.lineage.failure = "none" /\ ~d.lineage.question
         /\ enforce_plan_mode => Dsh!PlanVerdict(d) = "none"
BY ClassifyNone DEF Dsh!Verdict

\* What collecting makes of a run.
LEMMA CollectDoes ==
  ASSUME DshTypes, CauseBooks, Dsh!Collect
  PROVE  /\ pc = "collect" /\ pc' \in {"flush", "patch"}
         /\ UNCHANGED <<Dsh!request, stage, Dsh!process, raised, return_code, disk, cause, git, status_written, cancels, exit>>
         /\ \/ cause # "none" /\ UNCHANGED Dsh!result
            \/ /\ cause = "none" /\ outcome' \in {"failed", "completed"}
               /\ outcome' = "completed" <=> termination_reason' = "none"
               /\ outcome' = "completed" => Backed
<1>1. /\ pc = "collect" /\ pc' \in {"flush", "patch"}
      /\ UNCHANGED <<Dsh!request, stage, Dsh!process, raised, return_code, disk, cause, git, status_written, cancels, exit>>
  BY DEF Dsh!Collect
<1>2. cause = "none" <=> return_code # "None"
  BY <1>1 DEF CauseBooks
<1>3. CASE Dsh!Collectable(disk) /\ (IF return_code # "None" THEN Dsh!Judge(Dsh!Verdict(disk)) ELSE UNCHANGED Dsh!result)
  <2>1. CASE return_code = "None"
    BY <1>1, <1>2, <1>3, <2>1
  <2>2. CASE return_code # "None"
    <3>1. termination_reason' = Dsh!Verdict(disk) /\ (outcome' = IF Dsh!Verdict(disk) = "none" THEN "completed" ELSE "failed")
      BY <1>3, <2>2 DEF Dsh!Judge
    <3>2. Dsh!Verdict(disk) = "none" => Backed
      BY <1>3, VerdictNone DEF Backed
    <3> QED BY <1>1, <1>2, <2>2, <3>1, <3>2
  <2> QED BY <2>1, <2>2
<1>4. CASE Dsh!CollectFails("harness_error") \/ Dsh!CollectFails("cleanup_timeout")
  BY <1>1, <1>2, <1>4 DEF Dsh!CollectFails, Dsh!Judge
<1> QED BY <1>3, <1>4 DEF Dsh!Collect

\* A failed export takes back a completed outcome; nothing else changes the result.
LEMMA ExportDoes ==
  ASSUME DshTypes, Dsh!Exported
  PROVE  /\ pc = "patch" /\ pc' = "over" /\ git' = "dead" /\ status_written' = TRUE
         /\ exit' = (IF cause = "cancel" THEN "raised" ELSE "returned")
         /\ UNCHANGED <<Dsh!request, stage, Dsh!process, raised, return_code, disk, cause, collection, cancels>>
         /\ \/ UNCHANGED Dsh!result
            \/ /\ outcome = "completed" /\ outcome' = "failed"
               /\ termination_reason' \in {"cleanup_timeout", "harness_error"}
BY DEF Dsh!Exported, Dsh!PatchFails, Dsh!Judge, Dsh!End, Dsh!result

\* Stages, processes and results keep their types.
LEMMA DshTypesStep ==
  ASSUME Dsh!DshRunnerAssumption, DshTypes, CauseBooks, [Dsh!DshNext]_(Dsh!dshVars)
  PROVE  DshTypes'
<1> USE DEF Dsh!process, Dsh!result, Dsh!request, DshTypes
<1>1. CASE Dsh!Spawn
  BY <1>1 DEF Dsh!Spawn
<1>2. CASE Dsh!SpawnFails
  BY <1>2 DEF Dsh!SpawnFails, Dsh!Caught
<1>3. CASE Dsh!HelperExits
  BY <1>3 DEF Dsh!HelperExits
<1>4. CASE Dsh!GroupDone
  BY <1>4 DEF Dsh!GroupDone, Dsh!Kill, Dsh!KillGroup
<1>5. CASE Dsh!ExecuteRaises
  BY <1>5 DEF Dsh!ExecuteRaises, Dsh!Kill, Dsh!KillGroup
<1>6. CASE Dsh!Collect
  BY <1>6, CollectDoes
<1>7. CASE Dsh!Flushed
  BY <1>7 DEF Dsh!Flushed
<1>8. CASE Dsh!ExportStarts
  BY <1>8 DEF Dsh!ExportStarts
<1>9. CASE Dsh!Exported
  BY <1>9, ExportDoes
<1>10. CASE Dsh!Forks
  BY <1>10 DEF Dsh!Forks
<1>11. ASSUME NEW c \in {"zero", "nonzero"}, Dsh!Exits(c) PROVE DshTypes'
  BY <1>11 DEF Dsh!Exits
<1>12. ASSUME NEW ok \in BOOLEAN, Dsh!Reaped(ok) PROVE DshTypes'
  BY <1>12 DEF Dsh!Reaped, Dsh!Caught, Dsh!Accept, Dsh!Goto
<1>13. CASE Dsh!Cancel /\ Dsh!CancelSpawn
  BY <1>13 DEF Dsh!Cancel, Dsh!CancelSpawn, Dsh!Caught
<1>14. CASE Dsh!Cancel /\ Dsh!CancelRun
  BY <1>14 DEF Dsh!Cancel, Dsh!CancelRun, Dsh!Kill, Dsh!KillGroup
<1>15. CASE Dsh!Cancel /\ Dsh!CancelReap
  BY <1>15 DEF Dsh!Cancel, Dsh!CancelReap
<1>16. CASE Dsh!Cancel /\ Dsh!CancelCleanup
  BY <1>16 DEF Dsh!Cancel, Dsh!CancelCleanup, Dsh!StopGit
<1>17. CASE UNCHANGED Dsh!dshVars
  BY <1>17 DEF Dsh!dshVars
<1> QED BY <1>1, <1>2, <1>3, <1>4, <1>5, <1>6, <1>7, <1>8, <1>9, <1>10, <1>11, <1>12, <1>13, <1>14,
    <1>15, <1>16, <1>17 DEF Dsh!DshNext, Dsh!Step, Dsh!Cancel, Dsh!Over

\* The process group is killed on every way out of the execution.
LEMMA GroupBooksStep ==
  ASSUME Dsh!DshRunnerAssumption, DshTypes, CauseBooks, GroupBooks, [Dsh!DshNext]_(Dsh!dshVars)
  PROVE  GroupBooks'
<1> USE DEF Dsh!process, Dsh!result, Dsh!request, DshTypes, GroupBooks
<1>1. CASE Dsh!Spawn
  BY <1>1 DEF Dsh!Spawn
<1>2. CASE Dsh!SpawnFails
  BY <1>2 DEF Dsh!SpawnFails, Dsh!Caught
<1>3. CASE Dsh!HelperExits
  BY <1>3 DEF Dsh!HelperExits
<1>4. CASE Dsh!GroupDone
  BY <1>4 DEF Dsh!GroupDone, Dsh!Kill, Dsh!KillGroup
<1>5. CASE Dsh!ExecuteRaises
  BY <1>5 DEF Dsh!ExecuteRaises, Dsh!Kill, Dsh!KillGroup
<1>6. CASE Dsh!Collect
  BY <1>6, CollectDoes
<1>7. CASE Dsh!Flushed
  BY <1>7 DEF Dsh!Flushed
<1>8. CASE Dsh!ExportStarts
  BY <1>8 DEF Dsh!ExportStarts
<1>9. CASE Dsh!Exported
  BY <1>9, ExportDoes
<1>10. CASE Dsh!Forks
  BY <1>10 DEF Dsh!Forks
<1>11. ASSUME NEW c \in {"zero", "nonzero"}, Dsh!Exits(c) PROVE GroupBooks'
  BY <1>11 DEF Dsh!Exits
<1>12. ASSUME NEW ok \in BOOLEAN, Dsh!Reaped(ok) PROVE GroupBooks'
  BY <1>12 DEF Dsh!Reaped, Dsh!Caught, Dsh!Accept, Dsh!Goto
<1>13. CASE Dsh!Cancel /\ Dsh!CancelSpawn
  BY <1>13 DEF Dsh!Cancel, Dsh!CancelSpawn, Dsh!Caught
<1>14. CASE Dsh!Cancel /\ Dsh!CancelRun
  BY <1>14 DEF Dsh!Cancel, Dsh!CancelRun, Dsh!Kill, Dsh!KillGroup
<1>15. CASE Dsh!Cancel /\ Dsh!CancelReap
  BY <1>15 DEF Dsh!Cancel, Dsh!CancelReap
<1>16. CASE Dsh!Cancel /\ Dsh!CancelCleanup
  BY <1>16 DEF Dsh!Cancel, Dsh!CancelCleanup, Dsh!StopGit
<1>17. CASE UNCHANGED Dsh!dshVars
  BY <1>17 DEF Dsh!dshVars
<1> QED BY <1>1, <1>2, <1>3, <1>4, <1>5, <1>6, <1>7, <1>8, <1>9, <1>10, <1>11, <1>12, <1>13, <1>14,
    <1>15, <1>16, <1>17 DEF Dsh!DshNext, Dsh!Step, Dsh!Cancel, Dsh!Over

\* The cause that ended the execution names the reason.
LEMMA CauseBooksStep ==
  ASSUME Dsh!DshRunnerAssumption, DshTypes, CauseBooks, [Dsh!DshNext]_(Dsh!dshVars)
  PROVE  CauseBooks'
<1> USE DEF Dsh!process, Dsh!result, Dsh!request, DshTypes, CauseBooks, Named
<1>1. CASE Dsh!Spawn
  BY <1>1 DEF Dsh!Spawn
<1>2. CASE Dsh!SpawnFails
  BY <1>2 DEF Dsh!SpawnFails, Dsh!Caught, Dsh!ReasonOf
<1>3. CASE Dsh!HelperExits
  BY <1>3 DEF Dsh!HelperExits
<1>4. CASE Dsh!GroupDone
  BY <1>4 DEF Dsh!GroupDone, Dsh!Kill, Dsh!KillGroup
<1>5. CASE Dsh!ExecuteRaises
  BY <1>5 DEF Dsh!ExecuteRaises, Dsh!Kill, Dsh!KillGroup
<1>6. CASE Dsh!Collect
  BY <1>6, CollectDoes
<1>7. CASE Dsh!Flushed
  BY <1>7 DEF Dsh!Flushed
<1>8. CASE Dsh!ExportStarts
  BY <1>8 DEF Dsh!ExportStarts
<1>9. CASE Dsh!Exported
  BY <1>9, ExportDoes
<1>10. CASE Dsh!Forks
  BY <1>10 DEF Dsh!Forks
<1>11. ASSUME NEW c \in {"zero", "nonzero"}, Dsh!Exits(c) PROVE CauseBooks'
  BY <1>11 DEF Dsh!Exits
<1>12. ASSUME NEW ok \in BOOLEAN, Dsh!Reaped(ok) PROVE CauseBooks'
  <2>1. pc = "reap" /\ UNCHANGED <<Dsh!request, Dsh!process, raised, disk, collection, git, status_written, cancels, exit>>
    BY <1>12 DEF Dsh!Reaped
  <2>2. \/ pc' = "spawn" /\ raised = "none" /\ UNCHANGED <<return_code, cause, Dsh!result>>
        \/ pc' = "collect" /\ raised = "none" /\ return_code' = code /\ UNCHANGED <<cause, Dsh!result>>
        \/ \E e \in {"timeout", "error", "cancel", "startup"} :
             (raised = "cancel" => e = "cancel") /\ Dsh!Caught(e) /\ UNCHANGED <<return_code, outcome>>
    BY <1>12 DEF Dsh!Reaped, Dsh!Goto, Dsh!Accept
  <2>3. ASSUME NEW e \in {"timeout", "error", "cancel", "startup"}, Dsh!Caught(e)
        PROVE  cause' = e /\ pc' = "collect" /\ termination_reason' = Dsh!ReasonOf(e)
    BY <2>3 DEF Dsh!Caught
  <2> QED BY <2>1, <2>2, <2>3 DEF Dsh!ReasonOf

<1>13. CASE Dsh!Cancel /\ Dsh!CancelSpawn
  BY <1>13 DEF Dsh!Cancel, Dsh!CancelSpawn, Dsh!Caught, Dsh!ReasonOf
<1>14. CASE Dsh!Cancel /\ Dsh!CancelRun
  BY <1>14 DEF Dsh!Cancel, Dsh!CancelRun, Dsh!Kill, Dsh!KillGroup
<1>15. CASE Dsh!Cancel /\ Dsh!CancelReap
  BY <1>15 DEF Dsh!Cancel, Dsh!CancelReap
<1>16. CASE Dsh!Cancel /\ Dsh!CancelCleanup
  BY <1>16 DEF Dsh!Cancel, Dsh!CancelCleanup, Dsh!StopGit
<1>17. CASE UNCHANGED Dsh!dshVars
  BY <1>17 DEF Dsh!dshVars
<1> QED BY <1>1, <1>2, <1>3, <1>4, <1>5, <1>6, <1>7, <1>8, <1>9, <1>10, <1>11, <1>12, <1>13, <1>14,
    <1>15, <1>16, <1>17 DEF Dsh!DshNext, Dsh!Step, Dsh!Cancel, Dsh!Over

\* An outcome is completed only after the evidence was judged, and it is on disk.
LEMMA EvidenceBooksStep ==
  ASSUME Dsh!DshRunnerAssumption, DshTypes, CauseBooks, EvidenceBooks, [Dsh!DshNext]_(Dsh!dshVars)
  PROVE  EvidenceBooks'
<1>a. UNCHANGED <<disk, return_code, enforce_plan_mode>> => Backed' = Backed
  BY DEF Backed, Dsh!Collectable, Dsh!StdoutSession, Dsh!Readable, Dsh!PartialAllowed, Dsh!Agrees,
     Dsh!Ids, Dsh!PlanVerdict, Dsh!Subagents, Dsh!Outcomes
<1> USE DEF Dsh!process, Dsh!result, Dsh!request, DshTypes, CauseBooks, EvidenceBooks
<1>1. CASE Dsh!Spawn
  BY <1>1 DEF Dsh!Spawn
<1>2. CASE Dsh!SpawnFails
  BY <1>2 DEF Dsh!SpawnFails, Dsh!Caught
<1>3. CASE Dsh!HelperExits
  BY <1>3 DEF Dsh!HelperExits
<1>4. CASE Dsh!GroupDone
  BY <1>4 DEF Dsh!GroupDone, Dsh!Kill, Dsh!KillGroup
<1>5. CASE Dsh!ExecuteRaises
  BY <1>5 DEF Dsh!ExecuteRaises, Dsh!Kill, Dsh!KillGroup
<1>6. CASE Dsh!Collect
  BY <1>6, CollectDoes, <1>a
<1>7. CASE Dsh!Flushed
  BY <1>7, <1>a DEF Dsh!Flushed
<1>8. CASE Dsh!ExportStarts
  BY <1>8, <1>a DEF Dsh!ExportStarts
<1>9. CASE Dsh!Exported
  BY <1>9, ExportDoes, <1>a
<1>10. CASE Dsh!Forks
  BY <1>10 DEF Dsh!Forks
<1>11. ASSUME NEW c \in {"zero", "nonzero"}, Dsh!Exits(c) PROVE EvidenceBooks'
  BY <1>11 DEF Dsh!Exits
<1>12. ASSUME NEW ok \in BOOLEAN, Dsh!Reaped(ok) PROVE EvidenceBooks'
  BY <1>12 DEF Dsh!Reaped, Dsh!Caught, Dsh!Accept, Dsh!Goto
<1>13. CASE Dsh!Cancel /\ Dsh!CancelSpawn
  BY <1>13 DEF Dsh!Cancel, Dsh!CancelSpawn, Dsh!Caught
<1>14. CASE Dsh!Cancel /\ Dsh!CancelRun
  BY <1>14 DEF Dsh!Cancel, Dsh!CancelRun, Dsh!Kill, Dsh!KillGroup
<1>15. CASE Dsh!Cancel /\ Dsh!CancelReap
  BY <1>15 DEF Dsh!Cancel, Dsh!CancelReap
<1>16. CASE Dsh!Cancel /\ Dsh!CancelCleanup
  BY <1>16, <1>a DEF Dsh!Cancel, Dsh!CancelCleanup
<1>17. CASE UNCHANGED Dsh!dshVars
  BY <1>17, <1>a DEF Dsh!dshVars
<1> QED BY <1>1, <1>2, <1>3, <1>4, <1>5, <1>6, <1>7, <1>8, <1>9, <1>10, <1>11, <1>12, <1>13, <1>14,
    <1>15, <1>16, <1>17 DEF Dsh!DshNext, Dsh!Step, Dsh!Cancel, Dsh!Over

\* A cancellation is kept until the end.
LEMMA CancelBooksStep ==
  ASSUME Dsh!DshRunnerAssumption, DshTypes, CauseBooks, CancelBooks, [Dsh!DshNext]_(Dsh!dshVars)
  PROVE  CancelBooks'
<1> USE DEF Dsh!process, Dsh!result, Dsh!request, DshTypes, CancelBooks
<1>1. CASE Dsh!Spawn
  BY <1>1 DEF Dsh!Spawn
<1>2. CASE Dsh!SpawnFails
  BY <1>2 DEF Dsh!SpawnFails, Dsh!Caught
<1>3. CASE Dsh!HelperExits
  BY <1>3 DEF Dsh!HelperExits
<1>4. CASE Dsh!GroupDone
  BY <1>4 DEF Dsh!GroupDone, Dsh!Kill, Dsh!KillGroup
<1>5. CASE Dsh!ExecuteRaises
  BY <1>5 DEF Dsh!ExecuteRaises, Dsh!Kill, Dsh!KillGroup
<1>6. CASE Dsh!Collect
  BY <1>6, CollectDoes
<1>7. CASE Dsh!Flushed
  BY <1>7 DEF Dsh!Flushed
<1>8. CASE Dsh!ExportStarts
  BY <1>8 DEF Dsh!ExportStarts
<1>9. CASE Dsh!Exported
  BY <1>9, ExportDoes
<1>10. CASE Dsh!Forks
  BY <1>10 DEF Dsh!Forks
<1>11. ASSUME NEW c \in {"zero", "nonzero"}, Dsh!Exits(c) PROVE CancelBooks'
  BY <1>11 DEF Dsh!Exits
<1>12. ASSUME NEW ok \in BOOLEAN, Dsh!Reaped(ok) PROVE CancelBooks'
  <2>1. pc = "reap" /\ UNCHANGED <<Dsh!request, Dsh!process, raised, disk, collection, git, status_written, cancels, exit>>
    BY <1>12 DEF Dsh!Reaped
  <2>2. \/ pc' = "spawn" /\ raised = "none" /\ UNCHANGED <<return_code, cause, Dsh!result>>
        \/ pc' = "collect" /\ raised = "none" /\ return_code' = code /\ UNCHANGED <<cause, Dsh!result>>
        \/ \E e \in {"timeout", "error", "cancel", "startup"} :
             (raised = "cancel" => e = "cancel") /\ Dsh!Caught(e) /\ UNCHANGED <<return_code, outcome>>
    BY <1>12 DEF Dsh!Reaped, Dsh!Goto, Dsh!Accept
  <2>3. ASSUME NEW e \in {"timeout", "error", "cancel", "startup"}, Dsh!Caught(e)
        PROVE  cause' = e /\ pc' = "collect" /\ termination_reason' = Dsh!ReasonOf(e)
    BY <2>3 DEF Dsh!Caught
  <2> QED BY <2>1, <2>2, <2>3

<1>13. CASE Dsh!Cancel /\ Dsh!CancelSpawn
  BY <1>13 DEF Dsh!Cancel, Dsh!CancelSpawn, Dsh!Caught
<1>14. CASE Dsh!Cancel /\ Dsh!CancelRun
  BY <1>14 DEF Dsh!Cancel, Dsh!CancelRun, Dsh!Kill, Dsh!KillGroup
<1>15. CASE Dsh!Cancel /\ Dsh!CancelReap
  BY <1>15 DEF Dsh!Cancel, Dsh!CancelReap
<1>16. CASE Dsh!Cancel /\ Dsh!CancelCleanup
  BY <1>16 DEF Dsh!Cancel, Dsh!CancelCleanup, Dsh!StopGit
<1>17. CASE UNCHANGED Dsh!dshVars
  BY <1>17 DEF Dsh!dshVars
<1> QED BY <1>1, <1>2, <1>3, <1>4, <1>5, <1>6, <1>7, <1>8, <1>9, <1>10, <1>11, <1>12, <1>13, <1>14,
    <1>15, <1>16, <1>17 DEF Dsh!DshNext, Dsh!Step, Dsh!Cancel, Dsh!Over

\* Every step of the Dsh driver keeps the invariant.
LEMMA DshStep ==
  ASSUME Dsh!DshRunnerAssumption, DshInv, [Dsh!DshNext]_(Dsh!dshVars)
  PROVE  DshInv'
BY DshTypesStep, GroupBooksStep, CauseBooksStep, EvidenceBooksStep, CancelBooksStep DEF DshInv

\* It holds when the run begins.
LEMMA DshInitInv ==
  ASSUME Dsh!DshRunnerAssumption, Dsh!DshInit
  PROVE  DshInv
BY DEF Dsh!DshInit, DshInv, DshTypes, GroupBooks, CauseBooks, Named, EvidenceBooks, CancelBooks

\* The number of elements of a set is the same number inside the driver's module.
LEMMA SameCount == \A S : Dsh!Cardinality(S) = Cardinality(S) /\ (Dsh!IsFiniteSet(S) <=> IsFiniteSet(S))
<1>1. \A S : Dsh!Cardinality(S) = Cardinality(S)
  BY DEF Cardinality, Dsh!Cardinality
<1>2. \A S : Dsh!IsFiniteSet(S) <=> IsFiniteSet(S)
  BY DEF IsFiniteSet, Dsh!IsFiniteSet
<1> QED BY <1>1, <1>2

\* It implies what the Dsh driver promises.
LEMMA DshInvImplies ==
  ASSUME Dsh!DshRunnerAssumption, DshInv
  PROVE  Dsh!DshTypeOK /\ Dsh!NoProcessLeft /\ Dsh!CompletedIsBacked /\ Dsh!CauseStands /\ Dsh!CancelledRaises
<1>1. Dsh!DshTypeOK /\ Dsh!NoProcessLeft
  BY DEF DshInv, DshTypes, GroupBooks, CauseBooks, CancelBooks, Dsh!DshTypeOK, Dsh!NoProcessLeft
<1>2. Dsh!CompletedIsBacked
  <2> SUFFICES ASSUME exit # "no", outcome = "completed"
               PROVE  /\ return_code = "zero" /\ cause = "none"
                      /\ Dsh!is_turn_complete(disk.events)
                      /\ \A l \in disk.logs : l.whole
                      /\ \E l \in disk.logs : disk.roots = {l.id} /\ l.parent = "none"
                      /\ {s.id : s \in disk.lineage.sessions} = Dsh!Ids(disk)
                      /\ disk.lineage.failure = "none" /\ ~disk.lineage.question
                      /\ enforce_plan_mode =>
                           /\ disk.lineage.approvals > 0
                           /\ \E s \in disk.lineage.sessions : s.parent # "none"
                           /\ \A s \in disk.lineage.sessions : s.parent # "none" => disk.lineage.outcomes[s.id] = "completed"
    BY DEF Dsh!CompletedIsBacked
  <2>1. Backed /\ disk \in Evidence \cup {Dsh!Nothing} /\ cause = "none"
    BY DEF DshInv, EvidenceBooks, CauseBooks
  <2>2. Dsh!Collectable(disk) /\ return_code = "zero"
    BY <2>1 DEF Backed
  <2>3. disk \in Evidence
    BY <2>1, <2>2 DEF Dsh!Collectable, Dsh!Nothing
  <2>4. IsFiniteSet(disk.roots) /\ disk.lineage.approvals \in Nat
    BY <2>3, SameCount DEF Dsh!DshRunnerAssumption
  <2>5. PICK root : disk.roots = {root}
    BY <2>2, <2>4, SameCount, FS_Singleton DEF Dsh!Collectable, Dsh!StdoutSession
  <2>6. \E l \in disk.logs : disk.roots = {l.id} /\ l.parent = "none"
    BY <2>2, <2>5 DEF Dsh!Collectable, Dsh!Ids
  <2>7. (\A l \in disk.logs : l.whole) /\ {s.id : s \in disk.lineage.sessions} = Dsh!Ids(disk)
    BY <2>2 DEF Dsh!Collectable, Dsh!Readable, Dsh!PartialAllowed, Dsh!Agrees
  <2>8. ASSUME enforce_plan_mode
        PROVE  /\ disk.lineage.approvals > 0
               /\ \E s \in disk.lineage.sessions : s.parent # "none"
               /\ \A s \in disk.lineage.sessions : s.parent # "none" => disk.lineage.outcomes[s.id] = "completed"
    <3>1. Dsh!PlanVerdict(disk) = "none"
      BY <2>1, <2>8 DEF Backed
    <3>2. /\ Dsh!Subagents(disk) # {} /\ disk.lineage.approvals # 0
          /\ DOMAIN Dsh!Outcomes(disk) = Dsh!Subagents(disk)
          /\ \A c \in DOMAIN Dsh!Outcomes(disk) : Dsh!Outcomes(disk)[c] = "completed"
      BY <3>1 DEF Dsh!PlanVerdict
    <3> QED BY <2>4, <3>2 DEF Dsh!Subagents, Dsh!Outcomes
  <2> QED BY <2>1, <2>6, <2>7, <2>8 DEF Backed
<1>3. Dsh!CauseStands
  BY DEF DshInv, DshTypes, CauseBooks, Named, Dsh!CauseStands
<1>4. Dsh!CancelledRaises
  BY DEF DshInv, DshTypes, CancelBooks, Dsh!CancelledRaises
<1> QED BY <1>1, <1>2, <1>3, <1>4

\* The process group of a Dsh run is dead when the driver returns, a completed
\* run is backed by its transcript, its logs and its lineage file, the first cause
\* of a failure stands, and a cancellation is raised again, for any evidence an
\* execution leaves (dsh/runner.py: run_dsh and its collection).
THEOREM DshSafe ==
  ASSUME Dsh!DshRunnerAssumption
  PROVE  /\ Dsh!DshInit /\ [][Dsh!DshNext]_(Dsh!dshVars) => [](Dsh!DshTypeOK /\ Dsh!NoProcessLeft)
         /\ Dsh!DshInit /\ [][Dsh!DshNext]_(Dsh!dshVars) => [](Dsh!CompletedIsBacked /\ Dsh!CauseStands /\ Dsh!CancelledRaises)
<1>1. Dsh!DshInit => DshInv
  BY DshInitInv
<1>2. DshInv /\ [Dsh!DshNext]_(Dsh!dshVars) => DshInv'
  BY DshStep
<1>3. DshInv => /\ Dsh!DshTypeOK /\ Dsh!NoProcessLeft
                /\ Dsh!CompletedIsBacked /\ Dsh!CauseStands /\ Dsh!CancelledRaises
  BY DshInvImplies
<1> QED BY <1>1, <1>2, <1>3, PTL

-----------------------------------------------------------------------------
(* The bridge inside a Dsh process.                                        *)

ToolNames == Bridge!ReadOnly \union {"write", "ask"}
CallNames == {"subagent", "exit_plan_mode", "read", "write", "ask", "null"}
ReadKeys == {"file", "null"}
SubagentOutcomes == {"none", "completed", "aborted", "error"}
Places == {"absent", "created", "ready", "model", "tools", "run", "delegating", "asking", "result",
           "stopping", "waiting", "crashed", "vetoed", "ended"}

\* The types of what the handlers read and write.
SessionTypes ==
  /\ pc \in [Bridge!Session -> Places]
  /\ call \in [Bridge!Session -> [name : CallNames, isError : BOOLEAN]]
  /\ lineages \subseteq Bridge!Session
  /\ subagentOutcomes \in [Children -> SubagentOutcomes]
BridgeFlags ==
  /\ enforce \in BOOLEAN /\ planActive \in BOOLEAN /\ wrote \in BOOLEAN /\ unansweredQuestion \in BOOLEAN
  /\ autoPlanApprovals \in Nat /\ planRecoveries \in 0 .. 1
  /\ exitCode \in {"running", "zero", "nonzero"}

\* The windows of a session, and that of the history beside that of the reads.
WindowBooks ==
  /\ errors \in [Bridge!Session -> Seq(CallNames)] /\ \A s \in Bridge!Session : Len(errors[s]) <= TOOL_WINDOW
  /\ reads \in [Bridge!Session -> Seq(ReadKeys)] /\ \A s \in Bridge!Session : Len(reads[s]) <= TOOL_WINDOW
HistoryBooks ==
  /\ log \in [Children -> Seq([key : ReadKeys, ran : BOOLEAN])]
  /\ \A c \in Children : Len(log[c]) = Len(reads[c]) /\ \A i \in 1 .. Len(log[c]) : log[c][i].key = reads[c][i]

\* A subagent has a lineage from its publication on; while one is being published
\* the lead waits for it, and its outcome is recorded when it ends.
SessionBooks ==
  /\ \A c \in Children : c \in lineages <=> pc[c] \notin {"absent", "created"}
  /\ \A c \in Children : pc[c] = "created" => pc[Lead] = "delegating"
  /\ \A c, d \in Children : pc[c] = "created" /\ pc[d] = "created" => c = d
  /\ \A c \in Children : subagentOutcomes[c] = "none" <=> pc[c] # "ended"
  /\ failure = "none" => \A c \in Children : subagentOutcomes[c] \in {"none", "completed"}

\* Exploration is behind a lead that leaves plan mode, and stays behind it.
Explored == Bridge!children # {} /\ \A c \in Bridge!children : subagentOutcomes[c] = "completed"
PlanBooks ==
  /\ (enforce /\ pc[Lead] # "created") => planActive \/ autoPlanApprovals > 0
  /\ (enforce /\ pc[Lead] = "run" /\ call[Lead].name = "write") => ~planActive
  /\ (enforce /\ wrote) => autoPlanApprovals > 0
  /\ (enforce /\ pc[Lead] \in {"run", "asking"} /\ call[Lead].name = "exit_plan_mode") => Explored
  /\ autoPlanApprovals > 0 => Bridge!children # {}
  /\ wrote => pc[Lead] # "created"

\* A lead that waits has its plan through, or will be woken.
WaitBooks ==
  /\ (enforce /\ pc[Lead] = "waiting") => ~planActive \/ Bridge!Unreported \/ notices # {}
  /\ exitCode = "zero" => /\ pc[Lead] = "waiting" /\ notices = {}
                          /\ \A c \in Children : pc[c] \in {"absent", "vetoed", "ended"}

BridgeInv ==
  /\ SessionTypes /\ BridgeFlags /\ WindowBooks /\ HistoryBooks /\ Bridge!NoReadLoop
  /\ Bridge!FileIsCurrent /\ SessionBooks /\ PlanBooks /\ WaitBooks

\* The four ways of a turn that ends.
LEMMA TurnStoppingDoes ==
  ASSUME Bridge!TurnStopping
  PROVE  /\ pc[Lead] = "stopping"
         /\ UNCHANGED <<enforce, call, Bridge!budgets, planActive, notices, calls, log, wrote, exitCode>>
         /\ UNCHANGED <<lineages, subagentOutcomes, autoPlanApprovals, unansweredQuestion>>
         /\ \/ Bridge!EndStands /\ Bridge!Goto(Lead, "waiting") /\ UNCHANGED <<planRecoveries, failure, file>>
            \/ failure # "none" /\ Bridge!Goto(Lead, "crashed") /\ UNCHANGED <<planRecoveries, failure, file>>
            \/ /\ planRecoveries = 0 /\ planRecoveries' = planRecoveries + 1 /\ UNCHANGED failure
               /\ Bridge!persistLineage /\ Bridge!Goto(Lead, "ready")
            \/ /\ Bridge!recordFailure("plan_not_approved") /\ UNCHANGED planRecoveries
               /\ Bridge!persistLineage /\ Bridge!Goto(Lead, "crashed")
<1> USE DEF Bridge!TurnStopping
<1>1. CASE Bridge!EndStands
  BY <1>1
<1>2. CASE ~Bridge!EndStands /\ failure # "none"
  BY <1>2
<1>3. CASE ~Bridge!EndStands /\ failure = "none" /\ Bridge!MayRemind
  BY <1>3 DEF Bridge!MayRemind
<1>4. CASE ~Bridge!EndStands /\ failure = "none" /\ ~Bridge!MayRemind
  BY <1>4
<1> QED BY <1>1, <1>2, <1>3, <1>4

\* Sessions and their calls keep their types.
LEMMA SessionTypesStep ==
  ASSUME Bridge!BridgeAssumption, SessionTypes, [Bridge!BridgeNext]_(Bridge!bridgeVars)
  PROVE  SessionTypes'
<1> USE DEF Bridge!BridgeAssumption, Bridge!Session, Bridge!memory, Bridge!budgets, SessionTypes, Places
<1>1. CASE Bridge!RunSubagent
  BY <1>1 DEF Bridge!RunSubagent, Bridge!Goto
<1>2. CASE Bridge!RunTool
  BY <1>2 DEF Bridge!RunTool, Bridge!Goto
<1>3. CASE Bridge!Question
  BY <1>3 DEF Bridge!Question, Bridge!Approve, Bridge!Goto
<1>4. CASE Bridge!TurnStopping
  BY <1>4, TurnStoppingDoes DEF Bridge!Goto
<1>5. CASE Bridge!Wake
  BY <1>5 DEF Bridge!Wake, Bridge!Goto
<1>6. CASE Bridge!Exit
  BY <1>6 DEF Bridge!Exit
<1>7. ASSUME NEW s \in Bridge!Session, Bridge!AgentCreated(s) PROVE SessionTypes'
  BY <1>7 DEF Bridge!AgentCreated, Bridge!Published
<1>8. ASSUME NEW s \in Bridge!Session, Bridge!AgentVetoed(s) PROVE SessionTypes'
  BY <1>8 DEF Bridge!AgentVetoed, Bridge!Published
<1>9. ASSUME NEW s \in Bridge!Session, Bridge!PreStep(s) PROVE SessionTypes'
  BY <1>9 DEF Bridge!PreStep, Bridge!Goto
<1>10. ASSUME NEW s \in Bridge!Session, Bridge!Stream(s) PROVE SessionTypes'
  BY <1>10 DEF Bridge!Stream, Bridge!Goto
<1>11. ASSUME NEW c \in Children, Bridge!SubagentEnd(c) PROVE SessionTypes'
  BY <1>11 DEF Bridge!SubagentEnd, Bridge!Goto, SubagentOutcomes
<1>12. ASSUME NEW name \in ToolNames, Bridge!GuardLead(name) PROVE SessionTypes'
  BY <1>12 DEF Bridge!GuardLead, Bridge!Goto, ToolNames, CallNames, Bridge!ReadOnly, Bridge!LeadDenies
<1>13. ASSUME NEW s \in Bridge!Session, NEW bad \in BadArguments, Bridge!ToolResult(s, bad)
       PROVE  SessionTypes'
  BY <1>13 DEF Bridge!ToolResult, Bridge!Goto, Bridge!NoCall, Bridge!null, CallNames
<1>14. ASSUME NEW c \in Children, NEW key \in {"file", Bridge!null}, Bridge!GuardChild(c, key)
       PROVE  SessionTypes'
  BY <1>14 DEF Bridge!GuardChild, Bridge!Goto, Bridge!ReadLoop, CallNames
<1>15. CASE UNCHANGED Bridge!bridgeVars
  BY <1>15 DEF Bridge!bridgeVars
<1> QED BY <1>1, <1>2, <1>3, <1>4, <1>5, <1>6, <1>7, <1>8, <1>9, <1>10, <1>11, <1>12, <1>13, <1>14,
    <1>15 DEF Bridge!BridgeNext, ToolNames

\* So do the flags and the counters.
LEMMA BridgeFlagsStep ==
  ASSUME Bridge!BridgeAssumption, SessionTypes, BridgeFlags, [Bridge!BridgeNext]_(Bridge!bridgeVars)
  PROVE  BridgeFlags'
<1> USE DEF Bridge!BridgeAssumption, Bridge!Session, Bridge!memory, Bridge!budgets, SessionTypes,
    BridgeFlags
<1>1. CASE Bridge!RunSubagent
  BY <1>1 DEF Bridge!RunSubagent, Bridge!Goto
<1>2. CASE Bridge!RunTool
  BY <1>2 DEF Bridge!RunTool, Bridge!Goto
<1>3. CASE Bridge!Question
  <2>1. UNCHANGED <<enforce, wrote, planRecoveries, exitCode>>
    BY <1>3 DEF Bridge!Question, Bridge!Approve
  <2>2. CASE enforce /\ call[Lead].name = "exit_plan_mode"
    <3>1. UNCHANGED unansweredQuestion /\ planActive' = FALSE /\ autoPlanApprovals' = autoPlanApprovals + 1
      BY <1>3, <2>2 DEF Bridge!Question, Bridge!Approve
    <3>2. planActive' \in BOOLEAN
      BY <3>1
    <3>3. autoPlanApprovals' \in Nat
      BY <3>1
    <3> QED BY <2>1, <3>1, <3>2, <3>3
  <2>3. CASE ~(enforce /\ call[Lead].name = "exit_plan_mode")
    <3>1. UNCHANGED <<planActive, autoPlanApprovals>> /\ unansweredQuestion' = TRUE
      BY <1>3, <2>3 DEF Bridge!Question
    <3> QED BY <2>1, <3>1
  <2> QED BY <2>2, <2>3

<1>4. CASE Bridge!TurnStopping
  BY <1>4, TurnStoppingDoes DEF Bridge!Goto
<1>5. CASE Bridge!Wake
  BY <1>5 DEF Bridge!Wake, Bridge!Goto
<1>6. CASE Bridge!Exit
  BY <1>6 DEF Bridge!Exit
<1>7. ASSUME NEW s \in Bridge!Session, Bridge!AgentCreated(s) PROVE BridgeFlags'
  BY <1>7 DEF Bridge!AgentCreated, Bridge!Published
<1>8. ASSUME NEW s \in Bridge!Session, Bridge!AgentVetoed(s) PROVE BridgeFlags'
  BY <1>8 DEF Bridge!AgentVetoed, Bridge!Published
<1>9. ASSUME NEW s \in Bridge!Session, Bridge!PreStep(s) PROVE BridgeFlags'
  BY <1>9 DEF Bridge!PreStep, Bridge!Goto
<1>10. ASSUME NEW s \in Bridge!Session, Bridge!Stream(s) PROVE BridgeFlags'
  BY <1>10 DEF Bridge!Stream, Bridge!Goto
<1>11. ASSUME NEW c \in Children, Bridge!SubagentEnd(c) PROVE BridgeFlags'
  BY <1>11 DEF Bridge!SubagentEnd, Bridge!Goto
<1>12. ASSUME NEW name \in ToolNames, Bridge!GuardLead(name) PROVE BridgeFlags'
  BY <1>12 DEF Bridge!GuardLead, Bridge!Goto
<1>13. ASSUME NEW s \in Bridge!Session, NEW bad \in BadArguments, Bridge!ToolResult(s, bad)
       PROVE  BridgeFlags'
  BY <1>13 DEF Bridge!ToolResult, Bridge!Goto
<1>14. ASSUME NEW c \in Children, NEW key \in {"file", Bridge!null}, Bridge!GuardChild(c, key)
       PROVE  BridgeFlags'
  BY <1>14 DEF Bridge!GuardChild, Bridge!Goto
<1>15. CASE UNCHANGED Bridge!bridgeVars
  BY <1>15 DEF Bridge!bridgeVars
<1> QED BY <1>1, <1>2, <1>3, <1>4, <1>5, <1>6, <1>7, <1>8, <1>9, <1>10, <1>11, <1>12, <1>13, <1>14,
    <1>15 DEF Bridge!BridgeNext, ToolNames

\* The number of elements of a set is the same number inside the bridge's module.
LEMMA SameCardinality == \A S : Bridge!Cardinality(S) = Cardinality(S)
BY DEF Cardinality, Bridge!Cardinality

\* What is counted.
LEMMA RepeatsIs ==
  ASSUME NEW q, NEW y
  PROVE  Bridge!Repeats(q, y) = Cardinality({i \in DOMAIN q : q[i] = y})
BY SameCardinality DEF Bridge!Repeats

\* A full window drops its first entry.
Dropped(q) == IF Len(q) < TOOL_WINDOW THEN 0 ELSE 1

\* A window keeps the last TOOL_WINDOW entries.
LEMMA WindowKeeps ==
  ASSUME Bridge!BridgeAssumption, NEW S, NEW q \in Seq(S), NEW x \in S, Len(q) <= TOOL_WINDOW
  PROVE  /\ Bridge!Window(q, x) \in Seq(S) /\ Len(Bridge!Window(q, x)) <= TOOL_WINDOW
         /\ Dropped(q) \in 0 .. 1 /\ Len(Bridge!Window(q, x)) = Len(q) + 1 - Dropped(q)
         /\ Len(Bridge!Window(q, x)) > 0 /\ Bridge!Window(q, x)[Len(Bridge!Window(q, x))] = x
         /\ \A i \in 1 .. Len(q) - Dropped(q) : Bridge!Window(q, x)[i] = q[i + Dropped(q)]
<1>0. TOOL_WINDOW \in Nat \ {0}
  BY DEF Bridge!BridgeAssumption
<1>1. CASE Len(q) < TOOL_WINDOW
  BY <1>0, <1>1 DEF Bridge!Window, Dropped
<1>2. CASE ~(Len(q) < TOOL_WINDOW)
  <2>1. q # << >> /\ Len(q) = TOOL_WINDOW /\ Dropped(q) = 1
    BY <1>0, <1>2 DEF Dropped
  <2>2. Tail(q) \in Seq(S) /\ Len(Tail(q)) = Len(q) - 1 /\ \A i \in 1 .. Len(q) - 1 : Tail(q)[i] = q[i + 1]
    BY <2>1
  <2>3. Bridge!Window(q, x) = Append(Tail(q), x)
    BY <1>2 DEF Bridge!Window
  <2> QED BY <1>0, <1>2, <2>1, <2>2, <2>3
<1> QED BY <1>1, <1>2

\* An entry that is not y adds no repetition of y.
LEMMA RepeatsFall ==
  ASSUME Bridge!BridgeAssumption, NEW S, NEW q \in Seq(S), NEW x \in S, NEW y, x # y,
         Len(q) <= TOOL_WINDOW
  PROVE  Bridge!Repeats(Bridge!Window(q, x), y) <= Bridge!Repeats(q, y)
<1> DEFINE w == Bridge!Window(q, x)
           k == Dropped(q)
           A == {i \in DOMAIN w : w[i] = y}
           B == {i \in DOMAIN q : q[i] = y}
           f == [i \in A |-> i + k]
<1>1. /\ w \in Seq(S) /\ w[Len(w)] = x
      /\ k \in 0 .. 1 /\ Len(w) = Len(q) + 1 - k
      /\ \A i \in 1 .. Len(q) - k : w[i] = q[i + k]
  BY WindowKeeps
<1>2. IsFiniteSet(B)
  <2>1. IsFiniteSet(1 .. Len(q)) /\ B \subseteq 1 .. Len(q)
    BY FS_Interval
  <2> QED BY <2>1, FS_Subset
<1> HIDE DEF w, k
<1>3. \A i \in A : i \in 1 .. Len(q) - k /\ i + k \in B
  BY <1>1
<1>4. f \in [A -> B] /\ \A i, j \in A : f[i] = f[j] => i = j
  BY <1>1, <1>3
<1>5. f \in Injection(A, B)
  BY <1>4 DEF Injection, IsInjective
<1>6. Cardinality(A) <= Cardinality(B)
  BY <1>5, <1>2, FS_Injection
<1> QED BY <1>6, RepeatsIs DEF w

\* The budgets keep at most TOOL_WINDOW entries.
LEMMA WindowBooksStep ==
  ASSUME Bridge!BridgeAssumption, SessionTypes, WindowBooks, [Bridge!BridgeNext]_(Bridge!bridgeVars)
  PROVE  WindowBooks'
<1> USE DEF Bridge!BridgeAssumption, Bridge!Session, Bridge!memory, Bridge!budgets, SessionTypes,
    WindowBooks
<1>1. CASE Bridge!RunSubagent
  BY <1>1 DEF Bridge!RunSubagent, Bridge!Goto
<1>2. CASE Bridge!RunTool
  BY <1>2 DEF Bridge!RunTool, Bridge!Goto
<1>3. CASE Bridge!Question
  BY <1>3 DEF Bridge!Question, Bridge!Approve, Bridge!Goto
<1>4. CASE Bridge!TurnStopping
  BY <1>4, TurnStoppingDoes DEF Bridge!Goto
<1>5. CASE Bridge!Wake
  BY <1>5 DEF Bridge!Wake, Bridge!Goto
<1>6. CASE Bridge!Exit
  BY <1>6 DEF Bridge!Exit
<1>7. ASSUME NEW s \in Bridge!Session, Bridge!AgentCreated(s) PROVE WindowBooks'
  BY <1>7 DEF Bridge!AgentCreated, Bridge!Published
<1>8. ASSUME NEW s \in Bridge!Session, Bridge!AgentVetoed(s) PROVE WindowBooks'
  BY <1>8 DEF Bridge!AgentVetoed, Bridge!Published
<1>9. ASSUME NEW s \in Bridge!Session, Bridge!PreStep(s) PROVE WindowBooks'
  BY <1>9 DEF Bridge!PreStep, Bridge!Goto
<1>10. ASSUME NEW s \in Bridge!Session, Bridge!Stream(s) PROVE WindowBooks'
  BY <1>10 DEF Bridge!Stream, Bridge!Goto
<1>11. ASSUME NEW c \in Children, Bridge!SubagentEnd(c) PROVE WindowBooks'
  BY <1>11 DEF Bridge!SubagentEnd, Bridge!Goto
<1>12. ASSUME NEW name \in ToolNames, Bridge!GuardLead(name) PROVE WindowBooks'
  BY <1>12 DEF Bridge!GuardLead, Bridge!Goto
<1>13. ASSUME NEW s \in Bridge!Session, NEW bad \in BadArguments, Bridge!ToolResult(s, bad)
       PROVE  WindowBooks'
  <2>1. pc[s] = "result" /\ errors' = [errors EXCEPT ![s] = Bridge!Window(errors[s], Bridge!InvalidKey(call[s], bad))]
    BY <1>13 DEF Bridge!ToolResult
  <2>2. Bridge!InvalidKey(call[s], bad) \in CallNames
    BY DEF Bridge!InvalidKey, Bridge!null, CallNames
  <2>3. Bridge!Window(errors[s], Bridge!InvalidKey(call[s], bad)) \in Seq(CallNames)
        /\ Len(Bridge!Window(errors[s], Bridge!InvalidKey(call[s], bad))) <= TOOL_WINDOW
    BY <2>2, WindowKeeps
  <2> QED BY <1>13, <2>1, <2>3 DEF Bridge!ToolResult

<1>14. ASSUME NEW c \in Children, NEW key \in {"file", Bridge!null}, Bridge!GuardChild(c, key)
       PROVE  WindowBooks'
  <2>1. reads' = [reads EXCEPT ![c] = Bridge!Window(reads[c], key)]
    BY <1>14 DEF Bridge!GuardChild, Bridge!ReadsAfter
  <2>2. key \in ReadKeys
    BY DEF Bridge!null, ReadKeys
  <2>3. Bridge!Window(reads[c], key) \in Seq(ReadKeys) /\ Len(Bridge!Window(reads[c], key)) <= TOOL_WINDOW
    BY <2>2, WindowKeeps
  <2> QED BY <1>14, <2>1, <2>3 DEF Bridge!GuardChild

<1>15. CASE UNCHANGED Bridge!bridgeVars
  BY <1>15 DEF Bridge!bridgeVars
<1> QED BY <1>1, <1>2, <1>3, <1>4, <1>5, <1>6, <1>7, <1>8, <1>9, <1>10, <1>11, <1>12, <1>13, <1>14,
    <1>15 DEF Bridge!BridgeNext, ToolNames

\* The history of a subagent runs beside its reads.
LEMMA HistoryBooksStep ==
  ASSUME Bridge!BridgeAssumption, SessionTypes, WindowBooks, HistoryBooks,
         [Bridge!BridgeNext]_(Bridge!bridgeVars)
  PROVE  HistoryBooks'
<1> USE DEF Bridge!BridgeAssumption, Bridge!Session, Bridge!memory, Bridge!budgets, WindowBooks,
    HistoryBooks
<1>1. CASE Bridge!RunSubagent
  BY <1>1 DEF Bridge!RunSubagent, Bridge!Goto
<1>2. CASE Bridge!RunTool
  BY <1>2 DEF Bridge!RunTool, Bridge!Goto
<1>3. CASE Bridge!Question
  BY <1>3 DEF Bridge!Question, Bridge!Approve, Bridge!Goto
<1>4. CASE Bridge!TurnStopping
  BY <1>4, TurnStoppingDoes DEF Bridge!Goto
<1>5. CASE Bridge!Wake
  BY <1>5 DEF Bridge!Wake, Bridge!Goto
<1>6. CASE Bridge!Exit
  BY <1>6 DEF Bridge!Exit
<1>7. ASSUME NEW s \in Bridge!Session, Bridge!AgentCreated(s) PROVE HistoryBooks'
  BY <1>7 DEF Bridge!AgentCreated, Bridge!Published
<1>8. ASSUME NEW s \in Bridge!Session, Bridge!AgentVetoed(s) PROVE HistoryBooks'
  BY <1>8 DEF Bridge!AgentVetoed, Bridge!Published
<1>9. ASSUME NEW s \in Bridge!Session, Bridge!PreStep(s) PROVE HistoryBooks'
  BY <1>9 DEF Bridge!PreStep, Bridge!Goto
<1>10. ASSUME NEW s \in Bridge!Session, Bridge!Stream(s) PROVE HistoryBooks'
  BY <1>10 DEF Bridge!Stream, Bridge!Goto
<1>11. ASSUME NEW c \in Children, Bridge!SubagentEnd(c) PROVE HistoryBooks'
  BY <1>11 DEF Bridge!SubagentEnd, Bridge!Goto
<1>12. ASSUME NEW name \in ToolNames, Bridge!GuardLead(name) PROVE HistoryBooks'
  BY <1>12 DEF Bridge!GuardLead, Bridge!Goto
<1>13. ASSUME NEW s \in Bridge!Session, NEW bad \in BadArguments, Bridge!ToolResult(s, bad)
       PROVE  HistoryBooks'
  BY <1>13 DEF Bridge!ToolResult, Bridge!Goto
<1>14. ASSUME NEW c \in Children, NEW key \in {"file", Bridge!null}, Bridge!GuardChild(c, key)
       PROVE  HistoryBooks'
  <2> DEFINE e == [key |-> key, ran |-> ~Bridge!ReadLoop(c, key)]
             K == [key : ReadKeys, ran : BOOLEAN]
  <2>1. reads' = [reads EXCEPT ![c] = Bridge!Window(reads[c], key)] /\ log' = [log EXCEPT ![c] = Bridge!Window(log[c], e)]
    BY <1>14 DEF Bridge!GuardChild, Bridge!ReadsAfter
  <2>2. key \in ReadKeys /\ e \in K
    BY DEF Bridge!null, Bridge!ReadLoop, ReadKeys
  <2>3. e.key = key
    OBVIOUS
  <2> HIDE DEF e, K
  <2>4. Len(log[c]) = Len(reads[c]) /\ Len(log[c]) <= TOOL_WINDOW /\ log[c] \in Seq(K) /\ reads[c] \in Seq(ReadKeys)
    BY DEF K
  <2> DEFINE r == Bridge!Window(reads[c], key)
             g == Bridge!Window(log[c], e)
  <2>5. /\ r \in Seq(ReadKeys) /\ r[Len(r)] = key
        /\ Dropped(reads[c]) \in 0 .. 1 /\ Len(r) = Len(reads[c]) + 1 - Dropped(reads[c])
        /\ \A i \in 1 .. Len(reads[c]) - Dropped(reads[c]) : r[i] = reads[c][i + Dropped(reads[c])]
    <3>1. reads[c] \in Seq(ReadKeys) /\ Len(reads[c]) <= TOOL_WINDOW /\ key \in ReadKeys
      BY <2>2, <2>4
    <3> HIDE DEF Bridge!BridgeAssumption, WindowBooks, HistoryBooks, SessionTypes, Bridge!Session,
        Bridge!memory, Bridge!budgets, ReadKeys
    <3>2. /\ r \in Seq(ReadKeys) /\ Len(r) <= TOOL_WINDOW
          /\ Dropped(reads[c]) \in 0 .. 1 /\ Len(r) = Len(reads[c]) + 1 - Dropped(reads[c])
          /\ Len(r) > 0 /\ r[Len(r)] = key
          /\ \A i \in 1 .. Len(reads[c]) - Dropped(reads[c]) : r[i] = reads[c][i + Dropped(reads[c])]
      BY Bridge!BridgeAssumption, <3>1, WindowKeeps, ZenonT(60)
    <3> QED BY <3>2
  <2>6. /\ g \in Seq(K) /\ g[Len(g)] = e
        /\ Dropped(log[c]) \in 0 .. 1 /\ Len(g) = Len(log[c]) + 1 - Dropped(log[c])
        /\ \A i \in 1 .. Len(log[c]) - Dropped(log[c]) : g[i] = log[c][i + Dropped(log[c])]
    <3>1. log[c] \in Seq(K) /\ Len(log[c]) <= TOOL_WINDOW /\ e \in K
      BY <2>2, <2>4
    <3> HIDE DEF Bridge!BridgeAssumption, WindowBooks, HistoryBooks, SessionTypes, Bridge!Session,
        Bridge!memory, Bridge!budgets, ReadKeys
    <3>2. /\ g \in Seq(K) /\ Len(g) <= TOOL_WINDOW
          /\ Dropped(log[c]) \in 0 .. 1 /\ Len(g) = Len(log[c]) + 1 - Dropped(log[c])
          /\ Len(g) > 0 /\ g[Len(g)] = e
          /\ \A i \in 1 .. Len(log[c]) - Dropped(log[c]) : g[i] = log[c][i + Dropped(log[c])]
      BY Bridge!BridgeAssumption, <3>1, WindowKeeps, ZenonT(60)
    <3> QED BY <3>2
  <2> HIDE DEF r, g
  <2>7. Len(g) = Len(r) /\ \A i \in 1 .. Len(g) : g[i].key = r[i]
    <3>1. Dropped(log[c]) = Dropped(reads[c]) /\ Len(g) = Len(r)
      BY <2>4, <2>5, <2>6 DEF Dropped
    <3>2. ASSUME NEW i \in 1 .. Len(g), i # Len(g) PROVE g[i].key = r[i]
      <4>1. i \in 1 .. Len(log[c]) - Dropped(log[c]) /\ i + Dropped(log[c]) \in 1 .. Len(log[c])
        BY <2>4, <2>6, <3>2
      <4>2. g[i] = log[c][i + Dropped(log[c])] /\ r[i] = reads[c][i + Dropped(log[c])]
        BY <2>4, <2>5, <2>6, <3>1, <4>1
      <4> QED BY <4>1, <4>2
    <3> QED BY <2>3, <2>5, <2>6, <3>1, <3>2
  <2>8. reads' = [reads EXCEPT ![c] = r] /\ log' = [log EXCEPT ![c] = g]
    BY <2>1 DEF r, g
  <2> QED BY <2>6, <2>7, <2>8 DEF K

<1>15. CASE UNCHANGED Bridge!bridgeVars
  BY <1>15 DEF Bridge!bridgeVars
<1> QED BY <1>1, <1>2, <1>3, <1>4, <1>5, <1>6, <1>7, <1>8, <1>9, <1>10, <1>11, <1>12, <1>13, <1>14,
    <1>15 DEF Bridge!BridgeNext, ToolNames

\* The repetitions of an entry are counted by a number.
LEMMA RepeatsNat ==
  ASSUME NEW S, NEW q \in Seq(S), NEW y
  PROVE  Bridge!Repeats(q, y) \in Nat
<1>1. IsFiniteSet(1 .. Len(q)) /\ {i \in DOMAIN q : q[i] = y} \subseteq 1 .. Len(q)
  BY FS_Interval
<1>2. IsFiniteSet({i \in DOMAIN q : q[i] = y})
  BY <1>1, FS_Subset
<1> QED BY <1>2, FS_CardinalityType, RepeatsIs

\* A read that would be one too many is refused.
LEMMA NoReadLoopStep ==
  ASSUME Bridge!BridgeAssumption, SessionTypes, WindowBooks, HistoryBooks, Bridge!NoReadLoop,
         [Bridge!BridgeNext]_(Bridge!bridgeVars)
  PROVE  Bridge!NoReadLoop'
<1> USE DEF Bridge!BridgeAssumption, Bridge!Session, Bridge!memory, Bridge!budgets
<1>1. CASE Bridge!RunSubagent
  BY <1>1 DEF Bridge!RunSubagent, Bridge!Goto, Bridge!NoReadLoop
<1>2. CASE Bridge!RunTool
  BY <1>2 DEF Bridge!RunTool, Bridge!Goto, Bridge!NoReadLoop
<1>3. CASE Bridge!Question
  BY <1>3 DEF Bridge!Question, Bridge!Approve, Bridge!Goto, Bridge!NoReadLoop
<1>4. CASE Bridge!TurnStopping
  BY <1>4, TurnStoppingDoes DEF Bridge!Goto, Bridge!NoReadLoop
<1>5. CASE Bridge!Wake
  BY <1>5 DEF Bridge!Wake, Bridge!Goto, Bridge!NoReadLoop
<1>6. CASE Bridge!Exit
  BY <1>6 DEF Bridge!Exit, Bridge!NoReadLoop
<1>7. ASSUME NEW s \in Bridge!Session, Bridge!AgentCreated(s) PROVE Bridge!NoReadLoop'
  BY <1>7 DEF Bridge!AgentCreated, Bridge!Published, Bridge!NoReadLoop
<1>8. ASSUME NEW s \in Bridge!Session, Bridge!AgentVetoed(s) PROVE Bridge!NoReadLoop'
  BY <1>8 DEF Bridge!AgentVetoed, Bridge!Published, Bridge!NoReadLoop
<1>9. ASSUME NEW s \in Bridge!Session, Bridge!PreStep(s) PROVE Bridge!NoReadLoop'
  BY <1>9 DEF Bridge!PreStep, Bridge!Goto, Bridge!NoReadLoop
<1>10. ASSUME NEW s \in Bridge!Session, Bridge!Stream(s) PROVE Bridge!NoReadLoop'
  BY <1>10 DEF Bridge!Stream, Bridge!Goto, Bridge!NoReadLoop
<1>11. ASSUME NEW c \in Children, Bridge!SubagentEnd(c) PROVE Bridge!NoReadLoop'
  BY <1>11 DEF Bridge!SubagentEnd, Bridge!Goto, Bridge!NoReadLoop
<1>12. ASSUME NEW name \in ToolNames, Bridge!GuardLead(name) PROVE Bridge!NoReadLoop'
  BY <1>12 DEF Bridge!GuardLead, Bridge!Goto, Bridge!NoReadLoop
<1>13. ASSUME NEW s \in Bridge!Session, NEW bad \in BadArguments, Bridge!ToolResult(s, bad)
       PROVE  Bridge!NoReadLoop'
  BY <1>13 DEF Bridge!ToolResult, Bridge!Goto, Bridge!NoReadLoop
<1>14. ASSUME NEW c \in Children, NEW key \in {"file", Bridge!null}, Bridge!GuardChild(c, key)
       PROVE  Bridge!NoReadLoop'
  <2> DEFINE e == [key |-> key, ran |-> ~Bridge!ReadLoop(c, key)]
             x == [key |-> "file", ran |-> TRUE]
             K == [key : ReadKeys, ran : BOOLEAN]
             r == Bridge!Window(reads[c], key)
             g == Bridge!Window(log[c], e)
  <2>1. log' = [log EXCEPT ![c] = g] /\ reads' = [reads EXCEPT ![c] = r]
    BY <1>14 DEF Bridge!GuardChild, Bridge!ReadsAfter
  <2>2. key \in ReadKeys /\ e \in K /\ log[c] \in Seq(K) /\ Len(log[c]) <= TOOL_WINDOW
    BY DEF Bridge!null, Bridge!ReadLoop, ReadKeys, HistoryBooks, WindowBooks
  <2>3. CASE e # x
    <3>1. Bridge!Repeats(g, x) <= Bridge!Repeats(log[c], x)
      <4> HIDE DEF e, x, K
      <4> QED BY <2>2, <2>3, RepeatsFall
    <3>2. Bridge!Repeats(log[c], x) < REPEAT_LIMIT
      BY DEF Bridge!NoReadLoop
    <3>3. Bridge!Repeats(g, x) \in Nat /\ Bridge!Repeats(log[c], x) \in Nat
      BY <2>2, WindowKeeps, RepeatsNat
    <3>4. Bridge!Repeats(g, x) < REPEAT_LIMIT
      BY <3>1, <3>2, <3>3
    <3> QED BY <2>1, <3>4 DEF Bridge!NoReadLoop, HistoryBooks
  <2>4. CASE e = x
    <3>1. key = "file" /\ ~Bridge!ReadLoop(c, key)
      BY <2>4 DEF Bridge!ReadLoop
    <3>2. /\ r \in Seq(ReadKeys) /\ ~(Bridge!Repeats(r, key) >= REPEAT_LIMIT)
      BY <2>2, <3>1, WindowKeeps DEF Bridge!ReadLoop, Bridge!ReadsAfter, Bridge!null, WindowBooks
    <3>3. HistoryBooks'
      BY HistoryBooksStep
    <3>4. log'[c] = g /\ reads'[c] = r
      BY <2>1 DEF HistoryBooks, WindowBooks
    <3> HIDE DEF g, r, e
    <3>5. g \in Seq(K) /\ Len(g) = Len(r) /\ \A i \in 1 .. Len(g) : g[i].key = r[i]
      BY <3>3, <3>4 DEF HistoryBooks
    <3>6. {i \in DOMAIN g : g[i] = x} \subseteq {i \in DOMAIN r : r[i] = key}
      BY <3>1, <3>2, <3>5
    <3>7. IsFiniteSet({i \in DOMAIN r : r[i] = key})
      <4>1. IsFiniteSet(1 .. Len(r)) /\ {i \in DOMAIN r : r[i] = key} \subseteq 1 .. Len(r)
        <5>1. Len(r) \in Nat /\ DOMAIN r = 1 .. Len(r)
          BY <3>2
        <5> QED BY <5>1, FS_Interval
      <4> QED BY <4>1, FS_Subset
    <3>8. Bridge!Repeats(g, x) <= Bridge!Repeats(r, key)
      BY <3>6, <3>7, FS_Subset, RepeatsIs
    <3>9. Bridge!Repeats(g, x) \in Nat /\ Bridge!Repeats(r, key) \in Nat
      BY <3>2, <3>5, RepeatsNat
    <3>10. Bridge!Repeats(g, x) < REPEAT_LIMIT
      BY <3>2, <3>8, <3>9
    <3> QED BY <2>1, <3>10 DEF Bridge!NoReadLoop, HistoryBooks
  <2> QED BY <2>3, <2>4

<1>15. CASE UNCHANGED Bridge!bridgeVars
  BY <1>15 DEF Bridge!bridgeVars, Bridge!NoReadLoop
<1> QED BY <1>1, <1>2, <1>3, <1>4, <1>5, <1>6, <1>7, <1>8, <1>9, <1>10, <1>11, <1>12, <1>13, <1>14,
    <1>15 DEF Bridge!BridgeNext, ToolNames

\* A handler that changes what the runner judges by writes the file.
LEMMA FileIsCurrentStep ==
  ASSUME Bridge!BridgeAssumption, Bridge!FileIsCurrent, [Bridge!BridgeNext]_(Bridge!bridgeVars)
  PROVE  Bridge!FileIsCurrent'
<1> USE DEF Bridge!BridgeAssumption, Bridge!Session, Bridge!memory, Bridge!budgets
<1>1. CASE Bridge!RunSubagent
  BY <1>1 DEF Bridge!RunSubagent, Bridge!Goto, Bridge!FileIsCurrent, Bridge!Snapshot
<1>2. CASE Bridge!RunTool
  BY <1>2 DEF Bridge!RunTool, Bridge!Goto, Bridge!FileIsCurrent, Bridge!Snapshot
<1>3. CASE Bridge!Question
  BY <1>3 DEF Bridge!Question, Bridge!Approve, Bridge!Goto, Bridge!FileIsCurrent, Bridge!Snapshot,
     Bridge!persistLineage
<1>4. CASE Bridge!TurnStopping
  BY <1>4, TurnStoppingDoes DEF Bridge!Goto, Bridge!FileIsCurrent, Bridge!Snapshot,
     Bridge!persistLineage
<1>5. CASE Bridge!Wake
  BY <1>5 DEF Bridge!Wake, Bridge!Goto, Bridge!FileIsCurrent, Bridge!Snapshot
<1>6. CASE Bridge!Exit
  BY <1>6 DEF Bridge!Exit, Bridge!FileIsCurrent, Bridge!Snapshot
<1>7. ASSUME NEW s \in Bridge!Session, Bridge!AgentCreated(s) PROVE Bridge!FileIsCurrent'
  BY <1>7 DEF Bridge!AgentCreated, Bridge!Published, Bridge!FileIsCurrent, Bridge!Snapshot,
     Bridge!persistLineage
<1>8. ASSUME NEW s \in Bridge!Session, Bridge!AgentVetoed(s) PROVE Bridge!FileIsCurrent'
  BY <1>8 DEF Bridge!AgentVetoed, Bridge!Published, Bridge!FileIsCurrent, Bridge!Snapshot,
     Bridge!persistLineage
<1>9. ASSUME NEW s \in Bridge!Session, Bridge!PreStep(s) PROVE Bridge!FileIsCurrent'
  BY <1>9 DEF Bridge!PreStep, Bridge!Goto, Bridge!FileIsCurrent, Bridge!Snapshot, Bridge!persistLineage
<1>10. ASSUME NEW s \in Bridge!Session, Bridge!Stream(s) PROVE Bridge!FileIsCurrent'
  BY <1>10 DEF Bridge!Stream, Bridge!Goto, Bridge!FileIsCurrent, Bridge!Snapshot
<1>11. ASSUME NEW c \in Children, Bridge!SubagentEnd(c) PROVE Bridge!FileIsCurrent'
  BY <1>11 DEF Bridge!SubagentEnd, Bridge!Goto, Bridge!FileIsCurrent, Bridge!Snapshot,
     Bridge!persistLineage
<1>12. ASSUME NEW name \in ToolNames, Bridge!GuardLead(name) PROVE Bridge!FileIsCurrent'
  BY <1>12 DEF Bridge!GuardLead, Bridge!Goto, Bridge!FileIsCurrent, Bridge!Snapshot
<1>13. ASSUME NEW s \in Bridge!Session, NEW bad \in BadArguments, Bridge!ToolResult(s, bad)
       PROVE  Bridge!FileIsCurrent'
  BY <1>13 DEF Bridge!ToolResult, Bridge!Goto, Bridge!FileIsCurrent, Bridge!Snapshot,
     Bridge!persistLineage
<1>14. ASSUME NEW c \in Children, NEW key \in {"file", Bridge!null}, Bridge!GuardChild(c, key)
       PROVE  Bridge!FileIsCurrent'
  BY <1>14 DEF Bridge!GuardChild, Bridge!Goto, Bridge!FileIsCurrent, Bridge!Snapshot,
     Bridge!persistLineage
<1>15. CASE UNCHANGED Bridge!bridgeVars
  BY <1>15 DEF Bridge!bridgeVars, Bridge!FileIsCurrent, Bridge!Snapshot
<1> QED BY <1>1, <1>2, <1>3, <1>4, <1>5, <1>6, <1>7, <1>8, <1>9, <1>10, <1>11, <1>12, <1>13, <1>14,
    <1>15 DEF Bridge!BridgeNext, ToolNames

\* Lineages and outcomes follow the sessions.
LEMMA SessionBooksStep ==
  ASSUME Bridge!BridgeAssumption, SessionTypes, SessionBooks, [Bridge!BridgeNext]_(Bridge!bridgeVars)
  PROVE  SessionBooks'
<1> USE DEF Bridge!BridgeAssumption, Bridge!Session, Bridge!memory, Bridge!budgets, SessionTypes,
    SessionBooks, Places, SubagentOutcomes
<1>1. CASE Bridge!RunSubagent
  BY <1>1 DEF Bridge!RunSubagent, Bridge!Goto
<1>2. CASE Bridge!RunTool
  BY <1>2 DEF Bridge!RunTool, Bridge!Goto
<1>3. CASE Bridge!Question
  BY <1>3 DEF Bridge!Question, Bridge!Approve, Bridge!Goto
<1>4. CASE Bridge!TurnStopping
  BY <1>4, TurnStoppingDoes DEF Bridge!Goto, Bridge!recordFailure
<1>5. CASE Bridge!Wake
  BY <1>5 DEF Bridge!Wake, Bridge!Goto
<1>6. CASE Bridge!Exit
  BY <1>6 DEF Bridge!Exit
<1>7. ASSUME NEW s \in Bridge!Session, Bridge!AgentCreated(s) PROVE SessionBooks'
  BY <1>7 DEF Bridge!AgentCreated, Bridge!Published
<1>8. ASSUME NEW s \in Bridge!Session, Bridge!AgentVetoed(s) PROVE SessionBooks'
  BY <1>8 DEF Bridge!AgentVetoed, Bridge!Published
<1>9. ASSUME NEW s \in Bridge!Session, Bridge!PreStep(s) PROVE SessionBooks'
  BY <1>9 DEF Bridge!PreStep, Bridge!Goto, Bridge!recordFailure
<1>10. ASSUME NEW s \in Bridge!Session, Bridge!Stream(s) PROVE SessionBooks'
  BY <1>10 DEF Bridge!Stream, Bridge!Goto
<1>11. ASSUME NEW c \in Children, Bridge!SubagentEnd(c) PROVE SessionBooks'
  BY <1>11 DEF Bridge!SubagentEnd, Bridge!Goto, Bridge!recordFailure
<1>12. ASSUME NEW name \in ToolNames, Bridge!GuardLead(name) PROVE SessionBooks'
  BY <1>12 DEF Bridge!GuardLead, Bridge!Goto
<1>13. ASSUME NEW s \in Bridge!Session, NEW bad \in BadArguments, Bridge!ToolResult(s, bad)
       PROVE  SessionBooks'
  BY <1>13 DEF Bridge!ToolResult, Bridge!Goto, Bridge!recordFailure
<1>14. ASSUME NEW c \in Children, NEW key \in {"file", Bridge!null}, Bridge!GuardChild(c, key)
       PROVE  SessionBooks'
  BY <1>14 DEF Bridge!GuardChild, Bridge!Goto, Bridge!recordFailure
<1>15. CASE UNCHANGED Bridge!bridgeVars
  BY <1>15 DEF Bridge!bridgeVars
<1> QED BY <1>1, <1>2, <1>3, <1>4, <1>5, <1>6, <1>7, <1>8, <1>9, <1>10, <1>11, <1>12, <1>13, <1>14,
    <1>15 DEF Bridge!BridgeNext, ToolNames

\* The guards of the lead keep exploration, plan and implementation in order.
LEMMA PlanBooksStep ==
  ASSUME Bridge!BridgeAssumption, SessionTypes, BridgeFlags, SessionBooks, PlanBooks,
         [Bridge!BridgeNext]_(Bridge!bridgeVars)
  PROVE  PlanBooks'
<1> USE DEF Bridge!BridgeAssumption, Bridge!Session, Bridge!memory, Bridge!budgets, SessionTypes,
    BridgeFlags, SessionBooks, PlanBooks, Explored, Bridge!children, Places, SubagentOutcomes
<1>1. CASE Bridge!RunSubagent
  BY <1>1 DEF Bridge!RunSubagent, Bridge!Goto
<1>2. CASE Bridge!RunTool
  BY <1>2 DEF Bridge!RunTool, Bridge!Goto
<1>3. CASE Bridge!Question
  BY <1>3 DEF Bridge!Question, Bridge!Approve, Bridge!Goto
<1>4. CASE Bridge!TurnStopping
  BY <1>4, TurnStoppingDoes DEF Bridge!Goto
<1>5. CASE Bridge!Wake
  BY <1>5 DEF Bridge!Wake, Bridge!Goto
<1>6. CASE Bridge!Exit
  BY <1>6 DEF Bridge!Exit
<1>7. ASSUME NEW s \in Bridge!Session, Bridge!AgentCreated(s) PROVE PlanBooks'
  BY <1>7 DEF Bridge!AgentCreated, Bridge!Published
<1>8. ASSUME NEW s \in Bridge!Session, Bridge!AgentVetoed(s) PROVE PlanBooks'
  BY <1>8 DEF Bridge!AgentVetoed, Bridge!Published
<1>9. ASSUME NEW s \in Bridge!Session, Bridge!PreStep(s) PROVE PlanBooks'
  BY <1>9 DEF Bridge!PreStep, Bridge!Goto
<1>10. ASSUME NEW s \in Bridge!Session, Bridge!Stream(s) PROVE PlanBooks'
  BY <1>10 DEF Bridge!Stream, Bridge!Goto
<1>11. ASSUME NEW c \in Children, Bridge!SubagentEnd(c) PROVE PlanBooks'
  BY <1>11 DEF Bridge!SubagentEnd, Bridge!Goto
<1>12. ASSUME NEW name \in ToolNames, Bridge!GuardLead(name) PROVE PlanBooks'
  BY <1>12 DEF Bridge!GuardLead, Bridge!Goto, Bridge!LeadDenies, Bridge!ReadOnly, ToolNames
<1>13. ASSUME NEW s \in Bridge!Session, NEW bad \in BadArguments, Bridge!ToolResult(s, bad)
       PROVE  PlanBooks'
  BY <1>13 DEF Bridge!ToolResult, Bridge!Goto
<1>14. ASSUME NEW c \in Children, NEW key \in {"file", Bridge!null}, Bridge!GuardChild(c, key)
       PROVE  PlanBooks'
  BY <1>14 DEF Bridge!GuardChild, Bridge!Goto
<1>15. CASE UNCHANGED Bridge!bridgeVars
  BY <1>15 DEF Bridge!bridgeVars
<1> QED BY <1>1, <1>2, <1>3, <1>4, <1>5, <1>6, <1>7, <1>8, <1>9, <1>10, <1>11, <1>12, <1>13, <1>14,
    <1>15 DEF Bridge!BridgeNext, ToolNames

\* A turn of the lead ends only when nothing is left for it to do.
LEMMA WaitBooksStep ==
  ASSUME Bridge!BridgeAssumption, SessionTypes, BridgeFlags, SessionBooks, WaitBooks,
         [Bridge!BridgeNext]_(Bridge!bridgeVars)
  PROVE  WaitBooks'
<1> USE DEF Bridge!BridgeAssumption, Bridge!Session, Bridge!memory, Bridge!budgets, SessionTypes,
    BridgeFlags, SessionBooks, WaitBooks, Bridge!Unreported, Bridge!children, Places, SubagentOutcomes
<1>1. CASE Bridge!RunSubagent
  BY <1>1 DEF Bridge!RunSubagent, Bridge!Goto
<1>2. CASE Bridge!RunTool
  BY <1>2 DEF Bridge!RunTool, Bridge!Goto
<1>3. CASE Bridge!Question
  BY <1>3 DEF Bridge!Question, Bridge!Approve, Bridge!Goto
<1>4. CASE Bridge!TurnStopping
  BY <1>4, TurnStoppingDoes DEF Bridge!Goto, Bridge!EndStands
<1>5. CASE Bridge!Wake
  BY <1>5 DEF Bridge!Wake, Bridge!Goto
<1>6. CASE Bridge!Exit
  BY <1>6 DEF Bridge!Exit
<1>7. ASSUME NEW s \in Bridge!Session, Bridge!AgentCreated(s) PROVE WaitBooks'
  BY <1>7 DEF Bridge!AgentCreated, Bridge!Published
<1>8. ASSUME NEW s \in Bridge!Session, Bridge!AgentVetoed(s) PROVE WaitBooks'
  BY <1>8 DEF Bridge!AgentVetoed, Bridge!Published
<1>9. ASSUME NEW s \in Bridge!Session, Bridge!PreStep(s) PROVE WaitBooks'
  BY <1>9 DEF Bridge!PreStep, Bridge!Goto
<1>10. ASSUME NEW s \in Bridge!Session, Bridge!Stream(s) PROVE WaitBooks'
  BY <1>10 DEF Bridge!Stream, Bridge!Goto
<1>11. ASSUME NEW c \in Children, Bridge!SubagentEnd(c) PROVE WaitBooks'
  BY <1>11 DEF Bridge!SubagentEnd, Bridge!Goto
<1>12. ASSUME NEW name \in ToolNames, Bridge!GuardLead(name) PROVE WaitBooks'
  BY <1>12 DEF Bridge!GuardLead, Bridge!Goto
<1>13. ASSUME NEW s \in Bridge!Session, NEW bad \in BadArguments, Bridge!ToolResult(s, bad)
       PROVE  WaitBooks'
  BY <1>13 DEF Bridge!ToolResult, Bridge!Goto
<1>14. ASSUME NEW c \in Children, NEW key \in {"file", Bridge!null}, Bridge!GuardChild(c, key)
       PROVE  WaitBooks'
  BY <1>14 DEF Bridge!GuardChild, Bridge!Goto
<1>15. CASE UNCHANGED Bridge!bridgeVars
  BY <1>15 DEF Bridge!bridgeVars
<1> QED BY <1>1, <1>2, <1>3, <1>4, <1>5, <1>6, <1>7, <1>8, <1>9, <1>10, <1>11, <1>12, <1>13, <1>14,
    <1>15 DEF Bridge!BridgeNext, ToolNames

\* Every step of the bridge and the harness keeps the invariant.
LEMMA BridgeStep ==
  ASSUME Bridge!BridgeAssumption, BridgeInv, [Bridge!BridgeNext]_(Bridge!bridgeVars)
  PROVE  BridgeInv'
<1>1. /\ SessionTypes /\ BridgeFlags /\ WindowBooks /\ HistoryBooks /\ Bridge!NoReadLoop
      /\ Bridge!FileIsCurrent /\ SessionBooks /\ PlanBooks /\ WaitBooks
  BY DEF BridgeInv
<1>2. SessionTypes' /\ BridgeFlags' /\ WindowBooks'
  BY <1>1, SessionTypesStep, BridgeFlagsStep, WindowBooksStep
<1>3. HistoryBooks' /\ Bridge!NoReadLoop'
  BY <1>1, HistoryBooksStep, NoReadLoopStep
<1>4. Bridge!FileIsCurrent' /\ SessionBooks' /\ PlanBooks' /\ WaitBooks'
  BY <1>1, FileIsCurrentStep, SessionBooksStep, PlanBooksStep, WaitBooksStep
<1> QED BY <1>2, <1>3, <1>4 DEF BridgeInv

\* It holds before the lead is created.
LEMMA BridgeInitInv ==
  ASSUME Bridge!BridgeAssumption, Bridge!BridgeInit
  PROVE  BridgeInv
<1> USE DEF Bridge!BridgeInit, Bridge!BridgeAssumption, Bridge!Session
<1>1. SessionTypes
  BY DEF SessionTypes, Places, CallNames, Bridge!NoCall, Bridge!null, SubagentOutcomes
<1>2. BridgeFlags
  <2>1. enforce \in BOOLEAN
    OBVIOUS
  <2>2. planActive \in BOOLEAN
    OBVIOUS
  <2>3. wrote \in BOOLEAN
    OBVIOUS
  <2>4. unansweredQuestion \in BOOLEAN
    OBVIOUS
  <2> QED BY <2>1, <2>2, <2>3, <2>4 DEF BridgeFlags
<1>3. << >> \in Seq(CallNames) /\ << >> \in Seq(ReadKeys) /\ << >> \in Seq([key : ReadKeys, ran : BOOLEAN])
  OBVIOUS
<1>4. WindowBooks
  BY <1>3 DEF WindowBooks
<1>5. HistoryBooks
  BY <1>3 DEF HistoryBooks
<1>6. Bridge!NoReadLoop
  <2>1. Bridge!Repeats(<< >>, [key |-> "file", ran |-> TRUE]) = 0
    <3>1. {i \in DOMAIN << >> : << >>[i] = [key |-> "file", ran |-> TRUE]} = {}
      OBVIOUS
    <3> QED BY <3>1, FS_EmptySet, RepeatsIs
  <2> QED BY <2>1 DEF Bridge!NoReadLoop
<1>7. Bridge!FileIsCurrent /\ SessionBooks
  BY DEF Bridge!FileIsCurrent, SessionBooks
<1>8. PlanBooks /\ WaitBooks
  BY DEF PlanBooks, WaitBooks
<1> QED BY <1>1, <1>2, <1>4, <1>5, <1>6, <1>7, <1>8 DEF BridgeInv

\* It implies what the runner relies on.
LEMMA BridgeInvImplies ==
  ASSUME Bridge!BridgeAssumption, BridgeInv
  PROVE  Bridge!BridgeTypeOK /\ Bridge!FileIsCurrent /\ Bridge!NoReadLoop /\ Bridge!NoWorkBeforeApproval /\ Bridge!CleanExitIsPlanned
<1>1. /\ SessionTypes /\ BridgeFlags /\ WindowBooks /\ Bridge!NoReadLoop
      /\ Bridge!FileIsCurrent /\ SessionBooks /\ PlanBooks /\ WaitBooks
  BY DEF BridgeInv
<1>2. Bridge!BridgeTypeOK
  BY <1>1 DEF Bridge!BridgeTypeOK, SessionTypes, BridgeFlags, WindowBooks
<1>3. Bridge!NoWorkBeforeApproval
  BY <1>1 DEF Bridge!NoWorkBeforeApproval, PlanBooks
<1>4. ASSUME exitCode = "zero", enforce, failure = "none", \A c \in Children : pc[c] # "vetoed"
      PROVE  ~planActive /\ autoPlanApprovals > 0 /\ Explored
  <2>1. pc[Lead] = "waiting" /\ notices = {} /\ \A c \in Children : pc[c] \in {"absent", "vetoed", "ended"}
    BY <1>1, <1>4 DEF WaitBooks
  <2>2. Bridge!children \subseteq Children /\ \A c \in Bridge!children : subagentOutcomes[c] = "completed"
    BY <1>1, <1>4, <2>1 DEF SessionBooks, SessionTypes, Bridge!children, Bridge!Session
  <2>3. ~planActive
    BY <1>1, <1>4, <2>1, <2>2 DEF WaitBooks, Bridge!Unreported
  <2>4. autoPlanApprovals > 0 /\ Bridge!children # {}
    BY <1>1, <1>4, <2>1, <2>3 DEF PlanBooks
  <2> QED BY <2>2, <2>3, <2>4 DEF Explored
<1> QED BY <1>1, <1>2, <1>3, <1>4 DEF Bridge!CleanExitIsPlanned, Explored

\* The first failure stands (recordFailure).
LEMMA FailureStep ==
  ASSUME [Bridge!BridgeNext]_(Bridge!bridgeVars)
  PROVE  Bridge!FirstFailureStands
<1> USE DEF Bridge!FirstFailureStands, Bridge!memory, Bridge!recordFailure
<1>1. CASE Bridge!RunSubagent \/ Bridge!RunTool \/ Bridge!Question \/ Bridge!Wake \/ Bridge!Exit
  BY <1>1 DEF Bridge!RunSubagent, Bridge!RunTool, Bridge!Question, Bridge!Approve, Bridge!Wake,
     Bridge!Exit
<1>2. CASE Bridge!TurnStopping
  BY <1>2, TurnStoppingDoes
<1>3. ASSUME NEW s \in Bridge!Session, Bridge!AgentCreated(s) \/ Bridge!AgentVetoed(s) \/ Bridge!PreStep(s) \/ Bridge!Stream(s)
      PROVE  Bridge!FirstFailureStands
  BY <1>3 DEF Bridge!AgentCreated, Bridge!AgentVetoed, Bridge!PreStep, Bridge!Stream
<1>4. ASSUME NEW s \in Bridge!Session, NEW bad \in BadArguments, Bridge!ToolResult(s, bad)
      PROVE  Bridge!FirstFailureStands
  BY <1>4 DEF Bridge!ToolResult
<1>5. ASSUME NEW c \in Children, NEW key \in {"file", Bridge!null}, Bridge!GuardChild(c, key)
      PROVE  Bridge!FirstFailureStands
  BY <1>5 DEF Bridge!GuardChild
<1>6. ASSUME NEW name, Bridge!GuardLead(name) PROVE Bridge!FirstFailureStands
  BY <1>6 DEF Bridge!GuardLead
<1>7. ASSUME NEW c \in Children, Bridge!SubagentEnd(c) PROVE Bridge!FirstFailureStands
  BY <1>7 DEF Bridge!SubagentEnd
<1>8. CASE UNCHANGED Bridge!bridgeVars
  BY <1>8 DEF Bridge!bridgeVars
<1> QED BY <1>1, <1>2, <1>3, <1>4, <1>5, <1>6, <1>7, <1>8 DEF Bridge!BridgeNext

\* A plan is approved after exploration only (the handler of user questions).
LEMMA ApprovalStep ==
  ASSUME BridgeInv, [Bridge!BridgeNext]_(Bridge!bridgeVars)
  PROVE  Bridge!ApprovedAfterExploration
<1> USE DEF Bridge!ApprovedAfterExploration, Bridge!memory
<1>1. CASE Bridge!Question
  BY <1>1 DEF Bridge!Question, Bridge!Approve, BridgeInv, PlanBooks, Explored
<1>2. CASE Bridge!RunSubagent \/ Bridge!RunTool \/ Bridge!TurnStopping \/ Bridge!Wake \/ Bridge!Exit
  BY <1>2 DEF Bridge!RunSubagent, Bridge!RunTool, Bridge!TurnStopping, Bridge!Wake, Bridge!Exit
<1>3. ASSUME NEW s \in Bridge!Session, Bridge!AgentCreated(s) \/ Bridge!AgentVetoed(s) \/ Bridge!PreStep(s) \/ Bridge!Stream(s)
      PROVE  Bridge!ApprovedAfterExploration
  BY <1>3 DEF Bridge!AgentCreated, Bridge!AgentVetoed, Bridge!PreStep, Bridge!Stream
<1>4. ASSUME NEW s \in Bridge!Session, NEW bad \in BadArguments, Bridge!ToolResult(s, bad)
      PROVE  Bridge!ApprovedAfterExploration
  BY <1>4 DEF Bridge!ToolResult
<1>5. ASSUME NEW c \in Children, NEW key \in {"file", Bridge!null}, Bridge!GuardChild(c, key)
      PROVE  Bridge!ApprovedAfterExploration
  BY <1>5 DEF Bridge!GuardChild
<1>6. ASSUME NEW name, Bridge!GuardLead(name) PROVE Bridge!ApprovedAfterExploration
  BY <1>6 DEF Bridge!GuardLead
<1>7. ASSUME NEW c \in Children, Bridge!SubagentEnd(c) PROVE Bridge!ApprovedAfterExploration
  BY <1>7 DEF Bridge!SubagentEnd
<1>8. CASE UNCHANGED Bridge!bridgeVars
  BY <1>8 DEF Bridge!bridgeVars
<1> QED BY <1>1, <1>2, <1>3, <1>4, <1>5, <1>6, <1>7, <1>8 DEF Bridge!BridgeNext

\* The lineage file is current at every moment, no subagent runs the same read
\* REPEAT_LIMIT times in a window, nothing is implemented before a plan is
\* approved, and a clean exit under plan mode is one that explored, for any number
\* of subagents and any limits (the handlers of the AgentBench bridge).
THEOREM BridgeSafe ==
  ASSUME Bridge!BridgeAssumption
  PROVE  /\ Bridge!BridgeInit /\ [][Bridge!BridgeNext]_(Bridge!bridgeVars) => [](Bridge!BridgeTypeOK /\ Bridge!FileIsCurrent /\ Bridge!NoReadLoop)
         /\ Bridge!BridgeInit /\ [][Bridge!BridgeNext]_(Bridge!bridgeVars) => [](Bridge!NoWorkBeforeApproval /\ Bridge!CleanExitIsPlanned)
<1>1. Bridge!BridgeInit => BridgeInv
  BY BridgeInitInv
<1>2. BridgeInv /\ [Bridge!BridgeNext]_(Bridge!bridgeVars) => BridgeInv'
  BY BridgeStep
<1>3. BridgeInv => /\ Bridge!BridgeTypeOK /\ Bridge!FileIsCurrent /\ Bridge!NoReadLoop
                   /\ Bridge!NoWorkBeforeApproval /\ Bridge!CleanExitIsPlanned
  BY BridgeInvImplies
<1> QED BY <1>1, <1>2, <1>3, PTL

-----------------------------------------------------------------------------
(* An experiment of InferRSI.                                              *)

RunStatus == {"completed", "failed", "timeout", "cancelled", "error"}
RunStates == {"completed", "failed", "timeout", "cancelled"}
Early == {"setup", "lock", "lock_candidate"}
Measuring == {"prepare", "wait", "stop", "record"}
Ending == {"finally", "finally_candidate", "publish", "status", "report"}
TrialRecord == [status : RunStatus, metric : BOOLEAN]

\* The types of what run_experiment() keeps.
ExpTypes ==
  /\ pc \in Early \cup Measuring \cup {"decide"} \cup Ending \cup {"over"}
  /\ step \in 0 .. Expt!Validation
  /\ version \in [Expt!Repos -> Nat] /\ locked \in [Expt!Sides -> Nat]
  /\ ran \subseteq Expt!Sides \X Nat
  /\ trials \in [Expt!Sides -> Seq(TrialRecord)]
  /\ validation \in RunStatus \cup {"absent", "skipped"}
  /\ state \in RunStates
  /\ files \in [status : RunStates \cup {"absent", "running"}, verdict : {"absent", "PASS", "FAIL", "INCONCLUSIVE"}]
ExpFlags == clean \in BOOLEAN /\ error \in BOOLEAN

\* A command is in execution exactly where the loop is in execute_command().
RunBooks ==
  /\ run \in [status : RunStatus \cup {"none", "pending"}, equal : BOOLEAN]
  /\ pc = "wait" <=> run.status = "pending"
  /\ pc \in {"stop", "record"} <=> run.status \in RunStatus

\* The processes of a command live while the loop waits for it or stops it.
ProcessBooks ==
  /\ group \subseteq {"helper", "server", "worker"} /\ scan \subseteq {"server", "worker"}
  /\ outside \subseteq {"unkillable"}
  /\ pc \notin {"wait", "stop"} => group = {} /\ report = "none"
  /\ pc = "wait" => "helper" \in group
  /\ (pc = "wait" /\ report # "none") => helper = "stopped"
  /\ (pc = "wait" /\ report = "completed") => group = {"helper"}

\* The number of recorded trials, and how many of m trials are those of a side.
Recorded == Len(trials["baseline"]) + Len(trials["candidate"])
TrialsOf(m, s) == (m \div 2) + (IF m % 2 = 1 /\ s = Expt!SideOf(m) THEN 1 ELSE 0)
AllDone == \A s \in Expt!Sides : \A i \in 1 .. Len(trials[s]) : trials[s][i].status = "completed"

\* The trials are recorded in the order of the steps, and none follows one that
\* did not complete.
PairBooks ==
  /\ Recorded <= Expt!LastTrial
  /\ \A s \in Expt!Sides : Len(trials[s]) = TrialsOf(Recorded, s)
  /\ \A s \in Expt!Sides : \A i \in 1 .. Len(trials[s]) - 1 : trials[s][i].status = "completed"

\* What the records say, stage by stage.
Verdicts == validation = IF HasValidation THEN "completed" ELSE "absent"
StepBooks ==
  /\ pc \in Early => step = 0 /\ Recorded = 0 /\ state = "completed" /\ ~error
  /\ pc \in Measuring =>
       /\ step >= 1 /\ (Recorded = IF step = Expt!Validation THEN Expt!LastTrial ELSE step - 1)
       /\ AllDone /\ state = "completed" /\ ~error
       /\ step = Expt!Validation => HasValidation
  /\ pc = "decide" =>
       /\ step \in 1 .. Expt!LastTrial /\ ~error
       /\ state = "completed" => Recorded = Expt!LastTrial /\ AllDone
       /\ state # "completed" => ~AllDone
  /\ pc \in Early \cup Measuring \cup {"decide"} => validation = "absent"
  /\ pc \in Ending =>
       /\ state = "completed" => Recorded = Expt!LastTrial /\ AllDone /\ Verdicts
       /\ state \in {"timeout", "cancelled"} =>
            error \/ ~AllDone \/ validation \notin {"completed", "failed"}

\* A repository only gets newer; what a side has run is the locked source unless
\* a snapshot has said or will say so.
SourceBooks ==
  /\ \A s \in Expt!Sides : locked[s] <= version[RepoOf[s]]
  /\ \A x \in ran : x[2] <= version[RepoOf[x[1]]]
  /\ pc \in Early => ran = {}
  /\ (pc \notin {"wait", "stop", "record"} /\ clean /\ ~error) => \A x \in ran : x[2] = locked[x[1]]
  /\ (pc \in {"wait", "stop", "record"} /\ clean /\ run.equal) =>
       \A x \in ran : x[2] = locked[x[1]] \/ (x[1] = Expt!Side /\ x[2] > locked[Expt!Side])

\* The files say what the run has come to.
FileBooks ==
  /\ files.verdict # "absent" => pc \in {"status", "report", "over"}
  /\ pc \in {"status", "report"} => files.verdict # "absent"
  /\ files.verdict \in {"PASS", "FAIL"} => clean /\ ~error /\ Expt!Measured /\ validation \in {"completed", "failed"}
  /\ files.status \in RunStates => pc \in {"report", "over"} /\ files.status = state
  /\ pc = "report" => files.status = state
  /\ outcome = "returned" => pc = "over" /\ files.status = state /\ files.verdict # "absent"
  /\ files.status = "completed" => Recorded = Expt!LastTrial /\ Verdicts
  /\ files.status \in {"cancelled", "timeout"} => files.verdict = "INCONCLUSIVE"

ExpInv == ExpTypes /\ ExpFlags /\ RunBooks /\ ProcessBooks /\ PairBooks /\ StepBooks /\ SourceBooks /\ FileBooks

\* The two sides of the sequence.
LEMMA SideIsSide ==
  \A n : Expt!SideOf(n) \in Expt!Sides
BY DEF Expt!SideOf, Expt!Sides

\* The order AB, BA, ...: one more trial is one more of its side.
LEMMA OneMore ==
  ASSUME Expt!ExperimentAssumption, NEW m \in 0 .. Expt!LastTrial - 1, NEW s \in Expt!Sides
  PROVE  TrialsOf(m + 1, s) = TrialsOf(m, s) + (IF s = Expt!SideOf(m + 1) THEN 1 ELSE 0)
<1>0. Repetitions \in Nat /\ Expt!LastTrial = 2 * Repetitions /\ Expt!Validation = Expt!LastTrial + 1 /\ Expt!LastTrial \in Nat
  BY DEF Expt!ExperimentAssumption, Expt!LastTrial, Expt!Validation
<1>1. m \in Nat /\ m # Expt!Validation /\ m + 1 # Expt!Validation
  BY <1>0
<1>2. CASE m % 2 = 0
  <2>1. (m + 1) % 2 = 1 /\ (m + 1) \div 2 = m \div 2
    BY <1>1, <1>2
  <2> QED BY <1>2, <1>1, <2>1 DEF TrialsOf
<1>3. CASE m % 2 = 1
  <2>1. (m + 1) % 2 = 0 /\ (m + 1) \div 2 = (m \div 2) + 1 /\ m \div 2 = (m - 1) \div 2
    BY <1>1, <1>3
  <2>2. (m + 1) - 1 = m
    BY <1>1
  <2>3. Expt!SideOf(m) # Expt!SideOf(m + 1)
    BY <1>1, <1>3, <2>1, <2>2 DEF Expt!SideOf
  <2>4. \A n : Expt!SideOf(n) \in {"baseline", "candidate"}
    BY SideIsSide DEF Expt!Sides
  <2>5. m \div 2 \in Nat
    BY <1>1
  <2> QED BY <1>3, <2>1, <2>3, <2>4, <2>5 DEF TrialsOf, Expt!Sides
<1>4. m % 2 \in {0, 1}
  BY <1>1
<1> QED BY <1>2, <1>3, <1>4

\* Half of the trials are those of one side.
LEMMA AllOfThem ==
  ASSUME Expt!ExperimentAssumption, NEW s \in Expt!Sides
  PROVE  TrialsOf(Expt!LastTrial, s) = Repetitions
BY DEF TrialsOf, Expt!LastTrial, Expt!ExperimentAssumption

\* A snapshot is a Boolean.
LEMMA SnapshotBoolean ==
  \A s : Expt!Equal(s) \subseteq BOOLEAN
BY DEF Expt!Equal

\* A version is a number.
LEMMA VersionNat ==
  ASSUME ExpTypes
  PROVE  Expt!Side \in Expt!Sides /\ \A s \in Expt!Sides : RepoOf[s] \in Expt!Repos /\ version[RepoOf[s]] \in Nat
BY SideIsSide DEF ExpTypes, Expt!Repos, Expt!Side

\* Stages, versions, trials and files keep their types.
LEMMA ExpTypesStep ==
  ASSUME Expt!ExperimentAssumption, ExpTypes, RunBooks, [Expt!ExpNext]_(Expt!expVars)
  PROVE  ExpTypes'
<1> USE DEF Expt!measured, Expt!processVars, Expt!world, ExpTypes, RunBooks, Expt!ExperimentAssumption,
    Expt!LastTrial, Expt!Validation, Early, Measuring, Ending, RunStates, RunStatus
<1>1. CASE Expt!Setup
  BY <1>1 DEF Expt!Setup
<1>2. CASE Expt!LockSources
  <2>1. version[RepoOf["baseline"]] \in Nat /\ version[RepoOf["candidate"]] \in Nat
    BY VersionNat DEF Expt!Sides
  <2>2. locked' \in [Expt!Sides -> Nat]
    BY <1>2, <2>1 DEF Expt!LockSources
  <2>3. files' \in [status : RunStates \cup {"absent", "running"}, verdict : {"absent", "PASS", "FAIL", "INCONCLUSIVE"}]
    BY <1>2 DEF Expt!LockSources, Expt!Running
  <2>4. step' \in 0 .. Expt!Validation
    BY <1>2 DEF Expt!LockSources
  <2> QED BY <1>2, <2>2, <2>3, <2>4 DEF Expt!LockSources

<1>3. CASE Expt!Prepare
  <2>1. <<Expt!Side, version[RepoOf[Expt!Side]]>> \in Expt!Sides \X Nat
    BY VersionNat
  <2>2. ran' \subseteq Expt!Sides \X Nat
    BY <1>3, <2>1 DEF Expt!Prepare
  <2> QED BY <1>3, <2>2 DEF Expt!Prepare, Expt!Running

<1>4. CASE Expt!TimesOut
  BY <1>4 DEF Expt!TimesOut, Expt!WaitEnds
<1>5. CASE Expt!StopTree
  BY <1>5 DEF Expt!StopTree
<1>6. CASE Expt!Record
  <2>1. run.status \in RunStatus
    BY <1>6 DEF Expt!Record
  <2>2. state' \in RunStates
    BY <1>6, <2>1 DEF Expt!Record, Expt!StateAfter
  <2>3. PICK metric \in BOOLEAN :
          IF step = Expt!Validation
          THEN validation' = run.status /\ UNCHANGED trials
          ELSE trials' = [trials EXCEPT ![Expt!Side] = Append(trials[Expt!Side], [status |-> run.status, metric |-> metric])]
               /\ UNCHANGED validation
    BY <1>6 DEF Expt!Record
  <2>4. trials' \in [Expt!Sides -> Seq(TrialRecord)]
    <3>1. [status |-> run.status, metric |-> metric] \in TrialRecord
      BY <2>1 DEF TrialRecord
    <3>2. Append(trials[Expt!Side], [status |-> run.status, metric |-> metric]) \in Seq(TrialRecord)
      BY <3>1, VersionNat
    <3> QED BY <2>3, <3>2
  <2>5. step' \in 0 .. Expt!Validation
    BY <1>6 DEF Expt!Record
  <2> QED BY <1>6, <2>1, <2>2, <2>3, <2>4, <2>5 DEF Expt!Record

<1>7. CASE Expt!Decide
  BY <1>7 DEF Expt!Decide
<1>8. CASE Expt!FinalSnapshots
  BY <1>8 DEF Expt!FinalSnapshots
<1>9. CASE Expt!Evaluate
  <2>1. \A gain : Expt!Verdict(gain) \in {"PASS", "FAIL", "INCONCLUSIVE"}
    BY DEF Expt!Verdict
  <2>2. files' \in [status : RunStates \cup {"absent", "running"}, verdict : {"absent", "PASS", "FAIL", "INCONCLUSIVE"}]
    BY <1>9, <2>1 DEF Expt!Evaluate
  <2> QED BY <1>9, <2>2 DEF Expt!Evaluate

<1>10. CASE Expt!PublishStatus
  BY <1>10 DEF Expt!PublishStatus
<1>11. CASE Expt!WriteReport
  BY <1>11 DEF Expt!WriteReport
<1>12. CASE Expt!HelperExits
  BY <1>12 DEF Expt!HelperExits, Expt!WaitEnds
<1>13. CASE Expt!InterruptedWait
  BY <1>13 DEF Expt!InterruptedWait, Expt!WaitEnds
<1>14. CASE Expt!StopRaises
  BY <1>14 DEF Expt!StopRaises, Expt!NoRun
<1>15. CASE Expt!WriteFails
  BY <1>15 DEF Expt!WriteFails, Expt!Abandon, Expt!Leave
<1>16. CASE Expt!Interrupt
  BY <1>16 DEF Expt!Interrupt, Expt!Abandon, Expt!Leave
<1>17. CASE Expt!LaunchServer
  BY <1>17 DEF Expt!LaunchServer, Expt!HelperOnly
<1>18. CASE Expt!Workers
  BY <1>18 DEF Expt!Workers, Expt!HelperOnly
<1>19. CASE Expt!StopServer
  BY <1>19 DEF Expt!StopServer, Expt!HelperOnly
<1>20. CASE Expt!Expire
  BY <1>20 DEF Expt!Expire
<1>21. ASSUME NEW r \in Expt!Repos, Expt!SourceChanges(r) PROVE ExpTypes'
  <2>1. version' \in [Expt!Repos -> Nat] /\ version'[r] \in Nat
    BY <1>21 DEF Expt!SourceChanges
  <2>2. ran' \subseteq Expt!Sides \X Nat
    BY <1>21, <2>1, VersionNat DEF Expt!SourceChanges
  <2> QED BY <1>21, <2>1, <2>2 DEF Expt!SourceChanges

<1>22. CASE UNCHANGED Expt!expVars
  BY <1>22 DEF Expt!expVars
<1> QED BY <1>1, <1>2, <1>3, <1>4, <1>5, <1>6, <1>7, <1>8, <1>9, <1>10, <1>11, <1>12, <1>13, <1>14,
    <1>15, <1>16, <1>17, <1>18, <1>19, <1>20, <1>21, <1>22 DEF Expt!ExpNext, Expt!Loop

\* So do the flags.
LEMMA ExpFlagsStep ==
  ASSUME Expt!ExperimentAssumption, ExpFlags, RunBooks, [Expt!ExpNext]_(Expt!expVars)
  PROVE  ExpFlags'
<1> USE DEF Expt!measured, Expt!processVars, Expt!world, ExpFlags, RunBooks
<1>1. CASE Expt!Setup
  BY <1>1 DEF Expt!Setup
<1>2. CASE Expt!LockSources
  BY <1>2 DEF Expt!LockSources, Expt!Running
<1>3. CASE Expt!Prepare
  BY <1>3 DEF Expt!Prepare, Expt!Running
<1>4. CASE Expt!TimesOut
  BY <1>4 DEF Expt!TimesOut, Expt!WaitEnds
<1>5. CASE Expt!StopTree
  BY <1>5 DEF Expt!StopTree
<1>6. CASE Expt!Record
  BY <1>6 DEF Expt!Record
<1>7. CASE Expt!Decide
  BY <1>7 DEF Expt!Decide
<1>8. CASE Expt!FinalSnapshots
  BY <1>8 DEF Expt!FinalSnapshots
<1>9. CASE Expt!Evaluate
  BY <1>9 DEF Expt!Evaluate
<1>10. CASE Expt!PublishStatus
  BY <1>10 DEF Expt!PublishStatus
<1>11. CASE Expt!WriteReport
  BY <1>11 DEF Expt!WriteReport
<1>12. CASE Expt!HelperExits
  BY <1>12 DEF Expt!HelperExits, Expt!WaitEnds
<1>13. CASE Expt!InterruptedWait
  BY <1>13 DEF Expt!InterruptedWait, Expt!WaitEnds
<1>14. CASE Expt!StopRaises
  BY <1>14 DEF Expt!StopRaises, Expt!NoRun
<1>15. CASE Expt!WriteFails
  BY <1>15 DEF Expt!WriteFails, Expt!Abandon, Expt!Leave
<1>16. CASE Expt!Interrupt
  BY <1>16 DEF Expt!Interrupt, Expt!Abandon, Expt!Leave
<1>17. CASE Expt!LaunchServer
  BY <1>17 DEF Expt!LaunchServer, Expt!HelperOnly
<1>18. CASE Expt!Workers
  BY <1>18 DEF Expt!Workers, Expt!HelperOnly
<1>19. CASE Expt!StopServer
  BY <1>19 DEF Expt!StopServer, Expt!HelperOnly
<1>20. CASE Expt!Expire
  BY <1>20 DEF Expt!Expire
<1>21. ASSUME NEW r \in Expt!Repos, Expt!SourceChanges(r) PROVE ExpFlags'
  BY <1>21 DEF Expt!SourceChanges
<1>22. CASE UNCHANGED Expt!expVars
  BY <1>22 DEF Expt!expVars
<1> QED BY <1>1, <1>2, <1>3, <1>4, <1>5, <1>6, <1>7, <1>8, <1>9, <1>10, <1>11, <1>12, <1>13, <1>14,
    <1>15, <1>16, <1>17, <1>18, <1>19, <1>20, <1>21, <1>22 DEF Expt!ExpNext, Expt!Loop

\* A command has a status from its start to its record.
LEMMA RunBooksStep ==
  ASSUME Expt!ExperimentAssumption, ExpTypes, RunBooks, [Expt!ExpNext]_(Expt!expVars)
  PROVE  RunBooks'
<1> USE DEF Expt!measured, Expt!processVars, Expt!world, RunBooks, Expt!NoRun, Early, Measuring,
    Ending, RunStates, RunStatus
<1>1. CASE Expt!Setup
  BY <1>1 DEF Expt!Setup
<1>2. CASE Expt!LockSources
  BY <1>2 DEF Expt!LockSources, Expt!Running
<1>3. CASE Expt!Prepare
  <2>1. PICK equal \in Expt!Equal(Expt!Side) :
          \/ run' = [status |-> "pending", equal |-> equal] /\ pc' = "wait"
          \/ run' = [status |-> IF expired THEN "timeout" ELSE "error", equal |-> equal] /\ pc' = "record"
    BY <1>3 DEF Expt!Prepare
  <2>2. equal \in BOOLEAN
    BY SnapshotBoolean
  <2> QED BY <2>1, <2>2

<1>4. CASE Expt!TimesOut
  BY <1>4 DEF Expt!TimesOut, Expt!WaitEnds
<1>5. CASE Expt!StopTree
  BY <1>5 DEF Expt!StopTree
<1>6. CASE Expt!Record
  BY <1>6 DEF Expt!Record
<1>7. CASE Expt!Decide
  BY <1>7 DEF Expt!Decide
<1>8. CASE Expt!FinalSnapshots
  BY <1>8 DEF Expt!FinalSnapshots
<1>9. CASE Expt!Evaluate
  BY <1>9 DEF Expt!Evaluate
<1>10. CASE Expt!PublishStatus
  BY <1>10 DEF Expt!PublishStatus
<1>11. CASE Expt!WriteReport
  BY <1>11 DEF Expt!WriteReport
<1>12. CASE Expt!HelperExits
  BY <1>12 DEF Expt!HelperExits, Expt!WaitEnds
<1>13. CASE Expt!InterruptedWait
  BY <1>13 DEF Expt!InterruptedWait, Expt!WaitEnds
<1>14. CASE Expt!StopRaises
  BY <1>14 DEF Expt!StopRaises, Expt!NoRun
<1>15. CASE Expt!WriteFails
  <2>1. CASE Expt!Leave
    BY <2>1 DEF Expt!Leave
  <2>2. ASSUME NEW s, Expt!Abandon(s) PROVE RunBooks'
    <3>1. run' = Expt!NoRun /\ pc' = "finally"
      BY <2>2 DEF Expt!Abandon
    <3> QED BY <3>1
  <2>3. CASE Expt!WriteFails
    BY <2>1, <2>2, <2>3 DEF Expt!WriteFails
  <2>4. CASE Expt!Interrupt
    BY <2>1, <2>2, <2>4 DEF Expt!Interrupt
  <2> QED BY <1>15, <2>3, <2>4

<1>16. CASE Expt!Interrupt
  <2>1. CASE Expt!Leave
    BY <2>1 DEF Expt!Leave
  <2>2. ASSUME NEW s, Expt!Abandon(s) PROVE RunBooks'
    <3>1. run' = Expt!NoRun /\ pc' = "finally"
      BY <2>2 DEF Expt!Abandon
    <3> QED BY <3>1
  <2>3. CASE Expt!WriteFails
    BY <2>1, <2>2, <2>3 DEF Expt!WriteFails
  <2>4. CASE Expt!Interrupt
    BY <2>1, <2>2, <2>4 DEF Expt!Interrupt
  <2> QED BY <1>16, <2>3, <2>4

<1>17. CASE Expt!LaunchServer
  BY <1>17 DEF Expt!LaunchServer, Expt!HelperOnly
<1>18. CASE Expt!Workers
  BY <1>18 DEF Expt!Workers, Expt!HelperOnly
<1>19. CASE Expt!StopServer
  BY <1>19 DEF Expt!StopServer, Expt!HelperOnly
<1>20. CASE Expt!Expire
  BY <1>20 DEF Expt!Expire
<1>21. ASSUME NEW r \in Expt!Repos, Expt!SourceChanges(r) PROVE RunBooks'
  BY <1>21 DEF Expt!SourceChanges
<1>22. CASE UNCHANGED Expt!expVars
  BY <1>22 DEF Expt!expVars
<1> QED BY <1>1, <1>2, <1>3, <1>4, <1>5, <1>6, <1>7, <1>8, <1>9, <1>10, <1>11, <1>12, <1>13, <1>14,
    <1>15, <1>16, <1>17, <1>18, <1>19, <1>20, <1>21, <1>22 DEF Expt!ExpNext, Expt!Loop

\* The group of a command is killed before its record.
LEMMA ProcessBooksStep ==
  ASSUME Expt!ExperimentAssumption, ProcessBooks, [Expt!ExpNext]_(Expt!expVars)
  PROVE  ProcessBooks'
<1> USE DEF Expt!measured, Expt!processVars, Expt!world, ProcessBooks
<1>1. CASE Expt!Setup
  BY <1>1 DEF Expt!Setup
<1>2. CASE Expt!LockSources
  BY <1>2 DEF Expt!LockSources, Expt!Running
<1>3. CASE Expt!Prepare
  BY <1>3 DEF Expt!Prepare, Expt!Running
<1>4. CASE Expt!TimesOut
  BY <1>4 DEF Expt!TimesOut, Expt!WaitEnds
<1>5. CASE Expt!StopTree
  BY <1>5 DEF Expt!StopTree
<1>6. CASE Expt!Record
  BY <1>6 DEF Expt!Record
<1>7. CASE Expt!Decide
  BY <1>7 DEF Expt!Decide
<1>8. CASE Expt!FinalSnapshots
  BY <1>8 DEF Expt!FinalSnapshots
<1>9. CASE Expt!Evaluate
  BY <1>9 DEF Expt!Evaluate
<1>10. CASE Expt!PublishStatus
  BY <1>10 DEF Expt!PublishStatus
<1>11. CASE Expt!WriteReport
  BY <1>11 DEF Expt!WriteReport
<1>12. CASE Expt!HelperExits
  BY <1>12 DEF Expt!HelperExits, Expt!WaitEnds
<1>13. CASE Expt!InterruptedWait
  BY <1>13 DEF Expt!InterruptedWait, Expt!WaitEnds
<1>14. CASE Expt!StopRaises
  BY <1>14 DEF Expt!StopRaises, Expt!NoRun
<1>15. CASE Expt!WriteFails
  BY <1>15 DEF Expt!WriteFails, Expt!Abandon, Expt!Leave
<1>16. CASE Expt!Interrupt
  BY <1>16 DEF Expt!Interrupt, Expt!Abandon, Expt!Leave
<1>17. CASE Expt!LaunchServer
  BY <1>17 DEF Expt!LaunchServer, Expt!HelperOnly
<1>18. CASE Expt!Workers
  BY <1>18 DEF Expt!Workers, Expt!HelperOnly
<1>19. CASE Expt!StopServer
  BY <1>19 DEF Expt!StopServer, Expt!HelperOnly
<1>20. CASE Expt!Expire
  BY <1>20 DEF Expt!Expire
<1>21. ASSUME NEW r \in Expt!Repos, Expt!SourceChanges(r) PROVE ProcessBooks'
  BY <1>21 DEF Expt!SourceChanges
<1>22. CASE UNCHANGED Expt!expVars
  BY <1>22 DEF Expt!expVars
<1> QED BY <1>1, <1>2, <1>3, <1>4, <1>5, <1>6, <1>7, <1>8, <1>9, <1>10, <1>11, <1>12, <1>13, <1>14,
    <1>15, <1>16, <1>17, <1>18, <1>19, <1>20, <1>21, <1>22 DEF Expt!ExpNext, Expt!Loop

\* Without a new record nothing that is counted changes.
LEMMA SameTrials ==
  ASSUME UNCHANGED trials
  PROVE  Recorded' = Recorded /\ (AllDone' <=> AllDone) /\ (PairBooks' <=> PairBooks) /\ (Expt!Measured' <=> Expt!Measured)
<1>1. Recorded' = Recorded
  BY DEF Recorded
<1>2. AllDone' <=> AllDone
  BY DEF AllDone
<1>3. Expt!Measured' <=> Expt!Measured
  BY DEF Expt!Measured
<1>4. PairBooks' <=> PairBooks
  BY <1>1 DEF PairBooks
<1> QED BY <1>1, <1>2, <1>3, <1>4

\* One side more is one trial more.
LEMMA SumOne ==
  \A a, b \in Nat : a + b \in Nat /\ (a + 1) + b = (a + b) + 1 /\ a + (b + 1) = (a + b) + 1
OBVIOUS

\* A record of the validation, or of the trial that is due.
LEMMA RecordDoes ==
  ASSUME Expt!ExperimentAssumption, ExpTypes, RunBooks, StepBooks, Expt!Record
  PROVE  /\ run.status \in RunStatus /\ state' = Expt!StateAfter(run.status)
         /\ \/ /\ step = Expt!Validation /\ pc' = "finally" /\ ~error'
               /\ validation' = run.status /\ UNCHANGED <<trials, step>>
            \/ /\ step \in 1 .. Expt!LastTrial /\ Recorded' = step /\ UNCHANGED validation
               /\ error' <=> run.status = "cancelled"
               /\ AllDone' <=> run.status = "completed"
               /\ Len(trials'[Expt!Side]) = Len(trials[Expt!Side]) + 1
               /\ \A i \in 1 .. Len(trials[Expt!Side]) : trials'[Expt!Side][i] = trials[Expt!Side][i]
               /\ \A s \in Expt!Sides \ {Expt!Side} : trials'[s] = trials[s]
               /\ \/ run.status = "completed" /\ step < Expt!LastTrial /\ step' = step + 1 /\ pc' = "prepare"
                  \/ error' /\ step' = step /\ pc' = "finally"
                  \/ /\ ~error' /\ (run.status = "completed" => step = Expt!LastTrial)
                     /\ step' = step /\ pc' = "decide"
<1>0. Repetitions \in Nat \ {0} /\ Expt!LastTrial = 2 * Repetitions /\ Expt!LastTrial \in Nat /\ Expt!Validation = Expt!LastTrial + 1
  BY DEF Expt!ExperimentAssumption, Expt!LastTrial, Expt!Validation
<1>1. pc = "record" /\ run.status \in RunStatus /\ step \in 0 .. Expt!Validation
  BY DEF Expt!Record, RunBooks, ExpTypes
<1>2. AllDone /\ step >= 1 /\ (Recorded = IF step = Expt!Validation THEN Expt!LastTrial ELSE step - 1)
  BY <1>1 DEF StepBooks, Measuring
<1>3. /\ state' = Expt!StateAfter(run.status) /\ error' = (step # Expt!Validation /\ run.status = "cancelled")
      /\ step' = (IF run.status = "completed" /\ step < Expt!LastTrial THEN step + 1 ELSE step)
      /\ pc' = (IF step' # step THEN "prepare" ELSE IF step = Expt!Validation \/ error' THEN "finally" ELSE "decide")
  BY DEF Expt!Record
<1>4. PICK metric \in BOOLEAN :
        IF step = Expt!Validation
        THEN validation' = run.status /\ UNCHANGED trials
        ELSE trials' = [trials EXCEPT ![Expt!Side] = Append(trials[Expt!Side], [status |-> run.status, metric |-> metric])]
             /\ UNCHANGED validation
  BY DEF Expt!Record
<1>5. CASE step = Expt!Validation
  <2>1. step' = step /\ validation' = run.status /\ UNCHANGED trials
    BY <1>0, <1>3, <1>4, <1>5
  <2>2. ~error' /\ pc' = "finally"
    BY <1>3, <1>5, <2>1
  <2> QED BY <1>1, <1>3, <1>5, <2>1, <2>2
<1>6. CASE step # Expt!Validation
  <2> DEFINE rec == [status |-> run.status, metric |-> metric]
  <2>1. step \in 1 .. Expt!LastTrial /\ Recorded = step - 1 /\ (error' <=> run.status = "cancelled")
    <3>1. step \in 1 .. Expt!LastTrial
      BY <1>0, <1>1, <1>2, <1>6
    <3>2. error' <=> run.status = "cancelled"
      BY <1>3, <1>6
    <3> QED BY <1>2, <1>6, <3>1, <3>2
  <2>2. rec.status = run.status /\ rec \in TrialRecord
    BY <1>1 DEF TrialRecord
  <2> HIDE DEF rec
  <2>3. trials' = [trials EXCEPT ![Expt!Side] = Append(trials[Expt!Side], rec)] /\ UNCHANGED validation
    BY <1>4, <1>6 DEF rec
  <2>4. Expt!Side \in Expt!Sides /\ \A s \in Expt!Sides : trials[s] \in Seq(TrialRecord)
    BY VersionNat DEF ExpTypes
  <2>5. trials \in [Expt!Sides -> Seq(TrialRecord)]
    BY DEF ExpTypes
  <2>6. \A s \in Expt!Sides : trials'[s] = IF s = Expt!Side THEN Append(trials[Expt!Side], rec) ELSE trials[s]
    BY <2>3, <2>4, <2>5
  <2>7. /\ Len(trials'[Expt!Side]) = Len(trials[Expt!Side]) + 1 /\ trials'[Expt!Side][Len(trials[Expt!Side]) + 1] = rec
        /\ \A i \in 1 .. Len(trials[Expt!Side]) : trials'[Expt!Side][i] = trials[Expt!Side][i]
        /\ \A s \in Expt!Sides \ {Expt!Side} : trials'[s] = trials[s]
    <3>1. trials'[Expt!Side] = Append(trials[Expt!Side], rec) /\ \A s \in Expt!Sides \ {Expt!Side} : trials'[s] = trials[s]
      BY <2>4, <2>6
    <3> QED BY <2>2, <2>4, <3>1
  <2>8. Recorded' = step
    <3>1. Len(trials["baseline"]) \in Nat /\ Len(trials["candidate"]) \in Nat
      BY <2>4 DEF Expt!Sides
    <3>2. CASE Expt!Side = "baseline"
      <4>1. Len(trials'["baseline"]) = Len(trials["baseline"]) + 1 /\ Len(trials'["candidate"]) = Len(trials["candidate"])
        BY <2>7, <3>1, <3>2 DEF Expt!Sides
      <4> DEFINE b == Len(trials["baseline"])
                 c == Len(trials["candidate"])
                 b2 == Len(trials'["baseline"])
                 c2 == Len(trials'["candidate"])
      <4>2. b2 + c2 = (b + c) + 1
        <5>1. b \in Nat /\ c \in Nat /\ b2 = b + 1 /\ c2 = c
          BY <3>1, <4>1
        <5> HIDE DEF b, c, b2, c2
        <5> QED BY <5>1
      <4>3. Recorded' = Recorded + 1
        BY <4>2 DEF Recorded
      <4> QED BY <1>0, <2>1, <4>3
    <3>3. CASE Expt!Side = "candidate"
      <4>1. Len(trials'["baseline"]) = Len(trials["baseline"]) /\ Len(trials'["candidate"]) = Len(trials["candidate"]) + 1
        BY <2>7, <3>1, <3>3 DEF Expt!Sides
      <4> DEFINE b == Len(trials["baseline"])
                 c == Len(trials["candidate"])
                 b2 == Len(trials'["baseline"])
                 c2 == Len(trials'["candidate"])
      <4>2. b2 + c2 = (b + c) + 1
        <5>1. b \in Nat /\ c \in Nat /\ b2 = b /\ c2 = c + 1
          BY <3>1, <4>1
        <5> HIDE DEF b, c, b2, c2
        <5> QED BY <5>1
      <4>3. Recorded' = Recorded + 1
        BY <4>2 DEF Recorded
      <4> QED BY <1>0, <2>1, <4>3
    <3> QED BY <2>4, <3>2, <3>3 DEF Expt!Sides
  <2>9. AllDone' <=> run.status = "completed"
    <3>1. ASSUME AllDone' PROVE run.status = "completed"
      <4>1. Len(trials[Expt!Side]) \in Nat
        BY <2>4
      <4>2. Len(trials[Expt!Side]) + 1 \in 1 .. Len(trials'[Expt!Side])
        BY <2>7, <4>1
      <4> QED BY <2>2, <2>4, <2>7, <3>1, <4>2 DEF AllDone
    <3>2. ASSUME run.status = "completed", NEW s \in Expt!Sides, NEW i \in 1 .. Len(trials'[s])
          PROVE  trials'[s][i].status = "completed"
      <4>1. CASE i \in 1 .. Len(trials[s])
        <5>1. trials'[s][i] = trials[s][i]
          BY <2>7, <4>1
        <5> QED BY <1>2, <4>1, <5>1 DEF AllDone
      <4>2. CASE i \notin 1 .. Len(trials[s])
        <5>0. s = Expt!Side
          BY <2>7, <3>2, <4>2
        <5>1. Len(trials[Expt!Side]) \in Nat
          BY <2>4
        <5>2. i = Len(trials[Expt!Side]) + 1
          BY <2>7, <3>2, <4>2, <5>0, <5>1
        <5> QED BY <2>2, <2>7, <3>2, <5>0, <5>2
      <4> QED BY <4>1, <4>2
    <3> QED BY <3>1, <3>2 DEF AllDone
  <2>10. \/ run.status = "completed" /\ step < Expt!LastTrial /\ step' = step + 1 /\ pc' = "prepare"
         \/ error' /\ step' = step /\ pc' = "finally"
         \/ /\ ~error' /\ (run.status = "completed" => step = Expt!LastTrial)
            /\ step' = step /\ pc' = "decide"
    <3>1. CASE run.status = "completed" /\ step < Expt!LastTrial
      BY <1>3, <2>1, <3>1
    <3>2. CASE ~(run.status = "completed" /\ step < Expt!LastTrial)
      <4>1. step' = step
        BY <1>3, <3>2
      <4>2. run.status = "completed" => step = Expt!LastTrial
        BY <1>0, <2>1, <3>2
      <4>3. CASE error'
        BY <1>3, <4>1, <4>3
      <4>4. CASE ~error'
        BY <1>3, <1>6, <4>1, <4>2, <4>4
      <4> QED BY <4>3, <4>4
    <3> QED BY <3>1, <3>2
  <2> QED BY <1>1, <1>3, <2>1, <2>3, <2>7, <2>8, <2>9, <2>10
<1> QED BY <1>5, <1>6

\* The trials stay paired.
LEMMA PairBooksStep ==
  ASSUME Expt!ExperimentAssumption, ExpTypes, RunBooks, StepBooks, PairBooks,
         [Expt!ExpNext]_(Expt!expVars)
  PROVE  PairBooks'
<1> USE DEF Expt!measured, Expt!processVars, Expt!world
<1>1. CASE Expt!Setup
  BY <1>1, SameTrials DEF Expt!Setup
<1>2. CASE Expt!LockSources
  BY <1>2, SameTrials DEF Expt!LockSources, Expt!Running
<1>3. CASE Expt!Prepare
  BY <1>3, SameTrials DEF Expt!Prepare, Expt!Running
<1>4. CASE Expt!TimesOut
  BY <1>4, SameTrials DEF Expt!TimesOut, Expt!WaitEnds
<1>5. CASE Expt!StopTree
  BY <1>5, SameTrials DEF Expt!StopTree
<1>6. CASE Expt!Record
  <2>1. CASE UNCHANGED trials
    BY <2>1, SameTrials
  <2>2. CASE /\ step \in 1 .. Expt!LastTrial /\ Recorded' = step
             /\ Len(trials'[Expt!Side]) = Len(trials[Expt!Side]) + 1
             /\ \A i \in 1 .. Len(trials[Expt!Side]) : trials'[Expt!Side][i] = trials[Expt!Side][i]
             /\ \A s \in Expt!Sides \ {Expt!Side} : trials'[s] = trials[s]
    <3>1. pc = "record" /\ step # Expt!Validation /\ Expt!LastTrial \in Nat
      BY <1>6, <2>2 DEF Expt!Record, Expt!LastTrial, Expt!Validation, Expt!ExperimentAssumption
    <3>2. AllDone /\ Recorded = step - 1 /\ step - 1 \in 0 .. Expt!LastTrial - 1 /\ (step - 1) + 1 = step
      BY <2>2, <3>1 DEF StepBooks, Measuring
    <3>3. Expt!Side \in Expt!Sides /\ \A s \in Expt!Sides : Len(trials[s]) \in Nat
      BY VersionNat DEF ExpTypes
    <3>4. ASSUME NEW s \in Expt!Sides PROVE Len(trials'[s]) = TrialsOf(Recorded', s)
      <4>1. TrialsOf((step - 1) + 1, s) = TrialsOf(step - 1, s) + (IF s = Expt!SideOf((step - 1) + 1) THEN 1 ELSE 0)
        BY <3>2, OneMore
      <4>2. Len(trials[s]) = TrialsOf(step - 1, s) /\ Recorded' = step
        BY <2>2, <3>2 DEF PairBooks
      <4>3. CASE s = Expt!Side
        BY <2>2, <3>2, <4>1, <4>2, <4>3 DEF Expt!Side
      <4>4. CASE s # Expt!Side
        <5>1. trials'[s] = trials[s]
          BY <2>2, <4>4
        <5>2. TrialsOf(step, s) = TrialsOf(step - 1, s)
          BY <3>2, <3>3, <4>1, <4>2, <4>4 DEF Expt!Side
        <5> QED BY <4>2, <5>1, <5>2
      <4> QED BY <4>3, <4>4
    <3>5. ASSUME NEW s \in Expt!Sides, NEW i \in 1 .. Len(trials'[s]) - 1
          PROVE  trials'[s][i].status = "completed"
      <4>1. CASE s = Expt!Side
        <5>1. i \in 1 .. Len(trials[Expt!Side])
          BY <2>2, <3>3, <3>5, <4>1
        <5> QED BY <2>2, <3>2, <4>1, <5>1 DEF AllDone
      <4>2. CASE s # Expt!Side
        <5>1. trials'[s] = trials[s] /\ i \in 1 .. Len(trials[s])
          BY <2>2, <3>3, <3>5, <4>2
        <5> QED BY <3>2, <5>1 DEF AllDone
      <4> QED BY <4>1, <4>2
    <3> QED BY <2>2, <3>1, <3>4, <3>5 DEF PairBooks
  <2> QED BY <1>6, <2>1, <2>2, RecordDoes

<1>7. CASE Expt!Decide
  BY <1>7, SameTrials DEF Expt!Decide
<1>8. CASE Expt!FinalSnapshots
  BY <1>8, SameTrials DEF Expt!FinalSnapshots
<1>9. CASE Expt!Evaluate
  BY <1>9, SameTrials DEF Expt!Evaluate
<1>10. CASE Expt!PublishStatus
  BY <1>10, SameTrials DEF Expt!PublishStatus
<1>11. CASE Expt!WriteReport
  BY <1>11, SameTrials DEF Expt!WriteReport
<1>12. CASE Expt!HelperExits
  BY <1>12, SameTrials DEF Expt!HelperExits, Expt!WaitEnds
<1>13. CASE Expt!InterruptedWait
  BY <1>13, SameTrials DEF Expt!InterruptedWait, Expt!WaitEnds
<1>14. CASE Expt!StopRaises
  BY <1>14, SameTrials DEF Expt!StopRaises, Expt!NoRun
<1>15. CASE Expt!WriteFails
  BY <1>15, SameTrials DEF Expt!WriteFails, Expt!Abandon, Expt!Leave
<1>16. CASE Expt!Interrupt
  BY <1>16, SameTrials DEF Expt!Interrupt, Expt!Abandon, Expt!Leave
<1>17. CASE Expt!LaunchServer
  BY <1>17, SameTrials DEF Expt!LaunchServer, Expt!HelperOnly
<1>18. CASE Expt!Workers
  BY <1>18, SameTrials DEF Expt!Workers, Expt!HelperOnly
<1>19. CASE Expt!StopServer
  BY <1>19, SameTrials DEF Expt!StopServer, Expt!HelperOnly
<1>20. CASE Expt!Expire
  BY <1>20, SameTrials DEF Expt!Expire
<1>21. ASSUME NEW r \in Expt!Repos, Expt!SourceChanges(r) PROVE PairBooks'
  BY <1>21, SameTrials DEF Expt!SourceChanges
<1>22. CASE UNCHANGED Expt!expVars
  BY <1>22, SameTrials DEF Expt!expVars
<1> QED BY <1>1, <1>2, <1>3, <1>4, <1>5, <1>6, <1>7, <1>8, <1>9, <1>10, <1>11, <1>12, <1>13, <1>14,
    <1>15, <1>16, <1>17, <1>18, <1>19, <1>20, <1>21, <1>22 DEF Expt!ExpNext, Expt!Loop

\* The state of the run agrees with the records.
LEMMA StepBooksStep ==
  ASSUME Expt!ExperimentAssumption, ExpTypes, RunBooks, StepBooks, PairBooks,
         [Expt!ExpNext]_(Expt!expVars)
  PROVE  StepBooks'
<1> USE DEF Expt!measured, Expt!processVars, Expt!world, ExpTypes, StepBooks, Verdicts,
    Expt!ExperimentAssumption, Early, Measuring, Ending, RunStates, RunStatus
<1>1. CASE Expt!Setup
  BY <1>1, SameTrials DEF Expt!Setup
<1>2. CASE Expt!LockSources
  <2>0. Repetitions \in Nat \ {0} /\ Expt!LastTrial = 2 * Repetitions /\ Expt!LastTrial \in Nat /\ Expt!Validation = Expt!LastTrial + 1
    BY DEF Expt!LastTrial, Expt!Validation
  <2>1. Recorded' = Recorded /\ (AllDone' <=> AllDone)
    BY <1>2, SameTrials DEF Expt!LockSources
  <2>2. Recorded = 0 => AllDone
    <3>1. Len(trials["baseline"]) \in Nat /\ Len(trials["candidate"]) \in Nat
      BY DEF Expt!Sides
    <3> QED BY <3>1 DEF Recorded, AllDone, Expt!Sides
  <2> QED BY <1>2, <2>0, <2>1, <2>2 DEF Expt!LockSources

<1>3. CASE Expt!Prepare
  BY <1>3, SameTrials DEF Expt!Prepare, Expt!Running
<1>4. CASE Expt!TimesOut
  BY <1>4, SameTrials DEF Expt!TimesOut, Expt!WaitEnds
<1>5. CASE Expt!StopTree
  BY <1>5, SameTrials DEF Expt!StopTree
<1>6. CASE Expt!Record
  <2>0. Repetitions \in Nat \ {0} /\ Expt!LastTrial = 2 * Repetitions /\ Expt!LastTrial \in Nat /\ Expt!Validation = Expt!LastTrial + 1
    BY DEF Expt!LastTrial, Expt!Validation
  <2>1. pc = "record" /\ validation = "absent" /\ (step = Expt!Validation => HasValidation /\ Recorded = Expt!LastTrial /\ AllDone)
    BY <1>6 DEF Expt!Record
  <2>2. state' = Expt!StateAfter(run.status) /\ run.status \in RunStatus
    BY <1>6, RecordDoes
  <2>3. CASE /\ step = Expt!Validation /\ pc' = "finally" /\ ~error'
             /\ validation' = run.status /\ UNCHANGED <<trials, step>>
    <3>1. Recorded' = Expt!LastTrial /\ AllDone' /\ HasValidation
      BY <2>1, <2>3, SameTrials
    <3> QED BY <2>2, <2>3, <3>1 DEF Expt!StateAfter
  <2>4. CASE /\ step \in 1 .. Expt!LastTrial /\ Recorded' = step /\ UNCHANGED validation
             /\ error' <=> run.status = "cancelled"
             /\ AllDone' <=> run.status = "completed"
             /\ \/ run.status = "completed" /\ step < Expt!LastTrial /\ step' = step + 1 /\ pc' = "prepare"
                \/ error' /\ step' = step /\ pc' = "finally"
                \/ /\ ~error' /\ (run.status = "completed" => step = Expt!LastTrial)
                   /\ step' = step /\ pc' = "decide"
    <3>1. CASE run.status = "completed" /\ step < Expt!LastTrial /\ step' = step + 1 /\ pc' = "prepare"
      BY <2>0, <2>1, <2>2, <2>4, <3>1 DEF Expt!StateAfter
    <3>2. CASE error' /\ step' = step /\ pc' = "finally"
      BY <2>0, <2>1, <2>2, <2>4, <3>2 DEF Expt!StateAfter
    <3>3. CASE ~error' /\ (run.status = "completed" => step = Expt!LastTrial) /\ step' = step /\ pc' = "decide"
      BY <2>0, <2>1, <2>2, <2>4, <3>3 DEF Expt!StateAfter
    <3> QED BY <2>4, <3>1, <3>2, <3>3
  <2> QED BY <1>6, <2>3, <2>4, RecordDoes

<1>7. CASE Expt!Decide
  <2>0. Repetitions \in Nat \ {0} /\ Expt!LastTrial = 2 * Repetitions /\ Expt!LastTrial \in Nat /\ Expt!Validation = Expt!LastTrial + 1
    BY DEF Expt!LastTrial, Expt!Validation
  <2>1. Recorded' = Recorded /\ (AllDone' <=> AllDone) /\ UNCHANGED <<state, error>> /\ pc = "decide"
    BY <1>7, SameTrials DEF Expt!Decide
  <2>2. CASE HasValidation /\ state = "completed"
    BY <1>7, <2>0, <2>1, <2>2 DEF Expt!Decide
  <2>3. CASE ~(HasValidation /\ state = "completed")
    <3>1. pc' = "finally" /\ UNCHANGED step /\ (validation' = IF HasValidation THEN "skipped" ELSE "absent")
      BY <1>7, <2>1, <2>3 DEF Expt!Decide
    <3> QED BY <2>1, <2>3, <3>1
  <2> QED BY <2>2, <2>3

<1>8. CASE Expt!FinalSnapshots
  BY <1>8, SameTrials DEF Expt!FinalSnapshots
<1>9. CASE Expt!Evaluate
  BY <1>9, SameTrials DEF Expt!Evaluate
<1>10. CASE Expt!PublishStatus
  BY <1>10, SameTrials DEF Expt!PublishStatus
<1>11. CASE Expt!WriteReport
  BY <1>11, SameTrials DEF Expt!WriteReport
<1>12. CASE Expt!HelperExits
  BY <1>12, SameTrials DEF Expt!HelperExits, Expt!WaitEnds
<1>13. CASE Expt!InterruptedWait
  BY <1>13, SameTrials DEF Expt!InterruptedWait, Expt!WaitEnds
<1>14. CASE Expt!StopRaises
  BY <1>14, SameTrials DEF Expt!StopRaises, Expt!NoRun
<1>15. CASE Expt!WriteFails
  BY <1>15, SameTrials DEF Expt!WriteFails, Expt!Abandon, Expt!Leave
<1>16. CASE Expt!Interrupt
  BY <1>16, SameTrials DEF Expt!Interrupt, Expt!Abandon, Expt!Leave
<1>17. CASE Expt!LaunchServer
  BY <1>17, SameTrials DEF Expt!LaunchServer, Expt!HelperOnly
<1>18. CASE Expt!Workers
  BY <1>18, SameTrials DEF Expt!Workers, Expt!HelperOnly
<1>19. CASE Expt!StopServer
  BY <1>19, SameTrials DEF Expt!StopServer, Expt!HelperOnly
<1>20. CASE Expt!Expire
  BY <1>20, SameTrials DEF Expt!Expire
<1>21. ASSUME NEW r \in Expt!Repos, Expt!SourceChanges(r) PROVE StepBooks'
  BY <1>21, SameTrials DEF Expt!SourceChanges
<1>22. CASE UNCHANGED Expt!expVars
  BY <1>22, SameTrials DEF Expt!expVars
<1> QED BY <1>1, <1>2, <1>3, <1>4, <1>5, <1>6, <1>7, <1>8, <1>9, <1>10, <1>11, <1>12, <1>13, <1>14,
    <1>15, <1>16, <1>17, <1>18, <1>19, <1>20, <1>21, <1>22 DEF Expt!ExpNext, Expt!Loop

\* A change of the source under a command shows in the snapshots around it.
LEMMA SourceBooksStep ==
  ASSUME Expt!ExperimentAssumption, ExpTypes, ExpFlags, RunBooks, ProcessBooks, StepBooks, SourceBooks,
         [Expt!ExpNext]_(Expt!expVars)
  PROVE  SourceBooks'
<1> USE DEF Expt!measured, Expt!processVars, Expt!world, ExpTypes, ExpFlags, SourceBooks, Early,
    Measuring, Ending
<1>1. CASE Expt!Setup
  BY <1>1 DEF Expt!Setup
<1>2. CASE Expt!LockSources
  <2>1. ran = {} /\ UNCHANGED <<version, ran>> /\ pc' \in {"lock_candidate", "prepare"}
    BY <1>2 DEF Expt!LockSources
  <2>2. \A s \in Expt!Sides : locked'[s] = locked[s] \/ locked'[s] = version[RepoOf[s]]
    BY <1>2 DEF Expt!LockSources
  <2>3. \A s \in Expt!Sides : locked'[s] <= version'[RepoOf[s]]
    <3> SUFFICES ASSUME NEW s \in Expt!Sides PROVE locked'[s] <= version'[RepoOf[s]]
      OBVIOUS
    <3>1. version' = version /\ version[RepoOf[s]] \in Nat /\ locked[s] <= version[RepoOf[s]]
      BY <2>1, VersionNat
    <3>2. CASE locked'[s] = locked[s]
      BY <3>1, <3>2
    <3>3. CASE locked'[s] = version[RepoOf[s]]
      <4>1. version[RepoOf[s]] <= version[RepoOf[s]]
        BY <3>1
      <4> QED BY <3>1, <3>3, <4>1
    <3> QED BY <2>2, <3>2, <3>3
  <2> QED BY <2>1, <2>3

<1>3. CASE Expt!Prepare
  <2>0. pc = "prepare" /\ ~error /\ UNCHANGED <<version, locked, clean, step, error>> /\ pc' \in {"wait", "record"}
    BY <1>3 DEF Expt!Prepare, StepBooks
  <2>1. Expt!Side \in Expt!Sides /\ version[RepoOf[Expt!Side]] \in Nat
    BY VersionNat
  <2>2. ran' = ran \/ ran' = ran \cup {<<Expt!Side, version[RepoOf[Expt!Side]]>>}
    BY <1>3 DEF Expt!Prepare
  <2>3. clean /\ run'.equal => version[RepoOf[Expt!Side]] = locked[Expt!Side]
    <3>1. PICK equal \in Expt!Equal(Expt!Side) : \E z : run' = [status |-> z, equal |-> equal]
      BY <1>3 DEF Expt!Prepare
    <3>2. run'.equal = equal
      BY <3>1
    <3>3. equal => version[RepoOf[Expt!Side]] = locked[Expt!Side]
      BY DEF Expt!Equal
    <3> QED BY <3>2, <3>3
  <2>4. \A x \in ran' : x[2] <= version'[RepoOf[x[1]]]
    BY <2>0, <2>1, <2>2
  <2>5. ASSUME clean, run'.equal, NEW x \in ran' PROVE x[2] = locked[x[1]]
    <3>1. CASE x \in ran
      BY <2>0, <2>5, <3>1
    <3>2. CASE x = <<Expt!Side, version[RepoOf[Expt!Side]]>>
      BY <2>3, <2>5, <3>2
    <3> QED BY <2>2, <3>1, <3>2
  <2> QED BY <2>0, <2>4, <2>5

<1>4. CASE Expt!TimesOut
  BY <1>4 DEF Expt!TimesOut, Expt!WaitEnds, Expt!Side, RunBooks
<1>5. CASE Expt!StopTree
  BY <1>5 DEF Expt!StopTree, RunBooks, RunStatus, Expt!Side
<1>6. CASE Expt!Record
  <2>0. pc = "record" /\ UNCHANGED <<version, ran, locked>> /\ pc' \in {"prepare", "finally", "decide"}
    BY <1>6 DEF Expt!Record
  <2>1. PICK equal \in Expt!Equal(Expt!Side) : clean' = (clean /\ run.equal /\ equal)
    BY <1>6 DEF Expt!Record
  <2>2. ASSUME clean', NEW x \in ran PROVE x[2] = locked[x[1]]
    <3>1. clean /\ run.equal /\ version[RepoOf[Expt!Side]] = locked[Expt!Side]
      BY <2>1, <2>2 DEF Expt!Equal
    <3>2. x[2] \in Nat /\ locked[Expt!Side] \in Nat /\ x[2] <= version[RepoOf[x[1]]] /\ Expt!Side \in Expt!Sides
      BY VersionNat
    <3>3. x[2] = locked[x[1]] \/ (x[1] = Expt!Side /\ x[2] > locked[Expt!Side])
      BY <2>0, <3>1
    <3> QED BY <3>1, <3>2, <3>3
  <2> QED BY <2>0, <2>2

<1>7. CASE Expt!Decide
  BY <1>7 DEF Expt!Decide
<1>8. CASE Expt!FinalSnapshots
  BY <1>8 DEF Expt!FinalSnapshots
<1>9. CASE Expt!Evaluate
  BY <1>9 DEF Expt!Evaluate
<1>10. CASE Expt!PublishStatus
  BY <1>10 DEF Expt!PublishStatus
<1>11. CASE Expt!WriteReport
  BY <1>11 DEF Expt!WriteReport
<1>12. CASE Expt!HelperExits
  BY <1>12 DEF Expt!HelperExits, Expt!WaitEnds, Expt!Side, RunBooks
<1>13. CASE Expt!InterruptedWait
  BY <1>13 DEF Expt!InterruptedWait, Expt!WaitEnds, Expt!Side, RunBooks
<1>14. CASE Expt!StopRaises
  BY <1>14 DEF Expt!StopRaises, Expt!NoRun
<1>15. CASE Expt!WriteFails
  BY <1>15 DEF Expt!WriteFails, Expt!Abandon, Expt!Leave
<1>16. CASE Expt!Interrupt
  BY <1>16 DEF Expt!Interrupt, Expt!Abandon, Expt!Leave
<1>17. CASE Expt!LaunchServer
  BY <1>17 DEF Expt!LaunchServer, Expt!HelperOnly, Expt!Side
<1>18. CASE Expt!Workers
  BY <1>18 DEF Expt!Workers, Expt!HelperOnly, Expt!Side
<1>19. CASE Expt!StopServer
  BY <1>19 DEF Expt!StopServer, Expt!HelperOnly, Expt!Side
<1>20. CASE Expt!Expire
  BY <1>20 DEF Expt!Expire, Expt!Side
<1>21. ASSUME NEW r \in Expt!Repos, Expt!SourceChanges(r) PROVE SourceBooks'
  <2>0. UNCHANGED <<pc, locked, clean, error, run, step>> /\ pc # "over"
    BY <1>21 DEF Expt!SourceChanges
  <2>1. version' = [version EXCEPT ![r] = version[r] + 1] /\ version[r] \in Nat
    BY <1>21 DEF Expt!SourceChanges
  <2>2. \A q \in Expt!Repos : version'[q] \in Nat /\ version[q] <= version'[q] /\ (q = r => version'[q] = version[q] + 1)
    BY <2>1
  <2>3. \A s \in Expt!Sides : RepoOf[s] \in Expt!Repos /\ version[RepoOf[s]] \in Nat /\ locked[s] \in Nat
    BY VersionNat
  <2>4. \A s \in Expt!Sides : locked[s] <= version'[RepoOf[s]]
    BY <2>2, <2>3
  <2>5. \A x \in ran : x[1] \in Expt!Sides /\ x[2] \in Nat /\ x[2] <= version'[RepoOf[x[1]]]
    <3> SUFFICES ASSUME NEW x \in ran PROVE x[1] \in Expt!Sides /\ x[2] \in Nat /\ x[2] <= version'[RepoOf[x[1]]]
      OBVIOUS
    <3>1. x[1] \in Expt!Sides /\ x[2] \in Nat /\ x[2] <= version[RepoOf[x[1]]]
      OBVIOUS
    <3> QED BY <2>2, <2>3, <3>1
  <2>9. Expt!Side' = Expt!Side
    BY <2>0 DEF Expt!Side
  <2>6. CASE ran' = ran
    BY <2>0, <2>4, <2>5, <2>6, <2>9
  <2>7. CASE ran' # ran
    <3>1. ran' = ran \cup {<<Expt!Side, version'[r]>>} /\ group # {} /\ RepoOf[Expt!Side] = r
      BY <1>21, <2>7 DEF Expt!SourceChanges
    <3>2. pc \in {"wait", "stop"} /\ pc' \in {"wait", "stop"}
      BY <2>0, <3>1 DEF ProcessBooks
    <3>3. Expt!Side \in Expt!Sides /\ version'[r] > locked[Expt!Side] /\ version'[r] \in Nat
      BY <2>2, <2>3, <3>1, VersionNat
    <3>4. \A x \in ran' : x[2] <= version'[RepoOf[x[1]]]
      BY <2>5, <3>1, <3>3
    <3>5. ASSUME clean, run.equal, NEW x \in ran'
          PROVE  x[2] = locked[x[1]] \/ (x[1] = Expt!Side /\ x[2] > locked[Expt!Side])
      <4>1. CASE x \in ran
        BY <3>2, <3>5, <4>1
      <4>2. CASE x = <<Expt!Side, version'[r]>>
        BY <3>3, <4>2
      <4> QED BY <3>1, <4>1, <4>2
    <3> QED BY <2>0, <2>4, <2>9, <3>2, <3>4, <3>5
  <2> QED BY <2>6, <2>7

<1>22. CASE UNCHANGED Expt!expVars
  BY <1>22 DEF Expt!expVars, Expt!Side
<1> QED BY <1>1, <1>2, <1>3, <1>4, <1>5, <1>6, <1>7, <1>8, <1>9, <1>10, <1>11, <1>12, <1>13, <1>14,
    <1>15, <1>16, <1>17, <1>18, <1>19, <1>20, <1>21, <1>22 DEF Expt!ExpNext, Expt!Loop

\* Measured trials are completed ones.
LEMMA MeasuredDone ==
  ASSUME ExpTypes, Expt!Measured
  PROVE  AllDone
BY DEF ExpTypes, Expt!Measured, AllDone

\* The verdict and the status are written once, from what was measured.
LEMMA FileBooksStep ==
  ASSUME Expt!ExperimentAssumption, ExpTypes, ExpFlags, RunBooks, StepBooks, FileBooks,
         [Expt!ExpNext]_(Expt!expVars)
  PROVE  FileBooks'
<1> USE DEF Expt!measured, Expt!processVars, Expt!world, ExpTypes, FileBooks, Verdicts, Measuring,
    Early, Ending, RunStates
<1>1. CASE Expt!Setup
  BY <1>1, SameTrials DEF Expt!Setup
<1>2. CASE Expt!LockSources
  BY <1>2, SameTrials DEF Expt!LockSources, Expt!Running
<1>3. CASE Expt!Prepare
  BY <1>3, SameTrials DEF Expt!Prepare, Expt!Running
<1>4. CASE Expt!TimesOut
  BY <1>4, SameTrials DEF Expt!TimesOut, Expt!WaitEnds
<1>5. CASE Expt!StopTree
  BY <1>5, SameTrials DEF Expt!StopTree
<1>6. CASE Expt!Record
  BY <1>6, SameTrials DEF Expt!Record
<1>7. CASE Expt!Decide
  BY <1>7, SameTrials DEF Expt!Decide
<1>8. CASE Expt!FinalSnapshots
  BY <1>8, SameTrials DEF Expt!FinalSnapshots
<1>9. CASE Expt!Evaluate
  <2>1. pc = "publish" /\ pc' = "status" /\ UNCHANGED <<clean, trials, validation, error, state, outcome>> /\ outcome # "returned"
    BY <1>9 DEF Expt!Evaluate
  <2>2. PICK gain : files' = [status |-> "running", verdict |-> IF error THEN "INCONCLUSIVE" ELSE Expt!Verdict(gain)]
    BY <1>9 DEF Expt!Evaluate
  <2>3. Expt!Verdict(gain) \in {"PASS", "FAIL", "INCONCLUSIVE"} /\ (Expt!Verdict(gain) # "INCONCLUSIVE" => Expt!Measured /\ clean /\ validation \in {"completed", "failed"})
    BY DEF Expt!Verdict
  <2>4. files'.status = "running" /\ files'.verdict \in {"PASS", "FAIL", "INCONCLUSIVE"}
        /\ (files'.verdict \in {"PASS", "FAIL"} => ~error /\ Expt!Measured /\ clean /\ validation \in {"completed", "failed"})
    BY <2>2, <2>3
  <2> QED BY <2>1, <2>4, SameTrials

<1>10. CASE Expt!PublishStatus
  <2>1. /\ pc = "status" /\ pc' = "report" /\ UNCHANGED <<clean, trials, validation, error, state, outcome>>
        /\ files' = [files EXCEPT !.status = state] /\ outcome # "returned"
    BY <1>10 DEF Expt!PublishStatus
  <2>2. files'.status = state /\ files'.verdict = files.verdict /\ files.verdict \in {"PASS", "FAIL", "INCONCLUSIVE"}
    BY <2>1
  <2>3. state = "completed" => Recorded = Expt!LastTrial /\ Verdicts
    BY <2>1 DEF StepBooks
  <2>4. state \in {"timeout", "cancelled"} => files.verdict = "INCONCLUSIVE"
    BY <2>1, <2>2, MeasuredDone DEF StepBooks
  <2> QED BY <2>1, <2>2, <2>3, <2>4, SameTrials

<1>11. CASE Expt!WriteReport
  BY <1>11, SameTrials DEF Expt!WriteReport
<1>12. CASE Expt!HelperExits
  BY <1>12, SameTrials DEF Expt!HelperExits, Expt!WaitEnds
<1>13. CASE Expt!InterruptedWait
  BY <1>13, SameTrials DEF Expt!InterruptedWait, Expt!WaitEnds
<1>14. CASE Expt!StopRaises
  BY <1>14, SameTrials DEF Expt!StopRaises, Expt!NoRun
<1>15. CASE Expt!WriteFails
  BY <1>15, SameTrials DEF Expt!WriteFails, Expt!Abandon, Expt!Leave
<1>16. CASE Expt!Interrupt
  BY <1>16, SameTrials DEF Expt!Interrupt, Expt!Abandon, Expt!Leave
<1>17. CASE Expt!LaunchServer
  BY <1>17, SameTrials DEF Expt!LaunchServer, Expt!HelperOnly
<1>18. CASE Expt!Workers
  BY <1>18, SameTrials DEF Expt!Workers, Expt!HelperOnly
<1>19. CASE Expt!StopServer
  BY <1>19, SameTrials DEF Expt!StopServer, Expt!HelperOnly
<1>20. CASE Expt!Expire
  BY <1>20, SameTrials DEF Expt!Expire
<1>21. ASSUME NEW r \in Expt!Repos, Expt!SourceChanges(r) PROVE FileBooks'
  BY <1>21, SameTrials DEF Expt!SourceChanges
<1>22. CASE UNCHANGED Expt!expVars
  BY <1>22, SameTrials DEF Expt!expVars
<1> QED BY <1>1, <1>2, <1>3, <1>4, <1>5, <1>6, <1>7, <1>8, <1>9, <1>10, <1>11, <1>12, <1>13, <1>14,
    <1>15, <1>16, <1>17, <1>18, <1>19, <1>20, <1>21, <1>22 DEF Expt!ExpNext, Expt!Loop

\* Every step of an experiment, of its processes and of the world keeps the
\* invariant.
LEMMA ExpStep ==
  ASSUME Expt!ExperimentAssumption, ExpInv, [Expt!ExpNext]_(Expt!expVars)
  PROVE  ExpInv'
<1>1. ExpTypes /\ ExpFlags /\ RunBooks /\ ProcessBooks /\ PairBooks /\ StepBooks /\ SourceBooks /\ FileBooks
  BY DEF ExpInv
<1>2. ExpTypes' /\ ExpFlags' /\ RunBooks' /\ ProcessBooks'
  BY <1>1, ExpTypesStep, ExpFlagsStep, RunBooksStep, ProcessBooksStep
<1>3. PairBooks' /\ StepBooks' /\ SourceBooks' /\ FileBooks'
  BY <1>1, PairBooksStep, StepBooksStep, SourceBooksStep, FileBooksStep
<1> QED BY <1>2, <1>3 DEF ExpInv

\* It holds when the run begins.
LEMMA ExpInitInv ==
  ASSUME Expt!ExperimentAssumption, Expt!ExpInit
  PROVE  ExpInv
<1> USE DEF Expt!ExpInit
<1>0. << >> \in Seq(TrialRecord) /\ Len(<< >>) = 0
  OBVIOUS
<1>1. trials \in [Expt!Sides -> Seq(TrialRecord)] /\ \A s \in Expt!Sides : Len(trials[s]) = 0
  BY <1>0
<1>2. Repetitions \in Nat \ {0} /\ Expt!LastTrial \in Nat /\ Expt!Validation \in Nat
  BY DEF Expt!ExperimentAssumption, Expt!LastTrial, Expt!Validation
<1>3. Recorded = 0
  BY <1>1 DEF Recorded, Expt!Sides
<1>4. ExpTypes
  BY <1>1, <1>2 DEF ExpTypes, Early, RunStatus, RunStates
<1>5. ExpFlags
  <2>1. clean \in BOOLEAN
    OBVIOUS
  <2>2. error \in BOOLEAN
    OBVIOUS
  <2> QED BY <2>1, <2>2 DEF ExpFlags
<1>6. RunBooks /\ ProcessBooks
  BY DEF RunBooks, ProcessBooks, Expt!NoRun, RunStatus
<1>7. PairBooks
  <2>1. \A s \in Expt!Sides : TrialsOf(0, s) = 0
    BY DEF TrialsOf
  <2> QED BY <1>1, <1>2, <1>3, <2>1 DEF PairBooks
<1>8. StepBooks
  BY <1>3 DEF StepBooks, Early, Measuring, Ending
<1>9. SourceBooks
  <2>1. \A s \in Expt!Sides : locked[s] = 0 /\ version[RepoOf[s]] = 0
    BY DEF Expt!Repos
  <2> QED BY <2>1 DEF SourceBooks
<1>10. FileBooks
  BY DEF FileBooks, RunStates
<1> QED BY <1>4, <1>5, <1>6, <1>7, <1>8, <1>9, <1>10 DEF ExpInv

\* It implies what the evidence of an experiment promises.
LEMMA ExpInvImplies ==
  ASSUME Expt!ExperimentAssumption, ExpInv
  PROVE  /\ Expt!ExpTypeOK /\ Expt!VerdictIsBacked /\ Expt!StatusIsTrue
         /\ Expt!NoProcessLeft /\ Expt!ReportIsTrue /\ Expt!TrialsPaired
<1>1. ExpTypes /\ ExpFlags /\ RunBooks /\ ProcessBooks /\ PairBooks /\ StepBooks /\ SourceBooks /\ FileBooks
  BY DEF ExpInv
<1>2. Expt!ExpTypeOK
  BY <1>1 DEF Expt!ExpTypeOK, ExpTypes, RunBooks, ProcessBooks, RunStatus, RunStates
<1>3. Expt!NoProcessLeft /\ Expt!ReportIsTrue
  BY <1>1 DEF Expt!NoProcessLeft, Expt!ReportIsTrue, ProcessBooks
<1>4. Recorded = Expt!LastTrial => \A s \in Expt!Sides : Len(trials[s]) = Repetitions
  BY <1>1, AllOfThem DEF PairBooks
<1>5. Expt!StatusIsTrue
  BY <1>1, <1>4 DEF Expt!StatusIsTrue, FileBooks, Verdicts
<1>6. ASSUME files.verdict \in {"PASS", "FAIL"}
      PROVE  /\ \A s \in Expt!Sides : Len(trials[s]) = Repetitions
             /\ \A s \in Expt!Sides : \A i \in DOMAIN trials[s] : trials[s][i].status = "completed"
             /\ validation \in {"completed", "failed"}
             /\ \A s \in Expt!Sides : \A x, y \in ran : x[1] = s /\ y[1] = s => x = y
  <2>1. clean /\ ~error /\ Expt!Measured /\ validation \in {"completed", "failed"} /\ pc \in {"status", "report", "over"}
    BY <1>1, <1>6 DEF FileBooks
  <2>2. \A x \in ran : x[2] = locked[x[1]] /\ x = <<x[1], x[2]>>
    BY <1>1, <2>1 DEF SourceBooks, ExpTypes
  <2>3. ASSUME NEW x \in ran, NEW y \in ran, x[1] = y[1] PROVE x = y
    <3>1. x[2] = y[2]
      BY <2>2, <2>3
    <3> QED BY <2>2, <2>3, <3>1
  <2> QED BY <2>1, <2>3 DEF Expt!Measured
<1>7. Expt!VerdictIsBacked
  BY <1>6 DEF Expt!VerdictIsBacked
<1>8. Expt!TrialsPaired
  <2>1. Recorded \in Nat /\ Recorded \div 2 \in Nat
    <3>1. Len(trials["baseline"]) \in Nat /\ Len(trials["candidate"]) \in Nat
      BY <1>1 DEF ExpTypes, Expt!Sides
    <3>2. Recorded \in Nat
      BY <3>1, SumOne DEF Recorded
    <3> QED BY <3>2
  <2>2. \A s \in Expt!Sides : Len(trials[s]) \in {Recorded \div 2, (Recorded \div 2) + 1}
    BY <1>1, <2>1 DEF PairBooks, TrialsOf
  <2>3. Len(trials["baseline"]) \in {Recorded \div 2, (Recorded \div 2) + 1} /\ Len(trials["candidate"]) \in {Recorded \div 2, (Recorded \div 2) + 1}
    BY <2>2 DEF Expt!Sides
  <2>4. Len(trials["baseline"]) <= Len(trials["candidate"]) + 1 /\ Len(trials["candidate"]) <= Len(trials["baseline"]) + 1
    BY <2>1, <2>3
  <2> QED BY <1>1, <2>4 DEF Expt!TrialsPaired, PairBooks
<1> QED BY <1>2, <1>3, <1>5, <1>7, <1>8

\* A verdict rests on full, paired and measured trials of one source, status.json
\* says how the run went, and no process of a trial is left between commands, for
\* any number of repetitions, source changes and interrupts
\* (harness/runner.py: run_experiment; infra/executors/local.py: execute_command).
THEOREM ExperimentSafe ==
  ASSUME Expt!ExperimentAssumption
  PROVE  /\ Expt!ExpInit /\ [][Expt!ExpNext]_(Expt!expVars) => [](Expt!ExpTypeOK /\ Expt!VerdictIsBacked /\ Expt!StatusIsTrue)
         /\ Expt!ExpInit /\ [][Expt!ExpNext]_(Expt!expVars) => [](Expt!NoProcessLeft /\ Expt!ReportIsTrue /\ Expt!TrialsPaired)
<1>1. Expt!ExpInit => ExpInv
  BY ExpInitInv
<1>2. ExpInv /\ [Expt!ExpNext]_(Expt!expVars) => ExpInv'
  BY ExpStep
<1>3. ExpInv => /\ Expt!ExpTypeOK /\ Expt!VerdictIsBacked /\ Expt!StatusIsTrue
                /\ Expt!NoProcessLeft /\ Expt!ReportIsTrue /\ Expt!TrialsPaired
  BY ExpInvImplies
<1> QED BY <1>1, <1>2, <1>3, PTL
==============================================================================
