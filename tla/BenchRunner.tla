------------------------------ MODULE BenchRunner ------------------------------
(***************************************************************************)
(* One benchmark run, agentinfer/agentbench/benchkit/runner.py and         *)
(* artifacts/finalizer.py.  execute() checks the agent and the backend,    *)
(* loads the tasks, starts the request proxy and runs one coroutine per    *)
(* task behind a semaphore; whatever happens, the finalisation then        *)
(* collects the evidence step by step, each step guarded on its own, and   *)
(* writes task_index.json, summary.json and manifest.json.                 *)
(*                                                                         *)
(* A step may raise instead of taking effect; the run may be interrupted   *)
(* at every await (the run timeout, or a SIGINT that cancels the main      *)
(* task).  MaxFaults bounds how many steps raise in one behaviour.         *)
(***************************************************************************)
EXTENDS Naturals, Sequences, FiniteSets, SequencesExt, TLAPS

CONSTANTS
  Task,              \* the selected tasks
  MaxConcurrency,    \* experiment.max_concurrency
  RunTimeout,        \* experiment.run_timeout_seconds is set
  TerminateCanRaise, \* terminate_all() may raise ProcessLookupError
  MaxFaults,         \* bound on the steps that raise
  None

\* What the constants may be.
BenchAssumption ==
  /\ MaxConcurrency \in Nat \ {0}
  /\ RunTimeout \in BOOLEAN /\ TerminateCanRaise \in BOOLEAN
  /\ MaxFaults \in Nat
  /\ None \notin {"error", "interrupt", "completed", "failed", "returned"}

VARIABLES
  pc,           \* where the main coroutine is
  interrupted,  \* the timeout or the signal has been delivered
  task,         \* task -> where its coroutine is
  cancel,       \* the task coroutines with a cancellation to deliver
  results,      \* the list results, as task -> result
  files,        \* tasks/<task>/result.json, as task -> result
  workers,      \* the worker threads that may have a process with setup_owner
  proxy,        \* the variable lifecycle and the proxy process behind it
  preflight_succeeded,
  run_exception,
  facts,        \* request facts were loaded
  vllm,         \* what was captured of vLLM's metrics
  errors,       \* finalization_errors: the steps, in order
  captures,     \* the evidence captures, as [source, available]
  disk,         \* the run-level artifacts
  faults,
  outcome       \* how run_benchmark ended

exec == <<interrupted, task, cancel, results, files, proxy, preflight_succeeded>>
final == <<facts, vllm, errors, captures, disk>>
vars == <<pc, exec, workers, run_exception, final, faults, outcome>>

Init ==
  /\ pc = "preflight"
  /\ interrupted = FALSE
  /\ task = [t \in Task |-> "none"]
  /\ cancel = {}
  /\ results = [t \in Task |-> None]
  /\ files = [t \in Task |-> None]
  /\ workers = {}
  /\ proxy = "none"
  /\ preflight_succeeded = FALSE
  /\ run_exception = None
  /\ facts = FALSE
  /\ vllm = [start |-> FALSE, end |-> FALSE, metrics |-> FALSE]
  /\ errors = << >>
  /\ captures = {}
  /\ disk = [manifest |-> "running", summary |-> None, index |-> None, evidence |-> {}]
  /\ faults = 0
  /\ outcome = None

Fault == faults < MaxFaults /\ faults' = faults + 1
Capture(source, available) == [source |-> source, available |-> available]
Ended(t) == task[t] \in {"none", "done", "failed", "cancelled"}
-----------------------------------------------------------------------------
(* Leaving execute(): the handler terminates the workspace processes first *)
(* and assigns run_exception second.                                       *)

FinalStart == IF proxy = "none" THEN "vllm_end" ELSE "proxy_close"

\* terminate_all() raises on a process that its own thread reaps meanwhile, and
\* those after it stay registered; without a process there is nothing to raise.
LeftBy(owned) == IF TerminateCanRaise THEN (SUBSET owned) \ {owned} ELSE {}

Leave(exc, owned) ==
  /\ pc' = FinalStart
  /\ \/ run_exception' = exc /\ outcome' = None /\ workers' = {}
     \/ /\ workers' \in LeftBy(owned)
        /\ run_exception' = None /\ outcome' = "raised in handler"

\* The awaits of execute() where an interrupt may land.
Awaits == {"preflight", "vllm_start", "start", "wait_ready", "repo_cache"}

\* Not every agent runtime has a preflight report.
Preflight ==
  /\ pc = "preflight"
  /\ \/ captures' = captures \cup {Capture("agent_runtime", TRUE)}
     \/ UNCHANGED captures
  /\ preflight_succeeded' = TRUE
  /\ pc' = "load_tasks"
  /\ UNCHANGED <<interrupted, task, cancel, results, files, proxy, workers, run_exception,
                 facts, vllm, errors, disk, faults, outcome>>

\* check_preflight() raises, or writing its report does.
PreflightFails ==
  /\ pc = "preflight"
  /\ Fault
  /\ \/ captures' = captures \cup {Capture("agent_runtime", FALSE)}
     \/ UNCHANGED captures
  /\ Leave("error", {})
  /\ UNCHANGED <<exec, facts, vllm, errors, disk>>

LoadTasks ==
  /\ pc = "load_tasks"
  /\ pc' = "vllm_start"
  /\ UNCHANGED <<exec, workers, run_exception, final, faults, outcome>>

\* capture_vllm_metrics() answers with an unavailable capture when the
\* endpoint does not; only writing the text can raise.
CaptureStart ==
  /\ pc = "vllm_start"
  /\ \E available \in BOOLEAN :
       /\ captures' = captures \cup {Capture("vllm_start", available)}
       /\ vllm' = [vllm EXCEPT !.start = available]
  /\ pc' = "create"
  /\ UNCHANGED <<exec, workers, run_exception, facts, errors, disk, faults, outcome>>

Created == "created"

CreateProxy ==
  /\ pc = "create"
  /\ proxy' = Created
  /\ pc' = "start"
  /\ UNCHANGED <<interrupted, task, cancel, results, files, preflight_succeeded,
                 workers, run_exception, final, faults, outcome>>

\* start() may have launched the process when it raises.
StartProxy ==
  /\ pc = "start"
  /\ proxy' = "running"
  /\ \/ pc' = "wait_ready" /\ UNCHANGED <<workers, run_exception, faults, outcome>>
     \/ Fault /\ Leave("error", {})
  /\ UNCHANGED <<interrupted, task, cancel, results, files, preflight_succeeded, final>>

\* _run_tasks() starts with the repository caches, in a worker thread.
WaitReady ==
  /\ pc = "wait_ready"
  /\ pc' = "repo_cache"
  /\ workers' = {"repo_cache"}
  /\ UNCHANGED <<exec, run_exception, final, faults, outcome>>

\* After the last cache, all task coroutines.
EnsureRepoCaches ==
  /\ pc = "repo_cache"
  /\ pc' = "gather"
  /\ workers' = {}
  /\ task' = [t \in Task |-> "queued"]
  /\ UNCHANGED <<interrupted, cancel, results, files, proxy, preflight_succeeded,
                 run_exception, final, faults, outcome>>

\* What raises has ended, a thread that fills a repository cache too.
SetupRaises ==
  /\ pc \in {"load_tasks", "vllm_start", "create", "wait_ready", "repo_cache"}
  /\ Fault
  /\ Leave("error", {})
  /\ UNCHANGED <<exec, final>>

\* gather() passes a cancellation on to every child that has not ended.
Cancelled == {t \in Task : ~Ended(t)}

Interrupt ==
  /\ ~interrupted
  /\ interrupted' = TRUE
  /\ \/ /\ pc \in Awaits
        /\ Leave("interrupt", workers)
        /\ UNCHANGED cancel
     \/ /\ pc \in {"gather", "drain"}
        /\ pc' = "cancelling"
        /\ cancel' = Cancelled
        /\ UNCHANGED <<workers, run_exception, outcome>>
  /\ UNCHANGED <<task, results, files, proxy, preflight_succeeded, final, faults>>
-----------------------------------------------------------------------------
(* _run_single_task() behind the semaphore.                                *)

Active(t) == task[t] \in {"workspace", "agent"}

Acquire(t) ==
  /\ task[t] = "queued" /\ t \notin cancel
  /\ Cardinality({u \in Task : Active(u)}) < MaxConcurrency
  /\ task' = [task EXCEPT ![t] = "workspace"]
  /\ workers' = workers \cup {t}
  /\ UNCHANGED <<pc, interrupted, cancel, results, files, proxy, preflight_succeeded,
                 run_exception, final, faults, outcome>>

PrepareWorkspace(t) ==
  /\ task[t] = "workspace" /\ t \notin cancel
  /\ task' = [task EXCEPT ![t] = "agent"]
  /\ workers' = workers \ {t}
  /\ UNCHANGED <<pc, interrupted, cancel, results, files, proxy, preflight_succeeded,
                 run_exception, final, faults, outcome>>

\* No pending_error: the agent ran, whatever it made of the task.
Finishes(result) == result \in {"completed", "failed"}

\* The finally block: result.json, then the list.
ListResult(t, result, recorded) ==
  results' = IF recorded THEN [results EXCEPT ![t] = result] ELSE results

\* How the coroutine ends once its result is known: the topology and the
\* file are written in the finally block, and if that raises nothing is.
Record(t, result) ==
  \E recorded \in BOOLEAN :
    /\ IF recorded THEN UNCHANGED faults ELSE Fault
    /\ files' = IF recorded THEN [files EXCEPT ![t] = result] ELSE files
    /\ ListResult(t, result, recorded)
    /\ task' = [task EXCEPT ![t] = IF ~recorded THEN "failed"
                                   ELSE IF Finishes(result) THEN "done"
                                   ELSE IF result = "cancelled" THEN "cancelled" ELSE "failed"]

\* run_agent() returns a result; a task that fails is a result too.
RunAgent(t) ==
  /\ task[t] = "agent" /\ t \notin cancel
  /\ \E result \in {"completed", "failed"} : Record(t, result)
  /\ UNCHANGED <<pc, interrupted, cancel, proxy, preflight_succeeded, workers, run_exception, final, outcome>>

HarnessError(t) ==
  /\ Active(t) /\ t \notin cancel
  /\ Record(t, "harness_error")
  /\ workers' = workers \ {t}
  /\ UNCHANGED <<pc, interrupted, cancel, proxy, preflight_succeeded, run_exception, final, outcome>>

\* The cancellation is delivered at the await the coroutine is in; one that
\* still waits for the semaphore records nothing, and the thread that prepares
\* a workspace runs on.
CancelTask(t) ==
  /\ t \in cancel
  /\ cancel' = cancel \ {t}
  /\ \/ /\ task[t] = "queued"
        /\ task' = [task EXCEPT ![t] = "cancelled"]
        /\ UNCHANGED <<results, files, faults>>
     \/ Active(t) /\ Record(t, "cancelled")
  /\ UNCHANGED <<pc, interrupted, proxy, preflight_succeeded, workers, run_exception, final, outcome>>

TaskStep(t) ==
  \/ Acquire(t) \/ PrepareWorkspace(t) \/ RunAgent(t) \/ HarnessError(t) \/ CancelTask(t)
-----------------------------------------------------------------------------
(* The end of _run_tasks().                                                *)

GatherDone ==
  /\ pc = "gather"
  /\ \A t \in Task : task[t] = "done"
  /\ pc' = FinalStart
  /\ UNCHANGED <<exec, workers, run_exception, final, faults, outcome>>

\* One task raised: terminate the processes, cancel the siblings, wait.
GatherFails ==
  /\ pc = "gather"
  /\ \E t \in Task : task[t] = "failed"
  /\ \/ /\ pc' = "drain"
        /\ cancel' = {t \in Task : ~Ended(t)}
        /\ workers' = {}
        /\ UNCHANGED <<run_exception, outcome>>
     \/ /\ \E left \in LeftBy(workers) : Leave("error", left)
        /\ UNCHANGED cancel
  /\ UNCHANGED <<interrupted, task, results, files, proxy, preflight_succeeded, final, faults>>

\* gather() returns once every task coroutine has ended.
AllEnded == \A t \in Task : Ended(t)

\* The second gather() has returned, or the first one was cancelled and the
\* processes are terminated now; once they are, the handler finds none.
Drained ==
  /\ pc \in {"drain", "cancelling"}
  /\ AllEnded
  /\ \/ Leave(IF pc = "cancelling" THEN "interrupt" ELSE "error", {})
     \/ \E left \in LeftBy(workers) : Leave("error", left)
  /\ UNCHANGED <<exec, final, faults>>
-----------------------------------------------------------------------------
(* Finalisation.  Step s raises: the error and the capture are recorded.   *)

RecordError(s) == captures' = captures \cup {Capture(s, FALSE)} /\ errors' = Append(errors, s)

Raises(s) == Fault /\ RecordError(s) /\ UNCHANGED <<facts, vllm, disk>>

\* lifecycle.close() ends the process; it may report that it had to force it.
ProxyClose ==
  /\ pc = "proxy_close"
  /\ proxy' = "closed"
  /\ pc' = "vllm_end"
  /\ \/ UNCHANGED <<final, faults>>
     \/ Raises("proxy_close")
  /\ UNCHANGED <<interrupted, task, cancel, results, files, preflight_succeeded, workers,
                 run_exception, outcome>>

\* The end capture and its text.
CaptureEnd ==
  /\ pc = "vllm_end"
  /\ pc' = "environment"
  /\ \/ ~preflight_succeeded /\ UNCHANGED <<final, faults>>
     \/ /\ preflight_succeeded
        /\ \/ \E available \in BOOLEAN :
                /\ captures' = captures \cup {Capture("vllm_end", available)}
                /\ vllm' = [vllm EXCEPT !.end = available]
                /\ UNCHANGED <<facts, errors, disk, faults>>
           \/ Raises("vllm_end")
           \/ /\ Fault
              /\ vllm' = [vllm EXCEPT !.end = TRUE]
              /\ errors' = Append(errors, "vllm_end_write")
              /\ captures' = captures \cup {Capture("vllm_end", TRUE), Capture("vllm_end_write", FALSE)}
              /\ UNCHANGED <<facts, disk>>
  /\ UNCHANGED <<exec, workers, run_exception, outcome>>

\* A collector and the file of what it collected: environment, source_control.
Collect(s, write, available, next) ==
  /\ pc = s
  /\ pc' = next
  /\ \/ /\ \E a \in available : captures' = captures \cup {Capture(s, a)}
        /\ UNCHANGED <<facts, vllm, errors, disk, faults>>
     \/ Raises(s)
     \/ /\ Fault
        /\ captures' = captures \cup {Capture(s, TRUE), Capture(write, FALSE)}
        /\ errors' = Append(errors, write)
        /\ UNCHANGED <<facts, vllm, disk>>
  /\ UNCHANGED <<exec, workers, run_exception, outcome>>

\* The trace can only be healthy if the proxy reported on it when it closed.
TraceHealth ==
  /\ pc = "trace"
  /\ pc' = "correctness"
  /\ \E available \in BOOLEAN :
       /\ available => proxy = "closed"
       /\ captures' = captures \cup {Capture("request_trace", available)}
  /\ UNCHANGED <<exec, workers, run_exception, facts, vllm, errors, disk, faults, outcome>>

\* correctness.json is another program's: its absence is no error.
Correctness ==
  /\ pc = "correctness"
  /\ pc' = "request_facts"
  /\ \/ \E available \in BOOLEAN :
          /\ captures' = captures \cup {Capture("correctness", available)}
          /\ UNCHANGED <<facts, vllm, errors, disk, faults>>
     \/ Raises("correctness")
  /\ UNCHANGED <<exec, workers, run_exception, outcome>>

\* The facts, and the analysis of them, whose failure is only a capture.
RequestFacts ==
  /\ pc = "request_facts"
  /\ pc' = "task_index_build"
  /\ \/ /\ facts' = TRUE
        /\ \E available \in BOOLEAN :
             captures' = captures \cup {Capture("session_agent_analysis", available)}
        /\ UNCHANGED <<vllm, errors, disk, faults>>
     \/ Raises("request_facts")
  /\ UNCHANGED <<exec, workers, run_exception, outcome>>

\* build_run_task_index() reads the result files back from disk.
WriteTaskIndex ==
  /\ pc = "task_index_build"
  /\ pc' = "vllm_aggregation"
  /\ \/ disk' = [disk EXCEPT !.index = {t \in Task : files[t] # None}] /\ UNCHANGED <<facts, vllm, errors, captures, faults>>
     \/ Raises("task_index_build")
  /\ UNCHANGED <<exec, workers, run_exception, outcome>>

\* _recompute_status()
Status == IF run_exception # None \/ errors # << >> THEN "failed" ELSE "completed"

AggregateVllm ==
  /\ pc = "vllm_aggregation"
  /\ \/ /\ vllm' = [vllm EXCEPT !.metrics = TRUE]
        /\ pc' = IF facts THEN "summary" ELSE "manifest_finalize"
        /\ UNCHANGED <<facts, errors, captures, disk, faults>>
     \/ Raises("vllm_aggregation") /\ pc' = "manifest_finalize"
  /\ UNCHANGED <<exec, workers, run_exception, outcome>>

SummaryStatus == Status

\* The build and the write fail alike: no summary.json.
WriteSummary ==
  /\ pc = "summary"
  /\ pc' = "manifest_finalize"
  /\ \/ disk' = [disk EXCEPT !.summary = SummaryStatus] /\ UNCHANGED <<facts, vllm, errors, captures, faults>>
     \/ Raises("summary_build")
     \/ Raises("summary_write")
  /\ UNCHANGED <<exec, workers, run_exception, outcome>>

WriteManifest ==
  /\ pc = "manifest_finalize"
  /\ pc' = "report"
  /\ \/ disk' = [disk EXCEPT !.manifest = Status, !.evidence = captures] /\ UNCHANGED <<facts, vllm, errors, captures, faults>>
     \/ Raises("manifest_finalize")
  /\ UNCHANGED <<exec, workers, run_exception, outcome>>

\* Mutant of Verdict: a finalisation error replaces the failure of the run.
FinalizationFirst ==
  IF errors # << >> THEN "raised finalization" ELSE IF run_exception # None THEN "raised run" ELSE "returned"
Verdict ==
  IF run_exception # None THEN "raised run" ELSE IF errors # << >> THEN "raised finalization" ELSE "returned"

Report ==
  /\ pc = "report"
  /\ pc' = "ended"
  /\ outcome' = IF outcome # None THEN outcome ELSE Verdict
  /\ UNCHANGED <<exec, workers, run_exception, final, faults>>

Finalize ==
  \/ ProxyClose \/ CaptureEnd
  \/ Collect("environment", "environment_write", {TRUE}, "source_control")
  \/ Collect("source_control", "source_control_write", BOOLEAN, "trace")
  \/ TraceHealth \/ Correctness \/ RequestFacts
  \/ WriteTaskIndex \/ AggregateVllm \/ WriteSummary \/ WriteManifest \/ Report
-----------------------------------------------------------------------------
Setup ==
  \/ Preflight \/ PreflightFails \/ LoadTasks \/ CaptureStart \/ CreateProxy
  \/ StartProxy \/ WaitReady \/ EnsureRepoCaches \/ SetupRaises

Next ==
  \/ Setup \/ Interrupt
  \/ \E t \in Task : TaskStep(t)
  \/ GatherDone \/ GatherFails \/ Drained
  \/ Finalize

Spec == Init /\ [][Next]_vars
-----------------------------------------------------------------------------
(* Properties.                                                             *)

ResultKind == {"completed", "failed", "harness_error", "cancelled"}
Finalizing == pc \notin {"preflight", "load_tasks", "vllm_start", "create", "start",
                         "wait_ready", "repo_cache", "gather", "drain", "cancelling"}

\* Type invariant; a task coroutine exists only from _run_tasks() on.
BenchTypeOK ==
  /\ task \in [Task -> {"none", "queued", "workspace", "agent", "done", "failed", "cancelled"}]
  /\ cancel \subseteq {t \in Task : ~Ended(t)}
  /\ results \in [Task -> ResultKind \cup {None}] /\ files \in [Task -> ResultKind \cup {None}]
  /\ proxy \in {"none", "created", "running", "closed"}
  /\ run_exception \in {None, "error", "interrupt"}
  /\ disk.manifest \in {"running", "completed", "failed"}
  /\ disk.summary \in {None, "completed", "failed"}
  /\ pc \in {"preflight", "load_tasks", "vllm_start", "create"} =>
       proxy = "none" /\ \A t \in Task : task[t] = "none"

\* finalizer.py: "the final manifest reflects run status": a manifest that
\* says completed belongs to a run that returned, and the other way round.
ManifestReflectsRun == pc = "ended" => (disk.manifest = "completed" <=> outcome = "returned")

\* summary.json and manifest.json, when both were written, agree.
SummaryAgreesWithManifest ==
  pc \in {"report", "ended"} /\ disk.summary # None /\ disk.manifest # "running" =>
    disk.summary = disk.manifest

\* The failure of the run is what the caller sees, whatever fails after it;
\* every step that raised after it is reported, once, and is in the evidence.
FailureNotMasked ==
  pc = "ended" =>
    /\ run_exception # None => outcome = "raised run"
    /\ IsInjective(errors)
    /\ disk.manifest # "running" =>
         \A i \in DOMAIN errors : Capture(errors[i], FALSE) \in disk.evidence

\* Evidence that may be unavailable without a step having raised.
Optional == {"vllm_start", "vllm_end", "source_control", "request_trace", "correctness", "session_agent_analysis"}

\* A run that returns has lost no evidence to a step that raised: such a
\* step always surfaces as an error of the run.
EveryFaultReported ==
  outcome = "returned" =>
    \A c \in captures : c.available \/ c.source \in Optional

\* No task coroutine runs on while the run is finalised: the agents would
\* still be using the proxy that is closed and the trace that is read.
NoTaskOutlivesRun == Finalizing => \A t \in Task : Ended(t)

\* A run that returns has, for every selected task, a result the agent gave.
ReturnedIsComplete ==
  outcome = "returned" => \A t \in Task : results[t] \in {"completed", "failed"}

\* The index built from the files on disk and the list the summary is
\* aggregated from are about the same tasks with the same results.
IndexMatchesResults ==
  disk.index # None => files = results /\ disk.index = {t \in Task : results[t] # None}

\* A proxy process that was started is closed when the run ends.
ProxyClosed == pc = "ended" => proxy \in {"none", "closed"}

RunOver == pc = "ended"
-----------------------------------------------------------------------------
(***************************************************************************)
(* Proofs.  For every set of tasks, every limit and any number of faults,  *)
(* as long as terminate_all() does not raise: the run keeps all of the     *)
(* properties above.                                                       *)
(***************************************************************************)
Preparing == {"preflight", "load_tasks", "vllm_start", "create", "start", "wait_ready", "repo_cache"}
Gathering == {"gather", "drain", "cancelling"}
FinalSteps == {"proxy_close", "vllm_end", "environment", "source_control", "trace", "correctness",
               "request_facts", "task_index_build", "vllm_aggregation", "summary",
               "manifest_finalize", "report", "ended"}

\* The order of the finalisation, for its steps and for what they may report.
Stage(s) ==
  CASE s = "proxy_close" -> 1
    [] s \in {"vllm_end", "vllm_end_write"} -> 2
    [] s \in {"environment", "environment_write"} -> 3
    [] s \in {"source_control", "source_control_write"} -> 4
    [] s = "trace" -> 5
    [] s = "correctness" -> 6
    [] s = "request_facts" -> 7
    [] s = "task_index_build" -> 8
    [] s = "vllm_aggregation" -> 9
    [] s \in {"summary", "summary_build", "summary_write"} -> 10
    [] s = "manifest_finalize" -> 11
    [] s = "report" -> 12
    [] OTHER -> 13

ErrorName == {"proxy_close", "vllm_end", "vllm_end_write", "environment", "environment_write",
              "source_control", "source_control_write", "correctness", "request_facts",
              "task_index_build", "vllm_aggregation", "summary_build", "summary_write",
              "manifest_finalize"}

\* The types that BenchTypeOK leaves open.
RunTypes ==
  /\ pc \in Preparing \cup Gathering \cup FinalSteps
  /\ disk = [manifest |-> disk.manifest, summary |-> disk.summary, index |-> disk.index,
             evidence |-> disk.evidence]
  /\ errors \in Seq(ErrorName)

\* The list results and the files say the same at every moment.  Without an
\* exception, the finalisation is reached only when every agent has answered.
TaskInv ==
  /\ files = results
  /\ pc \in Preparing => \A t \in Task : task[t] = "none"
  /\ pc \in FinalSteps => \A t \in Task : Ended(t)
  /\ pc \in FinalSteps /\ run_exception = None => \A t \in Task : task[t] = "done"
  /\ \A t \in Task : task[t] = "done" => results[t] \in {"completed", "failed"}
  /\ disk.index # None => pc \in FinalSteps /\ disk.index = {t \in Task : files[t] # None}

\* start() has a proxy to start, and after proxy_close there is no process.
ProxyInv ==
  /\ pc = "start" => proxy = "created"
  /\ pc \in FinalSteps \ {"proxy_close"} => proxy \in {"none", "closed"}

\* What is on disk when, and that it says what _recompute_status() says then.
VerdictInv ==
  /\ pc \notin FinalSteps => run_exception = None /\ errors = << >>
  /\ pc # "ended" => outcome = None
  /\ pc = "ended" => outcome = Verdict
  /\ pc \notin {"report", "ended"} => disk.manifest = "running"
  /\ pc \notin {"manifest_finalize", "report", "ended"} => disk.summary = None
  /\ pc = "manifest_finalize" /\ disk.summary # None => disk.summary = Status
  /\ pc \in {"report", "ended"} /\ disk.manifest # "running" =>
       /\ disk.manifest = Status /\ disk.evidence = captures
       /\ disk.summary # None => disk.summary = Status
  /\ pc \in {"report", "ended"} /\ errors = << >> => disk.manifest # "running"

\* A step reports at most one error, before the next step begins; an error is
\* also a capture, and what else is missing is optional or the run has failed.
ErrorInv ==
  /\ pc \in FinalSteps => \A i \in DOMAIN errors : Stage(errors[i]) < Stage(pc)
  /\ IsInjective(errors)
  /\ \A i \in DOMAIN errors : Capture(errors[i], FALSE) \in captures
  /\ run_exception = None /\ errors = << >> => \A c \in captures : c.available \/ c.source \in Optional

BenchInv == BenchTypeOK /\ RunTypes /\ TaskInv /\ ProxyInv /\ VerdictInv /\ ErrorInv

LEMMA Finalizes ==
  ASSUME RunTypes
  PROVE  Finalizing <=> pc \in FinalSteps
BY DEF RunTypes, Finalizing, Preparing, Gathering, FinalSteps

LEMMA BenchInitInv ==
  ASSUME BenchAssumption, Init
  PROVE  BenchInv
<1>1. BenchTypeOK
  BY DEF Init, BenchTypeOK, Ended
<1>2. RunTypes
  BY DEF Init, RunTypes, Preparing
<1>3. TaskInv /\ ProxyInv
  BY DEF Init, TaskInv, ProxyInv, FinalSteps
<1>4. VerdictInv
  BY DEF Init, VerdictInv, FinalSteps
<1>5. ErrorInv
  BY DEF Init, ErrorInv, FinalSteps, IsInjective
<1> QED BY <1>1, <1>2, <1>3, <1>4, <1>5 DEF BenchInv

LEMMA BenchInvImplies ==
  ASSUME BenchAssumption, BenchInv
  PROVE  /\ BenchTypeOK /\ NoTaskOutlivesRun /\ IndexMatchesResults /\ ReturnedIsComplete
         /\ SummaryAgreesWithManifest /\ FailureNotMasked /\ EveryFaultReported
         /\ ProxyClosed /\ ManifestReflectsRun
<1>0. BenchTypeOK /\ RunTypes /\ TaskInv /\ ProxyInv /\ VerdictInv /\ ErrorInv
  BY DEF BenchInv
<1>1. NoTaskOutlivesRun
  BY <1>0, Finalizes DEF NoTaskOutlivesRun, TaskInv
<1>2. IndexMatchesResults
  BY <1>0 DEF IndexMatchesResults, TaskInv
<1>3. outcome = "returned" => pc = "ended" /\ run_exception = None /\ errors = << >>
  BY <1>0 DEF VerdictInv, Verdict, BenchAssumption
<1>4. ReturnedIsComplete
  BY <1>0, <1>3 DEF ReturnedIsComplete, TaskInv, FinalSteps
<1>5. SummaryAgreesWithManifest
  BY <1>0 DEF SummaryAgreesWithManifest, VerdictInv
<1>6. FailureNotMasked
  BY <1>0 DEF FailureNotMasked, VerdictInv, Verdict, ErrorInv
<1>7. EveryFaultReported
  BY <1>0, <1>3 DEF EveryFaultReported, ErrorInv
<1>8. ProxyClosed
  BY <1>0 DEF ProxyClosed, ProxyInv, FinalSteps
<1>9. ManifestReflectsRun
  BY <1>0 DEF ManifestReflectsRun, VerdictInv, Verdict, Status
<1> QED BY <1>0, <1>1, <1>2, <1>4, <1>5, <1>6, <1>7, <1>8, <1>9
-----------------------------------------------------------------------------
\* A step before the finalisation that stays before it.
LEMMA GoesOn ==
  ASSUME BenchAssumption, BenchInv, BenchTypeOK', pc \notin FinalSteps, pc' \in Preparing \cup Gathering,
         UNCHANGED <<run_exception, errors, disk, outcome>>,
         \A c \in captures' : c \in captures \/ c.available \/ c.source \in Optional,
         files' = results', pc' = "start" => proxy' = "created",
         pc' \in Preparing => \A t \in Task : task'[t] = "none",
         \A t \in Task : task'[t] = "done" => results'[t] \in {"completed", "failed"}
  PROVE  BenchInv'
<1>0. RunTypes /\ TaskInv /\ ProxyInv /\ VerdictInv /\ ErrorInv
  BY DEF BenchInv
<1>1. /\ run_exception' = run_exception /\ errors' = errors /\ disk' = disk /\ outcome' = outcome
      /\ run_exception = None /\ errors = << >> /\ outcome = None /\ disk.index = None
      /\ disk.manifest = "running" /\ disk.summary = None
  BY <1>0 DEF VerdictInv, TaskInv, FinalSteps
<1>2. pc' \notin FinalSteps
  BY DEF Preparing, Gathering, FinalSteps
<1>3. RunTypes'
  BY <1>0, <1>1 DEF RunTypes
<1>4. TaskInv'
  BY <1>1, <1>2 DEF TaskInv
<1>5. ProxyInv'
  BY <1>2 DEF ProxyInv
<1>6. VerdictInv'
  BY <1>1, <1>2 DEF VerdictInv, FinalSteps
<1>7. ErrorInv'
  BY <1>0, <1>1, <1>2 DEF ErrorInv, IsInjective
<1> QED BY <1>3, <1>4, <1>5, <1>6, <1>7 DEF BenchInv

\* execute() ends with an exception when no task is under way.
LEMMA LeaveKeeps ==
  ASSUME BenchAssumption, ~TerminateCanRaise, BenchInv, pc \notin FinalSteps,
         NEW exc \in {"error", "interrupt"}, NEW owned, Leave(exc, owned), \A t \in Task : Ended(t),
         UNCHANGED <<task, cancel, results, files, errors, disk>>,
         captures \subseteq captures',
         proxy' = proxy \/ (pc = "start" /\ proxy' = "running")
  PROVE  BenchInv'
<1>0. BenchTypeOK /\ RunTypes /\ TaskInv /\ ProxyInv /\ VerdictInv /\ ErrorInv
  BY DEF BenchInv
<1>1. /\ pc' = FinalStart /\ run_exception' = exc /\ outcome' = None /\ exc # None
  BY DEF Leave, LeftBy, BenchAssumption
<1>2. /\ errors' = errors /\ disk' = disk /\ files' = files /\ results' = results /\ task' = task /\ cancel' = cancel
      /\ errors = << >> /\ disk.index = None /\ disk.manifest = "running" /\ disk.summary = None
  BY <1>0 DEF VerdictInv, TaskInv, FinalSteps
<1>3. /\ pc' \in {"vllm_end", "proxy_close"}
      /\ pc' = "vllm_end" => proxy' = "none"
      /\ proxy' \in {"none", "created", "running", "closed"}
  BY <1>0, <1>1 DEF FinalStart, ProxyInv, BenchTypeOK
<1>4. BenchTypeOK'
  BY <1>0, <1>1, <1>2, <1>3 DEF BenchTypeOK, Ended
<1>5. RunTypes'
  BY <1>0, <1>2, <1>3 DEF RunTypes, FinalSteps
<1>6. TaskInv'
  BY <1>0, <1>1, <1>2, <1>3 DEF TaskInv, Ended, Preparing
<1>7. ProxyInv'
  BY <1>3 DEF ProxyInv
<1>8. VerdictInv'
  BY <1>1, <1>2, <1>3 DEF VerdictInv, FinalSteps
<1>9. ErrorInv'
  BY <1>0, <1>1, <1>2 DEF ErrorInv, IsInjective
<1> QED BY <1>4, <1>5, <1>6, <1>7, <1>8, <1>9 DEF BenchInv

\* What a final step may report: nothing, or one error of its own stage, which
\* is then a capture as well.
Reports ==
  /\ captures \subseteq captures'
  /\ \/ /\ errors' = errors
        /\ \A c \in captures' : c \in captures \/ c.available \/ c.source \in Optional
     \/ \E s \in ErrorName :
          /\ Stage(s) = Stage(pc) /\ errors' = Append(errors, s) /\ Capture(s, FALSE) \in captures'

LEMMA StageFacts ==
  /\ \A s \in FinalSteps \cup ErrorName : Stage(s) \in Nat
  /\ Stage("proxy_close") = 1 /\ Stage("vllm_end") = 2 /\ Stage("vllm_end_write") = 2
  /\ Stage("environment") = 3 /\ Stage("environment_write") = 3
  /\ Stage("source_control") = 4 /\ Stage("source_control_write") = 4
  /\ Stage("trace") = 5 /\ Stage("correctness") = 6 /\ Stage("request_facts") = 7
  /\ Stage("task_index_build") = 8 /\ Stage("vllm_aggregation") = 9
  /\ Stage("summary") = 10 /\ Stage("summary_build") = 10 /\ Stage("summary_write") = 10
  /\ Stage("manifest_finalize") = 11 /\ Stage("report") = 12 /\ Stage("ended") = 13
BY DEF Stage, FinalSteps, ErrorName

LEMMA ReportsKeep ==
  ASSUME BenchInv, pc \in FinalSteps, pc' \in FinalSteps, Stage(pc) < Stage(pc'), Reports,
         run_exception' = run_exception
  PROVE  ErrorInv' /\ errors' \in Seq(ErrorName)
<1>0. errors \in Seq(ErrorName) /\ ErrorInv /\ Stage(pc) \in Nat /\ Stage(pc') \in Nat
  BY StageFacts DEF BenchInv, RunTypes
<1>1. CASE /\ errors' = errors
           /\ \A c \in captures' : c \in captures \/ c.available \/ c.source \in Optional
  <2>1. \A i \in DOMAIN errors : Stage(errors[i]) \in Nat
    BY <1>0, StageFacts
  <2>2. \A i \in DOMAIN errors' : Stage(errors'[i]) < Stage(pc')
    BY <1>0, <1>1, <2>1 DEF ErrorInv
  <2>3. IsInjective(errors)'
    BY <1>0, <1>1 DEF ErrorInv, IsInjective
  <2>4. \A i \in DOMAIN errors' : Capture(errors'[i], FALSE) \in captures'
    BY <1>0, <1>1 DEF ErrorInv, Reports
  <2>5. run_exception' = None /\ errors' = << >> =>
          \A c \in captures' : c.available \/ c.source \in Optional
    BY <1>0, <1>1 DEF ErrorInv
  <2> QED BY <1>0, <1>1, <2>2, <2>3, <2>4, <2>5 DEF ErrorInv, Capture
<1>2. ASSUME NEW s \in ErrorName, Stage(s) = Stage(pc), errors' = Append(errors, s), Capture(s, FALSE) \in captures'
      PROVE  ErrorInv' /\ errors' \in Seq(ErrorName)
  <2> DEFINE k == Len(errors) + 1
  <2>1. /\ k \in Nat /\ DOMAIN errors = 1 .. (k - 1) /\ DOMAIN errors' = 1 .. k /\ errors'[k] = s
        /\ \A i \in 1 .. (k - 1) : errors'[i] = errors[i] /\ errors[i] \in ErrorName
        /\ errors' \in Seq(ErrorName) /\ errors' # << >>
    BY <1>0, <1>2
  <2> HIDE DEF k
  <2>2. \A i \in 1 .. k : i = k \/ i \in 1 .. (k - 1)
    BY <2>1
  <2>3. \A i \in 1 .. (k - 1) : Stage(errors[i]) < Stage(pc) /\ Stage(errors[i]) \in Nat
    BY <1>0, <2>1, StageFacts DEF ErrorInv
  <2>4. \A i \in DOMAIN errors' : Stage(errors'[i]) < Stage(pc')
    BY <1>0, <1>2, <2>1, <2>2, <2>3
  <2>5. IsInjective(errors')
    <3>1. \A i \in 1 .. (k - 1) : errors[i] # s
      BY <1>0, <1>2, <2>3
    <3>2. \A i, j \in 1 .. (k - 1) : errors[i] = errors[j] => i = j
      BY <1>0, <2>1 DEF ErrorInv, IsInjective
    <3>3. \A i, j \in 1 .. k : errors'[i] = errors'[j] => i = j
      BY <2>1, <2>2, <3>1, <3>2
    <3> QED BY <2>1, <3>3 DEF IsInjective
  <2>6. \A i \in DOMAIN errors' : Capture(errors'[i], FALSE) \in captures'
    BY <1>0, <1>2, <2>1, <2>2 DEF ErrorInv, Reports
  <2>7. IsInjective(errors)'
    BY <2>5 DEF IsInjective
  <2> QED BY <2>1, <2>4, <2>6, <2>7 DEF ErrorInv, Capture
<1> QED BY <1>1, <1>2 DEF Reports
-----------------------------------------------------------------------------
\* A final step before manifest.json is written; only summary.json and the
\* index may be new on disk.
LEMMA FinalMoves ==
  ASSUME BenchAssumption, BenchInv, pc \in FinalSteps \ {"manifest_finalize", "report", "ended"},
         pc' \in FinalSteps \ {"proxy_close", "report", "ended"}, Stage(pc) < Stage(pc'), Reports,
         UNCHANGED <<task, cancel, results, files, run_exception, outcome>>,
         (proxy' = proxy /\ pc # "proxy_close") \/ proxy' = "closed",
         \/ disk' = disk
         \/ disk' = [disk EXCEPT !.index = {t \in Task : files[t] # None}]
         \/ /\ pc' = "manifest_finalize" /\ errors' = errors
            /\ disk' = [disk EXCEPT !.summary = Status]
  PROVE  BenchInv'
<1>0. BenchTypeOK /\ RunTypes /\ TaskInv /\ ProxyInv /\ VerdictInv /\ ErrorInv
  BY DEF BenchInv
<1>1. /\ task' = task /\ cancel' = cancel /\ results' = results /\ files' = files
      /\ run_exception' = run_exception /\ outcome' = outcome
  OBVIOUS
<1>2. /\ disk' = [manifest |-> disk'.manifest, summary |-> disk'.summary, index |-> disk'.index,
                  evidence |-> disk'.evidence]
      /\ disk'.manifest = disk.manifest
      /\ disk'.index = disk.index \/ disk'.index = {t \in Task : files[t] # None}
      /\ disk'.summary = disk.summary \/ (pc' = "manifest_finalize" /\ errors' = errors /\ disk'.summary = Status)
  BY <1>0 DEF RunTypes
<1>3. disk.manifest = "running" /\ disk.summary = None /\ outcome = None
  BY <1>0 DEF VerdictInv
<1>4. ErrorInv' /\ errors' \in Seq(ErrorName)
  BY <1>1, ReportsKeep
<1>5. proxy' \in {"none", "closed"}
  BY <1>0 DEF ProxyInv
<1>6. Status \in {"completed", "failed"}
  BY DEF Status
<1>7. BenchTypeOK'
  BY <1>0, <1>1, <1>2, <1>3, <1>5, <1>6 DEF BenchTypeOK, Ended, FinalSteps
<1>8. RunTypes'
  BY <1>2, <1>4 DEF RunTypes
<1>9. TaskInv'
  BY <1>0, <1>1, <1>2 DEF TaskInv, Ended, Preparing, FinalSteps
<1>10. ProxyInv'
  BY <1>5 DEF ProxyInv, FinalSteps
<1>11. VerdictInv'
  <2>1. pc' = "manifest_finalize" /\ disk'.summary # None => disk'.summary = Status'
    BY <1>1, <1>2, <1>3 DEF Status
  <2>2. pc' # "manifest_finalize" => disk'.summary = None
    BY <1>2, <1>3
  <2> QED BY <1>1, <1>2, <1>3, <2>1, <2>2 DEF VerdictInv
<1> QED BY <1>4, <1>7, <1>8, <1>9, <1>10, <1>11 DEF BenchInv

LEMMA ManifestKeeps ==
  ASSUME BenchAssumption, BenchInv, WriteManifest
  PROVE  BenchInv'
<1>0. BenchTypeOK /\ RunTypes /\ TaskInv /\ ProxyInv /\ VerdictInv /\ ErrorInv
  BY DEF BenchInv
<1>1. /\ task' = task /\ cancel' = cancel /\ results' = results /\ files' = files /\ proxy' = proxy
      /\ run_exception' = run_exception /\ outcome' = outcome
      /\ pc = "manifest_finalize" /\ pc' = "report" /\ Stage(pc) < Stage(pc')
  BY StageFacts DEF WriteManifest, exec
<1>2. disk.manifest = "running" /\ outcome = None /\ (disk.summary # None => disk.summary = Status)
  BY <1>0, <1>1 DEF VerdictInv
<1>3. \/ /\ errors' = errors /\ captures' = captures
         /\ disk' = [disk EXCEPT !.manifest = Status, !.evidence = captures]
      \/ /\ errors' = Append(errors, "manifest_finalize") /\ disk' = disk
         /\ captures' = captures \cup {Capture("manifest_finalize", FALSE)}
  BY DEF WriteManifest, Raises, RecordError
<1>4. Reports
  <2>1. CASE errors' = errors /\ captures' = captures
    BY <2>1 DEF Reports
  <2>2. CASE /\ errors' = Append(errors, "manifest_finalize")
             /\ captures' = captures \cup {Capture("manifest_finalize", FALSE)}
    <3>1. /\ "manifest_finalize" \in ErrorName /\ Stage("manifest_finalize") = Stage(pc)
          /\ Capture("manifest_finalize", FALSE) \in captures' /\ captures \subseteq captures'
      BY <1>1, <2>2 DEF ErrorName
    <3> QED BY <2>2, <3>1 DEF Reports
  <2> QED BY <1>3, <2>1, <2>2
<1>5. ErrorInv' /\ errors' \in Seq(ErrorName)
  BY <1>1, <1>4, ReportsKeep DEF FinalSteps
<1>6. /\ disk' = [manifest |-> disk'.manifest, summary |-> disk'.summary, index |-> disk'.index,
                  evidence |-> disk'.evidence]
      /\ disk'.summary = disk.summary /\ disk'.index = disk.index
      /\ disk'.manifest = "running" => errors' = Append(errors, "manifest_finalize")
      /\ disk'.manifest # "running" =>
           disk'.manifest = Status /\ disk'.evidence = captures' /\ errors' = errors
      /\ disk'.manifest \in {"running", "completed", "failed"}
  BY <1>0, <1>2, <1>3 DEF RunTypes, Status
<1>7. errors' = errors => Status' = Status
  BY <1>1 DEF Status
<1>8. errors' = Append(errors, "manifest_finalize") => errors' # << >>
  BY <1>0 DEF RunTypes
<1>9. BenchTypeOK'
  BY <1>0, <1>1, <1>6 DEF BenchTypeOK, Ended
<1>10. RunTypes'
  BY <1>1, <1>5, <1>6 DEF RunTypes, FinalSteps
<1>11. TaskInv'
  BY <1>0, <1>1, <1>6 DEF TaskInv, Ended, Preparing, FinalSteps
<1>12. ProxyInv'
  BY <1>0, <1>1 DEF ProxyInv, FinalSteps
<1>13. VerdictInv'
  BY <1>0, <1>1, <1>2, <1>6, <1>7, <1>8 DEF VerdictInv, FinalSteps
<1> QED BY <1>5, <1>9, <1>10, <1>11, <1>12, <1>13 DEF BenchInv

LEMMA ReportKeeps ==
  ASSUME BenchAssumption, BenchInv, Report
  PROVE  BenchInv'
<1>0. BenchTypeOK /\ RunTypes /\ TaskInv /\ ProxyInv /\ VerdictInv /\ ErrorInv
  BY DEF BenchInv
<1>1. /\ task' = task /\ cancel' = cancel /\ results' = results /\ files' = files /\ proxy' = proxy
      /\ run_exception' = run_exception /\ errors' = errors /\ captures' = captures /\ disk' = disk
      /\ pc = "report" /\ pc' = "ended"
  BY DEF Report, exec, final
<1>2. Status' = Status /\ Verdict' = Verdict /\ outcome' = Verdict'
  BY <1>0, <1>1 DEF Status, Verdict, VerdictInv, Report
<1>3. BenchTypeOK'
  BY <1>0, <1>1 DEF BenchTypeOK, Ended
<1>4. RunTypes'
  BY <1>0, <1>1 DEF RunTypes, FinalSteps
<1>5. TaskInv'
  BY <1>0, <1>1 DEF TaskInv, Ended, Preparing, FinalSteps
<1>6. ProxyInv'
  BY <1>0, <1>1 DEF ProxyInv, FinalSteps
<1>7. VerdictInv'
  BY <1>0, <1>1, <1>2 DEF VerdictInv, FinalSteps
<1>8. ErrorInv'
  <2>1. \A i \in DOMAIN errors : Stage(errors[i]) \in Nat
    BY <1>0, StageFacts DEF RunTypes
  <2>2. /\ Stage(pc) = 12 /\ Stage(pc') = 13 /\ pc \in FinalSteps
    BY <1>1, StageFacts DEF FinalSteps
  <2>3. \A i \in DOMAIN errors : Stage(errors[i]) < 12
    BY <1>0, <2>2 DEF ErrorInv
  <2>4. \A i \in DOMAIN errors' : Stage(errors'[i]) < Stage(pc')
    BY <1>1, <2>1, <2>2, <2>3
  <2> QED BY <1>0, <1>1, <2>4 DEF ErrorInv, IsInjective, Capture
<1> QED BY <1>3, <1>4, <1>5, <1>6, <1>7, <1>8 DEF BenchInv
-----------------------------------------------------------------------------
\* The two things a step may have reported.
LEMMA ReportsNothing ==
  ASSUME errors' = errors, captures \subseteq captures',
         \A c \in captures' : c \in captures \/ c.available \/ c.source \in Optional
  PROVE  Reports
BY DEF Reports

LEMMA ReportsOne ==
  ASSUME NEW s \in ErrorName, Stage(s) = Stage(pc), errors' = Append(errors, s),
         captures \subseteq captures', Capture(s, FALSE) \in captures'
  PROVE  Reports
BY DEF Reports

LEMMA RaisesReports ==
  ASSUME NEW s \in ErrorName, Stage(s) = Stage(pc), Raises(s)
  PROVE  Reports /\ disk' = disk
<1>1. /\ errors' = Append(errors, s) /\ captures' = captures \cup {Capture(s, FALSE)} /\ disk' = disk
  BY DEF Raises, RecordError
<1> QED BY <1>1, ReportsOne

LEMMA OptionalReports ==
  ASSUME NEW s, NEW a \in BOOLEAN, s \in Optional \/ a, errors' = errors,
         captures' = captures \cup {Capture(s, a)}
  PROVE  Reports
<1>1. \A c \in captures' : c \in captures \/ c.available \/ c.source \in Optional
  BY DEF Capture
<1> QED BY <1>1, ReportsNothing

LEMMA CloseKeeps ==
  ASSUME BenchAssumption, BenchInv, ProxyClose
  PROVE  BenchInv'
<1>1. /\ pc = "proxy_close" /\ pc' = "vllm_end" /\ proxy' = "closed"
      /\ UNCHANGED <<task, cancel, results, files, run_exception, outcome>>
  BY DEF ProxyClose
<1>2. Reports /\ disk' = disk
  <2>1. CASE UNCHANGED final
    BY <2>1, ReportsNothing DEF final
  <2>2. CASE Raises("proxy_close")
    BY <1>1, <2>2, RaisesReports DEF ErrorName
  <2> QED BY <2>1, <2>2 DEF ProxyClose
<1>3. /\ pc \in FinalSteps \ {"manifest_finalize", "report", "ended"}
      /\ pc' \in FinalSteps \ {"proxy_close", "report", "ended"} /\ Stage(pc) < Stage(pc')
  BY <1>1, StageFacts DEF FinalSteps
<1> QED BY <1>1, <1>2, <1>3, FinalMoves

LEMMA CaptureEndKeeps ==
  ASSUME BenchAssumption, BenchInv, CaptureEnd
  PROVE  BenchInv'
<1>1. /\ pc = "vllm_end" /\ pc' = "environment" /\ proxy' = proxy
      /\ UNCHANGED <<task, cancel, results, files, run_exception, outcome>>
  BY DEF CaptureEnd, exec
<1>2. Reports /\ disk' = disk
  <2>1. CASE UNCHANGED final
    BY <2>1, ReportsNothing DEF final
  <2>2. ASSUME NEW available \in BOOLEAN, captures' = captures \cup {Capture("vllm_end", available)},
               UNCHANGED <<facts, errors, disk, faults>>
        PROVE  Reports /\ disk' = disk
    <3>1. "vllm_end" \in Optional
      BY DEF Optional
    <3> QED BY <2>2, <3>1, OptionalReports
  <2>3. CASE Raises("vllm_end")
    BY <1>1, <2>3, RaisesReports DEF ErrorName
  <2>4. CASE /\ errors' = Append(errors, "vllm_end_write")
             /\ captures' = captures \cup {Capture("vllm_end", TRUE), Capture("vllm_end_write", FALSE)}
             /\ UNCHANGED <<facts, disk>>
    <3>1. "vllm_end_write" \in ErrorName /\ Stage("vllm_end_write") = Stage(pc)
      BY <1>1, StageFacts DEF ErrorName
    <3> QED BY <2>4, <3>1, ReportsOne
  <2> QED BY <2>1, <2>2, <2>3, <2>4 DEF CaptureEnd
<1>3. /\ pc \in FinalSteps \ {"manifest_finalize", "report", "ended"} /\ pc # "proxy_close"
      /\ pc' \in FinalSteps \ {"proxy_close", "report", "ended"} /\ Stage(pc) < Stage(pc')
  BY <1>1, StageFacts DEF FinalSteps
<1> QED BY <1>1, <1>2, <1>3, FinalMoves

\* environment and source_control.
LEMMA CollectKeeps ==
  ASSUME BenchAssumption, BenchInv, NEW s \in ErrorName, NEW write \in ErrorName, NEW next,
         NEW available \in SUBSET BOOLEAN, available = {TRUE} \/ s \in Optional,
         Stage(write) = Stage(s), Stage(s) < Stage(next), s \in {"environment", "source_control"},
         next \in {"source_control", "trace"}, Collect(s, write, available, next)
  PROVE  BenchInv'
<1>1. /\ pc = s /\ pc' = next /\ proxy' = proxy
      /\ UNCHANGED <<task, cancel, results, files, run_exception, outcome>>
  BY DEF Collect, exec
<1>2. Reports /\ disk' = disk
  <2>1. ASSUME NEW a \in available, captures' = captures \cup {Capture(s, a)},
               UNCHANGED <<facts, vllm, errors, disk, faults>>
        PROVE  Reports /\ disk' = disk
    <3>1. a \in BOOLEAN /\ (s \in Optional \/ a)
      OBVIOUS
    <3> QED BY <2>1, <3>1, OptionalReports
  <2>2. CASE Raises(s)
    BY <1>1, <2>2, RaisesReports
  <2>3. CASE /\ captures' = captures \cup {Capture(s, TRUE), Capture(write, FALSE)}
             /\ errors' = Append(errors, write)
             /\ UNCHANGED <<facts, vllm, disk>>
    BY <1>1, <2>3, ReportsOne
  <2> QED BY <2>1, <2>2, <2>3 DEF Collect
<1>3. /\ pc \in FinalSteps \ {"manifest_finalize", "report", "ended"} /\ pc # "proxy_close"
      /\ pc' \in FinalSteps \ {"proxy_close", "report", "ended"} /\ Stage(pc) < Stage(pc')
  BY <1>1 DEF FinalSteps
<1> QED BY <1>1, <1>2, <1>3, FinalMoves

\* The steps that read the trace and correctness.json, and load the facts.
LEMMA ReadersKeep ==
  ASSUME BenchAssumption, BenchInv, TraceHealth \/ Correctness \/ RequestFacts
  PROVE  BenchInv'
<1>1. /\ pc \in {"trace", "correctness", "request_facts"} /\ proxy' = proxy
      /\ pc = "trace" => pc' = "correctness"
      /\ pc = "correctness" => pc' = "request_facts"
      /\ pc = "request_facts" => pc' = "task_index_build"
      /\ UNCHANGED <<task, cancel, results, files, run_exception, outcome>>
  BY DEF TraceHealth, Correctness, RequestFacts, exec
<1>2. \/ \E s \in {"request_trace", "correctness", "session_agent_analysis"}, a \in BOOLEAN :
           captures' = captures \cup {Capture(s, a)} /\ errors' = errors /\ disk' = disk
      \/ pc \in ErrorName /\ Raises(pc)
  BY <1>1 DEF TraceHealth, Correctness, RequestFacts, ErrorName
<1>3. Reports /\ disk' = disk
  <2>1. ASSUME NEW s \in {"request_trace", "correctness", "session_agent_analysis"}, NEW a \in BOOLEAN,
               captures' = captures \cup {Capture(s, a)}, errors' = errors
        PROVE  Reports
    <3>1. s \in Optional
      BY DEF Optional
    <3> QED BY <2>1, <3>1, OptionalReports
  <2> QED BY <1>2, <2>1, RaisesReports
<1>4. /\ pc \in FinalSteps \ {"manifest_finalize", "report", "ended"} /\ pc # "proxy_close"
      /\ pc' \in FinalSteps \ {"proxy_close", "report", "ended"} /\ Stage(pc) < Stage(pc')
  BY <1>1, StageFacts DEF FinalSteps
<1> QED BY <1>1, <1>3, <1>4, FinalMoves

\* The steps that build the artifacts.
LEMMA BuildersKeep ==
  ASSUME BenchAssumption, BenchInv, WriteTaskIndex \/ AggregateVllm \/ WriteSummary
  PROVE  BenchInv'
<1>1. /\ pc \in {"task_index_build", "vllm_aggregation", "summary"} /\ proxy' = proxy
      /\ pc = "task_index_build" => pc' = "vllm_aggregation"
      /\ pc = "vllm_aggregation" => pc' \in {"summary", "manifest_finalize"}
      /\ pc = "summary" => pc' = "manifest_finalize"
      /\ UNCHANGED <<task, cancel, results, files, run_exception, outcome>>
  BY DEF WriteTaskIndex, AggregateVllm, WriteSummary, exec
<1>2. \/ /\ captures' = captures /\ errors' = errors
         /\ \/ disk' = disk
            \/ disk' = [disk EXCEPT !.index = {t \in Task : files[t] # None}]
            \/ pc' = "manifest_finalize" /\ disk' = [disk EXCEPT !.summary = Status]
      \/ \E s \in {"task_index_build", "vllm_aggregation", "summary_build", "summary_write"} :
           Stage(s) = Stage(pc) /\ Raises(s)
  BY <1>1, StageFacts DEF WriteTaskIndex, AggregateVllm, WriteSummary, SummaryStatus
<1>3. /\ Reports
      /\ \/ disk' = disk
         \/ disk' = [disk EXCEPT !.index = {t \in Task : files[t] # None}]
         \/ pc' = "manifest_finalize" /\ errors' = errors /\ disk' = [disk EXCEPT !.summary = Status]
  <2>1. ASSUME NEW s \in {"task_index_build", "vllm_aggregation", "summary_build", "summary_write"},
               Stage(s) = Stage(pc), Raises(s)
        PROVE  Reports /\ disk' = disk
    <3>1. s \in ErrorName
      BY DEF ErrorName
    <3> QED BY <2>1, <3>1, RaisesReports
  <2>2. captures' = captures /\ errors' = errors => Reports
    BY ReportsNothing
  <2> QED BY <1>2, <2>1, <2>2
<1>4. /\ pc \in FinalSteps \ {"manifest_finalize", "report", "ended"} /\ pc # "proxy_close"
      /\ pc' \in FinalSteps \ {"proxy_close", "report", "ended"} /\ Stage(pc) < Stage(pc')
  BY <1>1, StageFacts DEF FinalSteps
<1> QED BY <1>1, <1>3, <1>4, FinalMoves

LEMMA FinalizeKeeps ==
  ASSUME BenchAssumption, BenchInv, Finalize
  PROVE  BenchInv'
<1>1. ASSUME Collect("environment", "environment_write", {TRUE}, "source_control") PROVE BenchInv'
  <2>1. /\ "environment" \in ErrorName /\ "environment_write" \in ErrorName
        /\ Stage("environment_write") = Stage("environment") /\ Stage("environment") < Stage("source_control")
        /\ {TRUE} \in SUBSET BOOLEAN
    BY StageFacts DEF ErrorName
  <2> QED BY <1>1, <2>1, CollectKeeps
<1>2. ASSUME Collect("source_control", "source_control_write", BOOLEAN, "trace") PROVE BenchInv'
  <2>1. /\ "source_control" \in ErrorName /\ "source_control_write" \in ErrorName
        /\ Stage("source_control_write") = Stage("source_control") /\ Stage("source_control") < Stage("trace")
        /\ BOOLEAN \in SUBSET BOOLEAN /\ "source_control" \in Optional
    BY StageFacts DEF ErrorName, Optional
  <2> QED BY <1>2, <2>1, CollectKeeps
<1> QED
  BY <1>1, <1>2, CloseKeeps, CaptureEndKeeps, ReadersKeep, BuildersKeep, ManifestKeeps, ReportKeeps
     DEF Finalize
-----------------------------------------------------------------------------
\* How a task coroutine ends: the file and the list get the same result.
LEMMA RecordFacts ==
  ASSUME BenchInv, NEW t \in Task, NEW r \in ResultKind, Record(t, r)
  PROVE  /\ files' = results' /\ results' \in [Task -> ResultKind \cup {None}]
         /\ task' \in [Task -> {"none", "queued", "workspace", "agent", "done", "failed", "cancelled"}]
         /\ \A u \in Task : u # t => task'[u] = task[u] /\ results'[u] = results[u]
         /\ task'[t] = "done" => results'[t] \in {"completed", "failed"}
<1>1. /\ files = results /\ results \in [Task -> ResultKind \cup {None}]
      /\ task \in [Task -> {"none", "queued", "workspace", "agent", "done", "failed", "cancelled"}]
  BY DEF BenchInv, BenchTypeOK, TaskInv
<1>2. PICK recorded \in BOOLEAN :
        /\ files' = IF recorded THEN [files EXCEPT ![t] = r] ELSE files
        /\ results' = IF recorded THEN [results EXCEPT ![t] = r] ELSE results
        /\ task' = [task EXCEPT ![t] = IF ~recorded THEN "failed"
                                       ELSE IF Finishes(r) THEN "done"
                                       ELSE IF r = "cancelled" THEN "cancelled" ELSE "failed"]
  BY DEF Record, ListResult
<1>3. files' = results' /\ results' \in [Task -> ResultKind \cup {None}]
  BY <1>1, <1>2
<1>4. task' \in [Task -> {"none", "queued", "workspace", "agent", "done", "failed", "cancelled"}]
  BY <1>1, <1>2
<1>5. \A u \in Task : u # t => task'[u] = task[u] /\ results'[u] = results[u]
  BY <1>1, <1>2
<1>6. task'[t] = "done" => results'[t] \in {"completed", "failed"}
  BY <1>1, <1>2 DEF Finishes
<1> QED BY <1>3, <1>4, <1>5, <1>6

LEMMA TaskStepKeeps ==
  ASSUME BenchAssumption, BenchInv, NEW t \in Task, TaskStep(t)
  PROVE  BenchInv'
<1>0. BenchTypeOK /\ RunTypes /\ TaskInv /\ ProxyInv
  BY DEF BenchInv
<1>1. ~Ended(t)
  BY <1>0 DEF TaskStep, Acquire, PrepareWorkspace, RunAgent, HarnessError, CancelTask, Active, Ended, BenchTypeOK
<1>2. pc \in Gathering
  BY <1>0, <1>1 DEF RunTypes, TaskInv, Ended
<1>3. /\ pc' = pc /\ proxy' = proxy /\ captures' = captures
      /\ UNCHANGED <<run_exception, errors, disk, outcome>>
  BY DEF TaskStep, Acquire, PrepareWorkspace, RunAgent, HarnessError, CancelTask, final
<1>4. /\ files' = results' /\ results' \in [Task -> ResultKind \cup {None}]
      /\ task' \in [Task -> {"none", "queued", "workspace", "agent", "done", "failed", "cancelled"}]
      /\ \A u \in Task : u # t => task'[u] = task[u] /\ results'[u] = results[u]
      /\ task'[t] = "done" => results'[t] \in {"completed", "failed"}
  <2>0. /\ files = results /\ results \in [Task -> ResultKind \cup {None}]
        /\ task \in [Task -> {"none", "queued", "workspace", "agent", "done", "failed", "cancelled"}]
    BY <1>0 DEF BenchTypeOK, TaskInv
  <2>1. CASE Acquire(t) \/ PrepareWorkspace(t)
    <3>1. PICK s \in {"workspace", "agent"} : task' = [task EXCEPT ![t] = s]
      BY <2>1 DEF Acquire, PrepareWorkspace
    <3>2. files' = files /\ results' = results
      BY <2>1 DEF Acquire, PrepareWorkspace
    <3> QED BY <2>0, <3>1, <3>2
  <2>2. CASE RunAgent(t) \/ HarnessError(t)
    <3>1. PICK r \in ResultKind : Record(t, r)
      BY <2>2 DEF RunAgent, HarnessError, ResultKind
    <3> QED BY <3>1, RecordFacts
  <2>3. CASE CancelTask(t)
    <3>1. CASE Record(t, "cancelled")
      BY <3>1, RecordFacts DEF ResultKind
    <3>2. CASE task' = [task EXCEPT ![t] = "cancelled"] /\ files' = files /\ results' = results
      BY <2>0, <3>2
    <3> QED BY <2>3, <3>1, <3>2 DEF CancelTask
  <2> QED BY <2>1, <2>2, <2>3 DEF TaskStep
<1>5. (cancel' = cancel /\ t \notin cancel) \/ cancel' = cancel \ {t}
  BY DEF TaskStep, Acquire, PrepareWorkspace, RunAgent, HarnessError, CancelTask
<1>6. BenchTypeOK'
  <2>1. cancel' \subseteq {u \in Task : ~Ended(u)'}
    BY <1>0, <1>4, <1>5 DEF BenchTypeOK, Ended
  <2> QED BY <1>0, <1>2, <1>3, <1>4, <2>1 DEF BenchTypeOK, Ended, Gathering
<1>7. \A u \in Task : task'[u] = "done" => results'[u] \in {"completed", "failed"}
  BY <1>0, <1>4 DEF TaskInv
<1>8. pc \notin FinalSteps /\ pc' \in Preparing \cup Gathering /\ pc' # "start" /\ pc' \notin Preparing
  BY <1>2, <1>3 DEF FinalSteps, Preparing, Gathering
<1> QED BY <1>3, <1>4, <1>6, <1>7, <1>8, GoesOn
-----------------------------------------------------------------------------
\* A step of execute() that goes on to the next one.
LEMMA SetupMoves ==
  ASSUME BenchAssumption, BenchInv, pc \in Preparing, pc' \in Preparing,
         UNCHANGED <<task, cancel, results, files, run_exception, errors, disk, outcome>>,
         \A c \in captures' : c \in captures \/ c.available \/ c.source \in Optional,
         proxy' \in {"none", "created", "running", "closed"},
         pc' = "start" => proxy' = "created",
         pc' \in {"preflight", "load_tasks", "vllm_start", "create"} => proxy' = "none"
  PROVE  BenchInv'
<1>0. BenchTypeOK /\ TaskInv
  BY DEF BenchInv
<1>1. /\ task' = task /\ cancel' = cancel /\ results' = results /\ files' = files
      /\ run_exception' = run_exception /\ disk' = disk
      /\ \A t \in Task : task[t] = "none"
  BY <1>0 DEF TaskInv
<1>2. BenchTypeOK'
  BY <1>0, <1>1 DEF BenchTypeOK, Ended
<1>3. pc \notin FinalSteps
  BY DEF Preparing, FinalSteps
<1> QED BY <1>0, <1>1, <1>2, <1>3, GoesOn DEF TaskInv

LEMMA NothingStarted ==
  ASSUME BenchInv, pc \in Preparing
  PROVE  pc \notin FinalSteps /\ \A t \in Task : Ended(t)
BY DEF BenchInv, TaskInv, Preparing, FinalSteps, Ended

LEMMA SetupKeeps ==
  ASSUME BenchAssumption, ~TerminateCanRaise, BenchInv, Setup
  PROVE  BenchInv'
<1>0. /\ proxy \in {"none", "created", "running", "closed"}
      /\ pc \in {"preflight", "load_tasks", "vllm_start", "create"} => proxy = "none"
      /\ pc \in Preparing
  BY DEF BenchInv, BenchTypeOK, Setup, Preflight, PreflightFails, LoadTasks, CaptureStart, CreateProxy,
         StartProxy, WaitReady, EnsureRepoCaches, SetupRaises, Preparing
<1>1. CASE Preflight
  <2>1. \A c \in captures' : c \in captures \/ c.available
    BY <1>1 DEF Preflight, Capture
  <2> QED BY <1>0, <1>1, <2>1, SetupMoves DEF Preflight, Preparing
<1>2. CASE PreflightFails
  <2>1. /\ Leave("error", {}) /\ captures \subseteq captures' /\ proxy' = proxy
        /\ UNCHANGED <<task, cancel, results, files, errors, disk>>
    BY <1>2 DEF PreflightFails, exec
  <2> QED BY <1>0, <2>1, NothingStarted, LeaveKeeps
<1>3. CASE LoadTasks \/ WaitReady
  <2>1. /\ pc' \in {"vllm_start", "repo_cache"} /\ proxy' = proxy /\ captures' = captures
        /\ pc' = "vllm_start" => proxy = "none"
        /\ UNCHANGED <<task, cancel, results, files, run_exception, errors, disk, outcome>>
    BY <1>0, <1>3 DEF LoadTasks, WaitReady, exec, final
  <2> QED BY <1>0, <2>1, SetupMoves DEF Preparing
<1>4. CASE CaptureStart
  <2>1. /\ pc' = "create" /\ proxy' = proxy /\ proxy = "none"
        /\ UNCHANGED <<task, cancel, results, files, run_exception, errors, disk, outcome>>
    BY <1>0, <1>4 DEF CaptureStart, exec
  <2>2. \A c \in captures' : c \in captures \/ c.source \in Optional
    BY <1>4 DEF CaptureStart, Capture, Optional
  <2> QED BY <1>0, <2>1, <2>2, SetupMoves DEF Preparing
<1>5. CASE CreateProxy
  <2>1. /\ pc' = "start" /\ proxy' = "created" /\ captures' = captures
        /\ UNCHANGED <<task, cancel, results, files, run_exception, errors, disk, outcome>>
    BY <1>5 DEF CreateProxy, Created, final
  <2> QED BY <1>0, <2>1, SetupMoves DEF Preparing
<1>6. CASE StartProxy
  <2>0. /\ pc = "start" /\ proxy' = "running" /\ captures' = captures
        /\ UNCHANGED <<task, cancel, results, files, errors, disk>>
    BY <1>6 DEF StartProxy, final
  <2>1. CASE pc' = "wait_ready" /\ UNCHANGED <<workers, run_exception, faults, outcome>>
    BY <1>0, <2>0, <2>1, SetupMoves DEF Preparing
  <2>2. CASE Leave("error", {})
    BY <1>0, <2>0, <2>2, NothingStarted, LeaveKeeps
  <2> QED BY <1>6, <2>1, <2>2 DEF StartProxy
<1>7. CASE EnsureRepoCaches
  <2>0. /\ BenchTypeOK /\ TaskInv
    BY DEF BenchInv
  <2>1. /\ pc' = "gather" /\ proxy' = proxy /\ captures' = captures /\ task' = [t \in Task |-> "queued"]
        /\ cancel' = cancel /\ results' = results /\ files' = files /\ disk' = disk
        /\ run_exception' = run_exception /\ errors' = errors /\ outcome' = outcome
    BY <1>7 DEF EnsureRepoCaches, final
  <2>2. BenchTypeOK'
    BY <2>0, <2>1 DEF BenchTypeOK, Ended
  <2>3. pc \notin FinalSteps /\ pc' \in Preparing \cup Gathering /\ pc' \notin Preparing /\ pc' # "start"
    BY <1>0, <2>1, NothingStarted DEF Preparing, Gathering
  <2> QED BY <2>0, <2>1, <2>2, <2>3, GoesOn DEF TaskInv
<1>8. CASE SetupRaises
  <2>1. /\ Leave("error", {}) /\ captures \subseteq captures' /\ proxy' = proxy
        /\ UNCHANGED <<task, cancel, results, files, errors, disk>>
    BY <1>8 DEF SetupRaises, exec, final
  <2> QED BY <1>0, <2>1, NothingStarted, LeaveKeeps
<1> QED BY <1>1, <1>2, <1>3, <1>4, <1>5, <1>6, <1>7, <1>8 DEF Setup

\* gather() starts to pass a cancellation on: the run goes on to wait.
LEMMA CancelsSiblings ==
  ASSUME BenchAssumption, BenchInv, pc \in Gathering, pc' \in {"drain", "cancelling"},
         cancel' = {t \in Task : ~Ended(t)},
         UNCHANGED <<task, results, files, proxy, run_exception, outcome, errors, captures, disk>>
  PROVE  BenchInv'
<1>0. BenchTypeOK /\ TaskInv
  BY DEF BenchInv
<1>1. /\ task' = task /\ results' = results /\ files' = files /\ proxy' = proxy /\ disk' = disk
      /\ run_exception' = run_exception
  OBVIOUS
<1>2. BenchTypeOK'
  BY <1>0, <1>1 DEF BenchTypeOK, Ended
<1>3. pc \notin FinalSteps /\ pc' \in Preparing \cup Gathering /\ pc' \notin Preparing /\ pc' # "start"
  BY DEF Preparing, Gathering, FinalSteps
<1> QED BY <1>0, <1>1, <1>2, <1>3, GoesOn DEF TaskInv

LEMMA InterruptKeeps ==
  ASSUME BenchAssumption, ~TerminateCanRaise, BenchInv, Interrupt
  PROVE  BenchInv'
<1>1. CASE pc \in Awaits /\ Leave("interrupt", workers) /\ UNCHANGED cancel
  <2>1. pc \in Preparing
    BY <1>1 DEF Awaits, Preparing
  <2>2. /\ captures \subseteq captures' /\ proxy' = proxy
        /\ UNCHANGED <<task, cancel, results, files, errors, disk>>
    BY <1>1 DEF Interrupt, final
  <2> QED BY <1>1, <2>1, <2>2, NothingStarted, LeaveKeeps
<1>2. CASE /\ pc \in {"gather", "drain"} /\ pc' = "cancelling" /\ cancel' = Cancelled
           /\ UNCHANGED <<workers, run_exception, outcome>>
  <2>1. pc \in Gathering /\ cancel' = {t \in Task : ~Ended(t)}
    BY <1>2 DEF Gathering, Cancelled
  <2> QED BY <1>2, <2>1, CancelsSiblings DEF Interrupt, final
<1> QED BY <1>1, <1>2 DEF Interrupt

LEMMA GatherKeeps ==
  ASSUME BenchAssumption, ~TerminateCanRaise, BenchInv, GatherDone \/ GatherFails \/ Drained
  PROVE  BenchInv'
<1>0. BenchTypeOK /\ RunTypes /\ TaskInv /\ ProxyInv /\ VerdictInv /\ ErrorInv
  BY DEF BenchInv
<1>1. CASE GatherDone
  <2>1. /\ task' = task /\ cancel' = cancel /\ results' = results /\ files' = files /\ proxy' = proxy
        /\ run_exception' = run_exception /\ outcome' = outcome /\ errors' = errors /\ captures' = captures
        /\ disk' = disk /\ pc' = FinalStart /\ pc = "gather" /\ \A t \in Task : task[t] = "done"
    BY <1>1 DEF GatherDone, exec, final
  <2>2. /\ errors = << >> /\ outcome = None /\ disk.index = None
        /\ disk.manifest = "running" /\ disk.summary = None
    BY <1>0, <2>1 DEF VerdictInv, TaskInv, FinalSteps
  <2>3. pc' \in {"vllm_end", "proxy_close"} /\ (pc' = "vllm_end" => proxy = "none")
    BY <2>1 DEF FinalStart
  <2>4. BenchTypeOK'
    BY <1>0, <2>1, <2>3 DEF BenchTypeOK, Ended
  <2>5. RunTypes'
    BY <1>0, <2>1, <2>3 DEF RunTypes, FinalSteps
  <2>6. TaskInv'
    BY <1>0, <2>1, <2>2, <2>3 DEF TaskInv, Ended, Preparing
  <2>7. ProxyInv'
    BY <2>1, <2>3 DEF ProxyInv
  <2>8. VerdictInv'
    BY <2>1, <2>2, <2>3 DEF VerdictInv, FinalSteps
  <2>9. ErrorInv'
    BY <1>0, <2>1, <2>2 DEF ErrorInv, IsInjective
  <2> QED BY <2>4, <2>5, <2>6, <2>7, <2>8, <2>9 DEF BenchInv
<1>2. CASE GatherFails
  <2>1. pc \in Gathering /\ pc' = "drain" /\ cancel' = {t \in Task : ~Ended(t)}
        /\ UNCHANGED <<task, results, files, proxy, run_exception, outcome, errors, captures, disk>>
    BY <1>2 DEF GatherFails, LeftBy, Gathering, final
  <2> QED BY <2>1, CancelsSiblings
<1>3. CASE Drained
  <2>1. PICK exc \in {"error", "interrupt"} : Leave(exc, {})
    BY <1>3 DEF Drained, LeftBy
  <2>2. /\ pc \notin FinalSteps /\ \A t \in Task : Ended(t)
        /\ captures \subseteq captures' /\ proxy' = proxy
        /\ UNCHANGED <<task, cancel, results, files, errors, disk>>
    BY <1>3 DEF Drained, AllEnded, exec, final, FinalSteps
  <2> QED BY <2>1, <2>2, LeaveKeeps
<1> QED BY <1>1, <1>2, <1>3

LEMMA BenchStep ==
  ASSUME BenchAssumption, ~TerminateCanRaise, BenchInv, [Next]_vars
  PROVE  BenchInv'
<1>1. CASE UNCHANGED vars
  <2>1. /\ task' = task /\ cancel' = cancel /\ results' = results /\ files' = files /\ proxy' = proxy
        /\ run_exception' = run_exception /\ outcome' = outcome /\ errors' = errors /\ captures' = captures
        /\ disk' = disk /\ pc' = pc
    BY <1>1 DEF vars, exec, final
  <2>2. BenchTypeOK' /\ RunTypes' /\ ProxyInv'
    BY <2>1 DEF BenchInv, BenchTypeOK, RunTypes, ProxyInv, Ended
  <2>3. TaskInv' /\ VerdictInv'
    BY <2>1 DEF BenchInv, TaskInv, VerdictInv, Ended, Status, Verdict
  <2>4. ErrorInv'
    BY <2>1 DEF BenchInv, ErrorInv, IsInjective
  <2> QED BY <2>2, <2>3, <2>4 DEF BenchInv
<1> QED BY <1>1, SetupKeeps, InterruptKeeps, TaskStepKeeps, GatherKeeps, FinalizeKeeps DEF Next

\* runner.py and finalizer.py for every set of tasks, every concurrency and
\* any number of faults, with or without an interrupt, as long as
\* terminate_all() does not raise: the manifest says how the run ended,
\* summary and manifest agree, the failure of the run is never masked, no
\* task outlives the run, and a run that returns is complete.
THEOREM BenchIsSound ==
  ASSUME BenchAssumption, ~TerminateCanRaise
  PROVE  Spec => [](/\ BenchTypeOK /\ NoTaskOutlivesRun /\ IndexMatchesResults /\ ReturnedIsComplete
                    /\ SummaryAgreesWithManifest /\ FailureNotMasked /\ EveryFaultReported
                    /\ ProxyClosed /\ ManifestReflectsRun)
<1>1. Init => BenchInv
  BY BenchInitInv
<1>2. BenchInv /\ [Next]_vars => BenchInv'
  BY BenchStep
<1>3. BenchInv => /\ BenchTypeOK /\ NoTaskOutlivesRun /\ IndexMatchesResults /\ ReturnedIsComplete
                  /\ SummaryAgreesWithManifest /\ FailureNotMasked /\ EveryFaultReported
                  /\ ProxyClosed /\ ManifestReflectsRun
  BY BenchInvImplies
<1> QED BY <1>1, <1>2, <1>3, PTL DEF Spec
=============================================================================
