----------------------------- MODULE ReplayRunner -----------------------------
(***************************************************************************)
(* One Replay run, agentinfer/agentbench/replay/runner.py: _run_replay()   *)
(* converts, analyses and plans the trace, opens the trace writer, the     *)
(* tokenizer and the transport, executes the plan, closes them, decides    *)
(* whether the replay was complete, and leaves a manifest, a plan, a       *)
(* summary and the evidence captures behind.                               *)
(*                                                                         *)
(* Any step may raise instead of taking effect (I/O, a backend, a timeout, *)
(* a cancellation); the handler then closes what is still held and         *)
(* records the failure, and its own writes may fail too.                   *)
(***************************************************************************)
EXTENDS Naturals, Sequences, FiniteSets

CONSTANTS
  TraceTypes,   \* the trace_type values a run may be configured with
  Request,      \* the planned requests
  RunTimeout,   \* experiment.run_timeout_seconds is set
  None

Resource == {"transport", "tokenizer", "writer"}
Object == {"converter", "warmup", "replay", "tokenizer", "writer"}

\* What the constants may be; None is none of the values it stands in for.
RunnerAssumption ==
  /\ TraceTypes \subseteq {"agentinfer", "agentX", "tracelab", "inferact"}
  /\ RunTimeout \in BOOLEAN
  /\ None \notin Object \cup {"active", "completed", "failed", "returned", "raised", "handler failed"}

VARIABLES
  pc,         \* the next step of the run
  trace_type,
  held,       \* resource -> the object its variable refers to, or None
  state,      \* object -> new, open, closed; broken once its close raised
  started,    \* writer_started
  planned,    \* the variable plan is set
  files,      \* the evidence files on disk, and the metrics found unavailable
  captures,   \* the names captured so far
  evidence,   \* the captures the manifest on disk lists
  status,     \* what manifest.json, replay-plan.json and summary.json say
  nodes,      \* request -> status of its node in task_results
  facts,      \* request -> status of its fact in requests.jsonl
  complete,   \* complete_replay
  outcome     \* how _run_replay ended

run == <<trace_type, held, state, started, planned>>
data == <<nodes, facts, complete>>
disk == <<files, captures, evidence, status>>
vars == <<pc, run, disk, data, outcome>>

Init ==
  /\ pc = "requests"
  /\ trace_type \in TraceTypes
  /\ held = [r \in Resource |-> None]
  /\ state = [o \in Object |-> "new"]
  /\ started = FALSE /\ planned = FALSE
  /\ files = {} /\ captures = << >> /\ evidence = << >>
  /\ status = [manifest |-> "running", plan |-> None, summary |-> None]
  /\ nodes = [q \in Request |-> None]
  /\ facts = [q \in Request |-> "missing"]
  /\ complete = FALSE
  /\ outcome = None

Go(from, to) == pc = from /\ pc' = to

\* A file is written, then captured.
Record(name) == files' = files \cup {name} /\ captures' = Append(captures, name)

\* capture_vllm_metrics() does not raise: metrics it cannot get are captured as unavailable.
CaptureMetrics(name, missing) == \E n \in {name, missing} : Record(n)
-----------------------------------------------------------------------------
(* The source, the analysis and the plan.                                  *)

Requests ==
  /\ Go("requests", "source")
  /\ Record("request_trace")
  /\ UNCHANGED <<run, evidence, status, data, outcome>>

\* _prepare_replay_source(): an AgentInfer trace is used as it is; only the
\* Codex converter talks to the backend and is closed in a finally.
PrepareSource ==
  \/ /\ trace_type = "agentinfer"
     /\ Go("source", "analysis")
     /\ UNCHANGED <<run, disk, data, outcome>>
  \/ /\ trace_type \in {"agentX", "tracelab"}
     /\ Go("source", "analysis")
     /\ Record("replay_conversion_manifest")
     /\ UNCHANGED <<run, evidence, status, data, outcome>>
  \/ /\ trace_type = "inferact"
     /\ Go("source", "convert")
     /\ state' = [state EXCEPT !["converter"] = "open"]
     /\ UNCHANGED <<trace_type, held, started, planned, disk, data, outcome>>

Convert ==
  /\ pc = "convert"
  /\ \E s \in {"closed", "broken"} : state' = [state EXCEPT !["converter"] = s]
  /\ \/ /\ state'["converter"] = "closed"
        /\ pc' = "analysis"
        /\ Record("replay_conversion_manifest")
     \/ pc' = "close transport" /\ UNCHANGED <<files, captures>>
  /\ UNCHANGED <<trace_type, held, started, planned, evidence, status, data, outcome>>

Analyze ==
  /\ Go("analysis", "plan")
  /\ Record("replay_source_analysis")
  /\ UNCHANGED <<run, evidence, status, data, outcome>>

BuildPlan ==
  /\ Go("plan", "write plan")
  /\ planned' = TRUE
  /\ UNCHANGED <<trace_type, held, state, started, disk, data, outcome>>

WritePlan ==
  /\ Go("write plan", "writer")
  /\ Record("replay_plan")
  /\ status' = [status EXCEPT !.plan = "active"]
  /\ UNCHANGED <<run, evidence, data, outcome>>
-----------------------------------------------------------------------------
(* Setup: writer, tokenizer, prepare() under the setup timeout, metrics.   *)

Open(r, o) == held' = [held EXCEPT ![r] = o] /\ state' = [state EXCEPT ![o] = "open"]

NewWriter ==
  /\ Go("writer", "start writer")
  /\ held' = [held EXCEPT !["writer"] = "writer"]
  /\ UNCHANGED <<trace_type, state, started, planned, disk, data, outcome>>

StartWriter ==
  /\ Go("start writer", "tokenizer")
  /\ state' = [state EXCEPT !["writer"] = "open"]
  /\ started' = TRUE
  /\ UNCHANGED <<trace_type, held, planned, disk, data, outcome>>

NewTokenizer ==
  /\ Go("tokenizer", IF trace_type = "tracelab" THEN "open warmup" ELSE "prepare tasks")
  /\ Open("tokenizer", "tokenizer")
  /\ UNCHANGED <<trace_type, started, planned, disk, data, outcome>>

OpenWarmup ==
  /\ Go("open warmup", "warmup")
  /\ Open("transport", "warmup")
  /\ UNCHANGED <<trace_type, started, planned, disk, data, outcome>>

Warmup ==
  /\ Go("warmup", "close warmup")
  /\ Record("tracelab_warmup")
  /\ UNCHANGED <<run, evidence, status, data, outcome>>

\* A close that returns forgets the object; one that raises leaves it in its
\* variable, and the handler closes it once more.
Close(r, from, to, after) ==
  LET o == held[r] IN
  /\ pc = from
  /\ \/ state' = [state EXCEPT ![o] = after] /\ held' = [held EXCEPT ![r] = None] /\ pc' = to
     \/ state' = [state EXCEPT ![o] = "broken"] /\ UNCHANGED held /\ pc' = "close transport"

CloseWarmup ==
  /\ Close("transport", "close warmup", "prepare tasks", "closed")
  /\ UNCHANGED <<trace_type, started, planned, disk, data, outcome>>

PrepareTasks ==
  /\ Go("prepare tasks", "preparation")
  /\ UNCHANGED <<run, disk, data, outcome>>

WritePreparation ==
  /\ Go("preparation", "start metrics")
  /\ Record("replay_preparation")
  /\ UNCHANGED <<run, evidence, status, data, outcome>>

StartMetrics ==
  /\ Go("start metrics", "open transport")
  /\ CaptureMetrics("vllm_start", "vllm_start unavailable")
  /\ UNCHANGED <<run, evidence, status, data, outcome>>

OpenTransport ==
  /\ Go("open transport", "execute")
  /\ Open("transport", "replay")
  /\ UNCHANGED <<trace_type, started, planned, disk, data, outcome>>
-----------------------------------------------------------------------------
(* Execution, the orderly close, and the verdict.                          *)

\* A node that succeeded may have lost its fact; one whose fact is an error
\* did not succeed.
Execute ==
  /\ Go("execute", "transport done")
  /\ nodes' \in [Request -> {"success", "failed"}]
  /\ facts' \in [Request -> {"success", "error", "missing"}]
  /\ \A q \in Request : facts'[q] = "error" => nodes'[q] = "failed"
  /\ UNCHANGED <<run, disk, complete, outcome>>

CloseTransport ==
  /\ Close("transport", "transport done", "tokenizer done", "closed")
  /\ UNCHANGED <<trace_type, started, planned, disk, data, outcome>>

CloseTokenizer ==
  /\ Close("tokenizer", "tokenizer done", "writer done", "closed")
  /\ UNCHANGED <<trace_type, started, planned, disk, data, outcome>>

\* writer.close() reports the writer's error instead of raising it; the run
\* raises it itself, with nothing held any more.
CloseWriter ==
  /\ \E to \in {"verdict", "close transport"} : Close("writer", "writer done", to, "closed")
  /\ started' = (held'["writer"] # None)
  /\ UNCHANGED <<trace_type, planned, disk, data, outcome>>

\* _complete_replay(): every node succeeded, and its fact was persisted.
Complete == \A q \in Request : nodes[q] = "success" /\ facts[q] = "success"

Verdict(c) == IF c THEN "completed" ELSE "failed"

Decide ==
  /\ Go("verdict", "execution")
  /\ complete' = Complete
  /\ status' = [status EXCEPT !.plan = Verdict(Complete)]
  /\ UNCHANGED <<run, files, captures, evidence, nodes, facts, outcome>>

WriteExecution ==
  /\ Go("execution", IF trace_type = "inferact" THEN "validation" ELSE "end metrics")
  /\ Record("replay_execution")
  /\ UNCHANGED <<run, evidence, status, data, outcome>>

WriteValidation ==
  /\ Go("validation", "end metrics")
  /\ Record("trace_record_validation")
  /\ UNCHANGED <<run, evidence, status, data, outcome>>

EndMetrics ==
  /\ Go("end metrics", "summary")
  /\ CaptureMetrics("vllm_end", "vllm_end unavailable")
  /\ UNCHANGED <<run, evidence, status, data, outcome>>

WriteSummary ==
  /\ Go("summary", "manifest")
  /\ status' = [status EXCEPT !.summary = Verdict(complete)]
  /\ UNCHANGED <<run, files, captures, evidence, data, outcome>>

\* The finished manifest is on disk before an incomplete replay raises.
ReturnOrRaise ==
  IF complete THEN pc' = "ended" /\ outcome' = "returned" ELSE pc' = "close transport" /\ UNCHANGED outcome

WriteManifest ==
  /\ pc = "manifest"
  /\ status' = [status EXCEPT !.manifest = Verdict(complete)]
  /\ evidence' = captures
  /\ ReturnOrRaise
  /\ UNCHANGED <<run, files, captures, data>>
-----------------------------------------------------------------------------
(* Exceptions.                                                             *)

Steps == {"requests", "source", "analysis", "plan", "write plan", "writer", "start writer", "tokenizer",
          "open warmup", "warmup", "prepare tasks", "preparation", "start metrics", "open transport", "execute",
          "verdict", "execution", "validation", "end metrics", "summary", "manifest"}

\* Any step may raise; prepare() and, with a run timeout, execute() do so at
\* the latest when their timeout expires.
Timed == {"open warmup", "warmup", "prepare tasks"} \cup (IF RunTimeout THEN {"execute"} ELSE {})
RaiseAt(steps) ==
  /\ pc \in steps
  /\ pc' = "close transport"
  /\ UNCHANGED <<run, disk, data, outcome>>
Raise == RaiseAt(Steps)
Expire == RaiseAt(Timed)

\* _close_replay_resources(): transport, tokenizer, writer, each whatever
\* the one before it did.
CloseOrder == <<"transport", "tokenizer", "writer">>
ClosePC == <<"close transport", "close tokenizer", "close writer">>
NextPC == <<"close tokenizer", "close writer", "fail plan">>

\* Mutant of AfterClose: the first close that raises ends the cleanup.
StopAtError(i, failed) == IF failed THEN "fail plan" ELSE NextPC[i]
AfterClose(i, failed) == NextPC[i]

Closable(r) == held[r] # None /\ (r = "writer" => started)

CleanUp(i) ==
  LET r == CloseOrder[i] IN
  /\ pc = ClosePC[i]
  /\ \/ /\ Closable(r)
        /\ \E failed \in BOOLEAN :
             /\ state' = [state EXCEPT ![held[r]] =
                            IF @ = "closed" THEN "closed twice" ELSE IF failed THEN "broken" ELSE "closed"]
             /\ pc' = AfterClose(i, failed)
     \/ ~Closable(r) /\ pc' = AfterClose(i, FALSE) /\ UNCHANGED state
  /\ UNCHANGED <<trace_type, held, started, planned, disk, data, outcome>>

FailPlan ==
  /\ Go("fail plan", "fail preparation")
  /\ status' = IF planned THEN [status EXCEPT !.plan = "failed"] ELSE status
  /\ UNCHANGED <<run, files, captures, evidence, data, outcome>>

\* The failed preparation is recorded only when the file is not there yet.
PreparationMissing == "replay_preparation" \notin files

FailPreparation ==
  /\ Go("fail preparation", "fail error")
  /\ IF PreparationMissing THEN Record("replay_preparation") ELSE UNCHANGED <<files, captures>>
  /\ UNCHANGED <<run, evidence, status, data, outcome>>

FailError ==
  /\ Go("fail error", "fail manifest")
  /\ Record("replay_error")
  /\ UNCHANGED <<run, evidence, status, data, outcome>>

FailManifest ==
  /\ Go("fail manifest", "ended")
  /\ status' = [status EXCEPT !.manifest = "failed"]
  /\ evidence' = captures
  /\ outcome' = "raised"
  /\ UNCHANGED <<run, files, captures, data>>

\* A write of the handler fails: the original error is replaced by that one.
HandlerFails ==
  /\ pc \in {"fail plan", "fail preparation", "fail error", "fail manifest"}
  /\ pc' = "ended"
  /\ outcome' = "handler failed"
  /\ UNCHANGED <<run, disk, data>>

Setup == Requests \/ PrepareSource \/ Convert \/ Analyze \/ BuildPlan \/ WritePlan \/ NewWriter \/ StartWriter
         \/ NewTokenizer \/ OpenWarmup \/ Warmup \/ CloseWarmup \/ PrepareTasks \/ WritePreparation
         \/ StartMetrics \/ OpenTransport
Finish == CloseTransport \/ CloseTokenizer \/ CloseWriter \/ Decide \/ WriteExecution \/ WriteValidation
          \/ EndMetrics \/ WriteSummary \/ WriteManifest
Handler == (\E i \in 1..3 : CleanUp(i)) \/ FailPlan \/ FailPreparation \/ FailError \/ FailManifest \/ HandlerFails

Next == Setup \/ Execute \/ Finish \/ Raise \/ Handler

Spec == Init /\ [][Next]_vars

\* The local steps are taken, the timeouts expire and the closes return;
\* prepare() and execute() themselves may hang.
Local == /\ pc \notin {"warmup", "prepare tasks", "execute"}
         /\ Setup \/ Finish \/ Handler
-----------------------------------------------------------------------------
RunnerTypeOK ==
  /\ held \in [Resource -> Object \cup {None}]
  /\ \A r \in Resource : held[r] \in (IF r = "transport" THEN {"warmup", "replay"} ELSE {r}) \cup {None}
  /\ state \in [Object -> {"new", "open", "closed", "broken", "closed twice"}]
  /\ status.manifest \in {"running", "completed", "failed"}
  /\ status.plan \in {None, "active", "completed", "failed"}
  /\ outcome \in {None, "returned", "raised", "handler failed"}

\* However a run ends (any step raising, a timeout during the TraceLab
\* warmup, one of the closes raising), every object it opened was asked to
\* close: nothing is left running behind the finished run.
NothingLeftOpen == pc = "ended" => \A o \in Object : state[o] # "open"

\* An object whose close() returned is never closed again by the handler.
ClosedOnce == \A o \in Object : state[o] # "closed twice"

\* The trace writer outlives the transport that submits facts to it.
WriterOutlivesTransport == state["writer"] = "closed" => state["replay"] # "open"

\* The manifest, the plan and the outcome of the run tell the same story: a
\* run returns exactly when its manifest says completed, and a run that
\* raised has a manifest, and a plan if there was one, that says failed and
\* lists the error.
VerdictsAgree ==
  pc = "ended" =>
    /\ outcome = "returned" <=> status.manifest = "completed"
    /\ outcome = "returned" => status.plan = "completed" /\ status.summary = "completed"
    /\ outcome = "raised" =>
         /\ status.manifest = "failed"
         /\ planned => status.plan = "failed"
         /\ \E i \in DOMAIN evidence : evidence[i] = "replay_error"

\* A manifest that says completed stands for a replay in which every planned
\* request succeeded and has its successful fact in requests.jsonl.
CompletedIsCovered == status.manifest = "completed" => \A q \in Request : facts[q] = "success"

\* What the manifest lists is on disk, or listed as unavailable, and is listed once.
EvidenceOnDisk ==
  /\ \A i \in DOMAIN evidence : evidence[i] \in files
  /\ \A i, j \in DOMAIN evidence : evidence[i] = evidence[j] => i = j

RunOver == pc = "ended"
=============================================================================
