----------------------------- MODULE JiuwenRunner -----------------------------
(***************************************************************************)
(* run_jiuwenswarm (agentinfer/agentbench/agents/jiuwenswarm/runner.py)    *)
(* and the JiuwenInstance it owns (instance.py): one task runs in its own  *)
(* services.  The instance starts jiuwenswarm-init, the sandbox server     *)
(* ("box") and the services ("app") one after the other; the runner then   *)
(* starts the command line client ("cli"), gives it the prompt and reads   *)
(* its events.  Everything may fail, run into the task's deadline or be    *)
(* cancelled by the benchmark; whatever was started must be stopped.       *)
(*                                                                         *)
(* stop is the stop() in progress: by whom it was called, and the process  *)
(* it is waiting for after SIGTERM.  The runner shields its own stop(), so *)
(* a cancellation leaves it running; the one in start() is not shielded.   *)
(***************************************************************************)
EXTENDS Naturals, Sequences, FiniteSets

CONSTANTS
  MaxCancels,        \* bound: cancellations of the task
  MaxEvents,         \* bound: events the client writes
  CancelInCleanup    \* whether a cancellation may hit start() while it cleans up

\* What the constants may be.
JiuwenAssumption == {MaxCancels, MaxEvents} \subseteq Nat /\ CancelInCleanup \in BOOLEAN

Order == [init |-> 1, app |-> 2, box |-> 3]   \* in which stop() takes the instance's processes
Proc == {"init", "app", "box", "cli"}

VARIABLES
  pc,          \* where the runner is
  raised,      \* the exception start() cleans up after
  proc,        \* process -> "none", "running" or "dead"
  handle,      \* the processes the instance has a field for
  stop,        \* the stop() in progress
  stopFailed,  \* a stop() raised
  timedOut,    \* timed_out of _communicate_with_timeout
  events,      \* the events read
  terminal,    \* _JsonlStatusTracker._terminal
  verdict,     \* _JsonlStatusTracker._reason
  outcome, reason,
  cancels,     \* cancellations so far
  exit         \* how the runner ended: "no", "returned", "raised"

jwVars == <<pc, raised, proc, handle, stop, stopFailed, timedOut, events, terminal, verdict,
            outcome, reason, cancels, exit>>

NoStop == [by |-> "nobody", on |-> "none"]
Starting == {"init", "spawn_box", "box", "spawn_app", "app"}

JwInit ==
  /\ pc = "spawn_init"
  /\ raised = "none"
  /\ proc = [p \in Proc |-> "none"]
  /\ handle = {}
  /\ stop = NoStop
  /\ stopFailed = FALSE
  /\ timedOut = FALSE
  /\ events = << >>
  /\ terminal = FALSE
  /\ verdict = "none"
  /\ outcome = "failed" /\ reason = "harness_error"
  /\ cancels = 0
  /\ exit = "no"

result == <<outcome, reason>>
tracker == <<timedOut, events, terminal, verdict>>
-----------------------------------------------------------------------------
(* JiuwenInstance.start *)

\* start() fails with this exception and stops what it started: "timeout", "startup", "error", "cancel".
Fail(exception) == pc' = "cleanup" /\ raised' = exception /\ stop' = [by |-> "start", on |-> "none"]

SpawnAt == [spawn_init |-> "init", spawn_box |-> "box", spawn_app |-> "app"]

\* create_subprocess_exec of one of the instance's processes; the field is set.
Spawn ==
  /\ pc \in DOMAIN SpawnAt
  /\ proc' = [proc EXCEPT ![SpawnAt[pc]] = "running"]
  /\ handle' = handle \union {SpawnAt[pc]}
  /\ pc' = SpawnAt[pc]
  /\ UNCHANGED <<raised, stop, stopFailed, tracker, result, cancels, exit>>

SpawnFails ==
  /\ pc \in DOMAIN SpawnAt
  /\ \E e \in {"startup", "error"} : Fail(e)
  /\ UNCHANGED <<proc, handle, stopFailed, tracker, result, cancels, exit>>

\* jiuwenswarm-init exits; its code and the configuration it wrote decide.
InitExits(ok) ==
  /\ pc = "init"
  /\ proc' = [proc EXCEPT !["init"] = "dead"]
  /\ handle' = handle \ {"init"}
  /\ IF ok THEN pc' = "spawn_box" /\ UNCHANGED <<raised, stop>> ELSE Fail("error")
  /\ UNCHANGED <<stopFailed, tracker, result, cancels, exit>>

\* Its time is over, or start() is cancelled: _initialize terminates it itself, then start() cleans up.
InitBroken(e) ==
  /\ pc' = "init_kill"
  /\ raised' = e
  /\ UNCHANGED stop

InitKilled ==
  /\ pc = "init_kill"
  /\ proc' = [proc EXCEPT !["init"] = "dead"]
  /\ handle' = handle \ {"init"}
  /\ Fail(raised)
  /\ UNCHANGED <<stopFailed, tracker, result, cancels, exit>>

\* Signalling its process group is refused, by PermissionError or another error.
InitKillRaises ==
  /\ pc = "init_kill"
  /\ handle' = handle \ {"init"}
  /\ stopFailed' = TRUE
  /\ Fail("startup") \/ Fail("error")
  /\ UNCHANGED <<proc, tracker, result, cancels, exit>>

\* The sandbox server answers /health, or the services' ports are open.
Ready ==
  /\ pc \in {"box", "app"}
  /\ proc[pc] = "running"
  /\ pc' = IF pc = "box" THEN "spawn_app" ELSE "spawn_cli"
  /\ UNCHANGED <<raised, proc, handle, stop, stopFailed, tracker, result, cancels, exit>>

\* It has exited during startup, or the configuration cannot be used.
NotReady ==
  /\ pc \in {"box", "app"}
  /\ Fail("error")
  /\ UNCHANGED <<proc, handle, stopFailed, tracker, result, cancels, exit>>

\* _STARTUP_TIMEOUT_SECONDS, or the task's deadline by way of wait_for.
StartTimeout ==
  /\ pc \in Starting \union {"spawn_init"}
  /\ IF pc = "init" THEN InitBroken("timeout") ELSE Fail("timeout")
  /\ UNCHANGED <<proc, handle, stopFailed, tracker, result, cancels, exit>>

\* A process may end by itself.
Exits(p) ==
  /\ proc[p] = "running"
  /\ p \in {"box", "app"}
  /\ pc # "over"
  /\ proc' = [proc EXCEPT ![p] = "dead"]
  /\ UNCHANGED <<pc, raised, handle, stop, stopFailed, tracker, result, cancels, exit>>
-----------------------------------------------------------------------------
(* JiuwenInstance.stop *)

\* The next process: its field is cleared before SIGTERM is sent and its exit awaited.
StopNext ==
  /\ stop.by # "nobody"
  /\ stop.on = "none"
  /\ \E p \in handle :
       /\ \A q \in handle : Order[p] <= Order[q]
       /\ handle' = handle \ {p}
       /\ stop' = IF proc[p] = "running" THEN [stop EXCEPT !.on = p] ELSE stop
  /\ UNCHANGED <<pc, raised, proc, stopFailed, tracker, result, cancels, exit>>

\* It ends at SIGTERM, or at SIGKILL after _STOP_TIMEOUT_SECONDS.
Terminated(p) == {"dead"}

StopWait ==
  /\ stop.on # "none"
  /\ \E s \in Terminated(stop.on) : proc' = [proc EXCEPT ![stop.on] = s]
  /\ stop' = [stop EXCEPT !.on = "none"]
  /\ UNCHANGED <<pc, raised, handle, stopFailed, tracker, result, cancels, exit>>

\* What the runner's handlers make of an exception of start().
StartReason == [timeout |-> "agent_startup_timeout", startup |-> "agent_startup_failed", error |-> "harness_error"]

\* The stop() of start() is through: start() raises again.
StartStopped ==
  /\ pc = "cleanup"
  /\ stop.by = "start" /\ stop.on = "none" /\ handle = {}
  /\ IF raised = "cancel"
     THEN pc' = "cancelled" /\ stop' = NoStop /\ UNCHANGED result
     ELSE pc' = "final" /\ stop' = [by |-> "runner", on |-> "none"]
          /\ reason' = StartReason[raised] /\ UNCHANGED outcome
  /\ UNCHANGED <<raised, proc, handle, stopFailed, tracker, cancels, exit>>

\* Signalling a process group is refused: stop() raises where it is; out of start(), a
\* PermissionError is a startup failure to the runner.
StopRaises ==
  /\ stop.on # "none"
  /\ stopFailed' = TRUE
  /\ IF pc \in {"cleanup", "final"}
     THEN /\ outcome' = "failed"
          /\ \/ reason' = "harness_error"
             \/ stop.by = "start" /\ reason' = "agent_startup_failed"
          /\ IF stop.by = "start"
             THEN pc' = "final" /\ stop' = [by |-> "runner", on |-> "none"] /\ UNCHANGED exit
             ELSE /\ stop' = NoStop
                  /\ IF exit = "raising" THEN pc' = "over" /\ exit' = "raised" ELSE pc' = "patch" /\ UNCHANGED exit
     ELSE stop' = NoStop /\ UNCHANGED <<pc, result, exit>>
  /\ UNCHANGED <<raised, proc, handle, tracker, cancels>>

\* The shielded stop() of the runner's finally is through.
FinalStopped ==
  /\ stop.by = "runner" /\ stop.on = "none" /\ handle = {}
  /\ stop' = NoStop
  /\ IF pc = "final"
     THEN IF exit = "raising" THEN pc' = "over" /\ exit' = "raised" ELSE pc' = "patch" /\ UNCHANGED exit
     ELSE UNCHANGED <<pc, exit>>
  /\ UNCHANGED <<raised, proc, handle, stopFailed, tracker, result, cancels>>
-----------------------------------------------------------------------------
(* run_jiuwenswarm *)

ToFinal == pc' = "final" /\ stop' = [by |-> "runner", on |-> "none"]

SpawnCli(ok) ==
  /\ pc = "spawn_cli"
  /\ IF ok THEN proc' = [proc EXCEPT !["cli"] = "running"] /\ pc' = "prompt" /\ UNCHANGED <<stop, result>>
     ELSE ToFinal /\ reason' = "agent_startup_failed" /\ UNCHANGED <<proc, outcome>>
  /\ UNCHANGED <<raised, handle, stopFailed, tracker, cancels, exit>>

\* What a line of the client says: its end, nothing of note, or a problem.
Events == {"terminal", "other", "confirmation_hang", "interrupted", "harness_error"}

\* _observe_line: the first problem stands, whatever is read before or after it.
ObserveLine(kind) ==
  /\ verdict' = IF kind \in {"terminal", "other"} \/ verdict # "none" THEN verdict ELSE kind
  /\ terminal' = (terminal \/ (kind = "terminal" /\ verdict = "none"))

ReadEvent(kind) ==
  /\ pc \in {"prompt", "waiting"}
  /\ proc["cli"] = "running"
  /\ Len(events) < MaxEvents
  /\ events' = Append(events, kind)
  /\ ObserveLine(kind)
  /\ UNCHANGED <<pc, raised, proc, handle, stop, stopFailed, timedOut, result, cancels, exit>>

PromptDelivered ==
  /\ pc = "prompt"
  /\ pc' = "waiting"
  /\ UNCHANGED <<raised, proc, handle, stop, stopFailed, tracker, result, cancels, exit>>

\* _kill_cli_process_group: SIGKILL, then wait().
KillCli == proc' = [proc EXCEPT !["cli"] = "dead"]

\* The prompt's time or the task's is over.
CliTimeout ==
  /\ pc \in {"prompt", "waiting"}
  /\ KillCli
  /\ timedOut' = TRUE
  /\ pc' = "drain"
  /\ UNCHANGED <<raised, handle, stop, stopFailed, events, terminal, verdict, result, cancels, exit>>

\* The client closed its input, or something else went wrong: it is killed and the exception handled.
CliError ==
  /\ pc \in {"prompt", "waiting", "drain"}
  /\ KillCli
  /\ ToFinal
  /\ reason' = "harness_error"
  /\ UNCHANGED <<raised, handle, stopFailed, tracker, outcome, cancels, exit>>

CliExits ==
  /\ pc = "waiting"
  /\ KillCli
  /\ pc' = "drain"
  /\ UNCHANGED <<raised, handle, stop, stopFailed, tracker, result, cancels, exit>>

\* classify: no event that says the end is an interruption, whatever the exit code.
Classify == IF verdict # "none" THEN verdict ELSE IF terminal THEN "none" ELSE "interrupted"

\* All output is read and written down.
Drain ==
  /\ pc = "drain"
  /\ IF timedOut
     THEN pc' = "interrupt" /\ UNCHANGED <<stop, result>>
     ELSE /\ ToFinal
          /\ outcome' = IF Classify = "none" THEN "completed" ELSE "failed"
          /\ reason' = Classify
  /\ UNCHANGED <<raised, proc, handle, stopFailed, tracker, cancels, exit>>

\* instance.interrupt(): up to three attempts within ten seconds.
Interrupt(ok) ==
  /\ pc = "interrupt"
  /\ ToFinal
  /\ reason' = IF ok THEN "timeout" ELSE "harness_error"
  /\ UNCHANGED <<raised, proc, handle, stopFailed, tracker, outcome, cancels, exit>>

\* The handler of CancelledError has interrupted the session, with or without an answer.
CancelInterrupted ==
  /\ pc = "cancelled"
  /\ ToFinal
  /\ exit' = "raising"
  /\ UNCHANGED <<raised, proc, handle, stopFailed, tracker, result, cancels>>

\* export_patch and what is written after it; a failure takes back a completed outcome.
ExportPatch(ok) ==
  /\ pc = "patch"
  /\ IF ok \/ outcome = "failed" THEN UNCHANGED result ELSE outcome' = "failed" /\ reason' = "harness_error"
  /\ pc' = "over"
  /\ exit' = "returned"
  /\ UNCHANGED <<raised, proc, handle, stop, stopFailed, tracker, cancels>>
-----------------------------------------------------------------------------
(* A cancellation, by where the task is waiting. *)
CancelStart ==
  /\ pc \in Starting \union {"spawn_init"}
  /\ IF pc = "init" THEN InitBroken("cancel") ELSE Fail("cancel")
  /\ UNCHANGED <<proc, handle, stopFailed, tracker, result, exit>>

\* start() is cleaning up: what it is waiting for is given up.
CancelCleanup ==
  /\ CancelInCleanup
  /\ pc \in {"init_kill", "cleanup"}
  /\ IF pc = "init_kill" THEN handle' = handle \ {"init"} /\ Fail("cancel")
     ELSE pc' = "cancelled" /\ stop' = NoStop /\ raised' = "cancel" /\ UNCHANGED handle
  /\ UNCHANGED <<proc, stopFailed, tracker, result, exit>>

CancelCli ==
  /\ pc \in {"spawn_cli", "prompt", "waiting", "drain", "interrupt"}
  /\ IF proc["cli"] = "running" THEN KillCli ELSE UNCHANGED proc
  /\ pc' = "cancelled"
  /\ UNCHANGED <<raised, handle, stop, stopFailed, tracker, result, exit>>

\* In the handler, the shielded interrupt goes on; the finally is next.
CancelHandler ==
  /\ pc = "cancelled"
  /\ ToFinal
  /\ exit' = "raising"
  /\ UNCHANGED <<raised, proc, handle, stopFailed, tracker, result>>

\* In the finally, the shielded stop() goes on without its caller.
CancelFinal ==
  /\ pc \in {"final", "patch"}
  /\ pc' = "over"
  /\ exit' = "raised"
  /\ UNCHANGED <<raised, proc, handle, stop, stopFailed, tracker, result>>

Cancel ==
  /\ cancels < MaxCancels
  /\ cancels' = cancels + 1
  /\ CancelStart \/ CancelCleanup \/ CancelCli \/ CancelHandler \/ CancelFinal
-----------------------------------------------------------------------------
Step ==
  \/ Spawn \/ SpawnFails \/ InitKilled \/ Ready \/ NotReady \/ StartTimeout
  \/ \E ok \in BOOLEAN : InitExits(ok) \/ SpawnCli(ok) \/ Interrupt(ok) \/ ExportPatch(ok)
  \/ StopNext \/ StopWait \/ StartStopped \/ FinalStopped
  \/ PromptDelivered \/ CliTimeout \/ CliError \/ CliExits \/ Drain \/ CancelInterrupted

JwNext ==
  \/ Step \/ Cancel \/ StopRaises \/ InitKillRaises
  \/ \E p \in Proc : Exits(p)
  \/ \E kind \in Events : ReadEvent(kind)

JwSpec == JwInit /\ [][JwNext]_jwVars
-----------------------------------------------------------------------------
JwTypeOK ==
  /\ proc \in [Proc -> {"none", "running", "dead"}]
  /\ handle \subseteq Proc
  /\ stop.by \in {"nobody", "start", "runner"} /\ stop.on \in Proc \union {"none"}
  /\ outcome \in {"completed", "failed"}
  /\ (outcome = "completed") = (reason = "none")
  /\ exit \in {"no", "raising", "returned", "raised"}
  /\ cancels \in 0 .. MaxCancels

\* When the runner is through and no stop() of its is still at work, none of the processes
\* it started is running, wherever it failed, timed out or was cancelled.
NoProcessLeft ==
  (pc = "over" /\ stop.by = "nobody" /\ ~stopFailed) => \A p \in Proc : proc[p] # "running"

\* A completed run had a client that said so, nothing that went wrong in its events, no
\* timeout, and services that could be stopped; a late problem is never forgotten.
CompletedIsBacked ==
  (exit = "returned" /\ outcome = "completed") =>
    /\ ~timedOut /\ ~stopFailed /\ proc["cli"] = "dead"
    /\ \E i \in DOMAIN events : events[i] = "terminal"
    /\ \A i \in DOMAIN events : events[i] \in {"terminal", "other"}

\* A task that was cancelled ends with the cancellation, not with a result the benchmark
\* would count, unless stopping its services failed.
CancelledRaises == (exit = "returned" /\ ~stopFailed) => cancels = 0

RunOver == pc = "over"
NothingToStop == stop.by = "nobody"
=============================================================================
