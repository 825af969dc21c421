----------------------------- MODULE DshRunner -----------------------------
(***************************************************************************)
(* run_dsh: one benchmark task through a headless DeepSeek Harness process *)
(* (agents/dsh/runner.py).  The runner starts the executable three times,  *)
(* each time in a process group of its own and under the task's deadline,  *)
(* then reads what the last one left behind, decides how the run ended and *)
(* exports the patch, all of it under a cleanup deadline.  Processes fail, *)
(* hang, leave helpers behind, and the runner's own task may be cancelled  *)
(* wherever it waits.                                                      *)
(***************************************************************************)
EXTENDS Naturals, Sequences, FiniteSets

CONSTANTS
  MinEvents, MinRepeats, TailLength,   \* min_events, min_repeats, tail of detect()
  Evidence,        \* what an execution may leave on disk, if it leaves anything
  Flush,           \* the values of patch_flush_seconds > 0
  MaxCancels       \* bound: cancellations of the task

\* What the constants may be.  Evidence holds, of each execution, the sessions its
\* output names, the logs of its sessions, the lineage file, the events of the
\* transcript, and whether the end of its error output shows a question.
DshRunnerAssumption ==
  /\ {MinEvents, MinRepeats, TailLength, MaxCancels} \subseteq Nat
  /\ Flush \subseteq BOOLEAN
  /\ \A d \in Evidence : IsFiniteSet(d.roots) /\ d.lineage.approvals \in Nat

-----------------------------------------------------------------------------
(* The verdict of the events *)

LastIndex(events, S) ==
  LET hits == {i \in DOMAIN events : events[i] \in S} IN
  IF hits = {} THEN 0 ELSE CHOOSE i \in hits : \A j \in hits : j <= i

TurnEnds == {"end_completed", "end_max", "end_blocked", "end_other"}

\* is_turn_complete: the last turn/end counts.
is_turn_complete(events) ==
  LET i == LastIndex(events, TurnEnds) IN i # 0 /\ events[i] = "end_completed"

\* _explicit_termination_reason: the last event that names a reason.
ExplicitReason(events) ==
  LET i == LastIndex(events, {"asked", "end_max", "end_blocked"}) IN
  IF i = 0 THEN "none" ELSE IF events[i] = "end_max" THEN "max_tokens" ELSE "confirmation_hang"

\* normalize: the events with a meaning for the stuck detector.
normalize(events) == SelectSeq(events, LAMBDA e : e \notin {"asked", "other"})

Recent(events) == IF Len(events) <= TailLength THEN events ELSE SubSeq(events, Len(events) - TailLength + 1, Len(events))
Matches(events, marker) == Cardinality({i \in DOMAIN Recent(events) : Recent(events)[i] = marker})

\* DshStuckDetector.detect
detect(events) ==
  IF Len(events) < MinEvents THEN "none"
  ELSE IF Matches(events, "marker_hang") >= MinRepeats THEN "confirmation_hang"
  ELSE IF Matches(events, "marker_invalid") >= MinRepeats THEN "validation_error_loop"
  ELSE "none"

\* _classify: "none" is a completed run.
Classify(return_code, question, events) ==
  CASE question -> "confirmation_hang"
    [] ~question /\ events = << >> -> "harness_error"
    [] ~question /\ events # << >> /\ return_code = "zero" /\ is_turn_complete(events) -> "none"
    [] OTHER -> IF ExplicitReason(events) # "none" THEN ExplicitReason(events)
                ELSE IF detect(normalize(events)) # "none" THEN detect(normalize(events)) ELSE "interrupted"
-----------------------------------------------------------------------------
VARIABLES
  enforce_plan_mode, flush,
  pc, phase,
  leader, helper,  \* the current process and one it started in its group: "none", "running", "dead"
  code,            \* the exit code of the leader
  raised,          \* the exception _execute ends with
  return_code,     \* of the execution, or "None"
  disk,            \* what the execution left
  cause,           \* the exception that ended the try block (history)
  collection, git, \* collecting and exporting
  outcome, termination_reason, status_written,
  cancels, exit

dshVars == <<enforce_plan_mode, flush, pc, phase, leader, helper, code, raised, return_code, disk, cause,
             collection, git, outcome, termination_reason, status_written, cancels, exit>>

NoLineage == [sessions |-> {}, failure |-> "none", question |-> FALSE, approvals |-> 0, outcomes |-> << >>]
Nothing == [roots |-> {}, logs |-> {}, lineage |-> NoLineage, events |-> << >>, question |-> FALSE]

DshInit ==
  /\ enforce_plan_mode \in BOOLEAN /\ flush \in Flush
  /\ pc = "spawn" /\ phase = "initialization"
  /\ leader = "none" /\ helper = "none" /\ code = "zero"
  /\ raised = "none" /\ return_code = "None" /\ cause = "none"
  /\ disk = Nothing
  /\ collection = "not_started" /\ git = "none"
  /\ outcome = "failed" /\ termination_reason = "none"
  /\ status_written = FALSE
  /\ cancels = 0 /\ exit = "no"

process == <<leader, helper, code>>
result == <<outcome, termination_reason>>
request == <<enforce_plan_mode, flush>>
-----------------------------------------------------------------------------
(* The handlers of run_dsh: what an exception makes of the run *)
ReasonOf(e) ==
  CASE e = "cancel" -> "cancelled"
    [] e = "timeout" -> IF phase = "initialization" THEN "agent_startup_timeout" ELSE "timeout"
    [] e = "startup" -> "agent_startup_failed"
    [] e = "error" -> "harness_error"

Caught(e) ==
  /\ cause' = e
  /\ termination_reason' = ReasonOf(e)
  /\ pc' = "collect"
-----------------------------------------------------------------------------
(* _execute *)
Spawn ==
  /\ pc = "spawn"
  /\ leader' = "running" /\ helper' = "none" /\ code' = "zero"
  /\ raised' = "none"
  /\ pc' = "run"
  /\ UNCHANGED <<request, phase, return_code, disk, cause, collection, git, result, status_written, cancels, exit>>

\* No time is left, there is no such executable, or the process cannot be started.
SpawnFails ==
  /\ pc = "spawn"
  /\ \E e \in {"timeout", "startup", "error"} : Caught(e)
  /\ UNCHANGED <<request, phase, process, raised, return_code, disk, collection, git, outcome, status_written,
                 cancels, exit>>

\* A process of the group outlives the leader and holds its pipes.
Forks ==
  /\ pc = "run" /\ leader = "running" /\ helper = "none"
  /\ helper' = "running"
  /\ UNCHANGED <<request, pc, phase, leader, code, raised, return_code, disk, cause, collection, git, result,
                 status_written, cancels, exit>>

Exits(c) ==
  /\ pc = "run" /\ leader = "running"
  /\ leader' = "dead" /\ code' = c
  /\ UNCHANGED <<request, pc, phase, helper, raised, return_code, disk, cause, collection, git, result,
                 status_written, cancels, exit>>

HelperExits ==
  /\ pc = "run" /\ helper = "running"
  /\ helper' = "dead"
  /\ UNCHANGED <<request, pc, phase, leader, code, raised, return_code, disk, cause, collection, git, result,
                 status_written, cancels, exit>>

\* Mutant of KillGroup: only a leader that still runs is killed, and its group with it.
KillLeader == IF leader = "running" THEN leader' = "dead" /\ code' = "nonzero" /\ helper' = "dead" ELSE UNCHANGED process

\* _kill_process_group: SIGKILL to the group, even if its leader has exited.
KillGroup ==
  /\ leader' = "dead"
  /\ code' = IF leader = "running" THEN "nonzero" ELSE code
  /\ helper' = IF helper = "running" THEN "dead" ELSE helper

\* The finally of _execute: what the execution has written by now is what will be read.
Kill(e) ==
  /\ KillGroup
  /\ raised' = e
  /\ IF phase = "execution" THEN disk' \in Evidence \cup {Nothing} ELSE UNCHANGED disk
  /\ pc' = "reap"

\* Every pipe is at its end and the leader has exited.
GroupDone ==
  /\ pc = "run" /\ leader = "dead" /\ helper # "running"
  /\ Kill("none")
  /\ UNCHANGED <<request, phase, return_code, cause, collection, git, result, status_written, cancels, exit>>

\* wait_for: the deadline; or a pipe breaks or a log cannot be written.
ExecuteRaises ==
  /\ pc = "run"
  /\ \E e \in {"timeout", "error"} : Kill(e)
  /\ UNCHANGED <<request, phase, return_code, cause, collection, git, result, status_written, cancels, exit>>

Goto(where, next) == pc' = where /\ phase' = next /\ UNCHANGED <<return_code, cause, result>>

Accept(c) == pc' = "collect" /\ return_code' = c /\ UNCHANGED <<phase, cause, result>>

\* The process is reaped and _execute returns its code or raises; the phase goes on.
Reaped(ok) ==
  /\ pc = "reap"
  /\ IF raised # "none" THEN Caught(raised) /\ UNCHANGED <<phase, return_code, outcome>>
     ELSE CASE phase = "execution" -> ok /\ Accept(code)
            [] phase # "execution" /\ code # "zero" -> ok /\ Caught("startup") /\ UNCHANGED <<phase, return_code, outcome>>
            [] phase = "initialization" /\ code = "zero" ->
                 IF ok THEN Goto("spawn", "configuration")
                 ELSE Caught("error") /\ UNCHANGED <<phase, return_code, outcome>>
            [] phase = "configuration" /\ code = "zero" ->
                 IF ok THEN Goto("spawn", "execution")
                 ELSE /\ \E e \in {"startup", "error"} : Caught(e)
                      /\ UNCHANGED <<phase, return_code, outcome>>
  /\ UNCHANGED <<request, process, raised, disk, collection, git, status_written, cancels, exit>>
-----------------------------------------------------------------------------
(* Collection *)
Ids(d) == {l.id : l \in d.logs}
PartialAllowed == return_code # "zero"

Readable(d) == PartialAllowed \/ \A l \in d.logs : l.whole

\* The bridge and the durable logs name the same sessions, with the same parents and roles.
Agrees(d) ==
  /\ Ids(d) = {s.id : s \in d.lineage.sessions}
  /\ \A l \in d.logs, s \in d.lineage.sessions : l.id = s.id => l.parent = s.parent

\* _stdout_session: the output names one session.
StdoutSession(d) == Cardinality(d.roots) = 1

\* _stdout_session and _copy_transcript raise unless all of this holds.
Collectable(d) ==
  /\ StdoutSession(d)
  /\ d.logs # {} /\ Readable(d)
  /\ \A l, k \in d.logs : l.id = k.id => l = k
  /\ \A l \in d.logs : l.id \in d.roots => l.parent = "none"
  /\ d.lineage # NoLineage /\ Agrees(d)
  /\ d.roots \subseteq Ids(d)

Subagents(d) == {s.id : s \in {t \in d.lineage.sessions : t.parent # "none"}}
Outcomes(d) == d.lineage.outcomes

PlanVerdict(d) ==
  CASE Subagents(d) = {} \/ d.lineage.approvals = 0 -> "plan_not_approved"
    [] DOMAIN Outcomes(d) # Subagents(d) \/ (\E c \in DOMAIN Outcomes(d) : Outcomes(d)[c] # "completed") ->
         "subagent_failed"
    [] OTHER -> "none"

\* What the run is worth: the bridge's verdict comes before the transcript's.
Verdict(d) ==
  CASE d.lineage.failure # "none" -> d.lineage.failure
    [] d.lineage.failure = "none" /\ d.lineage.question -> "confirmation_hang"
    [] d.lineage.failure = "none" /\ ~d.lineage.question /\ return_code = "zero" /\ enforce_plan_mode
         /\ PlanVerdict(d) # "none" -> PlanVerdict(d)
    [] OTHER -> Classify(return_code, d.question, d.events)

Judge(reason) ==
  /\ termination_reason' = reason
  /\ outcome' = IF reason = "none" THEN "completed" ELSE "failed"

\* A failed collection is the reason of a run that had an exit code, and of no other.
CollectFails(reason) == IF return_code # "None" THEN Judge(reason) ELSE UNCHANGED result

Collect ==
  /\ pc = "collect"
  /\ \/ /\ Collectable(disk)
        /\ collection' = IF return_code = "zero" THEN "complete" ELSE "partial"
        /\ IF return_code # "None" THEN Judge(Verdict(disk)) ELSE UNCHANGED result
     \/ ~Collectable(disk) /\ collection' = "failed" /\ CollectFails("harness_error")
     \/ disk # Nothing /\ collection' = "failed" /\ CollectFails("cleanup_timeout")
  /\ pc' = IF flush THEN "flush" ELSE "patch"
  /\ UNCHANGED <<request, phase, process, raised, return_code, disk, cause, git, status_written, cancels, exit>>
-----------------------------------------------------------------------------
(* The patch *)
Flushed ==
  /\ pc = "flush"
  /\ pc' = "patch"
  /\ UNCHANGED <<request, phase, process, raised, return_code, disk, cause, collection, git, result, status_written,
                 cancels, exit>>

\* export_patch in a thread: git, one command after the other.
ExportStarts ==
  /\ pc = "patch" /\ git = "none"
  /\ git' = "running"
  /\ UNCHANGED <<request, pc, phase, process, raised, return_code, disk, cause, collection, result, status_written,
                 cancels, exit>>

\* A failed export takes back a completed outcome, and only that.
PatchFails(reason) == IF outcome = "completed" THEN Judge(reason) ELSE UNCHANGED result

End == exit' = IF cause = "cancel" THEN "raised" ELSE "returned"

\* The export ends, fails or runs out of time; the owner stops what is left, the status is written.
Exported ==
  /\ pc = "patch" /\ git = "running"
  /\ git' = "dead"
  /\ UNCHANGED result \/ \E reason \in {"cleanup_timeout", "harness_error"} : PatchFails(reason)
  /\ status_written' = TRUE
  /\ pc' = "over" /\ End
  /\ UNCHANGED <<request, phase, process, raised, return_code, disk, cause, collection, cancels>>
-----------------------------------------------------------------------------
(* A cancellation, by where the task waits *)
CancelSpawn ==
  /\ pc = "spawn" /\ Caught("cancel")
  /\ UNCHANGED <<phase, process, raised, return_code, disk, git, outcome, exit>>

CancelRun ==
  /\ pc = "run" /\ Kill("cancel")
  /\ UNCHANGED <<phase, return_code, cause, git, result, exit>>

\* In the finally of _execute: the group has been killed.
CancelReap ==
  /\ pc = "reap" /\ raised' = "cancel"
  /\ UNCHANGED <<pc, phase, process, return_code, disk, cause, git, result, exit>>

\* finally: owner.terminate_all()
StopGit == git' = IF git = "running" THEN "dead" ELSE git

\* In the cleanup: the run is left without a status file, git is stopped.
CancelCleanup ==
  /\ pc \in {"flush", "patch"}
  /\ StopGit
  /\ pc' = "over" /\ exit' = "raised"
  /\ UNCHANGED <<phase, process, raised, return_code, disk, cause, result>>

Cancel ==
  /\ cancels < MaxCancels
  /\ cancels' = cancels + 1
  /\ CancelSpawn \/ CancelRun \/ CancelReap \/ CancelCleanup
  /\ UNCHANGED <<request, collection, status_written>>
-----------------------------------------------------------------------------
Over == pc = "over" /\ UNCHANGED dshVars

Step ==
  \/ Spawn \/ SpawnFails \/ HelperExits \/ GroupDone \/ ExecuteRaises
  \/ \E c \in {"zero", "nonzero"} : Exits(c)
  \/ \E ok \in BOOLEAN : Reaped(ok)
  \/ Collect \/ Flushed \/ ExportStarts \/ Exported

DshNext == Step \/ Forks \/ Cancel \/ Over
DshSpec == DshInit /\ [][DshNext]_dshVars
-----------------------------------------------------------------------------
\* Types, and what AgentRunResult says of itself: a completed run has no reason, a failed one has.
DshTypeOK ==
  /\ leader \in {"none", "running", "dead"} /\ helper \in {"none", "running", "dead"}
  /\ git \in {"none", "running", "dead"}
  /\ exit \in {"no", "returned", "raised"}
  /\ exit # "no" => (outcome = "completed") = (termination_reason = "none")

\* However the run ends, nothing it started goes on: not the harness, not a helper that
\* outlived it, not a git command of the export.
NoProcessLeft == exit # "no" => "running" \notin {leader, helper, git}

\* A run counts as completed only on complete and consistent evidence: the process ended
\* well, the one session it names is a root session and completed its last turn, every
\* session has a finished log that agrees with the bridge, the bridge has nothing against
\* it and, under plan mode, subagents explored and the plan was approved.
CompletedIsBacked ==
  (exit # "no" /\ outcome = "completed") =>
    /\ return_code = "zero" /\ cause = "none"
    /\ is_turn_complete(disk.events)
    /\ \A l \in disk.logs : l.whole
    /\ \E l \in disk.logs : disk.roots = {l.id} /\ l.parent = "none"
    /\ {s.id : s \in disk.lineage.sessions} = Ids(disk)
    /\ disk.lineage.failure = "none" /\ ~disk.lineage.question
    /\ enforce_plan_mode =>
         /\ disk.lineage.approvals > 0
         /\ \E s \in disk.lineage.sessions : s.parent # "none"
         /\ \A s \in disk.lineage.sessions : s.parent # "none" => disk.lineage.outcomes[s.id] = "completed"

\* Why a run stopped is what stopped it: no later failure of the cleanup renames a timeout, a
\* cancellation or a failed start.
CauseStands ==
  (exit # "no" /\ cause # "none") =>
    CASE cause = "cancel" -> termination_reason = "cancelled"
      [] cause = "timeout" -> termination_reason \in {"timeout", "agent_startup_timeout"}
      [] cause = "startup" -> termination_reason = "agent_startup_failed"
      [] cause = "error" -> termination_reason = "harness_error"

\* A cancelled task ends with its cancellation; a result is returned only with its status on disk.
CancelledRaises == exit = "returned" => cancels = 0 /\ status_written
=============================================================================
