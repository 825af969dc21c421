------------------------------ MODULE Experiment ------------------------------
(***************************************************************************)
(* One run of InferRSI's experiment loop: paired trials of a baseline and   *)
(* a candidate command, a quality validation, and a verdict with its        *)
(* evidence (inferrsi/harness/runner.py, scenarios/external.py,             *)
(* evaluation.py), the execution of a command under the deadline of the     *)
(* whole run (infra/executors/local.py) and the serving workers that a      *)
(* supervised helper starts and stops (infra/processes.py), on POSIX.       *)
(*                                                                         *)
(* The source under test may change at any time.  A version is never        *)
(* restored, so equal snapshots mean an unchanged source; of a snapshot     *)
(* only whether it is available and equals the locked one is kept.  An      *)
(* interrupt is taken where the code can block: in a snapshot, a write or a *)
(* wait.                                                                    *)
(***************************************************************************)
EXTENDS Naturals, Sequences

CONSTANTS
  Repetitions,     \* spec.repetitions
  HasValidation,   \* spec.validation_command is given
  RepoOf,          \* side -> repository: one for both, or one each
  MaxVersion,      \* bound of TLC's instances: changes of a repository
  MaxInterrupts    \* bound of TLC's instances: interrupts by the user

Sides == {"baseline", "candidate"}
Repos == {RepoOf[s] : s \in Sides}

\* What the constants may be.
ExperimentAssumption ==
  /\ Repetitions \in Nat \ {0} /\ {MaxVersion, MaxInterrupts} \subseteq Nat
  /\ HasValidation \in BOOLEAN
  /\ DOMAIN RepoOf = Sides

VARIABLES
  pc,          \* where run_experiment() is
  step,        \* the number of the trial; the one after the last is the validation
  version,     \* repository -> its present content
  locked,      \* side -> the version that before holds
  clean,       \* all snapshots in before, after and source_checks are available and equal
  trials,      \* side -> its records, of which status and metric are kept
  validation,  \* the validation's status, "absent" for None
  state,       \* the state of the run, as status.json will say
  error,       \* an exception ended the measurement
  run,         \* the command in execution: its status, and if its first snapshot was equal
  group,       \* the live processes of the command's process group
  outside,     \* live processes that are not in it
  helper,      \* what the helper of the trial does with its server
  scan,        \* the members that stop_server() found before it kills
  report,      \* the status stop_server() returns
  expired,     \* the deadline of the whole run has passed
  interrupts,  \* interrupts so far
  ran,         \* history: the versions that were in place while a side ran
  files,       \* status.json and evaluation.json
  outcome      \* how run_experiment() ended

expVars == <<pc, step, version, locked, clean, trials, validation, state, error, run, group,
             outside, helper, scan, report, expired, interrupts, ran, files, outcome>>

measured == <<trials, validation, state, error>>
processVars == <<group, outside, helper, scan, report>>
world == <<version, expired, interrupts, ran>>

NoRun == [status |-> "none", equal |-> FALSE]
LastTrial == 2 * Repetitions
Validation == LastTrial + 1

\* The order AB, BA, AB, ...; the validation runs on the candidate.
SideOf(n) ==
  IF n = Validation THEN "candidate"
  ELSE IF (((n - 1) \div 2) % 2 = 0) = (n % 2 = 1) THEN "baseline" ELSE "candidate"

Side == SideOf(step)

ExpInit ==
  /\ pc = "setup"
  /\ step = 0
  /\ version = [r \in Repos |-> 0]
  /\ locked = [s \in Sides |-> 0]
  /\ clean = FALSE
  /\ trials = [s \in Sides |-> << >>]
  /\ validation = "absent"
  /\ state = "completed"
  /\ error = FALSE
  /\ run = NoRun
  /\ group = {} /\ outside = {} /\ helper = "none" /\ scan = {} /\ report = "none"
  /\ expired = FALSE
  /\ interrupts = 0
  /\ ran = {}
  /\ files = [status |-> "absent", verdict |-> "absent"]
  /\ outcome = "none"
-----------------------------------------------------------------------------
(* The world: the sources change, time passes.                              *)

SourceChanges(r) ==
  /\ pc # "over"
  /\ version[r] < MaxVersion
  /\ version' = [version EXCEPT ![r] = @ + 1]
  /\ ran' = IF group # {} /\ RepoOf[Side] = r THEN ran \cup {<<Side, version'[r]>>} ELSE ran
  /\ UNCHANGED <<pc, step, locked, clean, measured, run, processVars, expired, interrupts, files, outcome>>

Expire ==
  /\ ~expired
  /\ pc # "over"
  /\ expired' = TRUE
  /\ UNCHANGED <<pc, step, version, locked, clean, measured, run, processVars, interrupts, ran, files, outcome>>

\* repository_identity() of a side, compared with the locked one: Git may not
\* answer, and then it is not available.
Equal(s) == {version[RepoOf[s]] = locked[s], FALSE}
-----------------------------------------------------------------------------
(* The loop of run_experiment().                                            *)

\* The lock files, before the guarded part of the run.
Setup ==
  /\ pc = "setup"
  /\ pc' = "lock"
  /\ UNCHANGED <<step, locked, clean, measured, run, processVars, world, files, outcome>>

\* event() replaces status.json each time.
Running == [files EXCEPT !.status = "running"]

\* before: one snapshot after the other.  Until both are taken it is empty.
LockSources ==
  /\ \/ /\ pc = "lock"
        /\ locked' = [locked EXCEPT !["baseline"] = version[RepoOf["baseline"]]]
        /\ files' = Running
        /\ pc' = "lock_candidate"
        /\ UNCHANGED <<step, clean>>
     \/ /\ pc = "lock_candidate"
        /\ locked' = [locked EXCEPT !["candidate"] = version[RepoOf["candidate"]]]
        /\ clean' \in BOOLEAN
        /\ pc' = "prepare"
        /\ step' = 1
        /\ UNCHANGED files
  /\ UNCHANGED <<measured, run, processVars, world, outcome>>

\* execute_checked() and execute_command() up to the wait: without time left, or
\* when the process cannot be started, there is nothing to wait for.
Prepare ==
  /\ pc = "prepare"
  /\ files' = Running
  /\ \E equal \in Equal(Side) :
       \/ /\ ~expired
          /\ run' = [status |-> "pending", equal |-> equal]
          /\ group' = {"helper"}
          /\ helper' = "running"
          /\ ran' = ran \cup {<<Side, version[RepoOf[Side]]>>}
          /\ pc' = "wait"
       \/ /\ run' = [status |-> IF expired THEN "timeout" ELSE "error", equal |-> equal]
          /\ pc' = "record"
          /\ UNCHANGED <<group, helper, ran>>
  /\ UNCHANGED <<step, locked, clean, measured, outside, scan, report, version, expired, interrupts, outcome>>

\* The wait ends: the helper exits, the deadline passes or the user interrupts.
\* _stop_tree() comes next, on every way out of execute_command().
WaitEnds(s) ==
  /\ pc = "wait"
  /\ run' = [run EXCEPT !.status = s]
  /\ pc' = "stop"
  /\ UNCHANGED <<step, version, locked, clean, measured, outside, helper, scan, report, expired, ran, files, outcome>>

\* The helper ends at any point: refused by launch_server() as it leads no
\* group, done, or crashed.
HelperExits ==
  /\ \E s \in {"completed", "failed"} : WaitEnds(s)
  /\ group' = group \ {"helper"}
  /\ UNCHANGED interrupts

TimesOut == expired /\ WaitEnds("timeout") /\ UNCHANGED <<group, interrupts>>

InterruptedWait ==
  /\ interrupts < MaxInterrupts
  /\ WaitEnds("cancelled")
  /\ interrupts' = interrupts + 1
  /\ UNCHANGED group

\* The whole group is killed.  When the first attempt of a timeout or of an
\* interrupt outlasts its wait, the record says error and it is repeated.
StopTree ==
  /\ pc = "stop"
  /\ group' = {} /\ helper' = "none" /\ scan' = {} /\ report' = "none"
  /\ pc' = "record"
  /\ \/ UNCHANGED run
     \/ run.status \in {"timeout", "cancelled"} /\ run' = [run EXCEPT !.status = "error"]
  /\ UNCHANGED <<step, locked, clean, measured, outside, world, files, outcome>>

\* The wait after the kill raises: a process that does not even end by SIGKILL
\* outlasts it, or the user interrupts it.
StopRaises ==
  /\ pc = "stop"
  /\ \/ "helper" \in group /\ outside' = outside \cup {"unkillable"} /\ state' = "failed" /\ UNCHANGED interrupts
     \/ interrupts < MaxInterrupts /\ interrupts' = interrupts + 1 /\ state' = "cancelled" /\ UNCHANGED outside
  /\ error' = TRUE
  /\ group' = {} /\ helper' = "none" /\ scan' = {} /\ report' = "none"
  /\ run' = NoRun
  /\ pc' = "finally"
  /\ UNCHANGED <<step, locked, clean, trials, validation, version, expired, ran, files, outcome>>

\* The state a record leads to.
StateAfter(s) == IF s \in {"completed", "cancelled", "timeout"} THEN s ELSE "failed"

\* execute_trial() and execute_checked() after the command, and what the loop
\* makes of the record.  The metric is read whatever the status is.
Record ==
  /\ pc = "record"
  /\ \E equal \in Equal(Side), metric \in BOOLEAN :
       /\ clean' = (clean /\ run.equal /\ equal)
       /\ IF step = Validation
          THEN validation' = run.status /\ UNCHANGED trials
          ELSE trials' = [trials EXCEPT ![Side] = Append(@, [status |-> run.status, metric |-> metric])]
               /\ UNCHANGED validation
  /\ state' = StateAfter(run.status)
  /\ error' = (step # Validation /\ run.status = "cancelled")
  /\ step' = IF run.status = "completed" /\ step < LastTrial THEN step + 1 ELSE step
  /\ pc' = IF step' # step THEN "prepare" ELSE IF step = Validation \/ error' THEN "finally" ELSE "decide"
  /\ run' = NoRun
  /\ UNCHANGED <<locked, processVars, world, files, outcome>>

\* The validation runs only after a complete measurement.
Decide ==
  /\ pc = "decide"
  /\ IF HasValidation /\ state = "completed"
     THEN pc' = "prepare" /\ step' = Validation /\ UNCHANGED validation
     ELSE /\ pc' = "finally"
          /\ validation' = IF HasValidation THEN "skipped" ELSE validation
          /\ UNCHANGED step
  /\ UNCHANGED <<locked, clean, trials, state, error, run, processVars, world, files, outcome>>
-----------------------------------------------------------------------------
(* Failures.  A write that fails, or an interrupt, ends the measurement; a  *)
(* record that was not appended is lost, the snapshots around its command   *)
(* may be kept.  Before the guarded part or in its final block they leave   *)
(* the call by an exception.                                                *)

Abandon(s) ==
  /\ pc \in {"lock", "lock_candidate", "prepare", "record"}
  /\ state' = s
  /\ error' = TRUE
  /\ pc' = "finally"
  /\ run' = NoRun
  /\ \/ UNCHANGED clean
     \/ pc = "record" /\ \E equal \in Equal(Side) : clean' = (clean /\ run.equal /\ equal)
  /\ UNCHANGED <<step, locked, trials, validation, processVars, version, expired, ran, files, outcome>>

Leave ==
  /\ pc \in {"setup", "finally", "finally_candidate", "publish", "status", "report"}
  /\ pc' = "over"
  /\ outcome' = "raised"
  /\ UNCHANGED <<step, locked, clean, measured, run, processVars, version, expired, ran, files>>

WriteFails == (Abandon("failed") \/ Leave) /\ UNCHANGED interrupts

Interrupt ==
  /\ interrupts < MaxInterrupts
  /\ interrupts' = interrupts + 1
  /\ Abandon("cancelled") \/ Leave
-----------------------------------------------------------------------------
(* The final block: the last snapshots, the verdict and the status.         *)

FinalSnapshots ==
  /\ \/ pc = "finally" /\ pc' = "finally_candidate" /\ \E equal \in Equal("baseline") : clean' = (clean /\ equal)
     \/ pc = "finally_candidate" /\ pc' = "publish" /\ \E equal \in Equal("candidate") : clean' = (clean /\ equal)
  /\ UNCHANGED <<step, locked, measured, run, processVars, world, files, outcome>>

Measured ==
  \A s \in Sides :
    /\ Len(trials[s]) = Repetitions
    /\ \A i \in DOMAIN trials[s] : trials[s][i].status = "completed" /\ trials[s][i].metric

\* evaluate(): what is missing comes before what failed.  The gain of the
\* candidate is large enough, too small, or not finite.
Verdict(gain) ==
  IF ~Measured \/ validation \notin {"completed", "failed"} \/ ~clean \/ gain = "infinite"
  THEN "INCONCLUSIVE"
  ELSE IF validation = "failed" \/ gain = "small" THEN "FAIL" ELSE "PASS"

Evaluate ==
  /\ pc = "publish"
  /\ \E gain \in {"large", "small", "infinite"} :
       files' = [status |-> "running", verdict |-> IF error THEN "INCONCLUSIVE" ELSE Verdict(gain)]
  /\ pc' = "status"
  /\ UNCHANGED <<step, locked, clean, measured, run, processVars, world, outcome>>

PublishStatus ==
  /\ pc = "status"
  /\ files' = [files EXCEPT !.status = state]
  /\ pc' = "report"
  /\ UNCHANGED <<step, locked, clean, measured, run, processVars, world, outcome>>

\* write_report() comes last: when it fails, the evidence is complete.
WriteReport ==
  /\ pc = "report"
  /\ pc' = "over"
  /\ outcome' = "returned"
  /\ UNCHANGED <<step, locked, clean, measured, run, processVars, world, files>>
-----------------------------------------------------------------------------
(* The processes of a trial.  The command is a helper that may start a      *)
(* server with launch_server() and stop it with stop_server(); the server   *)
(* has a worker.  execute_command() sets the marker that makes the server   *)
(* stay in the helper's group.                                              *)

HelperOnly == UNCHANGED <<pc, step, locked, clean, measured, run, world, files, outcome>>

LaunchServer ==
  /\ pc = "wait" /\ helper = "running"
  /\ group' = group \cup {"server"}
  /\ helper' = "serving"
  /\ UNCHANGED <<outside, scan, report>>
  /\ HelperOnly

\* The server starts its worker; either exits, by itself or on SIGTERM.
Workers ==
  /\ pc = "wait"
  /\ \/ "server" \in group /\ group' = group \cup {"worker"}
     \/ \E m \in group \ {"helper"} : group' = group \ {m}
  /\ UNCHANGED <<outside, helper, scan, report>>
  /\ HelperOnly

\* stop_server(): SIGTERM and the time of grace; then the members that are left
\* are looked up, killed one by one, and looked up again.
StopServer ==
  /\ pc = "wait"
  /\ \/ /\ helper = "serving"
        /\ helper' = "terminating"
        /\ UNCHANGED <<group, scan, report>>
     \/ /\ helper = "terminating"
        /\ scan' = group \ {"helper"}
        /\ helper' = IF scan' = {} THEN "reporting" ELSE "killing"
        /\ UNCHANGED <<group, report>>
     \/ /\ helper = "killing"
        /\ group' = group \ scan
        /\ helper' = "reporting"
        /\ UNCHANGED <<scan, report>>
     \/ /\ helper = "reporting"
        /\ report' = IF group = {"helper"} THEN "completed" ELSE "failed"
        /\ helper' = "stopped"
        /\ UNCHANGED <<group, scan>>
  /\ UNCHANGED outside
  /\ HelperOnly
-----------------------------------------------------------------------------
Loop == Setup \/ LockSources \/ Prepare \/ TimesOut \/ StopTree \/ Record \/ Decide
        \/ FinalSnapshots \/ Evaluate \/ PublishStatus \/ WriteReport

ExpNext ==
  \/ Loop
  \/ HelperExits \/ InterruptedWait \/ StopRaises
  \/ WriteFails \/ Interrupt
  \/ LaunchServer \/ Workers \/ StopServer
  \/ Expire
  \/ \E r \in Repos : SourceChanges(r)

RunOver == pc = "over"
-----------------------------------------------------------------------------
ExpTypeOK ==
  /\ step \in 0 .. Validation
  /\ group \subseteq {"helper", "server", "worker"} /\ scan \subseteq {"server", "worker"}
  /\ pc = "wait" <=> run.status = "pending"
  /\ validation \in {"absent", "skipped", "completed", "failed", "timeout", "cancelled", "error"}
  /\ state \in {"completed", "failed", "timeout", "cancelled"}
  /\ files.verdict \in {"absent", "PASS", "FAIL", "INCONCLUSIVE"}

\* A verdict that is not INCONCLUSIVE rests on both sides' full number of
\* measured trials and on a validation that ended, and every command of a side,
\* from its start to its end, saw one and the same source.
VerdictIsBacked ==
  files.verdict \in {"PASS", "FAIL"} =>
    /\ \A s \in Sides : Len(trials[s]) = Repetitions
    /\ \A s \in Sides : \A i \in DOMAIN trials[s] : trials[s][i].status = "completed"
    /\ validation \in {"completed", "failed"}
    /\ \A s \in Sides : \A x, y \in ran : x[1] = s /\ y[1] = s => x = y

\* status.json says how the run went: completed means that every trial and the
\* validation did, a cancelled run or one out of time is inconclusive, and a
\* call that returns has published its state and its verdict.
StatusIsTrue ==
  /\ files.status = "completed" =>
       /\ \A s \in Sides : Len(trials[s]) = Repetitions
       /\ validation = (IF HasValidation THEN "completed" ELSE "absent")
  /\ files.status \in {"cancelled", "timeout"} => files.verdict = "INCONCLUSIVE"
  /\ outcome = "returned" => files.status = state /\ files.verdict # "absent"

\* Between two commands, and after the run, no process of a trial is left: the
\* server of a helper that crashed or hung dies with the helper's group.
NoProcessLeft == pc \notin {"wait", "stop"} => group = {} /\ "server" \notin outside

\* stop_server() reports completed only if no server or worker is left, also
\* when the server started a worker between the look-up and the kill.
ReportIsTrue == report = "completed" => group = {"helper"} \/ pc # "wait"

\* The two sides stay paired: no trial follows one that did not complete, and
\* neither side is ever more than one ahead.
TrialsPaired ==
  /\ Len(trials["baseline"]) <= Len(trials["candidate"]) + 1
  /\ Len(trials["candidate"]) <= Len(trials["baseline"]) + 1
  /\ \A s \in Sides : \A i \in 1 .. Len(trials[s]) - 1 : trials[s][i].status = "completed"
=============================================================================
