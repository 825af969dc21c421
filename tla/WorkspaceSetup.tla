---------------------------- MODULE WorkspaceSetup ----------------------------
(***************************************************************************)
(* The repositories and workspaces of a benchmark run,                     *)
(* agentinfer/agentbench/benchkit/workspace.py.  Worker threads run git    *)
(* and tar as subprocesses of a WorkspaceProcessOwner: ensure_repo_cache() *)
(* for one task after the other, then prepare_workspace() for all of them  *)
(* at once.  When the run is interrupted the main thread calls             *)
(* terminate_all(), which races with the threads that start, time out on   *)
(* and reap those processes.  The cache directory outlives the run.        *)
(*                                                                         *)
(* The POSIX branches are modelled.  Every process leads a group of its    *)
(* own and may have a descendant in it (git starts helpers): killpg()      *)
(* raises ProcessLookupError once the leader is reaped and no descendant   *)
(* lives.                                                                  *)
(***************************************************************************)
EXTENDS Naturals, FiniteSets

CONSTANTS
  Task,          \* tasks of one repository, each with its base commit
  Deadline,      \* the run has a timeout, so the owner has a deadline
  CommandsFail,  \* a command may exit with an error of its own
  MaxInterrupts, \* bound on the interrupted runs
  Main, None

Thread == Task \cup {Main}
CacheCmd == {"init", "remote", "fetch", "cat-file", "fetch again"}
PrepareCmd == {"archive", "tar", "git init", "add", "commit"}

\* What the constants may be.
WorkspaceAssumption ==
  /\ Main \notin Task /\ None \notin Task /\ None \notin CacheCmd \cup PrepareCmd
  /\ Deadline \in BOOLEAN /\ CommandsFail \in BOOLEAN
  /\ MaxInterrupts \in Nat

VARIABLES
  phase,       \* the main thread: caching, preparing, terminating, ...
  cancelled, processes,   \* the owner's fields
  snapshot,    \* what terminate_all() still has to terminate
  target,      \* the task whose process it is terminating
  at,          \* thread -> where it is
  cmd,         \* task -> the command its thread runs
  proc,        \* task -> the process of that command
  child,       \* the tasks whose process group has a descendant alive
  rc,          \* task -> the return code of the process succeeded
  cache,       \* the repository cache on disk
  ws,          \* task -> how far its workspace on disk is
  interrupts

owner == <<cancelled, processes>>
os == <<proc, child, rc>>
disk == <<cache, ws>>
main == <<phase, snapshot, target>>
vars == <<main, owner, at, cmd, os, disk, interrupts>>

Init ==
  /\ phase = "caching" /\ snapshot = {} /\ target = None
  /\ cancelled = FALSE /\ processes = {}
  /\ at = [t \in Thread |-> "idle"]
  /\ cmd = [t \in Task |-> None]
  /\ proc = [t \in Task |-> "none"]
  /\ child = {} /\ rc = [t \in Task |-> TRUE]
  /\ ws = [t \in Task |-> None]
  /\ cache = [git |-> FALSE, remote |-> FALSE, commits |-> {}]
  /\ interrupts = 0

Alive(t) == proc[t] = "running" \/ t \in child
GroupGone(t) == proc[t] \in {"none", "reaped"} /\ t \notin child
-----------------------------------------------------------------------------
(* The commands: which comes next, and what one leaves on disk.            *)

\* The first command of a thread; ensure_repo_cache() trusts a .git directory.
First(t) == IF phase = "preparing" THEN "archive" ELSE IF cache.git THEN "cat-file" ELSE "init"

\* The command after one that succeeded (cat-file: whatever it returned).
Following(t) ==
  CASE cmd[t] = "init" -> "remote"
    [] cmd[t] = "remote" -> "fetch"
    [] cmd[t] = "fetch" -> "cat-file"
    [] cmd[t] = "cat-file" -> IF rc[t] THEN None ELSE "fetch again"
    [] cmd[t] = "archive" -> "tar"
    [] cmd[t] = "tar" -> "git init"
    [] cmd[t] = "git init" -> "add"
    [] cmd[t] = "add" -> "commit"
    [] OTHER -> None

\* git's own view of what can succeed.
Possible(t) ==
  CASE cmd[t] \in {"fetch", "fetch again"} -> cache.remote
    [] cmd[t] \in {"cat-file", "archive"} -> t \in cache.commits
    [] OTHER -> TRUE

Effect(t) ==
  /\ cache' = CASE cmd[t] = "init" -> [cache EXCEPT !.git = TRUE]
                [] cmd[t] = "remote" -> [cache EXCEPT !.remote = TRUE]
                [] cmd[t] \in {"fetch", "fetch again"} -> [cache EXCEPT !.commits = @ \cup {t}]
                [] OTHER -> cache
  /\ ws' = IF cmd[t] \in PrepareCmd THEN [ws EXCEPT ![t] = cmd[t]] ELSE ws

\* The process exits: with success and its effect, or with an error and
\* perhaps its effect.  An error has a cause: a signal, or the command.
Exit(t) ==
  /\ proc[t] = "running"
  /\ proc' = [proc EXCEPT ![t] = "zombie"]
  /\ \/ Possible(t) /\ rc' = [rc EXCEPT ![t] = TRUE] /\ Effect(t)
     \/ /\ ~Possible(t) \/ CommandsFail \/ cancelled
        /\ rc' = [rc EXCEPT ![t] = FALSE]
        /\ UNCHANGED disk \/ (Possible(t) /\ Effect(t))
  /\ UNCHANGED <<main, owner, at, cmd, child, interrupts>>

Descend(t) ==
  /\ proc[t] = "running" /\ child' = child \cup {t}
  /\ UNCHANGED <<main, owner, at, cmd, proc, rc, disk, interrupts>>

DescendantExits(t) ==
  /\ t \in child /\ child' = child \ {t}
  /\ UNCHANGED <<main, owner, at, cmd, proc, rc, disk, interrupts>>
-----------------------------------------------------------------------------
(* WorkspaceProcessOwner.run() in the thread of a task.                    *)

Goto(t, there) == at' = [at EXCEPT ![t] = there]

\* check_active() at the head of both functions.
Begin(t) ==
  /\ at[t] = "start"
  /\ IF cancelled
     THEN Goto(t, "failed") /\ UNCHANGED cmd
     ELSE Goto(t, "spawn") /\ cmd' = [cmd EXCEPT ![t] = First(t)]
  /\ UNCHANGED <<main, owner, os, disk, interrupts>>

Spawn(t) ==
  /\ at[t] = "spawn"
  /\ proc' = [proc EXCEPT ![t] = "running"]
  /\ Goto(t, "register")
  /\ UNCHANGED <<main, owner, cmd, child, rc, disk, interrupts>>

\* Mutant of Refused: the process is registered whether or not the owner is cancelled.
Unchecked == FALSE
Refused == cancelled

\* Under the lock: a cancelled owner refuses the process.
Register(t) ==
  /\ at[t] = "register"
  /\ IF Refused
     THEN Goto(t, "sigterm") /\ UNCHANGED processes
     ELSE Goto(t, "communicate") /\ processes' = processes \cup {t}
  /\ UNCHANGED <<main, cancelled, cmd, os, disk, interrupts>>

\* _run_command(): cat-file is the one command run with check=False.
Accepted(t) == rc[t] \/ cmd[t] = "cat-file"

\* The finally block.
Discarded(t) == processes \ {t}

PipesClosed(t) == proc[t] \in {"zombie", "reaped"} /\ t \notin child

\* communicate() returns when both ends of the pipes are closed; the
\* process is reaped and discarded, and the thread goes on or raises.
Communicate(t) ==
  /\ at[t] = "communicate"
  /\ PipesClosed(t)
  /\ proc' = [proc EXCEPT ![t] = "reaped"]
  /\ processes' = Discarded(t)
  /\ IF Accepted(t)
     THEN /\ cmd' = [cmd EXCEPT ![t] = Following(t)]
          /\ Goto(t, IF Following(t) = None THEN "done" ELSE "spawn")
     ELSE Goto(t, "failed") /\ UNCHANGED cmd
  /\ UNCHANGED <<main, cancelled, child, rc, disk, interrupts>>

Expire(t) ==
  /\ Deadline
  /\ at[t] = "communicate" /\ ~GroupGone(t)
  /\ Goto(t, "sigterm")
  /\ UNCHANGED <<main, owner, cmd, os, disk, interrupts>>
-----------------------------------------------------------------------------
(* _terminate(process of t), run by thread k: t itself or the main thread. *)

\* The first killpg(); the signal makes the group exit sooner or later.
SigTerm(k, t) ==
  /\ at[k] = "sigterm"
  /\ Goto(k, IF GroupGone(t) THEN "terminated" ELSE "wait")
  /\ UNCHANGED <<main, owner, cmd, os, disk, interrupts>>

\* wait() reaps the leader, or times out while it still runs.
Wait(k, t) ==
  /\ at[k] = "wait"
  /\ \/ /\ proc[t] \in {"zombie", "reaped"}
        /\ proc' = [proc EXCEPT ![t] = "reaped"]
        /\ Goto(k, "sweep")
     \/ proc[t] = "running" /\ Goto(k, "sigkill") /\ UNCHANGED proc
  /\ UNCHANGED <<main, owner, cmd, child, rc, disk, interrupts>>

\* The second killpg() is not guarded: the other thread may have reaped
\* the leader since wait() timed out.
SigKill(k, t) ==
  /\ at[k] = "sigkill"
  /\ IF GroupGone(t)
     THEN Goto(k, "raised") /\ UNCHANGED os
     ELSE /\ proc' = [proc EXCEPT ![t] = IF @ = "running" THEN "zombie" ELSE @]
          /\ rc' = [rc EXCEPT ![t] = @ /\ proc[t] # "running"]
          /\ child' = child \ {t}
          /\ Goto(k, "wait")
  /\ UNCHANGED <<main, owner, cmd, disk, interrupts>>

\* The third one takes the descendants along.
Sweep(k, t) ==
  /\ at[k] = "sweep"
  /\ child' = child \ {t}
  /\ Goto(k, "terminated")
  /\ UNCHANGED <<main, owner, cmd, proc, rc, disk, interrupts>>

Terminate(k, t) == SigTerm(k, t) \/ Wait(k, t) \/ SigKill(k, t) \/ Sweep(k, t)

\* The thread's own process is terminated: discard it and raise.
GiveUp(t) ==
  /\ at[t] \in {"terminated", "raised"}
  /\ processes' = Discarded(t)
  /\ Goto(t, "failed")
  /\ UNCHANGED <<main, cancelled, cmd, os, disk, interrupts>>

ThreadStep(t) ==
  \/ Begin(t) \/ Spawn(t) \/ Register(t) \/ Communicate(t)
  \/ Terminate(t, t) \/ GiveUp(t)
-----------------------------------------------------------------------------
(* The main thread.                                                        *)

\* One repository cache after the other.
StartCache(t) ==
  /\ phase = "caching"
  /\ at[t] = "idle" /\ \A u \in Task : at[u] \in {"idle", "done"}
  /\ Goto(t, "start")
  /\ UNCHANGED <<main, owner, cmd, os, disk, interrupts>>

\* Then all workspaces at once.
StartPrepare ==
  /\ phase = "caching"
  /\ \A t \in Task : at[t] = "done"
  /\ phase' = "preparing"
  /\ at' = [t \in Thread |-> IF t = Main THEN "idle" ELSE "start"]
  /\ UNCHANGED <<snapshot, target, owner, cmd, os, disk, interrupts>>

\* terminate_all(): on an interrupt, or because a thread raised.
TerminateAll ==
  /\ phase \in {"caching", "preparing"}
  /\ \/ interrupts < MaxInterrupts /\ interrupts' = interrupts + 1
     \/ (\E t \in Task : at[t] = "failed") /\ UNCHANGED interrupts
  /\ phase' = "terminating"
  /\ cancelled' = TRUE
  /\ snapshot' = processes
  /\ UNCHANGED <<target, processes, at, cmd, os, disk>>

TerminateNext(t) ==
  /\ phase = "terminating" /\ target = None /\ t \in snapshot
  /\ snapshot' = snapshot \ {t} /\ target' = t
  /\ Goto(Main, "sigterm")
  /\ UNCHANGED <<phase, owner, cmd, os, disk, interrupts>>

\* Back from _terminate(): an exception leaves terminate_all() at once.
TerminateReturns ==
  /\ at[Main] \in {"terminated", "raised"}
  /\ phase' = IF at[Main] = "raised" THEN "raised" ELSE phase
  /\ target' = None
  /\ Goto(Main, "idle")
  /\ UNCHANGED <<snapshot, owner, cmd, os, disk, interrupts>>

AllTerminated ==
  /\ phase = "terminating" /\ snapshot = {} /\ target = None
  /\ phase' = "terminated"
  /\ UNCHANGED <<snapshot, target, owner, at, cmd, os, disk, interrupts>>

MainStep ==
  \/ \E t \in Task : StartCache(t) \/ TerminateNext(t) \/ (target = t /\ Terminate(Main, t))
  \/ StartPrepare \/ TerminateReturns \/ AllTerminated

\* A run that failed is started again, with a new owner and a new output
\* directory, over the same cache, once its threads and processes are gone.
NewRun ==
  /\ phase \in {"terminated", "raised"}
  /\ \A t \in Task : at[t] \in {"idle", "done", "failed"} /\ ~Alive(t)
  /\ phase' = "caching" /\ snapshot' = {} /\ target' = None
  /\ cancelled' = FALSE /\ processes' = {}
  /\ at' = [t \in Thread |-> "idle"]
  /\ cmd' = [t \in Task |-> None]
  /\ proc' = [t \in Task |-> "none"]
  /\ child' = {} /\ rc' = [t \in Task |-> TRUE]
  /\ ws' = [t \in Task |-> None]
  /\ UNCHANGED <<cache, interrupts>>
-----------------------------------------------------------------------------
Next ==
  \/ MainStep \/ TerminateAll \/ NewRun
  \/ \E t \in Task : ThreadStep(t) \/ Expire(t) \/ Exit(t) \/ Descend(t) \/ DescendantExits(t)

Spec == Init /\ [][Next]_vars
-----------------------------------------------------------------------------
(* Properties.                                                             *)

\* Type invariant; only registered processes are in the owner's set.
WorkspaceTypeOK ==
  /\ processes \subseteq Task /\ snapshot \subseteq Task /\ child \subseteq Task
  /\ cmd \in [Task -> CacheCmd \cup PrepareCmd \cup {None}]
  /\ proc \in [Task -> {"none", "running", "zombie", "reaped"}]
  /\ ws \in [Task -> PrepareCmd \cup {None}]
  /\ cache.commits \subseteq Task
  /\ \A t \in processes : at[t] \notin {"idle", "start", "spawn", "register"}

\* Once terminate_all() has returned, a process that still lives is one its
\* own thread is about to terminate: whichever way Popen(), the registration,
\* a deadline and terminate_all() interleave, none is left behind.
NoStrayProcess ==
  phase = "terminated" =>
    \A t \in Task : Alive(t) => at[t] \in {"register", "sigterm", "wait", "sigkill", "sweep"}

\* No thread ends, in success or failure, with its process group alive.
ThreadsLeaveNothing == \A t \in Task : at[t] \in {"done", "failed", "spawn"} => ~Alive(t)

\* A workspace that prepare_workspace() returned holds the base commit of its
\* task, whatever happened to the shared cache in earlier runs.
ReadyIsBase ==
  phase = "preparing" =>
    \A t \in Task : at[t] = "done" => ws[t] = "commit" /\ t \in cache.commits
=============================================================================
