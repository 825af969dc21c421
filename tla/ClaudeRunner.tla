----------------------------- MODULE ClaudeRunner -----------------------------
(***************************************************************************)
(* One task through Claude Code, agentinfer/agentbench/agents/claude:      *)
(* run_claude() of runner.py with the tmux commands of tmux.py and the     *)
(* transcript readers of transcript.py.  Claude runs in a pane of a tmux   *)
(* server of its own and appends events to a transcript file; the runner   *)
(* polls both.  The server may die and Claude may exit at any time, every  *)
(* tmux command may fail, and the run may be cancelled at every await.     *)
(*                                                                         *)
(* The handler chain that decides what to type is module ClaudeInteraction; *)
(* here its answer is any of the answers it may give.                      *)
(***************************************************************************)
EXTENDS Sequences, FiniteSets, Naturals

CONSTANTS
  Deadline, StartupTime, PromptTime,   \* of the task, of the start, of the prompt
  MinEvents, MinRepeats, Recent,       \* of StuckDetector.detect()
  MaxLines, MaxCancels,                \* bounds
  None

\* A transcript event: of another type, a user event, a user event whose tool
\* result holds a marker of a harness failure, a part of an assistant turn,
\* and the end of one.
Events == {"other", "user", "marker", "assistant", "end_turn"}

\* Why a run failed.
Reasons == {"harness_error", "agent_startup_timeout", "agent_startup_failed", "interrupted", "timeout",
            "prompt_submission_failed", "stuck", "idle_after_patch"}

\* What the constants may be; None is no transcript, no signature of one and no reason.
ClaudeRunnerAssumption ==
  /\ {Deadline, StartupTime, PromptTime, MinEvents, MinRepeats, Recent} \subseteq Nat \ {0}
  /\ {MaxLines, MaxCancels} \subseteq Nat
  /\ None \notin Seq(Events) /\ None \notin Nat \X BOOLEAN /\ None \notin Reasons

VARIABLES
  pc, result,      \* run_claude() and its AgentRunResult
  clock,
  launch, kill,    \* the threads of start_session() and kill_server()
  tmux, pane,      \* the server and Claude
  prompt,          \* on its way to Claude: none, pasted, submitted
  pastes,
  log, torn,       \* the transcript file: its lines, and a half-written one
  view,            \* what run_claude() knows of Claude
  cancels, cancelled

claude == <<tmux, pane, prompt, log, torn>>
vars == <<pc, result, clock, launch, kill, claude, pastes, view, cancels, cancelled>>

Failed(reason) == [outcome |-> "failed", reason |-> reason]
Completed == [outcome |-> "completed", reason |-> None]

Init ==
  /\ pc = "setup" /\ result = Failed("harness_error")
  /\ clock = 0
  /\ launch = "none" /\ kill = "none"
  /\ tmux = "none" /\ pane = "running" /\ prompt = "none" /\ pastes = 0
  /\ log = <<>> /\ torn = FALSE
  /\ view = [dismissed |-> FALSE, startup |-> 0, prompt |-> 0, found |-> FALSE,
             signature |-> None, stat |-> <<>>, raw |-> <<>>,
             evidence |-> FALSE, saved |-> None]
  /\ cancels = 0 /\ cancelled = FALSE

Goto(l) == pc' = l
Expired == clock >= Deadline
Min2(a, b) == IF a < b THEN a ELSE b
-----------------------------------------------------------------------------
(* transcript.py.                                                          *)

IsConversation(e) == e # "other"

\* TranscriptLoader.load() skips a line that is not yet complete.
Load == log
Signature == <<Len(log), torn>>
FileExists == torn \/ log # <<>>

\* is_transcript_complete(): the last conversation event ends a turn.
IsComplete(raw) ==
  \E i \in DOMAIN raw :
    raw[i] = "end_turn" /\ \A j \in DOMAIN raw : j > i => ~IsConversation(raw[j])

\* StuckDetector.detect() on the normalized events.
IsStuck(raw) ==
  LET said == SelectSeq(raw, IsConversation)
      tail == {i \in DOMAIN said : i > Len(said) - Recent}
  IN  Len(said) >= MinEvents /\ Cardinality({i \in tail : said[i] = "marker"}) >= MinRepeats
-----------------------------------------------------------------------------
(* A tmux command of the runner: it needs time left and a server, and may  *)
(* fail all the same.  A raised exception ends the run as a harness error. *)

Raise ==
  /\ result' = Failed("harness_error")
  /\ Goto("cleanup")
  /\ UNCHANGED <<clock, launch, kill, claude, pastes, view, cancels, cancelled>>

CommandWorks == ~Expired /\ tmux = "up"

\* Every state of the run in which it awaits a tmux command.
Commands == {"configure", "look", "capture", "keys", "paste", "enter", "confirm", "unconfirmed"}
CommandRefused == pc \in Commands /\ ~CommandWorks /\ Raise
CommandFails == pc \in Commands /\ CommandWorks /\ Raise

Break(reason) ==
  /\ result' = Failed(reason)
  /\ Goto("evidence")
  /\ UNCHANGED <<clock, launch, kill, claude, pastes, view, cancels, cancelled>>

Continue(l) ==
  /\ Goto(l)
  /\ UNCHANGED <<result, clock, launch, kill, claude, pastes, view, cancels, cancelled>>

LostReason == IF view.found THEN "interrupted" ELSE "agent_startup_failed"
-----------------------------------------------------------------------------
(* Start: directories and settings are written, the server is launched in  *)
(* a thread, the token is removed from its environment.                    *)

Setup == pc = "setup" /\ Continue("launch")

StartLaunch ==
  /\ pc = "launch"
  /\ \/ Expired /\ Raise
     \/ /\ ~Expired
        /\ launch' = "running"
        /\ Goto("launching")
        /\ UNCHANGED <<result, clock, kill, claude, pastes, view, cancels, cancelled>>

\* The thread of start_session(): a command that timed out may have started
\* the server.
LaunchEnds ==
  /\ launch = "running"
  /\ \E ok \in BOOLEAN, up \in {"up", tmux} :
       /\ ok => up = "up"
       /\ launch' = IF ok THEN "done" ELSE "failed"
       /\ tmux' = up
  /\ UNCHANGED <<pc, result, clock, kill, pane, prompt, pastes, log, torn, view, cancels, cancelled>>

Launched ==
  /\ pc = "launching"
  /\ \/ launch = "done" /\ Continue("configure")
     \/ launch = "failed" /\ Raise

Configure ==
  /\ pc = "configure" /\ CommandWorks
  /\ view' = [view EXCEPT !.startup = Min2(Deadline, clock + StartupTime)]
  /\ Goto("starting")
  /\ UNCHANGED <<result, clock, launch, kill, claude, pastes, cancels, cancelled>>

Starting ==
  /\ pc = "starting"
  /\ \/ clock >= view.startup /\ Break("agent_startup_timeout")
     \/ clock < view.startup /\ Continue("poll")
-----------------------------------------------------------------------------
(* The poll loop.                                                          *)

Poll ==
  /\ pc = "poll"
  /\ \/ Expired /\ Break(IF view.dismissed THEN "timeout" ELSE "agent_startup_timeout")
     \/ Expired /\ Break("timeout")          \* during the sleep
     \/ ~Expired /\ Continue("look")

Look ==
  /\ pc = "look" /\ ~Expired
  /\ \/ tmux # "up" /\ Break(LostReason)
     \/ tmux = "up" /\ Continue("capture")

Capture ==
  /\ pc = "capture" /\ CommandWorks
  /\ \/ pane = "exited" /\ Break(LostReason)
     \/ pane = "running" /\ Continue("react")

\* The start-up dialogs, and the prompt once Claude is ready for it.
React ==
  /\ pc = "react"
  /\ \/ ~view.dismissed /\ Continue("keys")
     \/ ~view.dismissed /\ clock >= view.startup /\ Break("agent_startup_timeout")
     \/ ~view.dismissed /\ clock < view.startup /\ Continue("poll")
     \/ /\ ~view.dismissed
        /\ view' = [view EXCEPT !.dismissed = TRUE]
        /\ Goto("ready")
        /\ UNCHANGED <<result, clock, launch, kill, claude, pastes, cancels, cancelled>>
     \/ view.dismissed /\ Continue("ready")

Keys == pc = "keys" /\ CommandWorks /\ Continue("poll")

Ready ==
  /\ pc = "ready"
  /\ \/ view.found /\ Continue("stat")
     \/ ~view.found /\ prompt # "pasted" /\ Continue("paste")
     \/ ~view.found /\ Continue("poll")

\* load_and_paste_file().
Paste ==
  /\ pc = "paste" /\ CommandWorks
  /\ prompt' = "pasted"
  /\ pastes' = pastes + 1
  /\ Goto("enter")
  /\ UNCHANGED <<result, clock, launch, kill, tmux, pane, log, torn, view, cancels, cancelled>>

\* Claude may swallow the Enter and leave the text pasted.
Enter ==
  /\ pc = "enter"
  /\ \/ Expired /\ Break("timeout")
     \/ /\ CommandWorks
        /\ prompt' \in {prompt, "submitted"}
        /\ view' = [view EXCEPT !.prompt = Min2(Deadline, clock + PromptTime)]
        /\ Goto("confirm")
        /\ UNCHANGED <<result, clock, launch, kill, tmux, pane, log, torn, pastes, cancels, cancelled>>

NotDelivered == "unconfirmed"

\* _confirm_prompt_submission().
Confirm ==
  /\ pc = "confirm"
  /\ \/ /\ FileExists
        /\ view' = [view EXCEPT !.found = TRUE]
        /\ Goto("stat")
        /\ UNCHANGED <<result, clock, launch, kill, claude, pastes, cancels, cancelled>>
     \/ ~FileExists /\ clock >= view.prompt /\ Continue(NotDelivered)
     \/ ~FileExists /\ clock < view.prompt /\ (tmux # "up" \/ pane = "exited") /\ Continue(NotDelivered)
     \/ /\ ~FileExists /\ clock < view.prompt
        /\ CommandWorks /\ prompt = "pasted"
        /\ prompt' \in {"pasted", "submitted"}
        /\ UNCHANGED <<pc, result, clock, launch, kill, tmux, pane, log, torn, pastes, view, cancels, cancelled>>

Unconfirmed ==
  /\ pc = "unconfirmed" /\ ~Expired
  /\ \/ (tmux # "up" \/ pane = "exited") /\ Break("agent_startup_failed")
     \/ tmux = "up" /\ pane = "running" /\ Break("prompt_submission_failed")
     \/ tmux = "up" /\ pane = "running" /\ clock + 1 >= Deadline /\ Break("timeout")

Unchanged == view.signature = Signature

\* The signature is taken before the file is read, so that a line written in
\* between is read again rather than missed.
Stat ==
  /\ pc = "stat"
  /\ view' = [view EXCEPT !.signature = Signature, !.stat = Load]
  /\ Goto(IF Unchanged THEN "judge" ELSE "load")
  /\ UNCHANGED <<result, clock, launch, kill, claude, pastes, cancels, cancelled>>

LoadTranscript ==
  /\ pc = "load"
  /\ view' = [view EXCEPT !.raw = Load]
  /\ Goto("judge")
  /\ UNCHANGED <<result, clock, launch, kill, claude, pastes, cancels, cancelled>>

\* Completion first, then the loops, then the handler chain.
Judge ==
  /\ pc = "judge"
  /\ \/ /\ IsComplete(view.raw)
        /\ result' = Completed
        /\ Goto("evidence")
        /\ UNCHANGED <<clock, launch, kill, claude, pastes, view, cancels, cancelled>>
     \/ ~IsComplete(view.raw) /\ IsStuck(view.raw) /\ Break("stuck")
     \/ /\ ~IsComplete(view.raw) /\ ~IsStuck(view.raw)
        /\ \/ Continue("poll")
           \/ Continue("keys")
           \/ Break("idle_after_patch")
-----------------------------------------------------------------------------
(* The end of a run: evidence, and the server is killed whatever happened. *)

\* _collect_final_evidence() stops Claude; it may ignore the keys.
Evidence ==
  /\ pc = "evidence"
  /\ view' = [view EXCEPT !.evidence = TRUE]
  /\ pane' \in {pane, "exited"}
  /\ Goto("export")
  /\ UNCHANGED <<result, clock, launch, kill, tmux, prompt, log, torn, pastes, cancels, cancelled>>

Export ==
  /\ pc = "export"
  /\ view' = [view EXCEPT !.saved = IF FileExists THEN Load ELSE None]
  /\ Goto("cleanup")
  /\ UNCHANGED <<result, clock, launch, kill, claude, pastes, cancels, cancelled>>

\* A completed run without its evidence, or with its server, has failed.
Demoted == IF result.outcome = "completed" THEN Failed("harness_error") ELSE result

\* A command, a file or the time limit of wait_for().
EvidenceFails ==
  /\ pc \in {"evidence", "export"}
  /\ result' = Demoted
  /\ view' = [view EXCEPT !.evidence = TRUE]
  /\ Goto("cleanup")
  /\ UNCHANGED <<clock, launch, kill, claude, pastes, cancels, cancelled>>

\* Mutant of LaunchSettled: a cancelled launch is not waited for.
NoWait == TRUE
LaunchSettled == launch # "running"

\* The handler of a cancellation waits for the launch, then cleans up.
Handler == pc = "handler" /\ LaunchSettled /\ Continue("cleanup")

Cleanup ==
  /\ pc = "cleanup"
  /\ \/ launch = "none" /\ Continue("end")
     \/ /\ launch # "none"
        /\ kill' = "running"
        /\ Goto("killing")
        /\ UNCHANGED <<result, clock, launch, claude, pastes, view, cancels, cancelled>>

\* The thread of kill_server(): a failed command is an error only while the
\* server still answers.
KillEnds ==
  /\ kill = "running"
  /\ \/ kill' = "ok" /\ tmux' = IF tmux = "up" THEN "gone" ELSE tmux
     \/ kill' = "failed" /\ UNCHANGED tmux
  /\ UNCHANGED <<pc, result, clock, launch, pane, prompt, pastes, log, torn, view, cancels, cancelled>>

Killed ==
  /\ pc = "killing" /\ kill \in {"ok", "failed"}
  /\ result' = IF kill = "failed" /\ ~cancelled THEN Demoted ELSE result
  /\ Goto("end")
  /\ UNCHANGED <<clock, launch, kill, claude, pastes, view, cancels, cancelled>>

End == pc = "end" /\ Continue(IF cancelled THEN "raised" ELSE "returned")

\* A cancellation at an await: before the try block it just propagates, in it
\* the handler runs, in the handler or in the finally block it propagates
\* (the thread that kills the server goes on).
Cancel ==
  /\ cancels < MaxCancels
  /\ pc \notin {"end", "returned", "raised", "cleanup"}
  /\ cancels' = cancels + 1
  /\ cancelled' = TRUE
  /\ Goto(CASE pc = "setup" -> "raised"
            [] pc = "handler" -> "cleanup"
            [] pc = "killing" -> "raised"
            [] OTHER -> "handler")
  /\ UNCHANGED <<result, clock, launch, kill, claude, pastes, view>>
-----------------------------------------------------------------------------
(* Claude, the server and the clock.                                       *)

Running == tmux = "up" /\ pane = "running"

\* Claude appends a line in two writes.
WriteHalf ==
  /\ Running /\ prompt = "submitted" /\ ~torn /\ Len(log) < MaxLines
  /\ torn' = TRUE
  /\ UNCHANGED <<pc, result, clock, launch, kill, tmux, pane, prompt, log, pastes, view, cancels, cancelled>>

WriteLine ==
  /\ Running /\ torn
  /\ \E e \in Events : log' = Append(log, e)
  /\ torn' = FALSE
  /\ UNCHANGED <<pc, result, clock, launch, kill, tmux, pane, prompt, pastes, view, cancels, cancelled>>

ClaudeExits ==
  /\ Running /\ pane' = "exited"
  /\ UNCHANGED <<pc, result, clock, launch, kill, tmux, prompt, log, torn, pastes, view, cancels, cancelled>>

ServerDies ==
  /\ tmux = "up" /\ tmux' = "gone"
  /\ UNCHANGED <<pc, result, clock, launch, kill, pane, prompt, log, torn, pastes, view, cancels, cancelled>>

Tick ==
  /\ clock < Deadline /\ pc \notin {"returned", "raised"}
  /\ clock' = clock + 1
  /\ UNCHANGED <<pc, result, launch, kill, claude, pastes, view, cancels, cancelled>>

Runner ==
  \/ Setup \/ StartLaunch \/ Launched \/ Configure \/ Starting \/ Poll \/ Look \/ Capture \/ React
  \/ Keys \/ Ready \/ Paste \/ Enter \/ Confirm \/ Unconfirmed \/ Stat \/ LoadTranscript \/ Judge
  \/ Evidence \/ Export \/ Handler \/ Cleanup \/ Killed \/ End \/ CommandRefused

Next ==
  \/ Runner \/ CommandFails \/ EvidenceFails \/ Cancel \/ LaunchEnds \/ KillEnds
  \/ WriteHalf \/ WriteLine \/ ClaudeExits \/ ServerDies \/ Tick

Spec == Init /\ [][Next]_vars
-----------------------------------------------------------------------------
(* Properties.                                                             *)

Over == pc \in {"returned", "raised"}

\* Type invariant.
ClaudeRunnerTypeOK ==
  /\ result = Completed \/ (result.outcome = "failed" /\ result.reason \in Reasons)
  /\ launch \in {"none", "running", "done", "failed"}
  /\ kill \in {"none", "running", "ok", "failed"}
  /\ tmux \in {"none", "up", "gone"} /\ pane \in {"running", "exited"}
  /\ prompt \in {"none", "pasted", "submitted"}
  /\ log \in Seq(Events) /\ clock \in 0..Deadline

\* No tmux server survives the run: when run_claude() is over and the thread
\* that kills the server has done so, the server is not up and no launch is
\* still on its way, at whatever point the run was cancelled or failed.
ServerStopped ==
  Over /\ kill \notin {"running", "failed"} => tmux # "up" /\ launch # "running"

\* A completed result means what it says: the saved transcript holds the end
\* of a turn, and the server was stopped.
CompletedIsBacked ==
  pc = "returned" /\ result.outcome = "completed" =>
    /\ view.saved # None /\ \E i \in DOMAIN view.saved : view.saved[i] = "end_turn"
    /\ kill = "ok"

\* Completion and loops are judged on a transcript that holds every line
\* that was in the file when the poll looked at it.
JudgedOnCurrent ==
  pc = "judge" =>
    Len(view.stat) <= Len(view.raw) /\ \A i \in DOMAIN view.stat : view.stat[i] = view.raw[i]

\* A session that Claude never took a prompt in is a start-up failure, one
\* that was lost after the transcript appeared is an interruption.
LostSessionNamed ==
  pc \in {"returned", "raised"} /\ ~cancelled =>
    /\ result.reason = "interrupted" => log # <<>> \/ torn
    /\ result.reason = "agent_startup_failed" => ~view.found

\* The prompt is given to Claude once.
PromptPastedOnce == pastes <= 1
=============================================================================
