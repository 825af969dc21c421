-------------------------- MODULE ClaudeInteraction --------------------------
(***************************************************************************)
(* The interaction controller of the Claude driver,                        *)
(* agentinfer/agentbench/agents/claude/interaction.py: a poll loop shows   *)
(* it one terminal snapshot after the other, and the first handler of a    *)
(* chain that recognises the snapshot decides what is typed.               *)
(*                                                                         *)
(* A snapshot is the set of the markers the handlers look for.  A dialog   *)
(* waits for an answer; it may show several markers at once (a plan        *)
(* approval offers a highlighted Yes, a question may offer Yes first), and *)
(* every dialog also shows the prompt character.                           *)
(***************************************************************************)
EXTENDS Naturals

CONSTANTS
  Profile,       \* "single" or "plan-subagent"
  Dialogs,       \* the dialogs Claude may show, as sets of markers
  BackToBack,    \* a dialog may replace another one between two polls
  IdleTimeout, RetrySeconds, MaxAttempts,   \* of the handlers
  MaxTime,       \* bound on the clock
  None

\* What the constants may be; None is no time.  A dialog shows the prompt
\* character and a marker that a handler of the profile answers: Claude asks for
\* the approval of a plan only in plan mode.
InteractionAssumption ==
  /\ Profile \in {"single", "plan-subagent"}
  /\ Dialogs \subseteq SUBSET {"prompt", "plan", "yes", "generic"}
  /\ \A d \in Dialogs :
       /\ "prompt" \in d /\ ("plan" \in d \/ "yes" \in d \/ "generic" \in d)
       /\ "plan" \in d => Profile = "plan-subagent"
  /\ BackToBack \in BOOLEAN
  /\ {IdleTimeout, RetrySeconds, MaxAttempts, MaxTime} \subseteq Nat \ {0}
  /\ None \notin Nat

\* Start-up question, idle prompt, pasted text not yet submitted, work.
Screens == {{"startup"}, {"prompt"}, {"prompt", "pasted"}, {"streaming"}}

VARIABLES
  state,     \* InteractionState
  idle,      \* NoProgressHandler: when it saw the prompt, whether it checked
  screen,    \* the last snapshot
  long,      \* the transcript is long enough for the idle detection
  now,       \* elapsed_seconds
  action,    \* what the last call decided
  seen       \* of the current appearance: polls, Enters, time of the last
             \* Enter; and since when every snapshot was idle, and the checks

vars == <<state, idle, screen, long, now, action, seen>>

InitState == [startup_dismissed |-> FALSE, yes |-> FALSE, plan |-> FALSE,
              generic |-> FALSE, attempts |-> 0, sent_at |-> None]

Init ==
  /\ state = InitState
  /\ idle = [seen_at |-> None, checked |-> FALSE]
  /\ screen = {"streaming"}
  /\ long = FALSE
  /\ now = 0
  /\ action = "none"
  /\ seen = [polls |-> 0, enters |-> 0, last |-> None, idle |-> None, checks |-> 0]
-----------------------------------------------------------------------------
(* The handlers.                                                           *)

\* process(): a dialog that is no longer visible may appear again.
ClearVisible(s, scr) ==
  LET g == s.generic /\ "generic" \in scr
  IN  [s EXCEPT !.yes = @ /\ "yes" \in scr,
                !.plan = @ /\ "plan" \in scr,
                !.generic = g,
                !.attempts = IF s.generic /\ ~g THEN 0 ELSE @,
                !.sent_at = IF s.generic /\ ~g THEN None ELSE @]

ReadyPrompt(scr) == "prompt" \in scr /\ "pasted" \notin scr

Startup(s, scr) == ~s.startup_dismissed /\ ("startup" \in scr \/ ReadyPrompt(scr))

PlanApproval(s, scr) == Profile = "plan-subagent" /\ ~s.plan /\ "plan" \in scr

YesConfirmation(s, scr) == ~s.yes /\ "plan" \notin scr /\ "yes" \in scr

AttemptsLeft(s) == s.attempts < MaxAttempts

\* A dialog that a specific handler answered is left to it.
NotClaimed(s) == ~s.plan /\ ~s.yes

RetryDue(s, t) == s.sent_at # None /\ t - s.sent_at >= RetrySeconds

GenericSelection(s, scr, t) ==
  /\ NotClaimed(s)
  /\ "generic" \in scr
  /\ ~s.generic \/ (AttemptsLeft(s) /\ RetryDue(s, t))

\* NoProgressHandler.recognize(): the prompt character counts as idle.
Idle(scr) == "prompt" \in scr /\ "pasted" \notin scr /\ "streaming" \notin scr

\* Anything else starts the idle period over.
ResetIdle(scr) == [seen_at |-> None, checked |-> FALSE]

NoProgress(scr, t, enough) ==
  IF ~enough \/ ~Idle(scr) THEN ResetIdle(scr)
  ELSE IF idle.seen_at = None THEN [idle EXCEPT !.seen_at = t]
  ELSE idle

MayCheck(scr, t, enough) ==
  enough /\ Idle(scr) /\ idle.seen_at # None /\ ~idle.checked /\ t - idle.seen_at >= IdleTimeout
-----------------------------------------------------------------------------
(* InteractionController.process(): the first handler that recognises the  *)
(* snapshot acts; the idle detection is the last of the chain and is only  *)
(* enabled for the single-agent profile.                                   *)

Process(scr, t, transcript) ==
  LET s == ClearVisible(state, scr) IN
  \/ /\ Startup(s, scr)
     /\ state' = [s EXCEPT !.startup_dismissed = "startup" \notin scr]
     /\ action' = IF "startup" \in scr THEN "enter" ELSE "none"
     /\ UNCHANGED idle
  \/ /\ ~Startup(s, scr) /\ PlanApproval(s, scr)
     /\ state' = [s EXCEPT !.plan = TRUE]
     /\ action' = "enter"
     /\ UNCHANGED idle
  \/ /\ ~Startup(s, scr) /\ ~PlanApproval(s, scr) /\ YesConfirmation(s, scr)
     /\ state' = [s EXCEPT !.yes = TRUE]
     /\ action' = "enter"
     /\ UNCHANGED idle
  \/ /\ ~Startup(s, scr) /\ ~PlanApproval(s, scr) /\ ~YesConfirmation(s, scr)
     /\ GenericSelection(s, scr, t)
     /\ state' = [s EXCEPT !.generic = TRUE, !.attempts = @ + 1, !.sent_at = t]
     /\ action' = "enter"
     /\ UNCHANGED idle
  \/ /\ ~Startup(s, scr) /\ ~PlanApproval(s, scr) /\ ~YesConfirmation(s, scr)
     /\ ~GenericSelection(s, scr, t)
     /\ state' = s
     /\ LET enough == Profile = "single" /\ transcript /\ s.startup_dismissed
            check == MayCheck(scr, t, enough)
        IN  /\ action' = IF check THEN "check_workspace" ELSE "none"
            /\ idle' = IF Profile # "single" THEN idle
                       ELSE IF check THEN [idle EXCEPT !.checked = TRUE]
                       ELSE NoProgress(scr, t, enough)

\* The history of the appearance and of the idle period, over one poll.
Recorded(scr, enough, same) ==
  LET again == [polls |-> IF same THEN seen.polls ELSE 0,
                enters |-> IF same THEN seen.enters ELSE 0,
                last |-> IF same THEN seen.last ELSE None]
      quiet == Idle(scr) /\ enough /\ state.startup_dismissed
  IN  seen' = [polls |-> again.polls + (IF again.polls < 2 THEN 1 ELSE 0),
               enters |-> again.enters + (IF action' = "enter" THEN 1 ELSE 0),
               last |-> IF action' = "enter" THEN now' ELSE again.last,
               idle |-> IF ~quiet THEN None ELSE IF seen.idle = None THEN now' ELSE seen.idle,
               checks |-> (IF quiet THEN seen.checks ELSE 0) + (IF action' = "check_workspace" THEN 1 ELSE 0)]

\* One poll of run_claude(): some time passes, the terminal shows the same
\* dialog still or something else, and the controller is asked.
Poll ==
  /\ now < MaxTime
  /\ now' = now + 1
  /\ \E scr \in Screens \cup Dialogs, enough \in {long, TRUE}, same \in BOOLEAN :
       /\ same => scr = screen
       /\ scr \in Dialogs /\ screen \in Dialogs => same \/ BackToBack
       /\ scr = {"startup"} => ~state.startup_dismissed
       /\ screen' = scr
       /\ long' = enough
       /\ Process(scr, now', enough)
       /\ Recorded(scr, enough, same)

Next == Poll
Spec == Init /\ [][Next]_vars
-----------------------------------------------------------------------------
(* Properties.                                                             *)

\* Type invariant, with the limit on the attempts of the fallback.
InteractionTypeOK ==
  /\ state.attempts \in 0..MaxAttempts
  /\ state.sent_at \in {None} \cup 0..MaxTime
  /\ state.generic => state.attempts > 0 /\ state.sent_at # None
  /\ idle.checked => idle.seen_at # None
  /\ action \in {"none", "enter", "check_workspace"}

\* "Select a Yes confirmation once per prompt appearance" (and the same for
\* plans and selections): a dialog that has been on the screen for two polls
\* has been answered, whichever dialogs came before it.
EveryAppearanceAnswered ==
  screen \in Dialogs /\ state.startup_dismissed /\ seen.polls >= 2 /\ action = "none" => seen.enters >= 1

\* A dialog gets one Enter, although several handlers know it; only one that
\* no specific handler claims is retried, after RetrySeconds.
OneEnterPerAppearance ==
  screen \in Dialogs /\ state.startup_dismissed =>
    IF screen \cap {"plan", "yes"} # {} THEN seen.enters <= 1 ELSE seen.enters <= MaxAttempts

\* A retry never follows the previous Enter too soon.
RetriesSpaced ==
  screen' \in Dialogs /\ state.startup_dismissed /\ action' = "enter" /\ seen'.enters > 1
    => now' - seen.last >= RetrySeconds

\* The workspace is only checked, and the run perhaps ended, when every poll
\* of the last IdleTimeout found the agent idle, and once per idle period.
CheckAfterIdle ==
  action = "check_workspace" =>
    /\ seen.idle # None /\ now - seen.idle >= IdleTimeout
    /\ seen.checks = 1
=============================================================================
