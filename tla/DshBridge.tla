----------------------------- MODULE DshBridge -----------------------------
(***************************************************************************)
(* The AgentBench bridge inside a DeepSeek Harness process: the handlers   *)
(* that watch the lead and its Explore subagents, hold the lead to plan    *)
(* mode, stop agents that loop or run on, and keep on disk what the runner *)
(* judges the run by.  The harness itself (turns, tool execution, notices  *)
(* of finished subagents) is external and modelled from what the handlers  *)
(* expect of it; an agent runs its tool calls one after the other.         *)
(***************************************************************************)
EXTENDS Naturals, Sequences, FiniteSets

CONSTANTS
  Lead, Children,     \* the sessions
  SUBAGENT_STEP_LIMIT, AGENT_STEP_LIMIT, TOOL_WINDOW, REPEAT_LIMIT,
  MaxCalls,           \* bound: the tool calls of one step
  BadArguments,       \* whether a call may have invalid arguments
  Enforce             \* the values of enforcePlanMode

\* What the constants may be.
BridgeAssumption ==
  /\ Lead \notin Children
  /\ {TOOL_WINDOW, REPEAT_LIMIT} \subseteq Nat \ {0}
  /\ {SUBAGENT_STEP_LIMIT, AGENT_STEP_LIMIT, MaxCalls} \subseteq Nat
  /\ BadArguments \subseteq BOOLEAN /\ Enforce \subseteq BOOLEAN

Session == {Lead} \union Children
null == "null"
NoCall == [name |-> null, isError |-> FALSE]

VARIABLES
  enforce,       \* enforcePlanMode
  pc,            \* session -> where the harness is with its agent
  call,          \* session -> the tool call in progress, and whether it is refused
  lineages,      \* the sessions with a lineage (and a budget)
  subagentOutcomes,
  steps, reads, errors,   \* the budgets
  autoPlanApprovals, planRecoveries, failure, unansweredQuestion,
  file,          \* dsh-lineage.json
  planActive,    \* the harness's plan mode of the lead
  notices,       \* the finished subagents the lead has not been told of
  calls,         \* session -> the tool calls of its step
  log,           \* the last TOOL_WINDOW calls of each subagent, and whether they ran (history)
  wrote,         \* an implementation tool has run (history)
  exitCode       \* of the process, or "running"

memory == <<lineages, subagentOutcomes, autoPlanApprovals, planRecoveries, failure, unansweredQuestion>>
budgets == <<steps, reads, errors>>
bridgeVars == <<enforce, pc, call, memory, budgets, file, planActive, notices, calls, log, wrote, exitCode>>

Snapshot ==
  [sessions |-> lineages, outcomes |-> subagentOutcomes, approvals |-> autoPlanApprovals,
   recoveries |-> planRecoveries, failure |-> failure, question |-> unansweredQuestion]

\* persistLineage, after the memory of the step has been decided.
persistLineage ==
  file' = [sessions |-> lineages', outcomes |-> subagentOutcomes', approvals |-> autoPlanApprovals',
           recoveries |-> planRecoveries', failure |-> failure', question |-> unansweredQuestion']

\* Mutant of recordFailure: the latest failure is kept.
LatestFailure(reason) == failure' = reason

\* recordFailure: the first failure stands.
recordFailure(reason) == failure' = IF failure = "none" THEN reason ELSE failure

BridgeInit ==
  /\ enforce \in Enforce
  /\ pc = [s \in Session |-> IF s = Lead THEN "created" ELSE "absent"]
  /\ call = [s \in Session |-> NoCall]
  /\ lineages = {}
  /\ subagentOutcomes = [c \in Children |-> "none"]
  /\ steps = [s \in Session |-> 0]
  /\ reads = [s \in Session |-> << >>]
  /\ errors = [s \in Session |-> << >>]
  /\ autoPlanApprovals = 0 /\ planRecoveries = 0
  /\ failure = "none"
  /\ unansweredQuestion = FALSE
  /\ file = Snapshot
  /\ planActive = FALSE
  /\ notices = {}
  /\ calls = [s \in Session |-> 0]
  /\ log = [c \in Children |-> << >>]
  /\ wrote = FALSE
  /\ exitCode = "running"

Goto(s, where) == pc' = [pc EXCEPT ![s] = where]
children == lineages \ {Lead}
MayCall(s) == calls[s] < MaxCalls
-----------------------------------------------------------------------------
\* Publication is part of the lead's subagent call, which then has its result.
Published(s, where) ==
  pc' = [t \in Session |-> CASE t = s -> where [] t = Lead /\ s # Lead -> "result" [] OTHER -> pc[t]]

\* 'agent/created': the lineage and a fresh budget; the lead starts in plan mode.
AgentCreated(s) ==
  /\ pc[s] = "created"
  /\ lineages' = lineages \union {s}
  /\ UNCHANGED <<subagentOutcomes, autoPlanApprovals, planRecoveries, failure, unansweredQuestion>>
  /\ persistLineage
  /\ planActive' = IF s = Lead THEN enforce ELSE planActive
  /\ Published(s, "ready")
  /\ UNCHANGED <<enforce, call, budgets, notices, calls, log, wrote, exitCode>>

\* A session is refused by a throw of a handler, and never published: before the bridge has
\* recorded it, or after it, while its tools are restricted and guarded.
AgentVetoed(c) ==
  /\ c \in Children /\ pc[c] = "created"
  /\ UNCHANGED <<subagentOutcomes, autoPlanApprovals, planRecoveries, failure, unansweredQuestion>>
  /\ \/ Published(c, "absent") /\ UNCHANGED <<lineages, file>>
     \/ Published(c, "vetoed") /\ lineages' = lineages \union {c} /\ persistLineage
  /\ UNCHANGED <<enforce, call, budgets, planActive, notices, calls, log, wrote, exitCode>>

Limit(s) == IF s = Lead THEN AGENT_STEP_LIMIT ELSE SUBAGENT_STEP_LIMIT

StepsAfter(s) == steps[s] + 1

\* 'agent/pre-step': a failure of anyone ends everyone at the next step.
PreStep(s) ==
  /\ pc[s] = "ready"
  /\ IF failure # "none"
     THEN Goto(s, "crashed") /\ UNCHANGED <<memory, steps, file, notices>>
     ELSE /\ steps' = [steps EXCEPT ![s] = StepsAfter(s)]
          /\ UNCHANGED <<lineages, subagentOutcomes, autoPlanApprovals, planRecoveries, unansweredQuestion>>
          /\ IF StepsAfter(s) <= Limit(s)
             THEN Goto(s, "model") /\ UNCHANGED <<failure, file>>
             ELSE /\ recordFailure(IF s = Lead THEN "agent_step_limit" ELSE "subagent_step_limit")
                  /\ persistLineage
                  /\ Goto(s, "crashed")
          /\ notices' = IF s = Lead THEN {} ELSE notices
  /\ calls' = [calls EXCEPT ![s] = 0]
  /\ UNCHANGED <<enforce, call, reads, errors, planActive, log, wrote, exitCode>>

\* 'llm/stream': the model answers with a tool call or with its last word.
Stream(s) ==
  /\ pc[s] = "model"
  /\ IF unansweredQuestion THEN Goto(s, "crashed")
     ELSE \/ MayCall(s) /\ Goto(s, "tools")
          \/ Goto(s, "stopping")
  /\ UNCHANGED <<enforce, call, memory, budgets, file, planActive, notices, calls, log, wrote, exitCode>>
-----------------------------------------------------------------------------
(* Tool calls: what the guards of agent/created say of them *)

Window(q, x) == IF Len(q) < TOOL_WINDOW THEN Append(q, x) ELSE Append(Tail(q), x)
Repeats(q, x) == Cardinality({i \in DOMAIN q : q[i] = x})

\* The reads of the last TOOL_WINDOW calls, this one included; other tools count as null.
ReadsAfter(s, key) == Window(reads[s], key)
ReadLoop(s, key) == key # null /\ Repeats(ReadsAfter(s, key), key) >= REPEAT_LIMIT

\* A subagent may read, glob and grep; a read is known by its file and range.
GuardChild(c, key) ==
  /\ c \in Children /\ pc[c] = "tools"
  /\ reads' = [reads EXCEPT ![c] = ReadsAfter(c, key)]
  /\ UNCHANGED <<lineages, subagentOutcomes, autoPlanApprovals, planRecoveries, unansweredQuestion>>
  /\ IF ReadLoop(c, key) THEN recordFailure("subagent_read_loop") /\ persistLineage ELSE UNCHANGED <<failure, file>>
  /\ log' = [log EXCEPT ![c] = Window(@, [key |-> key, ran |-> ~ReadLoop(c, key)])]
  /\ call' = [call EXCEPT ![c] = [name |-> "read", isError |-> ReadLoop(c, key)]]
  /\ Goto(c, "result")
  /\ calls' = [calls EXCEPT ![c] = @ + 1]
  /\ UNCHANGED <<enforce, steps, errors, planActive, notices, wrote, exitCode>>

ReadOnly == {"subagent", "exit_plan_mode", "read"}

\* The guard of the lead: explore first, then the plan, then the implementation.
LeadDenies(name) ==
  /\ enforce
  /\ IF planActive
     THEN \/ children = {} /\ name # "subagent"
          \/ name = "exit_plan_mode" /\ \E c \in children : subagentOutcomes[c] # "completed"
          \/ name \notin ReadOnly
     ELSE name = "exit_plan_mode"

\* A call of the lead: refused, or run by the harness.
GuardLead(name) ==
  /\ pc[Lead] = "tools"
  /\ calls' = [calls EXCEPT ![Lead] = @ + 1]
  /\ call' = [call EXCEPT ![Lead] = [name |-> name, isError |-> LeadDenies(name)]]
  /\ Goto(Lead, IF LeadDenies(name) THEN "result" ELSE "run")
  /\ UNCHANGED <<enforce, memory, budgets, file, planActive, notices, log, wrote, exitCode>>

\* The harness runs the call: it delegates, asks, or works on the repository.
RunSubagent ==
  /\ pc[Lead] = "run" /\ call[Lead].name = "subagent"
  /\ \/ \E c \in Children :
          /\ pc[c] = "absent"
          /\ pc' = [pc EXCEPT ![c] = "created", ![Lead] = "delegating"]
     \/ Goto(Lead, "result")
  /\ UNCHANGED <<enforce, call, memory, budgets, file, planActive, notices, calls, log, wrote, exitCode>>

RunTool ==
  /\ pc[Lead] = "run" /\ call[Lead].name # "subagent"
  /\ LET asks == call[Lead].name = "ask" \/ (call[Lead].name = "exit_plan_mode" /\ planActive) IN
     /\ Goto(Lead, IF asks THEN "asking" ELSE "result")
     /\ call' = [call EXCEPT ![Lead].isError = call[Lead].name = "exit_plan_mode" /\ ~asks]
  /\ wrote' = (wrote \/ call[Lead].name = "write")
  /\ UNCHANGED <<enforce, memory, budgets, file, planActive, notices, calls, log, exitCode>>

Approve ==
  /\ autoPlanApprovals' = autoPlanApprovals + 1
  /\ UNCHANGED <<lineages, subagentOutcomes, planRecoveries, failure, unansweredQuestion>>
  /\ persistLineage

\* 'user-questions/request': only the review of a plan has an answer.
Question ==
  /\ pc[Lead] = "asking"
  /\ IF enforce /\ call[Lead].name = "exit_plan_mode"
     THEN Approve /\ planActive' = FALSE
     ELSE /\ unansweredQuestion' = TRUE
          /\ UNCHANGED <<lineages, subagentOutcomes, autoPlanApprovals, planRecoveries, failure, planActive>>
          /\ persistLineage
  /\ Goto(Lead, "result")
  /\ UNCHANGED <<enforce, call, budgets, notices, calls, log, wrote, exitCode>>

\* What 'tools/result' counts as an invalid call: bad arguments, or leaving a plan mode that is off.
InvalidKey(c, bad) ==
  IF bad \/ (c.isError /\ c.name = "exit_plan_mode" /\ ~planActive) THEN c.name ELSE null

\* 'tools/result': the same invalid call, over and over, is a failure of the run.
ToolResult(s, bad) ==
  /\ pc[s] = "result"
  /\ LET key == InvalidKey(call[s], bad)
         after == Window(errors[s], key) IN
     /\ errors' = [errors EXCEPT ![s] = after]
     /\ UNCHANGED <<lineages, subagentOutcomes, autoPlanApprovals, planRecoveries, unansweredQuestion>>
     /\ IF key # null /\ Repeats(after, key) >= REPEAT_LIMIT
        THEN recordFailure("validation_error_loop") /\ persistLineage
        ELSE UNCHANGED <<failure, file>>
  /\ call' = [call EXCEPT ![s] = NoCall]
  /\ \/ MayCall(s) /\ Goto(s, "tools")
     \/ Goto(s, "ready")
  /\ UNCHANGED <<enforce, steps, reads, planActive, notices, calls, log, wrote, exitCode>>
-----------------------------------------------------------------------------
(* The end of a turn *)

Unreported == \E c \in children : subagentOutcomes[c] = "none"

MayRemind == planRecoveries = 0

\* The end may stand: the plan is through, or a subagent is still to report.
EndStands == ~enforce \/ (failure = "none" /\ (~planActive \/ Unreported))

\* 'agent/turn-stopping' of the lead: in plan mode, one reminder, then a failure.
TurnStopping ==
  /\ pc[Lead] = "stopping"
  /\ UNCHANGED <<lineages, subagentOutcomes, autoPlanApprovals, unansweredQuestion>>
  /\ CASE EndStands -> Goto(Lead, "waiting") /\ UNCHANGED <<planRecoveries, failure, file>>
       [] ~EndStands /\ failure # "none" -> Goto(Lead, "crashed") /\ UNCHANGED <<planRecoveries, failure, file>>
       [] ~EndStands /\ failure = "none" /\ MayRemind ->
            /\ planRecoveries' = planRecoveries + 1
            /\ UNCHANGED failure
            /\ persistLineage
            /\ Goto(Lead, "ready")
       [] OTHER ->
            /\ recordFailure("plan_not_approved")
            /\ UNCHANGED planRecoveries
            /\ persistLineage
            /\ Goto(Lead, "crashed")
  /\ UNCHANGED <<enforce, call, budgets, planActive, notices, calls, log, wrote, exitCode>>

\* 'subagent/end': what became of a subagent; anything but "completed" fails the run.
SubagentEnd(c) ==
  /\ c \in Children /\ pc[c] \in {"stopping", "crashed"}
  /\ \E stopReason \in IF pc[c] = "stopping" THEN {"completed", "aborted"} ELSE {"error"} :
       /\ subagentOutcomes' = [subagentOutcomes EXCEPT ![c] = stopReason]
       /\ UNCHANGED <<lineages, autoPlanApprovals, planRecoveries, unansweredQuestion>>
       /\ IF stopReason = "completed" THEN UNCHANGED failure ELSE recordFailure("subagent_failed")
       /\ persistLineage
  /\ Goto(c, "ended")
  /\ notices' = notices \union {c}
  /\ UNCHANGED <<enforce, call, budgets, planActive, calls, log, wrote, exitCode>>

\* The harness tells the waiting lead of the subagents that have finished.
Wake ==
  /\ pc[Lead] = "waiting" /\ notices # {}
  /\ Goto(Lead, "ready")
  /\ UNCHANGED <<enforce, call, memory, budgets, file, planActive, notices, calls, log, wrote, exitCode>>

\* The process exits once the lead is through and every subagent has ended.
Exit ==
  /\ exitCode = "running"
  /\ \/ pc[Lead] = "waiting" /\ notices = {} /\ exitCode' = "zero"
     \/ pc[Lead] = "crashed" /\ exitCode' = "nonzero"
  /\ \A c \in Children : pc[c] \in {"absent", "vetoed", "ended"}
  /\ UNCHANGED <<enforce, pc, call, memory, budgets, file, planActive, notices, calls, log, wrote>>
-----------------------------------------------------------------------------
BridgeNext ==
  \/ \E s \in Session : AgentCreated(s) \/ AgentVetoed(s) \/ PreStep(s) \/ Stream(s)
  \/ \E s \in Session, bad \in BadArguments : ToolResult(s, bad)
  \/ \E c \in Children, key \in {"file", null} : GuardChild(c, key)
  \/ \E name \in ReadOnly \union {"write", "ask"} : GuardLead(name)
  \/ RunSubagent \/ RunTool \/ Question \/ TurnStopping \/ Wake \/ Exit
  \/ \E c \in Children : SubagentEnd(c)

BridgeSpec == BridgeInit /\ [][BridgeNext]_bridgeVars
-----------------------------------------------------------------------------
BridgeTypeOK ==
  /\ lineages \subseteq Session
  /\ \A s \in Session : Len(reads[s]) <= TOOL_WINDOW /\ Len(errors[s]) <= TOOL_WINDOW
  /\ planRecoveries \in 0 .. 1
  /\ exitCode \in {"running", "zero", "nonzero"}

\* The process is killed without notice when its time is over: at every moment the file
\* on disk is what the bridge knows, so the runner judges by nothing older.
FileIsCurrent == file = Snapshot

\* The runner reports one failure, and it is the first: later ones, which the first
\* usually causes, never replace it.
FirstFailureStands == failure # "none" => failure' = failure

\* The plan is approved only after exploration: there is a subagent and all of them have completed.
ApprovedAfterExploration ==
  autoPlanApprovals' # autoPlanApprovals =>
    children # {} /\ \A c \in children : subagentOutcomes[c] = "completed"

\* With plan mode enforced nothing is implemented before a plan has been approved.
NoWorkBeforeApproval == (enforce /\ wrote) => autoPlanApprovals > 0

\* In any TOOL_WINDOW calls of a subagent in a row, fewer than REPEAT_LIMIT of the same read are run.
NoReadLoop ==
  \A c \in Children : Repeats(log[c], [key |-> "file", ran |-> TRUE]) < REPEAT_LIMIT

\* A process that ends well under plan mode, with nothing recorded against it, has
\* explored, had its plan approved and left no subagent unreported.  (A subagent vetoed after it was
\* recorded never reports, the lead may end its turn to wait for it, and the runner judges the run.)
CleanExitIsPlanned ==
  (exitCode = "zero" /\ enforce /\ failure = "none" /\ \A c \in Children : pc[c] # "vetoed") =>
    /\ ~planActive /\ autoPlanApprovals > 0
    /\ children # {} /\ \A c \in children : subagentOutcomes[c] = "completed"

RunOver == exitCode # "running"
=============================================================================
