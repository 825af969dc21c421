---------------------------- MODULE ReplayExecutor ----------------------------
(***************************************************************************)
(* The Replay executor of agentinfer/agentbench/replay/executor.py with    *)
(* the outcome checks of transport.py: every planned Session is one task,  *)
(* every planned node one coroutine of it.  A node waits for the           *)
(* completion futures of the nodes it names, is released, sent, and        *)
(* resolves its own future.  send_after only orders; context_after needs   *)
(* the predecessor's Prompt exchange.                                      *)
(*                                                                         *)
(* A task timeout cancels every coroutine of the graph between two of      *)
(* their steps; the backend answers, fails or stays silent; the trace      *)
(* writer may fail at any time and then refuses every later fact.          *)
(* Intervals are abstracted: a released node sleeps for any time.          *)
(***************************************************************************)
EXTENDS Naturals, FiniteSets, Sequences

CONSTANTS
  Task,             \* the planned Sessions
  NodesPerTask,     \* planned nodes of each
  MaxConcurrency,   \* experiment.max_concurrency
  MaxInflight,      \* replay.max_inflight_requests
  AgentX,           \* prompt_shape = "agentX_snapshot"
  UsesTokenIds,     \* replay.uses_token_ids
  HasTimeout,       \* experiment.task_timeout_seconds is set
  None

\* What the constants may be.
ExecutorAssumption ==
  /\ IsFiniteSet(Task)
  /\ NodesPerTask \in Nat \ {0}
  /\ MaxConcurrency \in Nat \ {0}
  /\ MaxInflight \in Nat \ {0}
  /\ {AgentX, UsesTokenIds, HasTimeout} \subseteq BOOLEAN
  /\ AgentX => UsesTokenIds
  /\ None \notin (1 .. NodesPerTask) \cup (Task \X (1 .. NodesPerTask))

VARIABLES
  plan,         \* node -> its type, send_after and context_after
  state,        \* task -> where _execute_task is
  timed_out,    \* the tasks whose wait_for expired
  pc,           \* node -> where its coroutine is
  prompt,       \* node -> its Prompt
  completion,   \* node -> its completion future
  results,      \* task -> the NodeExecutions appended so far
  facts,        \* node -> status of the request fact submitted for it
  sent,         \* the nodes handed to transport.send
  writer_ok     \* the trace writer accepts facts

vars == <<plan, state, timed_out, pc, prompt, completion, results, facts, sent, writer_ok>>

Index == 1 .. NodesPerTask
Node == Task \X Index
TaskOf(n) == n[1]
NodesOf(t) == {n \in Node : TaskOf(n) = t}

\* A future no waiter has lost yet, one a cancelled waiter took with it, and
\* the _NodeCompletion a node resolved it with.
Completions == [status : {"success", "failed", "skipped_dependency_failed"},
                exchange : {"none", "text", "ids"}]
Pending == [status |-> "pending", exchange |-> "none"]
Lost == [status |-> "cancelled", exchange |-> "none"]
Resolved(n) == completion[n] \in Completions

\* The planner only names earlier nodes of the same task; AgentX snapshots
\* have no context.
Plans ==
  {p \in [Index -> [type : {"request", "timing_dependency"},
                    send_after : Index \cup {None},
                    context_after : Index \cup {None}]] :
     \A i \in Index :
       /\ p[i].send_after # None => p[i].send_after < i
       /\ p[i].context_after # None =>
            /\ p[i].context_after < i
            /\ p[i].type = "request" /\ ~AgentX
            /\ p[p[i].context_after].type = "request"}

SendAfter(n) == IF plan[n].send_after = None THEN None ELSE <<TaskOf(n), plan[n].send_after>>
ContextAfter(n) == IF plan[n].context_after = None THEN None ELSE <<TaskOf(n), plan[n].context_after>>
IsRequest(n) == plan[n].type = "request"

Init ==
  /\ \E p \in Plans : plan = [n \in Node |-> p[n[2]]]
  /\ state = [t \in Task |-> "submitted"]
  /\ timed_out = {}
  /\ pc = [n \in Node |-> "idle"]
  /\ prompt = [n \in Node |-> "none"]
  /\ completion = [n \in Node |-> Pending]
  /\ results = [t \in Task |-> << >>]
  /\ facts = [n \in Node |-> "none"]
  /\ sent = {}
  /\ writer_ok = TRUE
-----------------------------------------------------------------------------
(***************************************************************************)
(* execute() and the first half of _execute_graph().  A task takes a       *)
(* semaphore permit; the Prompts of its root requests are built before any *)
(* node runs, and a construction error is kept for the node to raise.      *)
(***************************************************************************)
Admitted == {t \in Task : state[t] \in {"preparing", "running"}}

Roots(t) == {n \in NodesOf(t) : ~AgentX /\ IsRequest(n) /\ ContextAfter(n) = None}

Admit(t) ==
  /\ state[t] = "submitted"
  /\ Cardinality(Admitted) < MaxConcurrency
  /\ state' = [state EXCEPT ![t] = "preparing"]
  /\ prompt' = [n \in Node |-> IF n \in Roots(t) THEN "building" ELSE prompt[n]]
  /\ UNCHANGED <<plan, timed_out, pc, completion, results, facts, sent, writer_ok>>

PrepareRoot(n) ==
  /\ state[TaskOf(n)] = "preparing"
  /\ prompt[n] = "building"
  /\ \E built \in {"ready", "error"} : prompt' = [prompt EXCEPT ![n] = built]
  /\ UNCHANGED <<plan, state, timed_out, pc, completion, results, facts, sent, writer_ok>>

ExecuteGraph(t) ==
  /\ state[t] = "preparing"
  /\ t \notin timed_out
  /\ \A n \in Roots(t) : prompt[n] # "building"
  /\ state' = [state EXCEPT ![t] = "running"]
  /\ pc' = [n \in Node |-> IF TaskOf(n) = t THEN "waiting" ELSE pc[n]]
  /\ UNCHANGED <<plan, timed_out, prompt, completion, results, facts, sent, writer_ok>>
-----------------------------------------------------------------------------
(***************************************************************************)
(* _execute_node(): whatever a node raises becomes its result and resolves *)
(* its future, unless a waiter already cancelled it.                       *)
(***************************************************************************)
Resolve(n, value) ==
  completion' = [completion EXCEPT ![n] = IF @ = Pending THEN value ELSE @]

Append1(n, status) ==
  results' = [results EXCEPT ![TaskOf(n)] = Append(@, [node |-> n, status |-> status])]

Fail(n, status) ==
  /\ pc' = [pc EXCEPT ![n] = "done"]
  /\ Resolve(n, [status |-> status, exchange |-> "none"])
  /\ Append1(n, status)

\* The wait for send_after and the construction of the Prompt run together;
\* the first failure ends the node without waiting for the other.
RootPromptFailed(n) ==
  /\ pc[n] = "waiting"
  /\ prompt[n] = "error"
  /\ Fail(n, "failed")
  /\ UNCHANGED <<plan, state, timed_out, prompt, facts, sent, writer_ok>>

ContextUsable(n) ==
  LET c == completion[ContextAfter(n)] IN c.status = "success" /\ c.exchange # "none"

AwaitsContext(n) ==
  /\ pc[n] = "waiting"
  /\ ContextAfter(n) # None
  /\ prompt[n] = "none"
  /\ Resolved(ContextAfter(n))

DependencyFailed(n) ==
  /\ AwaitsContext(n)
  /\ ~ContextUsable(n)
  /\ Fail(n, "skipped_dependency_failed")
  /\ UNCHANGED <<plan, state, timed_out, prompt, facts, sent, writer_ok>>

BuildOnContext(n) ==
  /\ AwaitsContext(n)
  /\ ContextUsable(n)
  /\ prompt' = [prompt EXCEPT ![n] = "building"]
  /\ UNCHANGED <<plan, state, timed_out, pc, completion, results, facts, sent, writer_ok>>

\* A token continuation without the predecessor's output ids is an error.
Prepare(n) ==
  /\ pc[n] = "waiting"
  /\ prompt[n] = "building"
  /\ \/ /\ UsesTokenIds => completion[ContextAfter(n)].exchange = "ids"
        /\ prompt' = [prompt EXCEPT ![n] = "ready"]
        /\ UNCHANGED <<pc, completion, results>>
     \/ /\ prompt' = [prompt EXCEPT ![n] = "error"]
        /\ Fail(n, "failed")
  /\ UNCHANGED <<plan, state, timed_out, facts, sent, writer_ok>>

PredecessorDone(n) == SendAfter(n) # None => Resolved(SendAfter(n))

Release(n) ==
  /\ pc[n] = "waiting"
  /\ PredecessorDone(n)
  /\ (IsRequest(n) /\ ~AgentX) => prompt[n] = "ready"
  /\ pc' = [pc EXCEPT ![n] = "sleeping"]
  /\ UNCHANGED <<plan, state, timed_out, prompt, completion, results, facts, sent, writer_ok>>

TimingDone(n) ==
  /\ pc[n] = "sleeping"
  /\ ~IsRequest(n)
  /\ pc' = [pc EXCEPT ![n] = "done"]
  /\ Resolve(n, [status |-> "success", exchange |-> "none"])
  /\ Append1(n, "success")
  /\ UNCHANGED <<plan, state, timed_out, prompt, facts, sent, writer_ok>>
-----------------------------------------------------------------------------
(***************************************************************************)
(* Sending.  An AgentX snapshot is built and sent under the inflight       *)
(* semaphore of its task.                                                  *)
(***************************************************************************)
Inflight(t) == {n \in NodesOf(t) : AgentX /\ pc[n] \in {"snapshot", "sending"}}

HasPermit(t) == Cardinality(Inflight(t)) < MaxInflight

AcquireInflight(n) ==
  /\ AgentX
  /\ pc[n] = "sleeping"
  /\ IsRequest(n)
  /\ HasPermit(TaskOf(n))
  /\ pc' = [pc EXCEPT ![n] = "snapshot"]
  /\ prompt' = [prompt EXCEPT ![n] = "building"]
  /\ UNCHANGED <<plan, state, timed_out, completion, results, facts, sent, writer_ok>>

PrepareSnapshot(n) ==
  /\ pc[n] = "snapshot"
  /\ \/ /\ pc' = [pc EXCEPT ![n] = "sending"]
        /\ prompt' = [prompt EXCEPT ![n] = "ready"]
        /\ sent' = sent \cup {n}
        /\ UNCHANGED <<completion, results>>
     \/ /\ prompt' = [prompt EXCEPT ![n] = "error"]
        /\ Fail(n, "failed")
        /\ UNCHANGED sent
  /\ UNCHANGED <<plan, state, timed_out, facts, writer_ok>>

Send(n) ==
  /\ ~AgentX
  /\ pc[n] = "sleeping"
  /\ IsRequest(n)
  /\ pc' = [pc EXCEPT ![n] = "sending"]
  /\ sent' = sent \cup {n}
  /\ UNCHANGED <<plan, state, timed_out, prompt, completion, results, facts, writer_ok>>

\* What send() has seen when the exchange with the backend is over: the HTTP
\* status, an error body or event, the stream terminator, the reported token
\* counts against the plan, and the output ids.
Observations == [http : {"none", "ok", "error"},
                 error : BOOLEAN,
                 saw_done : BOOLEAN,
                 counts : {"missing", "mismatch", "exact"},
                 token_ids : {"none", "short", "full"}]

Succeeds(o) ==
  /\ o.http = "ok"
  /\ ~o.error
  /\ o.saw_done
  /\ o.counts = "exact"
  /\ (UsesTokenIds /\ ~AgentX) => o.token_ids = "full"

\* The Prompt exchange later nodes build on.
ExchangeOf(o) == CASE AgentX \/ ~Succeeds(o) -> "none"
                   [] UsesTokenIds /\ o.token_ids # "none" -> "ids"
                   [] OTHER -> "text"

CompletionOf(o) == [status |-> IF Succeeds(o) THEN "success" ELSE "failed",
                    exchange |-> ExchangeOf(o)]

\* submit() records the fact before the node's future is resolved.
SendDone(n) ==
  /\ pc[n] = "sending"
  /\ writer_ok
  /\ \E c \in {CompletionOf(o) : o \in Observations} :
       /\ facts' = [facts EXCEPT ![n] = IF c.status = "success" THEN "success" ELSE "error"]
       /\ pc' = [pc EXCEPT ![n] = "done"]
       /\ Resolve(n, c)
       /\ Append1(n, c.status)
  /\ UNCHANGED <<plan, state, timed_out, prompt, sent, writer_ok>>

\* The writer refuses the fact: send() raises although the backend answered.
SendRaises(n) ==
  /\ pc[n] = "sending"
  /\ ~writer_ok
  /\ Fail(n, "failed")
  /\ UNCHANGED <<plan, state, timed_out, prompt, facts, sent, writer_ok>>
-----------------------------------------------------------------------------
(***************************************************************************)
(* The end of a task.  wait_for() cancels the graph, which cancels its     *)
(* coroutines; cancelling one that waits cancels the future it waits on.   *)
(* The timeout may also expire in the step in which the last node ended.   *)
(***************************************************************************)
Running(n) == pc[n] \notin {"idle", "done"}

Awaited(n) == \E w \in Node :
  /\ pc[w] = "waiting"
  /\ \/ SendAfter(w) = n
     \/ ContextAfter(w) = n /\ prompt[w] = "none"

Timeout(t) ==
  /\ HasTimeout
  /\ state[t] \in {"preparing", "running"}
  /\ t \notin timed_out
  /\ timed_out' = timed_out \cup {t}
  /\ pc' = [n \in Node |-> IF TaskOf(n) = t /\ Running(n) THEN "cancelled" ELSE pc[n]]
  /\ prompt' = [n \in Node |-> IF TaskOf(n) = t /\ prompt[n] = "building"
                                 THEN "none" ELSE prompt[n]]
  /\ completion' = [n \in Node |-> IF TaskOf(n) = t /\ Awaited(n) /\ completion[n] = Pending
                                     THEN Lost ELSE completion[n]]
  /\ UNCHANGED <<plan, state, results, facts, sent, writer_ok>>

\* Mutant of TaskFailed: the timeout is not an error of the task.
HasFailedNode(t) == \E i \in DOMAIN results[t] : results[t][i].status # "success"

TaskFailed(t) ==
  \/ t \in timed_out
  \/ \E i \in DOMAIN results[t] : results[t][i].status # "success"

Ended(n) == pc[n] \in {"done", "cancelled"}

FinishTask(t) ==
  /\ \/ state[t] = "running" /\ \A n \in NodesOf(t) : Ended(n)
     \/ state[t] = "preparing" /\ t \in timed_out
  /\ state' = [state EXCEPT ![t] =
       IF TaskFailed(t) THEN "failed" ELSE "completed"]
  /\ UNCHANGED <<plan, timed_out, pc, prompt, completion, results, facts, sent, writer_ok>>

WriterFails ==
  /\ writer_ok
  /\ Admitted # {}
  /\ writer_ok' = FALSE
  /\ UNCHANGED <<plan, state, timed_out, pc, prompt, completion, results, facts, sent>>

Finished(t) == state[t] \in {"completed", "failed"}

\* execute() has returned.
Stutter == (\A t \in Task : Finished(t)) /\ UNCHANGED vars

NodeStep(n) ==
  \/ PrepareRoot(n) \/ RootPromptFailed(n) \/ DependencyFailed(n) \/ BuildOnContext(n)
  \/ Prepare(n) \/ Release(n) \/ TimingDone(n) \/ AcquireInflight(n)
  \/ PrepareSnapshot(n) \/ Send(n) \/ SendDone(n) \/ SendRaises(n)

TaskStep(t) == Admit(t) \/ ExecuteGraph(t) \/ FinishTask(t)

Next ==
  \/ \E n \in Node : NodeStep(n)
  \/ \E t \in Task : TaskStep(t) \/ Timeout(t)
  \/ WriterFails
  \/ Stutter

Spec == Init /\ [][Next]_vars
-----------------------------------------------------------------------------
ExecutorTypeOK ==
  /\ state \in [Task -> {"submitted", "preparing", "running", "completed", "failed"}]
  /\ timed_out \subseteq Task
  /\ pc \in [Node -> {"idle", "waiting", "sleeping", "snapshot", "sending", "done", "cancelled"}]
  /\ prompt \in [Node -> {"none", "building", "ready", "error"}]
  /\ completion \in [Node -> Completions \cup {Pending, Lost}]
  /\ \A t \in Task : results[t] \in Seq([node : NodesOf(t),
       status : {"success", "failed", "skipped_dependency_failed"}])
  /\ facts \in [Node -> {"none", "success", "error"}]
  /\ sent \subseteq Node
  /\ writer_ok \in BOOLEAN

ResultsOf(n) == {i \in DOMAIN results[TaskOf(n)] : results[TaskOf(n)][i].node = n}

\* A node has exactly one NodeExecution once its coroutine ended by itself and
\* none otherwise, whichever of its failure paths it took (executor.py:207).
OneResultPerNode ==
  \A n \in Node : Cardinality(ResultsOf(n)) = IF pc[n] = "done" THEN 1 ELSE 0

\* What later nodes read from a node's future is what its result reports: a
\* result never says success when the future says otherwise (executor.py:236,371).
CompletionAgreesWithResult ==
  \A n \in Node : \A i \in ResultsOf(n) :
    completion[n].status = results[TaskOf(n)][i].status

\* A cancelled waiter takes its predecessor's future with it; that predecessor
\* must itself be cancelled, or its set_result would raise (executor.py:329,371).
LostOnlyWhenCancelled ==
  \A n \in Node : completion[n] = Lost => pc[n] = "cancelled" /\ TaskOf(n) \in timed_out

\* A request leaves only after its send_after node ended and, when it has a
\* context, after that node succeeded with an exchange to build on.
SentAfterDependencies ==
  \A n \in sent : /\ SendAfter(n) # None => pc[SendAfter(n)] = "done"
                  /\ ContextAfter(n) # None => ContextUsable(n)

\* Only a failed context skips a node: a failed send_after predecessor, or an
\* unrelated failure, never does (executor.py:217-222).
SkippedOnlyByContext ==
  \A n \in Node : completion[n].status = "skipped_dependency_failed" =>
    /\ ContextAfter(n) # None
    /\ completion[ContextAfter(n)].status \in {"failed", "skipped_dependency_failed"}

\* Every exchange a token-id replay hands to a continuation carries the output
\* ids the continuation needs (transport.py:236 against prompt.py:564).
ExchangesCarryIds ==
  UsesTokenIds => \A n \in Node : completion[n].exchange # "text"

\* The permits of both semaphores, also across cancellation (executor.py:131,193).
WithinLimits ==
  /\ Cardinality(Admitted) <= MaxConcurrency
  /\ \A t \in Task : Cardinality(Inflight(t)) <= MaxInflight

\* A completed task ran every planned node successfully and has a successful
\* fact for every request: what _complete_replay() later requires (runner.py:47).
CompletedTaskIsExact ==
  \A t \in Task : state[t] = "completed" =>
    \A n \in NodesOf(t) :
      /\ completion[n].status = "success"
      /\ facts[n] = IF IsRequest(n) THEN "success" ELSE "none"
=============================================================================
