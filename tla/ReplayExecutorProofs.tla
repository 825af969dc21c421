------------------------ MODULE ReplayExecutorProofs ------------------------
(***************************************************************************)
(* For every number of tasks and nodes, and every plan: whichever nodes    *)
(* fail, time out or are refused by the trace writer, the executor's       *)
(* results, futures and facts agree, dependencies are respected, and the   *)
(* two semaphores hold.                                                    *)
(***************************************************************************)
EXTENDS ReplayExecutor, FiniteSetTheorems, TLAPS

Statuses == {"success", "failed", "skipped_dependency_failed"}
PlanNode == [type : {"request", "timing_dependency"}, send_after : Index \cup {None},
             context_after : Index \cup {None}]

\* The plan is what the planner made of it.
PlanInv ==
  /\ plan \in [Node -> PlanNode]
  /\ \A n \in Node : plan[n].context_after # None =>
       /\ plan[n].type = "request" /\ ~AgentX
       /\ plan[<<TaskOf(n), plan[n].context_after>>].type = "request"

\* ExecutorTypeOK leaves the domain of results open.
TypeInv ==
  /\ ExecutorTypeOK
  /\ results \in [Task -> Seq([node : Node, status : Statuses])]

\* Where a node can be, given where its task is.
PhaseInv ==
  \A n \in Node :
    /\ state[TaskOf(n)] \in {"submitted", "preparing"} => pc[n] = "idle"
    /\ state[TaskOf(n)] = "submitted" => TaskOf(n) \notin timed_out
    /\ state[TaskOf(n)] = "running" /\ TaskOf(n) \notin timed_out => pc[n] \notin {"idle", "cancelled"}
    /\ state[TaskOf(n)] \in {"completed", "failed"} \/ TaskOf(n) \in timed_out =>
         pc[n] \in {"idle", "done", "cancelled"}
    /\ pc[n] = "cancelled" => TaskOf(n) \in timed_out
    /\ pc[n] \in {"snapshot", "sending"} => IsRequest(n)

\* A future is resolved exactly when its node ended by itself, and only a
\* cancelled node can have lost it.
FutureInv ==
  \A n \in Node :
    /\ pc[n] = "done" => completion[n] \in Completions
    /\ pc[n] = "cancelled" => completion[n] \in {Pending, Lost}
    /\ pc[n] \notin {"done", "cancelled"} => completion[n] = Pending
    /\ completion[n].status = "success" /\ IsRequest(n) /\ ~AgentX => completion[n].exchange # "none"
    /\ UsesTokenIds => completion[n].exchange # "text"

\* A node that ended by itself has one result, and that is what its future says.
ResultInv ==
  \A n \in Node :
    /\ pc[n] # "done" => ResultsOf(n) = {}
    /\ pc[n] = "done" => \E i \in DOMAIN results[TaskOf(n)] :
         /\ ResultsOf(n) = {i}
         /\ results[TaskOf(n)][i].status = completion[n].status

\* What a node has waited for: its predecessor ended before it slept, its
\* context was usable before its Prompt was built, and was not before it was
\* skipped.
DependencyInv ==
  \A n \in Node :
    /\ (pc[n] \in {"sleeping", "snapshot", "sending"} \/ n \in sent) /\ SendAfter(n) # None =>
         pc[SendAfter(n)] = "done"
    /\ (prompt[n] \in {"building", "ready"} \/ n \in sent) /\ ContextAfter(n) # None =>
         pc[ContextAfter(n)] = "done" /\ ContextUsable(n)
    /\ pc[n] \in {"sleeping", "snapshot", "sending"} /\ IsRequest(n) /\ ~AgentX => prompt[n] = "ready"
    /\ completion[n].status = "skipped_dependency_failed" =>
         /\ ContextAfter(n) # None /\ pc[ContextAfter(n)] = "done"
         /\ completion[ContextAfter(n)].status \in {"failed", "skipped_dependency_failed"}

\* A request that succeeded has its fact, and nothing else has one.
FactInv ==
  \A n \in Node :
    /\ pc[n] # "done" => facts[n] = "none"
    /\ pc[n] = "done" /\ completion[n].status = "success" =>
         facts[n] = IF IsRequest(n) THEN "success" ELSE "none"

ExecInv ==
  /\ PlanInv /\ TypeInv /\ PhaseInv /\ FutureInv /\ ResultInv /\ DependencyInv
  /\ FactInv /\ WithinLimits /\ CompletedTaskIsExact
-----------------------------------------------------------------------------
LEMMA NodeFacts ==
  ASSUME NEW n \in Node
  PROVE  TaskOf(n) \in Task /\ n[2] \in Index /\ n = <<TaskOf(n), n[2]>>
BY DEF Node, TaskOf

\* The nodes a node names are nodes of its task.
LEMMA Predecessors ==
  ASSUME ExecutorAssumption, PlanInv, NEW n \in Node
  PROVE  /\ SendAfter(n) # None => SendAfter(n) \in Node /\ TaskOf(SendAfter(n)) = TaskOf(n)
         /\ ContextAfter(n) # None => /\ ContextAfter(n) \in Node /\ TaskOf(ContextAfter(n)) = TaskOf(n)
                                      /\ IsRequest(n) /\ IsRequest(ContextAfter(n)) /\ ~AgentX
<1>1. /\ TaskOf(n) \in Task
      /\ plan[n].send_after \in Index \cup {None} /\ plan[n].context_after \in Index \cup {None}
  BY NodeFacts DEF PlanInv, PlanNode
<1>2. ASSUME SendAfter(n) # None PROVE SendAfter(n) \in Node /\ TaskOf(SendAfter(n)) = TaskOf(n)
  <2>1. SendAfter(n) = <<TaskOf(n), plan[n].send_after>> /\ plan[n].send_after \in Index
    BY <1>1, <1>2 DEF SendAfter
  <2> QED BY <1>1, <2>1 DEF Node, TaskOf
<1>3. ASSUME ContextAfter(n) # None
      PROVE  /\ ContextAfter(n) \in Node /\ TaskOf(ContextAfter(n)) = TaskOf(n)
             /\ IsRequest(n) /\ IsRequest(ContextAfter(n)) /\ ~AgentX
  <2>1. /\ ContextAfter(n) = <<TaskOf(n), plan[n].context_after>> /\ plan[n].context_after \in Index
        /\ plan[n].context_after # None
    BY <1>1, <1>3 DEF ContextAfter
  <2>2. ContextAfter(n) \in Node /\ TaskOf(ContextAfter(n)) = TaskOf(n)
    BY <1>1, <2>1 DEF Node, TaskOf
  <2> QED BY <2>1, <2>2 DEF PlanInv, IsRequest
<1> QED BY <1>2, <1>3

LEMMA FutureFacts ==
  /\ Pending \notin Completions /\ Lost \notin Completions /\ Pending # Lost
  /\ Pending.status = "pending" /\ Lost.status = "cancelled"
  /\ Pending.exchange = "none" /\ Lost.exchange = "none"
  /\ \A c \in Completions : c.status \in Statuses /\ c.exchange \in {"none", "text", "ids"}
  /\ \A s \in Statuses : [status |-> s, exchange |-> "none"] \in Completions
BY DEF Pending, Lost, Completions, Statuses

\* What the observations of an exchange amount to.
LEMMA ObservationFacts ==
  ASSUME ExecutorAssumption, NEW o \in Observations
  PROVE  /\ CompletionOf(o) \in Completions /\ CompletionOf(o).status \in {"success", "failed"}
         /\ CompletionOf(o).status = "success" /\ ~AgentX => CompletionOf(o).exchange # "none"
         /\ UsesTokenIds => CompletionOf(o).exchange # "text"
<1>1. o.token_ids \in {"none", "short", "full"}
  BY DEF Observations
<1>2. CompletionOf(o).status = IF Succeeds(o) THEN "success" ELSE "failed"
  BY DEF CompletionOf
<1>3. CompletionOf(o).exchange = ExchangeOf(o)
  BY DEF CompletionOf
<1>4. ExchangeOf(o) \in {"none", "ids", "text"}
  BY DEF ExchangeOf
<1>5. Succeeds(o) /\ ~AgentX => ExchangeOf(o) # "none"
  BY DEF ExchangeOf
<1>6. UsesTokenIds => ExchangeOf(o) # "text"
  <2>1. CASE AgentX \/ ~Succeeds(o)
    BY <2>1 DEF ExchangeOf
  <2>2. CASE ~AgentX /\ Succeeds(o)
    BY <2>2 DEF ExchangeOf, Succeeds
  <2> QED BY <2>1, <2>2
<1>7. CompletionOf(o) \in Completions
  BY <1>4 DEF CompletionOf, Completions
<1> QED BY <1>2, <1>3, <1>5, <1>6, <1>7
-----------------------------------------------------------------------------
\* The plan never changes, and what is read from it does not either.
LEMMA PlanStays ==
  ASSUME plan' = plan
  PROVE  /\ PlanInv => PlanInv'
         /\ \A m \in Node : /\ SendAfter(m)' = SendAfter(m) /\ ContextAfter(m)' = ContextAfter(m)
                            /\ IsRequest(m)' = IsRequest(m)
BY DEF PlanInv, SendAfter, ContextAfter, IsRequest

Live == {"waiting", "sleeping", "snapshot", "sending"}
Prompts == {"none", "building", "ready", "error"}

\* A running node belongs to a task that runs and has not timed out, its
\* future is pending, and it has neither a result nor a fact.
LEMMA LiveFacts ==
  ASSUME ExecutorAssumption, ExecInv, NEW n \in Node, pc[n] \in Live
  PROVE  /\ TaskOf(n) \in Task /\ state[TaskOf(n)] = "running" /\ TaskOf(n) \notin timed_out
         /\ completion[n] = Pending /\ ResultsOf(n) = {} /\ facts[n] = "none"
<1>1. TaskOf(n) \in Task
  BY NodeFacts
<1>2. state[TaskOf(n)] \in {"submitted", "preparing", "running", "completed", "failed"}
  BY <1>1 DEF ExecInv, TypeInv, ExecutorTypeOK
<1>3. state[TaskOf(n)] = "running" /\ TaskOf(n) \notin timed_out
  BY <1>2 DEF ExecInv, PhaseInv, Live
<1> QED BY <1>1, <1>3 DEF ExecInv, FutureInv, ResultInv, FactInv, Live

LEMMA InflightFinite ==
  ASSUME ExecutorAssumption, NEW t \in Task
  PROVE  IsFiniteSet(NodesOf(t)) /\ IsFiniteSet(Node)
<1>1. IsFiniteSet(Index)
  BY FS_Interval DEF Index, ExecutorAssumption
<1>2. IsFiniteSet(Node)
  BY <1>1, FS_Product DEF Node, ExecutorAssumption
<1> QED BY <1>2, FS_Subset DEF NodesOf

\* A set of permits that does not grow stays within its limit.
LEMMA InflightShrinks ==
  ASSUME ExecutorAssumption, WithinLimits, NEW t \in Task, Inflight(t)' \subseteq Inflight(t)
  PROVE  Cardinality(Inflight(t)') <= MaxInflight
<1>1. IsFiniteSet(Inflight(t))
  BY InflightFinite, FS_Subset DEF Inflight
<1>2. Cardinality(Inflight(t)') <= Cardinality(Inflight(t)) /\ IsFiniteSet(Inflight(t)')
  BY <1>1, FS_Subset
<1>3. Cardinality(Inflight(t)') \in Nat /\ Cardinality(Inflight(t)) \in Nat
  BY <1>1, <1>2, FS_CardinalityType
<1>4. Cardinality(Inflight(t)) <= MaxInflight
  BY DEF WithinLimits
<1> QED BY <1>2, <1>3, <1>4 DEF ExecutorAssumption

\* A running node goes on: it stays a running node, with a Prompt, and may be
\* sent.  What it needs for that is what its action's guard gives.
LEMMA NodeMoves ==
  ASSUME ExecutorAssumption, ExecInv, NEW n \in Node, NEW p \in Live, NEW q \in Prompts,
         pc[n] \in Live,
         pc' = [pc EXCEPT ![n] = p], prompt' = [prompt EXCEPT ![n] = q],
         sent \subseteq sent', sent' \subseteq sent \cup {n},
         UNCHANGED <<plan, state, timed_out, completion, results, facts, writer_ok>>,
         p \in {"snapshot", "sending"} => IsRequest(n),
         (p # "waiting" \/ n \in sent') /\ SendAfter(n) # None => pc[SendAfter(n)] = "done",
         (q \in {"building", "ready"} \/ n \in sent') /\ ContextAfter(n) # None =>
            pc[ContextAfter(n)] = "done" /\ ContextUsable(n),
         p # "waiting" /\ IsRequest(n) /\ ~AgentX => q = "ready",
         \A t \in Task : Cardinality(Inflight(t)') <= MaxInflight
  PROVE  ExecInv'
<1>0. /\ plan' = plan /\ state' = state /\ timed_out' = timed_out /\ completion' = completion
      /\ results' = results /\ facts' = facts /\ writer_ok' = writer_ok
  OBVIOUS
<1>1. /\ PlanInv' /\ PlanInv
      /\ \A m \in Node : /\ SendAfter(m)' = SendAfter(m) /\ ContextAfter(m)' = ContextAfter(m)
                         /\ IsRequest(m)' = IsRequest(m)
  BY <1>0, PlanStays DEF ExecInv
<1>2. /\ pc \in [Node -> Live \cup {"idle", "done", "cancelled"}] /\ prompt \in [Node -> Prompts]
  BY DEF ExecInv, TypeInv, ExecutorTypeOK, Live, Prompts
<1>3. \A m \in Node : /\ m # n => pc'[m] = pc[m] /\ prompt'[m] = prompt[m]
                      /\ m = n => pc'[m] = p /\ prompt'[m] = q
                      /\ pc[m] = "done" <=> pc'[m] = "done"
                      /\ pc[m] \in Live <=> pc'[m] \in Live
                      /\ pc[m] \notin Live => pc'[m] = pc[m]
  BY <1>2 DEF Live
<1>4. /\ TaskOf(n) \in Task /\ state[TaskOf(n)] = "running" /\ TaskOf(n) \notin timed_out
      /\ completion[n] = Pending
  BY LiveFacts
<1>5. TypeInv'
  <2>1. pc' \in [Node -> Live \cup {"idle", "done", "cancelled"}] /\ prompt' \in [Node -> Prompts]
    BY <1>2
  <2>2. sent' \subseteq Node
    BY DEF ExecInv, TypeInv, ExecutorTypeOK
  <2> QED BY <1>0, <2>1, <2>2 DEF ExecInv, TypeInv, ExecutorTypeOK, Live, Prompts
<1>6. PhaseInv'
  <2> SUFFICES ASSUME NEW m \in Node
               PROVE  /\ state[TaskOf(m)] \in {"submitted", "preparing"} => pc'[m] = "idle"
                      /\ state[TaskOf(m)] = "submitted" => TaskOf(m) \notin timed_out
                      /\ state[TaskOf(m)] = "running" /\ TaskOf(m) \notin timed_out =>
                           pc'[m] \notin {"idle", "cancelled"}
                      /\ state[TaskOf(m)] \in {"completed", "failed"} \/ TaskOf(m) \in timed_out =>
                           pc'[m] \in {"idle", "done", "cancelled"}
                      /\ pc'[m] = "cancelled" => TaskOf(m) \in timed_out
                      /\ pc'[m] \in {"snapshot", "sending"} => IsRequest(m)
    BY <1>0, <1>1 DEF PhaseInv, TaskOf
  <2>1. CASE m = n
    BY <1>3, <1>4, <2>1 DEF Live
  <2>2. CASE m # n
    BY <1>3, <2>2 DEF ExecInv, PhaseInv
  <2> QED BY <2>1, <2>2
<1>7. FutureInv'
  <2> SUFFICES ASSUME NEW m \in Node
               PROVE  /\ pc'[m] = "done" => completion[m] \in Completions
                      /\ pc'[m] = "cancelled" => completion[m] \in {Pending, Lost}
                      /\ pc'[m] \notin {"done", "cancelled"} => completion[m] = Pending
                      /\ completion[m].status = "success" /\ IsRequest(m) /\ ~AgentX =>
                           completion[m].exchange # "none"
                      /\ UsesTokenIds => completion[m].exchange # "text"
    BY <1>0, <1>1 DEF FutureInv
  <2>1. FutureInv
    BY DEF ExecInv
  <2> QED BY <1>3, <1>4, <2>1 DEF FutureInv, Live
<1>8. ResultInv'
  <2>1. \A m \in Node : ResultsOf(m)' = ResultsOf(m)
    BY <1>0 DEF ResultsOf, TaskOf
  <2>2. ResultInv
    BY DEF ExecInv
  <2> QED BY <1>0, <1>3, <2>1, <2>2 DEF ResultInv, TaskOf
<1>9. DependencyInv'
  <2> SUFFICES ASSUME NEW m \in Node
               PROVE  /\ (pc'[m] \in {"sleeping", "snapshot", "sending"} \/ m \in sent') /\ SendAfter(m) # None =>
                           pc'[SendAfter(m)] = "done"
                      /\ (prompt'[m] \in {"building", "ready"} \/ m \in sent') /\ ContextAfter(m) # None =>
                           pc'[ContextAfter(m)] = "done" /\ ContextUsable(m)'
                      /\ pc'[m] \in {"sleeping", "snapshot", "sending"} /\ IsRequest(m) /\ ~AgentX => prompt'[m] = "ready"
                      /\ completion[m].status = "skipped_dependency_failed" =>
                           /\ ContextAfter(m) # None /\ pc'[ContextAfter(m)] = "done"
                           /\ completion[ContextAfter(m)].status \in {"failed", "skipped_dependency_failed"}
    BY <1>0, <1>1 DEF DependencyInv
  <2>1. /\ SendAfter(m) # None => SendAfter(m) \in Node
        /\ ContextAfter(m) # None => ContextAfter(m) \in Node
    BY <1>1, Predecessors
  <2>2. ContextUsable(m)' <=> ContextUsable(m)
    BY <1>0, <1>1 DEF ContextUsable
  <2>3. DependencyInv
    BY DEF ExecInv
  <2>4. CASE m = n
    <3>1. completion[m].status # "skipped_dependency_failed"
      BY <1>4, <2>4, FutureFacts
    <3> QED BY <1>3, <2>1, <2>2, <2>4, <3>1
  <2>5. CASE m # n
    <3>1. m \in sent' => m \in sent
      BY <2>5
    <3> QED BY <1>3, <2>1, <2>2, <2>3, <2>5, <3>1 DEF DependencyInv
  <2> QED BY <2>4, <2>5
<1>10. FactInv'
  BY <1>0, <1>1, <1>3 DEF ExecInv, FactInv
<1>11. WithinLimits'
  <2>1. Admitted' = Admitted
    BY <1>0 DEF Admitted
  <2> QED BY <2>1 DEF ExecInv, WithinLimits
<1>12. CompletedTaskIsExact'
  BY <1>0, <1>1 DEF ExecInv, CompletedTaskIsExact, NodesOf, TaskOf
<1> QED BY <1>1, <1>5, <1>6, <1>7, <1>8, <1>9, <1>10, <1>11, <1>12 DEF ExecInv
-----------------------------------------------------------------------------
\* A new NodeExecution is the only one of its node and leaves the others alone.
LEMMA AppendFacts ==
  ASSUME ExecutorAssumption, ExecInv, NEW n \in Node, NEW s \in Statuses,
         Append1(n, s), ResultsOf(n) = {}
  PROVE  /\ results' \in [Task -> Seq([node : Node, status : Statuses])]
         /\ \A t \in Task : results'[t] \in Seq([node : NodesOf(t), status : Statuses])
         /\ \A m \in Node : m # n => /\ ResultsOf(m)' = ResultsOf(m)
                                     /\ \A i \in ResultsOf(m) :
                                          results'[TaskOf(m)][i].status = results[TaskOf(m)][i].status
         /\ \E i \in DOMAIN results'[TaskOf(n)] :
              ResultsOf(n)' = {i} /\ results'[TaskOf(n)][i].status = s
<1> DEFINE t == TaskOf(n)
           r == [node |-> n, status |-> s]
           k == Len(results[t]) + 1
<1>1. t \in Task /\ n \in NodesOf(t)
  BY NodeFacts DEF NodesOf
<1>2. /\ results \in [Task -> Seq([node : Node, status : Statuses])]
      /\ \A u \in Task : results[u] \in Seq([node : NodesOf(u), status : Statuses])
  BY DEF ExecInv, TypeInv, ExecutorTypeOK, Statuses
<1>3. results' = [results EXCEPT ![t] = Append(results[t], r)]
  BY DEF Append1
<1>4. /\ r \in [node : NodesOf(t), status : Statuses] /\ r \in [node : Node, status : Statuses]
      /\ r.node = n /\ r.status = s
  BY <1>1
<1> HIDE DEF r, t
<1>5. /\ results'[t] = Append(results[t], r)
      /\ \A u \in Task : u # t => results'[u] = results[u]
  BY <1>1, <1>2, <1>3
<1>6. /\ results[t] \in Seq([node : NodesOf(t), status : Statuses])
      /\ results[t] \in Seq([node : Node, status : Statuses])
  BY <1>1, <1>2
<1>7. /\ Append(results[t], r) \in Seq([node : NodesOf(t), status : Statuses])
      /\ Append(results[t], r) \in Seq([node : Node, status : Statuses])
  BY <1>4, <1>6
<1>8. /\ k \in Nat /\ DOMAIN results[t] = 1 .. (k - 1) /\ DOMAIN Append(results[t], r) = 1 .. k
      /\ Append(results[t], r)[k] = r
      /\ \A i \in 1 .. (k - 1) : Append(results[t], r)[i] = results[t][i]
  BY <1>4, <1>6
<1> HIDE DEF k
<1>9. results' \in [Task -> Seq([node : Node, status : Statuses])]
  BY <1>1, <1>2, <1>3, <1>7
<1>10. ASSUME NEW u \in Task PROVE results'[u] \in Seq([node : NodesOf(u), status : Statuses])
  BY <1>1, <1>2, <1>5, <1>7
<1>11. ASSUME NEW m \in Node, m # n
       PROVE  /\ ResultsOf(m)' = ResultsOf(m)
              /\ \A i \in ResultsOf(m) : results'[TaskOf(m)][i].status = results[TaskOf(m)][i].status
  <2>1. CASE TaskOf(m) = t
    <3>1. /\ ResultsOf(m) = {i \in 1 .. (k - 1) : results[t][i].node = m}
          /\ ResultsOf(m)' = {i \in 1 .. k : Append(results[t], r)[i].node = m}
      BY <1>5, <1>8, <2>1 DEF ResultsOf, TaskOf
    <3>2. Append(results[t], r)[k].node # m
      BY <1>4, <1>8, <1>11
    <3>3. \A i \in Nat : i \in 1 .. k <=> (i \in 1 .. (k - 1) \/ (i = k /\ 1 <= k))
      BY <1>8
    <3>4. ResultsOf(m)' = ResultsOf(m)
      BY <1>8, <3>1, <3>2, <3>3
    <3> QED BY <1>5, <1>8, <2>1, <3>1, <3>4
  <2>2. CASE TaskOf(m) # t
    <3>1. results'[TaskOf(m)] = results[TaskOf(m)]
      BY <1>5, <2>2, NodeFacts
    <3> QED BY <3>1 DEF ResultsOf, TaskOf
  <2> QED BY <2>1, <2>2
<1>12. \E i \in DOMAIN results'[t] : ResultsOf(n)' = {i} /\ results'[t][i].status = s
  <2>0. t = TaskOf(n)
    BY DEF t
  <2>1. /\ {i \in 1 .. (k - 1) : results[t][i].node = n} = {}
        /\ ResultsOf(n)' = {i \in 1 .. k : Append(results[t], r)[i].node = n}
    BY <1>5, <1>8, <2>0 DEF ResultsOf, TaskOf
  <2>2. k \in 1 .. k /\ \A i \in 1 .. k : i # k => i \in 1 .. (k - 1)
    <3>1. k >= 1
      BY <1>6 DEF k
    <3> QED BY <1>8, <3>1
  <2>3. ResultsOf(n)' = {k}
    BY <1>4, <1>8, <2>1, <2>2
  <2> QED BY <1>4, <1>5, <1>8, <2>2, <2>3
<1> QED BY <1>9, <1>10, <1>11, <1>12 DEF t

\* A running node ends by itself with the completion v and the fact f.
LEMMA NodeEnds ==
  ASSUME ExecutorAssumption, ExecInv, NEW n \in Node, NEW v \in Completions,
         NEW f \in {"none", "success", "error"}, NEW q \in {prompt[n], "error"},
         pc[n] \in Live,
         pc' = [pc EXCEPT ![n] = "done"], prompt' = [prompt EXCEPT ![n] = q],
         Resolve(n, v), Append1(n, v.status), facts' = [facts EXCEPT ![n] = f],
         UNCHANGED <<plan, state, timed_out, sent, writer_ok>>,
         v.status = "success" /\ IsRequest(n) /\ ~AgentX => v.exchange # "none",
         UsesTokenIds => v.exchange # "text",
         v.status = "success" => f = IF IsRequest(n) THEN "success" ELSE "none",
         v.status = "skipped_dependency_failed" =>
           /\ ContextAfter(n) # None /\ pc[ContextAfter(n)] = "done"
           /\ completion[ContextAfter(n)].status \in {"failed", "skipped_dependency_failed"}
  PROVE  ExecInv'
<1>0. plan' = plan /\ state' = state /\ timed_out' = timed_out /\ sent' = sent /\ writer_ok' = writer_ok
  OBVIOUS
<1>1. /\ PlanInv' /\ PlanInv
      /\ \A m \in Node : /\ SendAfter(m)' = SendAfter(m) /\ ContextAfter(m)' = ContextAfter(m)
                         /\ IsRequest(m)' = IsRequest(m)
  BY <1>0, PlanStays DEF ExecInv
<1>2. /\ pc \in [Node -> Live \cup {"idle", "done", "cancelled"}] /\ prompt \in [Node -> Prompts]
      /\ completion \in [Node -> Completions \cup {Pending, Lost}]
      /\ facts \in [Node -> {"none", "success", "error"}]
  BY DEF ExecInv, TypeInv, ExecutorTypeOK, Live, Prompts
<1>3. /\ TaskOf(n) \in Task /\ state[TaskOf(n)] = "running" /\ TaskOf(n) \notin timed_out
      /\ completion[n] = Pending /\ ResultsOf(n) = {} /\ facts[n] = "none"
  BY LiveFacts
<1>4. completion' = [completion EXCEPT ![n] = v]
  BY <1>2, <1>3 DEF Resolve
<1>5. \A m \in Node : /\ m # n => /\ pc'[m] = pc[m] /\ prompt'[m] = prompt[m]
                                  /\ completion'[m] = completion[m] /\ facts'[m] = facts[m]
                      /\ m = n => pc'[m] = "done" /\ prompt'[m] = q /\ completion'[m] = v /\ facts'[m] = f
                      /\ pc[m] = "done" => pc'[m] = "done" /\ completion'[m] = completion[m]
  BY <1>2, <1>4 DEF Live
<1>6. v.status \in Statuses
  BY FutureFacts
<1>7. /\ results' \in [Task -> Seq([node : Node, status : Statuses])]
      /\ \A t \in Task : results'[t] \in Seq([node : NodesOf(t), status : Statuses])
      /\ \A m \in Node : m # n => /\ ResultsOf(m)' = ResultsOf(m)
                                  /\ \A i \in ResultsOf(m) :
                                       results'[TaskOf(m)][i].status = results[TaskOf(m)][i].status
      /\ \E i \in DOMAIN results'[TaskOf(n)] :
           ResultsOf(n)' = {i} /\ results'[TaskOf(n)][i].status = v.status
  BY <1>3, <1>6, AppendFacts
<1>8. TypeInv'
  <2>1. pc' \in [Node -> Live \cup {"idle", "done", "cancelled"}]
    BY <1>2
  <2>2. prompt' \in [Node -> Prompts]
    BY <1>2 DEF Prompts
  <2>3. completion' \in [Node -> Completions \cup {Pending, Lost}]
    BY <1>2, <1>4
  <2>4. facts' \in [Node -> {"none", "success", "error"}]
    BY <1>2
  <2> QED BY <1>0, <1>7, <2>1, <2>2, <2>3, <2>4
          DEF ExecInv, TypeInv, ExecutorTypeOK, Live, Prompts, Statuses, NodesOf, TaskOf
<1>9. PhaseInv'
  <2> SUFFICES ASSUME NEW m \in Node
               PROVE  /\ state[TaskOf(m)] \in {"submitted", "preparing"} => pc'[m] = "idle"
                      /\ state[TaskOf(m)] = "submitted" => TaskOf(m) \notin timed_out
                      /\ state[TaskOf(m)] = "running" /\ TaskOf(m) \notin timed_out =>
                           pc'[m] \notin {"idle", "cancelled"}
                      /\ state[TaskOf(m)] \in {"completed", "failed"} \/ TaskOf(m) \in timed_out =>
                           pc'[m] \in {"idle", "done", "cancelled"}
                      /\ pc'[m] = "cancelled" => TaskOf(m) \in timed_out
                      /\ pc'[m] \in {"snapshot", "sending"} => IsRequest(m)
    BY <1>0, <1>1 DEF PhaseInv, TaskOf
  <2>1. CASE m = n
    BY <1>3, <1>5, <2>1
  <2>2. CASE m # n
    BY <1>5, <2>2 DEF ExecInv, PhaseInv
  <2> QED BY <2>1, <2>2
<1>10. FutureInv'
  <2> SUFFICES ASSUME NEW m \in Node
               PROVE  /\ pc'[m] = "done" => completion'[m] \in Completions
                      /\ pc'[m] = "cancelled" => completion'[m] \in {Pending, Lost}
                      /\ pc'[m] \notin {"done", "cancelled"} => completion'[m] = Pending
                      /\ completion'[m].status = "success" /\ IsRequest(m) /\ ~AgentX =>
                           completion'[m].exchange # "none"
                      /\ UsesTokenIds => completion'[m].exchange # "text"
    BY <1>0, <1>1 DEF FutureInv
  <2>1. CASE m = n
    BY <1>5, <2>1
  <2>2. CASE m # n
    BY <1>5, <2>2 DEF ExecInv, FutureInv
  <2> QED BY <2>1, <2>2
<1>11. ResultInv'
  <2> SUFFICES ASSUME NEW m \in Node
               PROVE  /\ pc'[m] # "done" => ResultsOf(m)' = {}
                      /\ pc'[m] = "done" => \E i \in DOMAIN results'[TaskOf(m)] :
                           /\ ResultsOf(m)' = {i}
                           /\ results'[TaskOf(m)][i].status = completion'[m].status
    BY DEF ResultInv, TaskOf
  <2>1. CASE m = n
    BY <1>5, <1>7, <2>1
  <2>2. CASE m # n
    <3>1. /\ ResultsOf(m)' = ResultsOf(m) /\ pc'[m] = pc[m] /\ completion'[m] = completion[m]
          /\ \A i \in ResultsOf(m) : results'[TaskOf(m)][i].status = results[TaskOf(m)][i].status
      BY <1>5, <1>7, <2>2
    <3>2. ResultsOf(m)' \subseteq DOMAIN results'[TaskOf(m)]
      BY DEF ResultsOf, TaskOf
    <3> QED BY <3>1, <3>2 DEF ExecInv, ResultInv
  <2> QED BY <2>1, <2>2
<1>12. DependencyInv'
  <2> SUFFICES ASSUME NEW m \in Node
               PROVE  /\ (pc'[m] \in {"sleeping", "snapshot", "sending"} \/ m \in sent) /\ SendAfter(m) # None =>
                           pc'[SendAfter(m)] = "done"
                      /\ (prompt'[m] \in {"building", "ready"} \/ m \in sent) /\ ContextAfter(m) # None =>
                           pc'[ContextAfter(m)] = "done" /\ ContextUsable(m)'
                      /\ pc'[m] \in {"sleeping", "snapshot", "sending"} /\ IsRequest(m) /\ ~AgentX => prompt'[m] = "ready"
                      /\ completion'[m].status = "skipped_dependency_failed" =>
                           /\ ContextAfter(m) # None /\ pc'[ContextAfter(m)] = "done"
                           /\ completion'[ContextAfter(m)].status \in {"failed", "skipped_dependency_failed"}
    BY <1>0, <1>1 DEF DependencyInv
  <2>1. /\ SendAfter(m) # None => SendAfter(m) \in Node
        /\ ContextAfter(m) # None => ContextAfter(m) \in Node
    BY <1>1, Predecessors
  <2>2. ContextAfter(m) # None /\ pc[ContextAfter(m)] = "done" => (ContextUsable(m)' <=> ContextUsable(m))
    BY <1>1, <1>5, <2>1 DEF ContextUsable
  <2>3. DependencyInv
    BY DEF ExecInv
  <2>4. CASE m = n
    BY <1>5, <2>1, <2>2, <2>3, <2>4 DEF DependencyInv
  <2>5. CASE m # n
    BY <1>5, <2>1, <2>2, <2>3, <2>5 DEF DependencyInv
  <2> QED BY <2>4, <2>5
<1>13. FactInv'
  <2> SUFFICES ASSUME NEW m \in Node
               PROVE  /\ pc'[m] # "done" => facts'[m] = "none"
                      /\ pc'[m] = "done" /\ completion'[m].status = "success" =>
                           facts'[m] = IF IsRequest(m) THEN "success" ELSE "none"
    BY <1>1 DEF FactInv
  <2>1. CASE m = n
    BY <1>5, <2>1
  <2>2. CASE m # n
    BY <1>5, <2>2 DEF ExecInv, FactInv
  <2> QED BY <2>1, <2>2
<1>14. WithinLimits'
  <2>1. Admitted' = Admitted
    BY <1>0 DEF Admitted
  <2>2. \A t \in Task : Inflight(t)' \subseteq Inflight(t)
    BY <1>5 DEF Inflight, NodesOf, TaskOf
  <2> QED BY <2>1, <2>2, InflightShrinks DEF ExecInv, WithinLimits
<1>15. CompletedTaskIsExact'
  <2> SUFFICES ASSUME NEW t \in Task, state[t] = "completed", NEW m \in Node, TaskOf(m) = t
               PROVE  /\ completion'[m].status = "success"
                      /\ facts'[m] = IF IsRequest(m) THEN "success" ELSE "none"
    BY <1>0, <1>1 DEF CompletedTaskIsExact, NodesOf, TaskOf
  <2>1. m # n
    BY <1>3
  <2> QED BY <1>5, <2>1 DEF ExecInv, CompletedTaskIsExact, NodesOf
<1> QED BY <1>1, <1>8, <1>9, <1>10, <1>11, <1>12, <1>13, <1>14, <1>15 DEF ExecInv
-----------------------------------------------------------------------------
(***************************************************************************)
(* One lemma for the steps of a node.  All but PrepareRoot are a NodeMoves  *)
(* or a NodeEnds.                                                          *)
(***************************************************************************)
LEMMA SameEntry ==
  ASSUME ExecInv, NEW n \in Node
  PROVE  /\ prompt = [prompt EXCEPT ![n] = prompt[n]] /\ facts = [facts EXCEPT ![n] = facts[n]]
         /\ pc = [pc EXCEPT ![n] = pc[n]]
         /\ prompt[n] \in Prompts /\ facts[n] \in {"none", "success", "error"}
BY DEF ExecInv, TypeInv, ExecutorTypeOK, Prompts

\* The future of a node is resolved only when that node has ended.
LEMMA ResolvedIsDone ==
  ASSUME ExecInv, NEW n \in Node, Resolved(n)
  PROVE  pc[n] = "done"
BY FutureFacts DEF ExecInv, FutureInv, Resolved

\* Fail() as an end of the node.
LEMMA FailEnds ==
  ASSUME ExecutorAssumption, ExecInv, NEW n \in Node, pc[n] \in Live,
         NEW s \in {"failed", "skipped_dependency_failed"}, Fail(n, s),
         NEW q \in {prompt[n], "error"}, prompt' = [prompt EXCEPT ![n] = q],
         UNCHANGED <<plan, state, timed_out, facts, sent, writer_ok>>,
         s = "skipped_dependency_failed" =>
           /\ ContextAfter(n) # None /\ pc[ContextAfter(n)] = "done"
           /\ completion[ContextAfter(n)].status \in {"failed", "skipped_dependency_failed"}
  PROVE  ExecInv'
<1> DEFINE v == [status |-> s, exchange |-> "none"]
<1>1. v \in Completions /\ v.status = s /\ v.exchange = "none"
  BY FutureFacts DEF Statuses
<1>2. /\ pc' = [pc EXCEPT ![n] = "done"] /\ Resolve(n, v) /\ Append1(n, v.status)
  BY <1>1 DEF Fail
<1>3. facts' = [facts EXCEPT ![n] = facts[n]] /\ facts[n] \in {"none", "success", "error"}
  BY SameEntry
<1> HIDE DEF v
<1> QED BY <1>1, <1>2, <1>3, NodeEnds

\* Only AcquireInflight takes a permit.
LEMMA PermitsStay ==
  ASSUME ExecutorAssumption, ExecInv, NEW n \in Node, NEW p \in Live,
         pc' = [pc EXCEPT ![n] = p],
         AgentX /\ p \in {"snapshot", "sending"} => pc[n] \in {"snapshot", "sending"},
         NEW t \in Task
  PROVE  Cardinality(Inflight(t)') <= MaxInflight
<1>1. pc \in [Node -> {"idle", "waiting", "sleeping", "snapshot", "sending", "done", "cancelled"}]
  BY DEF ExecInv, TypeInv, ExecutorTypeOK
<1>2. Inflight(t)' \subseteq Inflight(t)
  BY <1>1 DEF Inflight, NodesOf, TaskOf
<1> QED BY <1>2, InflightShrinks DEF ExecInv

LEMMA PermitTaken ==
  ASSUME ExecutorAssumption, ExecInv, NEW n \in Node, HasPermit(TaskOf(n)),
         pc' = [pc EXCEPT ![n] = "snapshot"], NEW t \in Task
  PROVE  Cardinality(Inflight(t)') <= MaxInflight
<1>1. pc \in [Node -> {"idle", "waiting", "sleeping", "snapshot", "sending", "done", "cancelled"}]
  BY DEF ExecInv, TypeInv, ExecutorTypeOK
<1>2. CASE t # TaskOf(n)
  <2>1. Inflight(t)' \subseteq Inflight(t)
    BY <1>1, <1>2 DEF Inflight, NodesOf, TaskOf
  <2> QED BY <2>1, InflightShrinks DEF ExecInv
<1>3. CASE t = TaskOf(n)
  <2>1. Inflight(t)' \subseteq Inflight(t) \cup {n}
    BY <1>1, <1>3 DEF Inflight, NodesOf, TaskOf
  <2>2. IsFiniteSet(Inflight(t))
    BY InflightFinite, FS_Subset DEF Inflight
  <2>3. IsFiniteSet(Inflight(t) \cup {n}) /\ Cardinality(Inflight(t) \cup {n}) <= Cardinality(Inflight(t)) + 1
    <3>1. /\ IsFiniteSet(Inflight(t) \cup {n})
          /\ Cardinality(Inflight(t) \cup {n}) = IF n \in Inflight(t) THEN Cardinality(Inflight(t))
                                                                       ELSE Cardinality(Inflight(t)) + 1
      BY <2>2, FS_AddElement
    <3> QED BY <2>2, <3>1, FS_CardinalityType
  <2>4. Cardinality(Inflight(t)') <= Cardinality(Inflight(t) \cup {n}) /\ IsFiniteSet(Inflight(t)')
    BY <2>1, <2>3, FS_Subset
  <2>5. /\ Cardinality(Inflight(t)') \in Nat /\ Cardinality(Inflight(t) \cup {n}) \in Nat
        /\ Cardinality(Inflight(t)) \in Nat
    BY <2>2, <2>3, <2>4, FS_CardinalityType
  <2>6. Cardinality(Inflight(t)) < MaxInflight
    BY <1>3 DEF HasPermit
  <2> QED BY <2>3, <2>4, <2>5, <2>6 DEF ExecutorAssumption
<1> QED BY <1>2, <1>3

\* Building the Prompts of the roots concerns tasks none of whose nodes run.
LEMMA PrepareRootKeeps ==
  ASSUME ExecutorAssumption, ExecInv, NEW n \in Node, PrepareRoot(n)
  PROVE  ExecInv'
<1>0. /\ plan' = plan /\ state' = state /\ timed_out' = timed_out /\ pc' = pc /\ completion' = completion
      /\ results' = results /\ facts' = facts /\ sent' = sent /\ writer_ok' = writer_ok
      /\ state[TaskOf(n)] = "preparing" /\ prompt[n] = "building"
  BY DEF PrepareRoot
<1>1. PICK q \in {"ready", "error"} : prompt' = [prompt EXCEPT ![n] = q]
  BY DEF PrepareRoot
<1>2. /\ PlanInv' /\ PlanInv
      /\ \A m \in Node : /\ SendAfter(m)' = SendAfter(m) /\ ContextAfter(m)' = ContextAfter(m)
                         /\ IsRequest(m)' = IsRequest(m)
  BY <1>0, PlanStays DEF ExecInv
<1>3. prompt \in [Node -> Prompts] /\ prompt' \in [Node -> Prompts]
  BY <1>1 DEF ExecInv, TypeInv, ExecutorTypeOK, Prompts
<1>4. pc[n] = "idle"
  BY <1>0 DEF ExecInv, PhaseInv
<1>5. TypeInv' /\ PhaseInv' /\ FutureInv' /\ FactInv'
  BY <1>0, <1>2, <1>3 DEF ExecInv, TypeInv, ExecutorTypeOK, PhaseInv, FutureInv, FactInv, Prompts, TaskOf, NodesOf
<1>6. ResultInv'
  BY <1>0 DEF ExecInv, ResultInv, ResultsOf, TaskOf
<1>7. DependencyInv'
  <2> SUFFICES ASSUME NEW m \in Node
               PROVE  /\ (pc[m] \in {"sleeping", "snapshot", "sending"} \/ m \in sent) /\ SendAfter(m) # None =>
                           pc[SendAfter(m)] = "done"
                      /\ (prompt'[m] \in {"building", "ready"} \/ m \in sent) /\ ContextAfter(m) # None =>
                           pc[ContextAfter(m)] = "done" /\ ContextUsable(m)
                      /\ pc[m] \in {"sleeping", "snapshot", "sending"} /\ IsRequest(m) /\ ~AgentX => prompt'[m] = "ready"
                      /\ completion[m].status = "skipped_dependency_failed" =>
                           /\ ContextAfter(m) # None /\ pc[ContextAfter(m)] = "done"
                           /\ completion[ContextAfter(m)].status \in {"failed", "skipped_dependency_failed"}
    BY <1>0, <1>2 DEF DependencyInv, ContextUsable
  <2>1. prompt'[m] = (IF m = n THEN q ELSE prompt[m])
    BY <1>1, <1>3
  <2>2. prompt'[m] \in {"building", "ready"} => prompt[m] \in {"building", "ready"}
    BY <1>0, <2>1
  <2>3. pc[m] # "idle" => prompt'[m] = prompt[m]
    BY <1>4, <2>1
  <2> QED BY <2>2, <2>3 DEF ExecInv, DependencyInv
<1>8. WithinLimits' /\ CompletedTaskIsExact'
  BY <1>0, <1>2 DEF ExecInv, WithinLimits, Admitted, Inflight, CompletedTaskIsExact, NodesOf, TaskOf
<1> QED BY <1>2, <1>5, <1>6, <1>7, <1>8 DEF ExecInv

LEMMA NodeStepKeeps ==
  ASSUME ExecutorAssumption, ExecInv, NEW n \in Node, NodeStep(n)
  PROVE  ExecInv'
<1>0. /\ PlanInv /\ DependencyInv /\ PhaseInv /\ FutureInv
      /\ prompt = [prompt EXCEPT ![n] = prompt[n]] /\ facts = [facts EXCEPT ![n] = facts[n]]
      /\ pc = [pc EXCEPT ![n] = pc[n]]
      /\ prompt[n] \in Prompts /\ facts[n] \in {"none", "success", "error"}
  BY SameEntry DEF ExecInv
<1>1. /\ SendAfter(n) # None => SendAfter(n) \in Node
      /\ ContextAfter(n) # None => ContextAfter(n) \in Node /\ IsRequest(ContextAfter(n)) /\ IsRequest(n) /\ ~AgentX
  BY <1>0, Predecessors
<1>2. CASE PrepareRoot(n)
  BY <1>2, PrepareRootKeeps
<1>3. CASE RootPromptFailed(n)
  BY <1>0, <1>3, FailEnds DEF RootPromptFailed, Live
<1>4. CASE DependencyFailed(n)
  <2>1. ContextAfter(n) # None /\ ContextAfter(n) \in Node /\ Resolved(ContextAfter(n)) /\ ~ContextUsable(n)
    BY <1>1, <1>4 DEF DependencyFailed, AwaitsContext
  <2>2. pc[ContextAfter(n)] = "done"
    BY <2>1, ResolvedIsDone
  <2>3. completion[ContextAfter(n)].status \in Statuses
    BY <2>1, FutureFacts DEF Resolved
  <2>4. completion[ContextAfter(n)].status # "success"
    BY <1>0, <1>1, <2>1 DEF FutureInv, ContextUsable
  <2>5. completion[ContextAfter(n)].status \in {"failed", "skipped_dependency_failed"}
    BY <2>3, <2>4 DEF Statuses
  <2> QED BY <1>0, <1>4, <2>1, <2>2, <2>5, FailEnds DEF DependencyFailed, AwaitsContext, Live
<1>5. CASE BuildOnContext(n)
  <2>1. ContextAfter(n) # None /\ ContextAfter(n) \in Node /\ Resolved(ContextAfter(n)) /\ ContextUsable(n)
    BY <1>1, <1>5 DEF BuildOnContext, AwaitsContext
  <2>2. pc[ContextAfter(n)] = "done"
    BY <2>1, ResolvedIsDone
  <2>3. /\ pc[n] = "waiting" /\ pc' = [pc EXCEPT ![n] = "waiting"] /\ prompt' = [prompt EXCEPT ![n] = "building"]
        /\ UNCHANGED <<plan, state, timed_out, completion, results, facts, sent, writer_ok>>
    BY <1>0, <1>5 DEF BuildOnContext, AwaitsContext
  <2>4. \A t \in Task : Cardinality(Inflight(t)') <= MaxInflight
    BY <2>3, PermitsStay DEF Live
  <2>5. n \in sent /\ SendAfter(n) # None => pc[SendAfter(n)] = "done"
    BY <1>0 DEF DependencyInv
  <2> QED BY <2>1, <2>2, <2>3, <2>4, <2>5, NodeMoves DEF Live, Prompts
<1>6. CASE Prepare(n)
  <2>1. pc[n] = "waiting" /\ prompt[n] = "building"
    BY <1>6 DEF Prepare
  <2>2. CASE /\ prompt' = [prompt EXCEPT ![n] = "ready"]
             /\ UNCHANGED <<plan, state, timed_out, pc, completion, results, facts, sent, writer_ok>>
    <3>1. pc' = [pc EXCEPT ![n] = "waiting"]
      BY <1>0, <2>1, <2>2
    <3>2. \A t \in Task : Cardinality(Inflight(t)') <= MaxInflight
      BY <3>1, PermitsStay DEF Live
    <3>3. n \in sent /\ SendAfter(n) # None => pc[SendAfter(n)] = "done"
      BY <1>0 DEF DependencyInv
    <3>4. ContextAfter(n) # None => pc[ContextAfter(n)] = "done" /\ ContextUsable(n)
      BY <1>0, <2>1 DEF DependencyInv
    <3> QED BY <2>1, <2>2, <3>1, <3>2, <3>3, <3>4, NodeMoves DEF Live, Prompts
  <2>3. CASE /\ prompt' = [prompt EXCEPT ![n] = "error"] /\ Fail(n, "failed")
             /\ UNCHANGED <<plan, state, timed_out, facts, sent, writer_ok>>
    BY <2>1, <2>3, FailEnds DEF Live
  <2> QED BY <1>6, <2>2, <2>3 DEF Prepare
<1>7. CASE Release(n)
  <2>1. /\ pc[n] = "waiting" /\ pc' = [pc EXCEPT ![n] = "sleeping"] /\ prompt' = [prompt EXCEPT ![n] = prompt[n]]
        /\ UNCHANGED <<plan, state, timed_out, completion, results, facts, sent, writer_ok>>
        /\ PredecessorDone(n) /\ ((IsRequest(n) /\ ~AgentX) => prompt[n] = "ready")
    BY <1>0, <1>7 DEF Release
  <2>2. SendAfter(n) # None => pc[SendAfter(n)] = "done"
    BY <1>1, <2>1, ResolvedIsDone DEF PredecessorDone
  <2>3. \A t \in Task : Cardinality(Inflight(t)') <= MaxInflight
    BY <2>1, PermitsStay DEF Live
  <2>4. (prompt[n] \in {"building", "ready"} \/ n \in sent) /\ ContextAfter(n) # None =>
            pc[ContextAfter(n)] = "done" /\ ContextUsable(n)
    BY <1>0 DEF DependencyInv
  <2> QED BY <1>0, <2>1, <2>2, <2>3, <2>4, NodeMoves DEF Live
<1>8. CASE TimingDone(n)
  <2> DEFINE v == [status |-> "success", exchange |-> "none"]
  <2>1. v \in Completions /\ v.status = "success" /\ v.exchange = "none"
    BY DEF Completions
  <2>2. /\ pc[n] = "sleeping" /\ ~IsRequest(n) /\ pc' = [pc EXCEPT ![n] = "done"]
        /\ Resolve(n, v) /\ Append1(n, v.status)
        /\ prompt' = [prompt EXCEPT ![n] = prompt[n]] /\ facts' = [facts EXCEPT ![n] = facts[n]]
        /\ UNCHANGED <<plan, state, timed_out, sent, writer_ok>>
    BY <1>0, <1>8, <2>1 DEF TimingDone
  <2>3. facts[n] = "none"
    BY <2>2 DEF ExecInv, FactInv
  <2> HIDE DEF v
  <2> QED BY <2>1, <2>2, <2>3, NodeEnds DEF Live
<1>9. CASE AcquireInflight(n)
  <2>1. /\ pc[n] = "sleeping" /\ pc' = [pc EXCEPT ![n] = "snapshot"] /\ prompt' = [prompt EXCEPT ![n] = "building"]
        /\ UNCHANGED <<plan, state, timed_out, completion, results, facts, sent, writer_ok>>
        /\ IsRequest(n) /\ AgentX /\ HasPermit(TaskOf(n))
    BY <1>9 DEF AcquireInflight
  <2>2. SendAfter(n) # None => pc[SendAfter(n)] = "done"
    BY <1>0, <2>1 DEF DependencyInv
  <2>3. \A t \in Task : Cardinality(Inflight(t)') <= MaxInflight
    BY <2>1, PermitTaken
  <2>4. ContextAfter(n) = None
    BY <1>1, <2>1
  <2> QED BY <2>1, <2>2, <2>3, <2>4, NodeMoves DEF Live, Prompts
<1>10. CASE PrepareSnapshot(n)
  <2>1. pc[n] = "snapshot" /\ IsRequest(n)
    BY <1>0, <1>10 DEF PrepareSnapshot, PhaseInv
  <2>2. CASE /\ pc' = [pc EXCEPT ![n] = "sending"] /\ prompt' = [prompt EXCEPT ![n] = "ready"]
             /\ sent' = sent \cup {n}
             /\ UNCHANGED <<plan, state, timed_out, completion, results, facts, writer_ok>>
    <3>1. SendAfter(n) # None => pc[SendAfter(n)] = "done"
      BY <1>0, <2>1 DEF DependencyInv
    <3>2. ContextAfter(n) # None => pc[ContextAfter(n)] = "done" /\ ContextUsable(n)
      BY <1>0, <1>1, <2>1 DEF DependencyInv
    <3>3. \A t \in Task : Cardinality(Inflight(t)') <= MaxInflight
      BY <2>1, <2>2, PermitsStay DEF Live
    <3> QED BY <2>1, <2>2, <3>1, <3>2, <3>3, NodeMoves DEF Live, Prompts
  <2>3. CASE /\ prompt' = [prompt EXCEPT ![n] = "error"] /\ Fail(n, "failed")
             /\ UNCHANGED <<plan, state, timed_out, facts, sent, writer_ok>>
    BY <2>1, <2>3, FailEnds DEF Live
  <2> QED BY <1>10, <2>2, <2>3 DEF PrepareSnapshot
<1>11. CASE Send(n)
  <2>1. /\ pc[n] = "sleeping" /\ pc' = [pc EXCEPT ![n] = "sending"] /\ prompt' = [prompt EXCEPT ![n] = prompt[n]]
        /\ sent' = sent \cup {n} /\ IsRequest(n) /\ ~AgentX
        /\ UNCHANGED <<plan, state, timed_out, completion, results, facts, writer_ok>>
    BY <1>0, <1>11 DEF Send
  <2>2. /\ SendAfter(n) # None => pc[SendAfter(n)] = "done"
        /\ prompt[n] = "ready"
        /\ ContextAfter(n) # None => pc[ContextAfter(n)] = "done" /\ ContextUsable(n)
    BY <1>0, <2>1 DEF DependencyInv
  <2>3. \A t \in Task : Cardinality(Inflight(t)') <= MaxInflight
    BY <2>1, PermitsStay DEF Live
  <2> QED BY <1>0, <2>1, <2>2, <2>3, NodeMoves DEF Live
<1>12. CASE SendDone(n)
  <2>1. PICK c \in {CompletionOf(o) : o \in Observations} :
          /\ facts' = [facts EXCEPT ![n] = IF c.status = "success" THEN "success" ELSE "error"]
          /\ pc' = [pc EXCEPT ![n] = "done"]
          /\ Resolve(n, c)
          /\ Append1(n, c.status)
    BY <1>12 DEF SendDone
  <2>2. /\ c \in Completions /\ c.status \in {"success", "failed"}
        /\ c.status = "success" /\ ~AgentX => c.exchange # "none"
        /\ UsesTokenIds => c.exchange # "text"
    BY ObservationFacts
  <2>3. /\ pc[n] = "sending" /\ IsRequest(n) /\ prompt' = [prompt EXCEPT ![n] = prompt[n]]
        /\ UNCHANGED <<plan, state, timed_out, sent, writer_ok>>
    BY <1>0, <1>12 DEF SendDone, PhaseInv
  <2> QED BY <2>1, <2>2, <2>3, NodeEnds DEF Live
<1>13. CASE SendRaises(n)
  BY <1>0, <1>13, FailEnds DEF SendRaises, Live
<1> QED BY <1>2, <1>3, <1>4, <1>5, <1>6, <1>7, <1>8, <1>9, <1>10, <1>11, <1>12, <1>13 DEF NodeStep
-----------------------------------------------------------------------------
\* A set of admitted tasks that grows by one task below the limit, or shrinks,
\* stays within it.
LEMMA AdmittedBound ==
  ASSUME ExecutorAssumption, WithinLimits, NEW t \in Task,
         \/ Admitted' \subseteq Admitted
         \/ Admitted' \subseteq Admitted \cup {t} /\ Cardinality(Admitted) < MaxConcurrency
  PROVE  Cardinality(Admitted') <= MaxConcurrency
<1>1. IsFiniteSet(Admitted) /\ Cardinality(Admitted) \in Nat
  BY FS_Subset, FS_CardinalityType DEF Admitted, ExecutorAssumption
<1>2. Cardinality(Admitted) <= MaxConcurrency
  BY DEF WithinLimits
<1>3. CASE Admitted' \subseteq Admitted
  <2>1. Cardinality(Admitted') <= Cardinality(Admitted) /\ IsFiniteSet(Admitted')
    BY <1>1, <1>3, FS_Subset
  <2> QED BY <1>1, <1>2, <2>1, FS_CardinalityType DEF ExecutorAssumption
<1>4. CASE Admitted' \subseteq Admitted \cup {t} /\ Cardinality(Admitted) < MaxConcurrency
  <2>1. /\ IsFiniteSet(Admitted \cup {t})
        /\ Cardinality(Admitted \cup {t}) = IF t \in Admitted THEN Cardinality(Admitted) ELSE Cardinality(Admitted) + 1
    BY <1>1, FS_AddElement
  <2>2. Cardinality(Admitted') <= Cardinality(Admitted \cup {t}) /\ IsFiniteSet(Admitted')
    BY <1>4, <2>1, FS_Subset
  <2> QED BY <1>1, <1>4, <2>1, <2>2, FS_CardinalityType DEF ExecutorAssumption
<1> QED BY <1>3, <1>4

LEMMA AdmitKeeps ==
  ASSUME ExecutorAssumption, ExecInv, NEW t \in Task, Admit(t)
  PROVE  ExecInv'
<1>0. /\ plan' = plan /\ timed_out' = timed_out /\ pc' = pc /\ completion' = completion
      /\ results' = results /\ facts' = facts /\ sent' = sent /\ writer_ok' = writer_ok
      /\ state[t] = "submitted" /\ Cardinality(Admitted) < MaxConcurrency
      /\ state' = [state EXCEPT ![t] = "preparing"]
      /\ prompt' = [n \in Node |-> IF n \in Roots(t) THEN "building" ELSE prompt[n]]
  BY DEF Admit
<1>1. /\ PlanInv' /\ PlanInv
      /\ \A m \in Node : /\ SendAfter(m)' = SendAfter(m) /\ ContextAfter(m)' = ContextAfter(m)
                         /\ IsRequest(m)' = IsRequest(m)
  BY <1>0, PlanStays DEF ExecInv
<1>2. /\ state \in [Task -> {"submitted", "preparing", "running", "completed", "failed"}]
      /\ prompt \in [Node -> Prompts]
  BY DEF ExecInv, TypeInv, ExecutorTypeOK, Prompts
<1>3. \A u \in Task : state'[u] = IF u = t THEN "preparing" ELSE state[u]
  BY <1>0, <1>2
<1>4. \A m \in Node : TaskOf(m) = t => pc[m] = "idle"
  BY <1>0 DEF ExecInv, PhaseInv
<1>5. TypeInv'
  <2>1. state' \in [Task -> {"submitted", "preparing", "running", "completed", "failed"}]
    BY <1>0, <1>2
  <2>2. prompt' \in [Node -> Prompts]
    BY <1>0, <1>2 DEF Prompts
  <2> QED BY <1>0, <2>1, <2>2 DEF ExecInv, TypeInv, ExecutorTypeOK, Prompts, NodesOf, TaskOf
<1>6. PhaseInv'
  <2> SUFFICES ASSUME NEW m \in Node
               PROVE  /\ state'[TaskOf(m)] \in {"submitted", "preparing"} => pc[m] = "idle"
                      /\ state'[TaskOf(m)] = "submitted" => TaskOf(m) \notin timed_out
                      /\ state'[TaskOf(m)] = "running" /\ TaskOf(m) \notin timed_out =>
                           pc[m] \notin {"idle", "cancelled"}
                      /\ state'[TaskOf(m)] \in {"completed", "failed"} \/ TaskOf(m) \in timed_out =>
                           pc[m] \in {"idle", "done", "cancelled"}
                      /\ pc[m] = "cancelled" => TaskOf(m) \in timed_out
                      /\ pc[m] \in {"snapshot", "sending"} => IsRequest(m)
    BY <1>0, <1>1 DEF PhaseInv, TaskOf
  <2>1. TaskOf(m) \in Task
    BY NodeFacts
  <2>2. CASE TaskOf(m) = t
    BY <1>3, <1>4, <2>1, <2>2
  <2>3. CASE TaskOf(m) # t
    BY <1>3, <2>1, <2>3 DEF ExecInv, PhaseInv
  <2> QED BY <2>2, <2>3
<1>7. FutureInv' /\ FactInv'
  BY <1>0, <1>1 DEF ExecInv, FutureInv, FactInv
<1>8. ResultInv'
  BY <1>0 DEF ExecInv, ResultInv, ResultsOf, TaskOf
<1>9. DependencyInv'
  <2> SUFFICES ASSUME NEW m \in Node
               PROVE  /\ (pc[m] \in {"sleeping", "snapshot", "sending"} \/ m \in sent) /\ SendAfter(m) # None =>
                           pc[SendAfter(m)] = "done"
                      /\ (prompt'[m] \in {"building", "ready"} \/ m \in sent) /\ ContextAfter(m) # None =>
                           pc[ContextAfter(m)] = "done" /\ ContextUsable(m)
                      /\ pc[m] \in {"sleeping", "snapshot", "sending"} /\ IsRequest(m) /\ ~AgentX => prompt'[m] = "ready"
                      /\ completion[m].status = "skipped_dependency_failed" =>
                           /\ ContextAfter(m) # None /\ pc[ContextAfter(m)] = "done"
                           /\ completion[ContextAfter(m)].status \in {"failed", "skipped_dependency_failed"}
    BY <1>0, <1>1 DEF DependencyInv, ContextUsable
  <2>1. CASE m \in Roots(t)
    <3>1. TaskOf(m) = t /\ ContextAfter(m) = None
      BY <2>1 DEF Roots, NodesOf
    <3>2. pc[m] = "idle"
      BY <1>4, <3>1
    <3> QED BY <3>1, <3>2 DEF ExecInv, DependencyInv
  <2>2. CASE m \notin Roots(t)
    <3>1. prompt'[m] = prompt[m]
      BY <1>0, <2>2
    <3> QED BY <3>1 DEF ExecInv, DependencyInv
  <2> QED BY <2>1, <2>2
<1>10. WithinLimits'
  <2>1. Admitted' \subseteq Admitted \cup {t}
    BY <1>3 DEF Admitted
  <2>2. Cardinality(Admitted') <= MaxConcurrency
    BY <1>0, <2>1, AdmittedBound DEF ExecInv
  <2>3. \A u \in Task : Inflight(u)' = Inflight(u)
    BY <1>0 DEF Inflight, NodesOf, TaskOf
  <2> QED BY <2>2, <2>3 DEF ExecInv, WithinLimits
<1>11. CompletedTaskIsExact'
  BY <1>0, <1>1, <1>3 DEF ExecInv, CompletedTaskIsExact, NodesOf, TaskOf
<1> QED BY <1>1, <1>5, <1>6, <1>7, <1>8, <1>9, <1>10, <1>11 DEF ExecInv

LEMMA ExecuteGraphKeeps ==
  ASSUME ExecutorAssumption, ExecInv, NEW t \in Task, ExecuteGraph(t)
  PROVE  ExecInv'
<1>0. /\ plan' = plan /\ timed_out' = timed_out /\ prompt' = prompt /\ completion' = completion
      /\ results' = results /\ facts' = facts /\ sent' = sent /\ writer_ok' = writer_ok
      /\ state[t] = "preparing" /\ t \notin timed_out
      /\ state' = [state EXCEPT ![t] = "running"]
      /\ pc' = [n \in Node |-> IF TaskOf(n) = t THEN "waiting" ELSE pc[n]]
  BY DEF ExecuteGraph
<1>1. /\ PlanInv' /\ PlanInv
      /\ \A m \in Node : /\ SendAfter(m)' = SendAfter(m) /\ ContextAfter(m)' = ContextAfter(m)
                         /\ IsRequest(m)' = IsRequest(m)
  BY <1>0, PlanStays DEF ExecInv
<1>2. /\ state \in [Task -> {"submitted", "preparing", "running", "completed", "failed"}]
      /\ pc \in [Node -> Live \cup {"idle", "done", "cancelled"}]
  BY DEF ExecInv, TypeInv, ExecutorTypeOK, Live
<1>3. \A u \in Task : state'[u] = IF u = t THEN "running" ELSE state[u]
  BY <1>0, <1>2
<1>4. \A m \in Node : /\ TaskOf(m) = t => pc[m] = "idle" /\ pc'[m] = "waiting"
                      /\ TaskOf(m) # t => pc'[m] = pc[m]
                      /\ pc[m] = "done" <=> pc'[m] = "done"
                      /\ pc'[m] # pc[m] => pc'[m] = "waiting" /\ pc[m] = "idle"
  BY <1>0 DEF ExecInv, PhaseInv
<1>5. TypeInv'
  <2>1. state' \in [Task -> {"submitted", "preparing", "running", "completed", "failed"}]
    BY <1>0, <1>2
  <2>2. pc' \in [Node -> Live \cup {"idle", "done", "cancelled"}]
    BY <1>0, <1>2 DEF Live
  <2> QED BY <1>0, <2>1, <2>2 DEF ExecInv, TypeInv, ExecutorTypeOK, Live, NodesOf, TaskOf
<1>6. PhaseInv'
  <2> SUFFICES ASSUME NEW m \in Node
               PROVE  /\ state'[TaskOf(m)] \in {"submitted", "preparing"} => pc'[m] = "idle"
                      /\ state'[TaskOf(m)] = "submitted" => TaskOf(m) \notin timed_out
                      /\ state'[TaskOf(m)] = "running" /\ TaskOf(m) \notin timed_out =>
                           pc'[m] \notin {"idle", "cancelled"}
                      /\ state'[TaskOf(m)] \in {"completed", "failed"} \/ TaskOf(m) \in timed_out =>
                           pc'[m] \in {"idle", "done", "cancelled"}
                      /\ pc'[m] = "cancelled" => TaskOf(m) \in timed_out
                      /\ pc'[m] \in {"snapshot", "sending"} => IsRequest(m)
    BY <1>0, <1>1 DEF PhaseInv, TaskOf
  <2>1. TaskOf(m) \in Task
    BY NodeFacts
  <2>2. CASE TaskOf(m) = t
    BY <1>0, <1>3, <1>4, <2>1, <2>2
  <2>3. CASE TaskOf(m) # t
    BY <1>3, <1>4, <2>1, <2>3 DEF ExecInv, PhaseInv
  <2> QED BY <2>2, <2>3
<1>7. FutureInv' /\ FactInv'
  <2>1. FutureInv /\ FactInv
    BY DEF ExecInv
  <2>2. FutureInv'
    BY <1>0, <1>1, <1>4, <2>1 DEF FutureInv
  <2>3. FactInv'
    BY <1>0, <1>1, <1>4, <2>1 DEF FactInv
  <2> QED BY <2>2, <2>3
<1>8. ResultInv'
  BY <1>0, <1>4 DEF ExecInv, ResultInv, ResultsOf, TaskOf
<1>9. DependencyInv'
  <2> SUFFICES ASSUME NEW m \in Node
               PROVE  /\ (pc'[m] \in {"sleeping", "snapshot", "sending"} \/ m \in sent) /\ SendAfter(m) # None =>
                           pc'[SendAfter(m)] = "done"
                      /\ (prompt[m] \in {"building", "ready"} \/ m \in sent) /\ ContextAfter(m) # None =>
                           pc'[ContextAfter(m)] = "done" /\ ContextUsable(m)
                      /\ pc'[m] \in {"sleeping", "snapshot", "sending"} /\ IsRequest(m) /\ ~AgentX => prompt[m] = "ready"
                      /\ completion[m].status = "skipped_dependency_failed" =>
                           /\ ContextAfter(m) # None /\ pc'[ContextAfter(m)] = "done"
                           /\ completion[ContextAfter(m)].status \in {"failed", "skipped_dependency_failed"}
    BY <1>0, <1>1 DEF DependencyInv, ContextUsable
  <2>1. /\ SendAfter(m) # None => SendAfter(m) \in Node
        /\ ContextAfter(m) # None => ContextAfter(m) \in Node
    BY <1>1, Predecessors
  <2>2. pc'[m] \in {"sleeping", "snapshot", "sending"} => pc[m] \in {"sleeping", "snapshot", "sending"}
    BY <1>4
  <2> QED BY <1>4, <2>1, <2>2 DEF ExecInv, DependencyInv
<1>10. WithinLimits'
  <2>1. Admitted' \subseteq Admitted
    BY <1>0, <1>3 DEF Admitted
  <2>2. Cardinality(Admitted') <= MaxConcurrency
    BY <2>1, AdmittedBound DEF ExecInv
  <2>3. \A u \in Task : Inflight(u)' \subseteq Inflight(u)
    BY <1>4 DEF Inflight, NodesOf, TaskOf
  <2> QED BY <2>2, <2>3, InflightShrinks DEF ExecInv, WithinLimits
<1>11. CompletedTaskIsExact'
  BY <1>0, <1>1, <1>3 DEF ExecInv, CompletedTaskIsExact, NodesOf, TaskOf
<1> QED BY <1>1, <1>5, <1>6, <1>7, <1>8, <1>9, <1>10, <1>11 DEF ExecInv

LEMMA FinishTaskKeeps ==
  ASSUME ExecutorAssumption, ExecInv, NEW t \in Task, FinishTask(t)
  PROVE  ExecInv'
<1>0. /\ plan' = plan /\ timed_out' = timed_out /\ pc' = pc /\ prompt' = prompt /\ completion' = completion
      /\ results' = results /\ facts' = facts /\ sent' = sent /\ writer_ok' = writer_ok
      /\ state' = [state EXCEPT ![t] = IF TaskFailed(t) THEN "failed" ELSE "completed"]
      /\ \/ state[t] = "running" /\ \A n \in NodesOf(t) : Ended(n)
         \/ state[t] = "preparing" /\ t \in timed_out
  BY DEF FinishTask
<1>1. /\ PlanInv'
      /\ \A m \in Node : /\ SendAfter(m)' = SendAfter(m) /\ ContextAfter(m)' = ContextAfter(m)
                         /\ IsRequest(m)' = IsRequest(m)
  BY <1>0, PlanStays DEF ExecInv
<1>2. state \in [Task -> {"submitted", "preparing", "running", "completed", "failed"}]
  BY DEF ExecInv, TypeInv, ExecutorTypeOK
<1>3. \A u \in Task : state'[u] = IF u = t THEN (IF TaskFailed(t) THEN "failed" ELSE "completed") ELSE state[u]
  BY <1>0, <1>2
<1>4. \A m \in Node : TaskOf(m) = t => pc[m] \in {"idle", "done", "cancelled"}
  BY <1>0 DEF ExecInv, PhaseInv, NodesOf, Ended
<1>5. TypeInv'
  <2>1. state' \in [Task -> {"submitted", "preparing", "running", "completed", "failed"}]
    BY <1>0, <1>2
  <2> QED BY <1>0, <2>1 DEF ExecInv, TypeInv, ExecutorTypeOK, NodesOf, TaskOf
<1>6. PhaseInv'
  <2> SUFFICES ASSUME NEW m \in Node
               PROVE  /\ state'[TaskOf(m)] \in {"submitted", "preparing"} => pc[m] = "idle"
                      /\ state'[TaskOf(m)] = "submitted" => TaskOf(m) \notin timed_out
                      /\ state'[TaskOf(m)] = "running" /\ TaskOf(m) \notin timed_out =>
                           pc[m] \notin {"idle", "cancelled"}
                      /\ state'[TaskOf(m)] \in {"completed", "failed"} \/ TaskOf(m) \in timed_out =>
                           pc[m] \in {"idle", "done", "cancelled"}
                      /\ pc[m] = "cancelled" => TaskOf(m) \in timed_out
                      /\ pc[m] \in {"snapshot", "sending"} => IsRequest(m)
    BY <1>0, <1>1 DEF PhaseInv, TaskOf
  <2>1. TaskOf(m) \in Task
    BY NodeFacts
  <2>2. CASE TaskOf(m) = t
    <3>1. state'[TaskOf(m)] \in {"completed", "failed"}
      BY <1>3, <2>1, <2>2
    <3>2. pc[m] = "cancelled" => TaskOf(m) \in timed_out
      BY DEF ExecInv, PhaseInv
    <3> QED BY <1>4, <2>2, <3>1, <3>2
  <2>3. CASE TaskOf(m) # t
    BY <1>3, <2>1, <2>3 DEF ExecInv, PhaseInv
  <2> QED BY <2>2, <2>3
<1>7. FutureInv' /\ FactInv' /\ ResultInv'
  BY <1>0, <1>1 DEF ExecInv, FutureInv, FactInv, ResultInv, ResultsOf, TaskOf
<1>8. DependencyInv'
  BY <1>0, <1>1 DEF ExecInv, DependencyInv, ContextUsable
<1>9. WithinLimits'
  <2>1. Admitted' \subseteq Admitted
    BY <1>3 DEF Admitted
  <2>2. Cardinality(Admitted') <= MaxConcurrency
    BY <2>1, AdmittedBound DEF ExecInv
  <2>3. \A u \in Task : Inflight(u)' = Inflight(u)
    BY <1>0 DEF Inflight, NodesOf, TaskOf
  <2> QED BY <2>2, <2>3 DEF ExecInv, WithinLimits
<1>10. CompletedTaskIsExact'
  <2> SUFFICES ASSUME NEW u \in Task, state'[u] = "completed", NEW m \in Node, TaskOf(m) = u
               PROVE  /\ completion[m].status = "success"
                      /\ facts[m] = IF IsRequest(m) THEN "success" ELSE "none"
    BY <1>0, <1>1 DEF CompletedTaskIsExact, NodesOf, TaskOf
  <2>1. CASE u = t
    <3>1. ~TaskFailed(t)
      BY <1>3, <2>1
    <3>2. /\ t \notin timed_out /\ state[t] = "running" /\ Ended(m)
          /\ \A i \in DOMAIN results[t] : results[t][i].status = "success"
      BY <1>0, <2>1, <3>1 DEF TaskFailed, NodesOf
    <3>3. pc[m] = "done"
      BY <2>1, <3>2 DEF Ended, ExecInv, PhaseInv
    <3>4. completion[m].status = "success"
      BY <2>1, <3>2, <3>3 DEF ExecInv, ResultInv
    <3> QED BY <3>3, <3>4 DEF ExecInv, FactInv
  <2>2. CASE u # t
    BY <1>3, <2>2 DEF ExecInv, CompletedTaskIsExact, NodesOf
  <2> QED BY <2>1, <2>2
<1> QED BY <1>1, <1>5, <1>6, <1>7, <1>8, <1>9, <1>10 DEF ExecInv

\* A timeout cancels the running nodes of its task and the futures they wait
\* on.  Those are futures of nodes that have not ended, hence of nodes the
\* same step cancels: no node that ended loses what it resolved.
LEMMA TimeoutKeeps ==
  ASSUME ExecutorAssumption, ExecInv, NEW t \in Task, Timeout(t)
  PROVE  ExecInv'
<1>0. /\ plan' = plan /\ state' = state
      /\ results' = results /\ facts' = facts /\ sent' = sent /\ writer_ok' = writer_ok
      /\ state[t] \in {"preparing", "running"} /\ t \notin timed_out
      /\ timed_out' = timed_out \cup {t}
      /\ pc' = [n \in Node |-> IF TaskOf(n) = t /\ Running(n) THEN "cancelled" ELSE pc[n]]
      /\ prompt' = [n \in Node |-> IF TaskOf(n) = t /\ prompt[n] = "building" THEN "none" ELSE prompt[n]]
      /\ completion' = [n \in Node |-> IF TaskOf(n) = t /\ Awaited(n) /\ completion[n] = Pending
                                         THEN Lost ELSE completion[n]]
  BY DEF Timeout
<1>1. /\ PlanInv' /\ PlanInv
      /\ \A m \in Node : /\ SendAfter(m)' = SendAfter(m) /\ ContextAfter(m)' = ContextAfter(m)
                         /\ IsRequest(m)' = IsRequest(m)
  BY <1>0, PlanStays DEF ExecInv
<1>2. /\ pc \in [Node -> Live \cup {"idle", "done", "cancelled"}] /\ prompt \in [Node -> Prompts]
      /\ completion \in [Node -> Completions \cup {Pending, Lost}]
  BY DEF ExecInv, TypeInv, ExecutorTypeOK, Live, Prompts
<1>3. \A m \in Node : /\ TaskOf(m) # t => /\ pc'[m] = pc[m] /\ prompt'[m] = prompt[m]
                                          /\ completion'[m] = completion[m]
                      /\ pc[m] = "done" <=> pc'[m] = "done"
                      /\ pc[m] # pc'[m] => pc'[m] = "cancelled" /\ TaskOf(m) = t /\ pc[m] \in Live
                      /\ TaskOf(m) = t => pc'[m] \in {"idle", "done", "cancelled"}
                      /\ prompt'[m] # prompt[m] => TaskOf(m) = t /\ prompt'[m] = "none"
  BY <1>0, <1>2 DEF Running, Live
\* Who awaits a node is running, so its task runs and the node is not idle.
<1>4. \A m \in Node : Awaited(m) => pc[m] # "idle"
  <2> SUFFICES ASSUME NEW m \in Node, NEW w \in Node, pc[w] = "waiting",
                      SendAfter(w) = m \/ ContextAfter(w) = m
               PROVE  pc[m] # "idle"
    BY DEF Awaited
  <2>1. m # None
    BY DEF ExecutorAssumption, Node, Index
  <2>2. TaskOf(m) = TaskOf(w)
    BY <1>1, <2>1, Predecessors
  <2>3. state[TaskOf(w)] = "running" /\ TaskOf(w) \notin timed_out
    BY LiveFacts DEF Live
  <2> QED BY <2>2, <2>3 DEF ExecInv, PhaseInv
<1>5. \A m \in Node : completion'[m] # completion[m] =>
        /\ completion[m] = Pending /\ completion'[m] = Lost /\ pc'[m] = "cancelled" /\ TaskOf(m) = t
  <2> SUFFICES ASSUME NEW m \in Node, completion'[m] # completion[m]
               PROVE  /\ completion[m] = Pending /\ completion'[m] = Lost /\ pc'[m] = "cancelled" /\ TaskOf(m) = t
    OBVIOUS
  <2>1. TaskOf(m) = t /\ Awaited(m) /\ completion[m] = Pending /\ completion'[m] = Lost
    BY <1>0
  <2>2. pc[m] # "done"
    BY <2>1, FutureFacts DEF ExecInv, FutureInv
  <2>3. pc[m] # "idle"
    BY <1>4, <2>1
  <2> QED BY <1>3, <2>1, <2>2, <2>3
<1>6. TypeInv'
  <2>1. pc' \in [Node -> Live \cup {"idle", "done", "cancelled"}]
    BY <1>0, <1>2
  <2>2. prompt' \in [Node -> Prompts]
    BY <1>0, <1>2 DEF Prompts
  <2>3. completion' \in [Node -> Completions \cup {Pending, Lost}]
    BY <1>0, <1>2
  <2>4. timed_out' \subseteq Task
    BY <1>0 DEF ExecInv, TypeInv, ExecutorTypeOK
  <2> QED BY <1>0, <2>1, <2>2, <2>3, <2>4 DEF ExecInv, TypeInv, ExecutorTypeOK, Live, Prompts, NodesOf, TaskOf
<1>7. PhaseInv'
  <2> SUFFICES ASSUME NEW m \in Node
               PROVE  /\ state[TaskOf(m)] \in {"submitted", "preparing"} => pc'[m] = "idle"
                      /\ state[TaskOf(m)] = "submitted" => TaskOf(m) \notin timed_out'
                      /\ state[TaskOf(m)] = "running" /\ TaskOf(m) \notin timed_out' =>
                           pc'[m] \notin {"idle", "cancelled"}
                      /\ state[TaskOf(m)] \in {"completed", "failed"} \/ TaskOf(m) \in timed_out' =>
                           pc'[m] \in {"idle", "done", "cancelled"}
                      /\ pc'[m] = "cancelled" => TaskOf(m) \in timed_out'
                      /\ pc'[m] \in {"snapshot", "sending"} => IsRequest(m)
    BY <1>0, <1>1 DEF PhaseInv, TaskOf
  <2>1. CASE TaskOf(m) = t
    <3>1. state[TaskOf(m)] = "preparing" => pc'[m] = "idle"
      BY <1>3 DEF ExecInv, PhaseInv, Live
    <3> QED BY <1>0, <1>3, <2>1, <3>1
  <2>2. CASE TaskOf(m) # t
    BY <1>0, <1>3, <2>2 DEF ExecInv, PhaseInv
  <2> QED BY <2>1, <2>2
<1>8. FutureInv'
  <2> SUFFICES ASSUME NEW m \in Node
               PROVE  /\ pc'[m] = "done" => completion'[m] \in Completions
                      /\ pc'[m] = "cancelled" => completion'[m] \in {Pending, Lost}
                      /\ pc'[m] \notin {"done", "cancelled"} => completion'[m] = Pending
                      /\ completion'[m].status = "success" /\ IsRequest(m) /\ ~AgentX =>
                           completion'[m].exchange # "none"
                      /\ UsesTokenIds => completion'[m].exchange # "text"
    BY <1>0, <1>1 DEF FutureInv
  <2>1. FutureInv
    BY DEF ExecInv
  <2>2. CASE completion'[m] # completion[m]
    BY <1>5, <2>2, FutureFacts
  <2>3. CASE completion'[m] = completion[m]
    BY <1>3, <2>1, <2>3 DEF FutureInv, Live
  <2> QED BY <2>2, <2>3
<1>9. ResultInv'
  <2>1. \A m \in Node : ResultsOf(m)' = ResultsOf(m)
    BY <1>0 DEF ResultsOf, TaskOf
  <2> SUFFICES ASSUME NEW m \in Node
               PROVE  /\ pc'[m] # "done" => ResultsOf(m) = {}
                      /\ pc'[m] = "done" => \E i \in DOMAIN results[TaskOf(m)] :
                           /\ ResultsOf(m) = {i}
                           /\ results[TaskOf(m)][i].status = completion'[m].status
    BY <1>0, <2>1 DEF ResultInv, TaskOf
  <2>2. pc'[m] = "done" => completion'[m] = completion[m]
    BY <1>5
  <2> QED BY <1>3, <2>2 DEF ExecInv, ResultInv
<1>10. DependencyInv'
  <2> SUFFICES ASSUME NEW m \in Node
               PROVE  /\ (pc'[m] \in {"sleeping", "snapshot", "sending"} \/ m \in sent) /\ SendAfter(m) # None =>
                           pc'[SendAfter(m)] = "done"
                      /\ (prompt'[m] \in {"building", "ready"} \/ m \in sent) /\ ContextAfter(m) # None =>
                           pc'[ContextAfter(m)] = "done" /\ ContextUsable(m)'
                      /\ pc'[m] \in {"sleeping", "snapshot", "sending"} /\ IsRequest(m) /\ ~AgentX => prompt'[m] = "ready"
                      /\ completion'[m].status = "skipped_dependency_failed" =>
                           /\ ContextAfter(m) # None /\ pc'[ContextAfter(m)] = "done"
                           /\ completion'[ContextAfter(m)].status \in {"failed", "skipped_dependency_failed"}
    BY <1>0, <1>1 DEF DependencyInv
  <2>1. /\ SendAfter(m) # None => SendAfter(m) \in Node
        /\ ContextAfter(m) # None => ContextAfter(m) \in Node
    BY <1>1, Predecessors
  <2>2. ContextAfter(m) # None /\ pc[ContextAfter(m)] = "done" =>
          /\ completion'[ContextAfter(m)] = completion[ContextAfter(m)]
          /\ ContextUsable(m)' <=> ContextUsable(m)
    BY <1>1, <1>3, <1>5, <2>1 DEF ContextUsable
  <2>3. /\ pc'[m] \in {"sleeping", "snapshot", "sending"} => pc[m] = pc'[m] /\ TaskOf(m) # t
        /\ prompt'[m] \in {"building", "ready"} => prompt[m] = prompt'[m]
    BY <1>3
  <2>4. completion'[m].status = "skipped_dependency_failed" => completion[m].status = "skipped_dependency_failed"
    BY <1>5, FutureFacts
  <2>5. DependencyInv
    BY DEF ExecInv
  <2> QED BY <1>3, <2>1, <2>2, <2>3, <2>4, <2>5 DEF DependencyInv
<1>11. FactInv'
  <2>1. FactInv
    BY DEF ExecInv
  <2>2. \A m \in Node : pc'[m] = "done" => pc[m] = "done" /\ completion'[m] = completion[m]
    BY <1>3, <1>5
  <2> QED BY <1>0, <1>1, <1>3, <2>1, <2>2 DEF FactInv
<1>12. WithinLimits'
  <2>1. Admitted' = Admitted
    BY <1>0 DEF Admitted
  <2>2. \A u \in Task : Inflight(u)' \subseteq Inflight(u)
    BY <1>3 DEF Inflight, NodesOf, TaskOf
  <2> QED BY <2>1, <2>2, InflightShrinks DEF ExecInv, WithinLimits
<1>13. CompletedTaskIsExact'
  <2> SUFFICES ASSUME NEW u \in Task, state[u] = "completed", NEW m \in Node, TaskOf(m) = u
               PROVE  /\ completion'[m].status = "success"
                      /\ facts[m] = IF IsRequest(m) THEN "success" ELSE "none"
    BY <1>0, <1>1 DEF CompletedTaskIsExact, NodesOf, TaskOf
  <2>1. TaskOf(m) # t
    BY <1>0
  <2> QED BY <1>3, <2>1 DEF ExecInv, CompletedTaskIsExact, NodesOf
<1> QED BY <1>1, <1>6, <1>7, <1>8, <1>9, <1>10, <1>11, <1>12, <1>13 DEF ExecInv

LEMMA WriterFailsKeeps ==
  ASSUME ExecInv, UNCHANGED <<plan, state, timed_out, pc, prompt, completion, results, facts, sent>>,
         writer_ok' \in BOOLEAN
  PROVE  ExecInv'
<1>0. /\ plan' = plan /\ state' = state /\ timed_out' = timed_out /\ pc' = pc /\ prompt' = prompt
      /\ completion' = completion /\ results' = results /\ facts' = facts /\ sent' = sent
  OBVIOUS
<1>1. /\ PlanInv'
      /\ \A m \in Node : /\ SendAfter(m)' = SendAfter(m) /\ ContextAfter(m)' = ContextAfter(m)
                         /\ IsRequest(m)' = IsRequest(m)
  BY <1>0, PlanStays DEF ExecInv
<1>2. TypeInv'
  BY <1>0 DEF ExecInv, TypeInv, ExecutorTypeOK, NodesOf, TaskOf
<1>3. PhaseInv' /\ FutureInv' /\ FactInv'
  BY <1>0, <1>1 DEF ExecInv, PhaseInv, FutureInv, FactInv, TaskOf
<1>4. ResultInv'
  BY <1>0 DEF ExecInv, ResultInv, ResultsOf, TaskOf
<1>5. DependencyInv'
  BY <1>0, <1>1 DEF ExecInv, DependencyInv, ContextUsable
<1>6. WithinLimits'
  BY <1>0 DEF ExecInv, WithinLimits, Admitted, Inflight, NodesOf, TaskOf
<1>7. CompletedTaskIsExact'
  BY <1>0, <1>1 DEF ExecInv, CompletedTaskIsExact, NodesOf, TaskOf
<1> QED BY <1>1, <1>2, <1>3, <1>4, <1>5, <1>6, <1>7 DEF ExecInv
-----------------------------------------------------------------------------
\* No task is admitted and no node runs at the start.
LEMMA ExecutorInitInv ==
  ASSUME ExecutorAssumption, Init
  PROVE  ExecInv
<1>0. /\ state = [t \in Task |-> "submitted"] /\ timed_out = {} /\ pc = [n \in Node |-> "idle"]
      /\ prompt = [n \in Node |-> "none"] /\ completion = [n \in Node |-> Pending]
      /\ results = [t \in Task |-> << >>] /\ facts = [n \in Node |-> "none"] /\ sent = {} /\ writer_ok = TRUE
  BY DEF Init
<1>1. \A n \in Node : TaskOf(n) \in Task
  BY NodeFacts
<1>2. PlanInv
  <2>1. PICK p \in Plans : plan = [n \in Node |-> p[n[2]]]
    BY DEF Init
  <2>2. /\ p \in [Index -> PlanNode]
        /\ \A i \in Index : p[i].context_after # None =>
             /\ p[i].type = "request" /\ ~AgentX
             /\ p[p[i].context_after].type = "request"
    BY DEF Plans, PlanNode
  <2>3. \A n \in Node : n[2] \in Index /\ plan[n] = p[n[2]]
    BY <2>1, NodeFacts
  <2>4. plan \in [Node -> PlanNode]
    BY <2>1, <2>2, <2>3
  <2>5. ASSUME NEW n \in Node, plan[n].context_after # None
        PROVE  /\ plan[n].type = "request" /\ ~AgentX
               /\ plan[<<TaskOf(n), plan[n].context_after>>].type = "request"
    <3> DEFINE m == <<TaskOf(n), plan[n].context_after>>
    <3>1. plan[n] = p[n[2]] /\ n[2] \in Index /\ plan[n].context_after \in Index
      BY <2>2, <2>3, <2>4, <2>5 DEF PlanNode
    <3>2. m \in Node /\ m[2] = plan[n].context_after
      BY <1>1, <3>1 DEF Node
    <3>3. plan[m] = p[plan[n].context_after]
      BY <2>3, <3>2
    <3> HIDE DEF m
    <3>4. plan[n].type = "request" /\ ~AgentX /\ plan[m].type = "request"
      BY <2>2, <2>5, <3>1, <3>3
    <3> QED BY <3>4 DEF m
  <2> QED BY <2>4, <2>5 DEF PlanInv
<1>3. TypeInv
  <2>1. /\ state \in [Task -> {"submitted", "preparing", "running", "completed", "failed"}]
        /\ pc \in [Node -> {"idle", "waiting", "sleeping", "snapshot", "sending", "done", "cancelled"}]
        /\ prompt \in [Node -> {"none", "building", "ready", "error"}]
        /\ completion \in [Node -> Completions \cup {Pending, Lost}]
        /\ facts \in [Node -> {"none", "success", "error"}]
    BY <1>0
  <2>2. \A t \in Task : results[t] = << >>
    BY <1>0
  <2>3. ASSUME NEW t \in Task PROVE results[t] \in Seq([node : NodesOf(t), status : Statuses])
    <3>1. << >> \in Seq([node : NodesOf(t), status : Statuses])
      OBVIOUS
    <3> QED BY <2>2, <3>1
  <2>4. results \in [Task -> Seq([node : Node, status : Statuses])]
    BY <1>0
  <2> QED BY <1>0, <2>1, <2>3, <2>4 DEF TypeInv, ExecutorTypeOK, Statuses
<1>4. PhaseInv
  BY <1>0, <1>1 DEF PhaseInv
<1>5. FutureInv
  BY <1>0, FutureFacts DEF FutureInv
<1>6. ResultInv
  BY <1>0, <1>1 DEF ResultInv, ResultsOf
<1>7. DependencyInv
  BY <1>0, FutureFacts DEF DependencyInv
<1>8. FactInv
  BY <1>0 DEF FactInv
<1>9. WithinLimits
  <2>1. Admitted = {} /\ \A t \in Task : Inflight(t) = {}
    BY <1>0 DEF Admitted, Inflight, NodesOf
  <2> QED BY <2>1, FS_EmptySet DEF WithinLimits, ExecutorAssumption
<1>10. CompletedTaskIsExact
  BY <1>0 DEF CompletedTaskIsExact
<1> QED BY <1>2, <1>3, <1>4, <1>5, <1>6, <1>7, <1>8, <1>9, <1>10 DEF ExecInv

LEMMA ExecutorStep ==
  ASSUME ExecutorAssumption, ExecInv, [Next]_vars
  PROVE  ExecInv'
<1>1. ASSUME NEW n \in Node, NodeStep(n) PROVE ExecInv'
  BY <1>1, NodeStepKeeps
<1>2. ASSUME NEW t \in Task, TaskStep(t) PROVE ExecInv'
  BY <1>2, AdmitKeeps, ExecuteGraphKeeps, FinishTaskKeeps DEF TaskStep
<1>3. ASSUME NEW t \in Task, Timeout(t) PROVE ExecInv'
  BY <1>3, TimeoutKeeps
<1>4. CASE WriterFails
  BY <1>4, WriterFailsKeeps DEF WriterFails
<1>5. CASE UNCHANGED vars
  <2>1. writer_ok' \in BOOLEAN
    BY <1>5 DEF ExecInv, TypeInv, ExecutorTypeOK, vars
  <2> QED BY <1>5, <2>1, WriterFailsKeeps DEF vars
<1> QED BY <1>1, <1>2, <1>3, <1>4, <1>5 DEF Next, Stutter

LEMMA ExecInvImplies ==
  ASSUME ExecutorAssumption, ExecInv
  PROVE  /\ ExecutorTypeOK /\ OneResultPerNode /\ CompletionAgreesWithResult /\ LostOnlyWhenCancelled
         /\ SentAfterDependencies /\ SkippedOnlyByContext /\ ExchangesCarryIds /\ WithinLimits
         /\ CompletedTaskIsExact
<1>1. OneResultPerNode
  <2>1. \A n \in Node : /\ pc[n] # "done" => ResultsOf(n) = {}
                        /\ pc[n] = "done" => \E i : ResultsOf(n) = {i}
    BY DEF ExecInv, ResultInv
  <2> QED BY <2>1, FS_EmptySet, FS_Singleton DEF OneResultPerNode
<1>2. CompletionAgreesWithResult
  BY DEF CompletionAgreesWithResult, ExecInv, ResultInv
<1>3. LostOnlyWhenCancelled
  <2> SUFFICES ASSUME NEW n \in Node, completion[n] = Lost
               PROVE  pc[n] = "cancelled" /\ TaskOf(n) \in timed_out
    BY DEF LostOnlyWhenCancelled
  <2>1. pc[n] = "cancelled"
    BY FutureFacts DEF ExecInv, FutureInv
  <2> QED BY <2>1 DEF ExecInv, PhaseInv
<1>4. SentAfterDependencies
  <2>1. sent \subseteq Node
    BY DEF ExecInv, TypeInv, ExecutorTypeOK
  <2> QED BY <2>1 DEF SentAfterDependencies, ExecInv, DependencyInv
<1>5. SkippedOnlyByContext
  BY DEF SkippedOnlyByContext, ExecInv, DependencyInv
<1>6. ExchangesCarryIds
  BY DEF ExchangesCarryIds, ExecInv, FutureInv
<1> QED BY <1>1, <1>2, <1>3, <1>4, <1>5, <1>6 DEF ExecInv, TypeInv

\* Whichever nodes of whichever plans fail, time out or lose their fact: every
\* node that ended has one result, its future says the same, requests leave
\* only after what they depend on, only a failed context skips a node, both
\* semaphores hold, and a completed task has everything it planned
\* (executor.py:131-371, runner.py:47).
THEOREM ExecutorIsExact ==
  ASSUME ExecutorAssumption
  PROVE  Spec => [](/\ ExecutorTypeOK /\ OneResultPerNode /\ CompletionAgreesWithResult
                    /\ LostOnlyWhenCancelled /\ SentAfterDependencies /\ SkippedOnlyByContext
                    /\ ExchangesCarryIds /\ WithinLimits /\ CompletedTaskIsExact)
<1>1. Init => ExecInv
  BY ExecutorInitInv
<1>2. ExecInv /\ [Next]_vars => ExecInv'
  BY ExecutorStep
<1>3. ExecInv => /\ ExecutorTypeOK /\ OneResultPerNode /\ CompletionAgreesWithResult
                 /\ LostOnlyWhenCancelled /\ SentAfterDependencies /\ SkippedOnlyByContext
                 /\ ExchangesCarryIds /\ WithinLimits /\ CompletedTaskIsExact
  BY ExecInvImplies
<1> QED BY <1>1, <1>2, <1>3, PTL DEF Spec
=============================================================================
