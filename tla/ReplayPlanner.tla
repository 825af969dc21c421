----------------------------- MODULE ReplayPlanner -----------------------------
(***************************************************************************)
(* How a recorded Session becomes a Replay task: analyzer.py classifies    *)
(* its requests, matches failures with their retries and infers what each  *)
(* request waited for and continued; planner.py keeps what has to be       *)
(* replayed, chooses the context of each request and validates the plan.   *)
(*                                                                         *)
(* Rows are numbered in the analyzer's order (started_at, finished_at,     *)
(* key; keys sort like source lines).  Times are small numbers, the token  *)
(* counts of a usable row are those of a small or of a big prompt, and     *)
(* lead_name is treated like lead_title.                                   *)
(***************************************************************************)
EXTENDS Integers, Sequences, FiniteSets

CONSTANTS
  N,          \* rows of the Session
  MaxTime,    \* bound: the recorded times are 0..MaxTime
  Sub,        \* actors other than the lead
  Purposes,   \* request_purpose values of the rows, None included
  Adaptive,   \* context_adjustment_mode = "adaptive"
  TrimLimit,  \* context_micro_trim_limit
  None

\* What the constants may be.
PlannerAssumption == N \in Nat \ {0} /\ MaxTime \in Nat /\ Adaptive \in BOOLEAN /\ TrimLimit \in Nat

Lead == "lead"
Row == 1 .. N
Small == 1
Big == 10
Output == 1

VARIABLES
  rows,       \* the source rows, sorted
  phase,      \* match, build, plan, done or failed
  at,         \* the row the current loop is at
  kinds,      \* row -> prompt kind
  pending,    \* failures that wait for a success of their actor and kind
  match,      \* row -> the row its tokens and prompt come from, or None
  tokens,     \* row -> resolved_tokens, or None
  running,    \* rows in the heap pending_by_finish
  predecessor, latest_attempt, latest_success, parents,
  active,     \* rows in the heap of _parallel_keys
  requests,   \* row -> the ReplayRequest built for it, or None
  plan        \* row -> its plan node; rows outside the plan are None

input == <<rows>>
analysis == <<kinds, pending, match, tokens>>
sweep == <<running, predecessor, latest_attempt, latest_success, parents, active, requests>>
vars == <<input, phase, at, analysis, sweep, plan>>

Actor == {Lead} \cup Sub
Source == [actor : Actor, start : 0..MaxTime, finish : 0..MaxTime, status : {"success", "failed"},
           tokens : {None, Small, Big}, purpose : Purposes]
Before(a, b) == a.start < b.start \/ (a.start = b.start /\ a.finish <= b.finish)
ContextFree == {"lead_title"}

Init ==
  /\ rows \in [Row -> {r \in Source : r.start <= r.finish}]
  /\ \A i \in 1..(N - 1) : Before(rows[i], rows[i + 1])
  /\ phase = "classify" /\ at = 1
  /\ kinds = [i \in Row |-> None]
  /\ pending = {} /\ match = [i \in Row |-> None] /\ tokens = [i \in Row |-> None]
  /\ running = {} /\ predecessor = None
  /\ latest_attempt = [a \in Actor |-> None] /\ latest_success = [a \in Actor |-> None]
  /\ parents = [a \in Actor |-> None]
  /\ active = {} /\ requests = [i \in Row |-> None]
  /\ plan = [i \in Row |-> None]

Usable(i) == rows[i].status = "success" /\ rows[i].tokens # None
Overlap(i, j) == rows[i].start < rows[j].finish /\ rows[j].start < rows[i].finish
First(S) == CHOOSE i \in S : \A j \in S : i <= j
RowsOf(a) == {i \in Row : rows[i].actor = a}
-----------------------------------------------------------------------------
(* _prompt_kinds() and _late_auxiliary_prompt_kinds()                      *)

\* The two first requests of the lead, when they overlap and both succeeded:
\* the smaller is the title, the larger the main prompt.
Initial == LET f == First(RowsOf(Lead)) IN {i \in RowsOf(Lead) : Overlap(i, f)}
Paired == RowsOf(Lead) # {} /\ Cardinality(Initial) = 2 /\ \A i \in Initial : Usable(i)
TitleOf(S) == CHOOSE i \in S : \A j \in S : i = j \/ rows[i].tokens < rows[j].tokens
                                              \/ (rows[i].tokens = rows[j].tokens /\ i < j)

Sequenced(i, first) ==
  IF \E j \in RowsOf(rows[i].actor) : j < i /\ Usable(j) THEN "continuation" ELSE first

Sequence(i) ==
  IF rows[i].purpose # None THEN rows[i].purpose
  ELSE IF rows[i].actor # Lead THEN Sequenced(i, "subagent_first")
  ELSE IF ~Paired THEN Sequenced(i, "lead_main")
  ELSE IF i = TitleOf(Initial) THEN "lead_title"
  ELSE IF i \in Initial THEN "lead_main" ELSE "continuation"

\* A late small request beside a big one of the lead, after a conversation
\* of that size: an auxiliary request without context.
LateGiven(i, conversational) ==
  /\ conversational # 0
  /\ rows[i].purpose = None
  /\ rows[i].tokens = Small /\ rows[conversational].tokens = Big
  /\ \E c \in RowsOf(Lead) : c # i /\ Usable(c) /\ rows[c].tokens = Big /\ Overlap(i, c)

Conversational[i \in 0..N] ==
  IF i = 0 THEN 0
  ELSE LET before == Conversational[i - 1] IN
       IF rows[i].actor # Lead \/ Sequence(i) \in ContextFree \/ ~Usable(i) \/ LateGiven(i, before)
       THEN before ELSE i

Late(i) == /\ rows[i].actor = Lead /\ Usable(i) /\ Sequence(i) \notin ContextFree
           /\ LateGiven(i, Conversational[i - 1])

Classify ==
  /\ phase = "classify"
  /\ kinds' = [i \in Row |-> IF Late(i) THEN "lead_title" ELSE Sequence(i)]
  /\ phase' = "match"
  /\ UNCHANGED <<input, at, pending, match, tokens, sweep, plan>>
-----------------------------------------------------------------------------
(* _retry_matches(): one row of the loop per step.                         *)

Advance(next) ==
  /\ at' = IF at = N THEN 1 ELSE at + 1
  /\ phase' = IF at = N THEN next ELSE phase

Answers(i, failed) == rows[failed].actor = rows[i].actor /\ kinds[failed] = kinds[i]

Match ==
  LET own == [tokens EXCEPT ![at] = rows[at].tokens]
      answered == IF Usable(at) THEN {f \in pending : Answers(at, f)} ELSE {}
  IN
  /\ phase = "match"
  /\ tokens' = [i \in Row |-> IF i \in answered THEN rows[at].tokens ELSE own[i]]
  /\ match' = [i \in Row |-> IF i \in answered THEN at ELSE match[i]]
  /\ pending' = (pending \ answered) \cup (IF rows[at].status = "success" THEN {} ELSE {at})
  /\ Advance("build")
  /\ UNCHANGED <<input, kinds, sweep, plan>>
-----------------------------------------------------------------------------
(* _build_session() and _parallel_keys(): one row of both sweeps per step. *)

\* Completed rows are popped in the order of their finish; the latest of a
\* kind is the one with the largest (finished_at, key).
Popped == {i \in running : rows[i].finish <= rows[at].start}
Later(i, j) == j = None \/ rows[i].finish > rows[j].finish \/ (rows[i].finish = rows[j].finish /\ i > j)
Latest(old, S) == IF S = {} THEN old
                  ELSE LET last == CHOOSE i \in S : \A j \in S : i = j \/ Later(i, j)
                       IN  IF Later(last, old) THEN last ELSE old

\* Mutant of Continuable: a success of any kind can be continued.
AnySuccess(i) == Usable(i)
Continuable(i) == rows[i].status = "success" /\ tokens[i] # None /\ kinds[i] \notin ContextFree

LeadActor == Lead
DependencyKind(before, parent) ==
  IF before = None THEN "session_root"
  ELSE IF rows[before].actor = rows[at].actor THEN "same_agent"
  ELSE IF parent[rows[at].actor] = rows[before].actor THEN "parent_to_subagent"
  ELSE IF parent[rows[before].actor] = rows[at].actor THEN "blocking_subagent_to_parent"
  ELSE "cross_agent_completion"

StillActive(i) == rows[i].finish > rows[at].start

Build ==
  LET r == rows[at]
      before == Latest(predecessor, Popped)
      attempt == [a \in Actor |-> Latest(latest_attempt[a], {i \in Popped : rows[i].actor = a})]
      success == [a \in Actor |-> Latest(latest_success[a], {i \in Popped : rows[i].actor = a /\ Continuable(i)})]
      parent == IF r.actor # Lead /\ parents[r.actor] = None
                THEN [parents EXCEPT ![r.actor] =
                        IF before # None /\ rows[before].actor # r.actor THEN rows[before].actor ELSE LeadActor]
                ELSE parents
      beside == {i \in active : StillActive(i)}
      overlapping == {i \in beside : rows[i].start < r.finish}
      request == [kind |-> IF tokens[at] # None THEN "request" ELSE "timing_dependency",
                  send_after |-> before,
                  context_after |-> IF kinds[at] \in ContextFree THEN None ELSE success[r.actor],
                  recipe |-> IF match[at] # None THEN match[at] ELSE at,
                  delay |-> r.start - (IF before = None THEN rows[1].start ELSE rows[before].finish),
                  dependency |-> DependencyKind(before, parent),
                  gap |-> IF attempt[r.actor] = None THEN None ELSE r.start - rows[attempt[r.actor]].finish,
                  parallel |-> overlapping]
  IN
  /\ phase = "build"
  /\ requests' = [i \in Row |-> IF i = at THEN request
                                ELSE IF i \in overlapping
                                THEN [requests[i] EXCEPT !.parallel = @ \cup {at}] ELSE requests[i]]
  /\ running' = (running \ Popped) \cup {at}
  /\ active' = beside \cup {at}
  /\ predecessor' = before
  /\ latest_attempt' = attempt /\ latest_success' = success /\ parents' = parent
  /\ Advance("plan")
  /\ UNCHANGED <<input, analysis, plan>>
-----------------------------------------------------------------------------
(* planner.py: _required_requests(), _task_plan(), _validate_task()        *)

\* The requests, and everything they transitively wait for: a row waits only
\* for earlier rows, so N rounds reach them all.
Follow(S) == S \cup ({requests[i].send_after : i \in S} \ {None})
Closure[n \in 0..N] == IF n = 0 THEN {i \in Row : requests[i].kind = "request"} ELSE Follow(Closure[n - 1])
Required == Closure[N]

\* effective_interval_seconds() of interval_mode "trace" with scale 1 and
\* offset 0; None when it raises.
Interval(i) ==
  LET q == requests[i] IN
  IF q.send_after = None /\ q.delay = 0 THEN 0
  ELSE IF q.dependency # "same_agent" THEN q.delay ELSE q.gap

\* _context_plan()
Deficit(i, c) == LET d == tokens[c] + Output - tokens[i] IN IF d > 0 THEN d ELSE 0
ContextPlan(i) ==
  LET c == requests[i].context_after IN
  IF requests[i].kind # "request" THEN <<c, "none">>
  ELSE IF c = None THEN <<None, "independent">>
  ELSE IF ~Adaptive \/ Deficit(i, c) = 0 THEN <<c, "append">>
  ELSE IF Deficit(i, c) <= TrimLimit THEN <<c, "trim">>
  ELSE <<None, "reset">>

NodeOf(i) == [type |-> requests[i].kind, send_after |-> requests[i].send_after,
              context_after |-> ContextPlan(i)[1], mode |-> ContextPlan(i)[2],
              recipe |-> requests[i].recipe, interval |-> Interval(i)]

\* _validate_task(): references inside the plan, a context of the same actor
\* that had succeeded.  The walk of _validate_acyclic ends because a row
\* waits for an earlier one.
NodeOK(i, nodes) ==
  LET n == nodes[i] IN
  /\ {n.send_after, n.context_after, n.recipe} \ {None} \subseteq Required
  /\ n.type = "request" => tokens[i] # None
  /\ n.interval # None /\ n.interval >= 0
  /\ n.context_after # None => rows[n.context_after].actor = rows[i].actor /\ rows[n.context_after].status = "success"
  /\ n.mode \in {"independent", "reset"} => n.context_after = None
  /\ n.mode \in {"append", "trim"} => n.context_after # None

BuildPlan ==
  LET nodes == [i \in Row |-> IF i \in Required THEN NodeOf(i) ELSE None] IN
  /\ phase = "plan"
  /\ plan' = nodes
  /\ phase' = IF Required = {} THEN "not replayable"
              ELSE IF \A i \in Required : NodeOK(i, nodes) THEN "done" ELSE "failed"
  /\ UNCHANGED <<input, at, analysis, sweep>>

Next == Classify \/ Match \/ Build \/ BuildPlan

Spec == Init /\ [][Next]_vars
-----------------------------------------------------------------------------
Planned == {i \in Row : plan[i] # None}

\* Every recorded Session the analyzer accepts has a plan the validation
\* accepts: no reference to a pruned row, no missing interval, no context
\* that had failed.
AnalysisPlans == phase # "failed"

\* What ReplayExecutor takes for granted of a plan: a node waits for and
\* continues only earlier nodes of the plan, and what it continues is a
\* request of the same actor that carries its conversation.
PlanExecutable ==
  phase = "done" => \A i \in Planned :
    /\ plan[i].send_after # None => plan[i].send_after \in Planned /\ plan[i].send_after < i
    /\ plan[i].context_after # None =>
         LET c == plan[i].context_after IN
         /\ c \in Planned /\ c < i
         /\ plan[c].type = "request" /\ kinds[c] \notin ContextFree
         /\ rows[c].actor = rows[i].actor
         /\ rows[c].finish <= rows[i].start

\* The plan holds every replayable request, and a timing dependency only if
\* some request waits for it, directly or not.
PlanIsMinimal ==
  phase = "done" =>
    /\ \A i \in Row : tokens[i] # None => i \in Planned
    /\ \A i \in Planned : plan[i].type = "request" \/ \E j \in Planned : plan[j].send_after = i

\* A failure is replayed with the prompt of the first later success of its
\* actor and kind that has token counts.
RetryIsFirstSuccess ==
  phase = "build" => \A i \in Row :
    LET answers == {j \in Row : j > i /\ Usable(j) /\ rows[j].actor = rows[i].actor /\ kinds[j] = kinds[i]} IN
    match[i] = IF rows[i].status = "success" \/ answers = {} THEN None ELSE First(answers)

\* Replayed with its recorded durations, the plan reproduces the recorded
\* start of every request.
IntervalsRebuildStarts ==
  phase = "done" => \A i \in Planned :
    rows[i].start = plan[i].interval + (IF plan[i].send_after = None THEN rows[1].start
                                        ELSE rows[plan[i].send_after].finish)

\* The sweep over active requests finds exactly the pairs that overlap.
ParallelIsOverlap ==
  phase \in {"plan", "done"} => \A i \in Row : requests[i].parallel = {j \in Row \ {i} : Overlap(i, j)}
=============================================================================
