------------------------------ MODULE AgentXTrace ------------------------------
(***************************************************************************)
(* The timing graph of an AgentX session (agentinfer/agentbench/replay/    *)
(* converters/agentx.py): convert() sweeps the requests in start order     *)
(* with a heap of running ones and makes each request wait for the latest  *)
(* completed one; analyze_agentx_trace_ir() sweeps them again to find out  *)
(* which ones overlapped.  Each sweep takes one request at a time.         *)
(***************************************************************************)
EXTENDS Integers, Sequences, FiniteSets, SequencesExt

CONSTANTS
  Request,     \* requests of the session; a number is also their source index
  MaxTime,     \* bound: start times
  MaxDuration, \* bound: api_time
  None

VARIABLES
  t, api,      \* request -> t, api_time
  order,       \* the requests in start order
  done,        \* how many of them the current sweep has handled
  heap,        \* the running requests, as <<finish, request>>
  latest,      \* latest_completed, or None
  after,       \* request -> send_after
  gap,         \* request -> source_gap_seconds
  active,      \* the second sweep's running requests
  overlaps,    \* request -> parallel_with
  phase        \* "convert", "analyze", "done"

vars == <<t, api, order, done, heap, latest, after, gap, active, overlaps, phase>>

Finish(r) == t[r] + api[r]
Later(a, b) == a[1] > b[1] \/ (a[1] = b[1] /\ a[2] > b[2])

Init ==
  /\ t \in [Request -> 0..MaxTime]
  /\ api \in [Request -> 0..MaxDuration]
  /\ order = SetToSortSeq(Request, LAMBDA a, b : t[a] < t[b] \/ (t[a] = t[b] /\ a < b))
  /\ done = 0
  /\ heap = {} /\ latest = None
  /\ after = [r \in Request |-> None]
  /\ gap = [r \in Request |-> 0]
  /\ active = {}
  /\ overlaps = [r \in Request |-> {}]
  /\ phase = "convert"

\* while active and active[0][0] <= started: pop.
Popped(r) == {h \in heap : h[1] <= t[r]}

Completed(r) ==
  LET p == Popped(r) \cup (IF latest = None THEN {} ELSE {latest})
  IN  IF p = {} THEN None ELSE CHOOSE x \in p : \A y \in p : ~Later(y, x)

Gap(r, last) == t[r] - (IF last = None THEN t[order[1]] ELSE last[1])

Convert ==
  LET r == order[done + 1]
      last == Completed(r)
  IN  /\ phase = "convert"
      /\ done < Len(order)
      /\ latest' = last
      /\ after' = [after EXCEPT ![r] = IF last = None THEN None ELSE last[2]]
      /\ gap' = [gap EXCEPT ![r] = Gap(r, last)]
      /\ heap' = (heap \ Popped(r)) \cup {<<Finish(r), r>>}
      /\ done' = done + 1
      /\ UNCHANGED <<t, api, order, active, overlaps, phase>>

Converted ==
  /\ phase = "convert"
  /\ done = Len(order)
  /\ phase' = "analyze"
  /\ done' = 0
  /\ UNCHANGED <<t, api, order, heap, latest, after, gap, active, overlaps>>

StillActive(r) == {o \in active : Finish(o) > t[r]}

BothSides(r, still) == [q \in Request |-> IF q = r THEN overlaps[q] \cup still
                                          ELSE IF q \in still THEN overlaps[q] \cup {r} ELSE overlaps[q]]

Analyze ==
  LET r == order[done + 1] IN
  /\ phase = "analyze"
  /\ done < Len(order)
  /\ overlaps' = BothSides(r, StillActive(r))
  /\ active' = StillActive(r) \cup {r}
  /\ done' = done + 1
  /\ UNCHANGED <<t, api, order, heap, latest, after, gap, phase>>

Analyzed ==
  /\ phase = "analyze"
  /\ done = Len(order)
  /\ phase' = "done"
  /\ UNCHANGED <<t, api, order, done, heap, latest, after, gap, active, overlaps>>

Next == Convert \/ Converted \/ Analyze \/ Analyzed \/ (phase = "done" /\ UNCHANGED vars)

Spec == Init /\ [][Next]_vars
-----------------------------------------------------------------------------
Position(r) == CHOOSE i \in DOMAIN order : order[i] = r
Ancestors[r \in Request] == IF after[r] = None THEN {} ELSE {after[r]} \cup Ancestors[after[r]]

\* The heap sweep finds what the definition says: of all requests before it
\* that had ended when it started, the one that ended last.
WaitsForLatestCompleted ==
  phase # "convert" =>
    \A r \in Request :
      LET ended == {q \in Request : Position(q) < Position(r) /\ Finish(q) <= t[r]}
      IN  IF ended = {} THEN after[r] = None
          ELSE after[r] \in ended /\ \A q \in ended : ~Later(<<Finish(q), q>>, <<Finish(after[r]), after[r]>>)

\* The recorded gaps rebuild the recorded start times: a replay that takes as
\* long as the trace starts every request when the trace did.
GapsRebuildStarts ==
  phase # "convert" =>
    \A r \in Request : gap[r] >= 0 /\ t[r] = gap[r] + (IF after[r] = None THEN t[order[1]] ELSE Finish(after[r]))

\* The sweep over active requests finds every pair that ran at the same time,
\* and no other.
OverlapsExact ==
  phase = "done" =>
    \A r \in Request : overlaps[r] =
      {q \in Request \ {r} : LET first == IF Position(q) < Position(r) THEN q ELSE r
                                 second == IF first = q THEN r ELSE q
                             IN  Finish(first) > t[second]}

\* Requests that overlapped in the trace can overlap in the replay: none waits,
\* even through others, for one it ran beside.
NoWaitOnOverlap == phase = "done" => \A r \in Request : overlaps[r] \cap Ancestors[r] = {}
===============================================================================
