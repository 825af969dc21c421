---------------------------- MODULE TraceLabTiming ----------------------------
(***************************************************************************)
(* The times of a TraceLab Session on their way into the plan:             *)
(* converters/tracelab.py picks an input-ready and an output-end event of  *)
(* every round and measures the gap between rounds,                        *)
(* analyze_explicit_trace_ir() carries the gap into a Replay request and   *)
(* timing.py turns it into the interval the executor sleeps.               *)
(*                                                                         *)
(* Rounds are already sorted and contiguous (TraceIR); an event is a time  *)
(* and whether it is an input or an output event.                          *)
(***************************************************************************)
EXTENDS Integers, Sequences, FiniteSets

CONSTANTS
  Rounds,      \* rounds of the Session
  MaxEvents,   \* bound: timing events of a round
  MaxTime,     \* bound: their times
  Mode,        \* interval_mode: "trace" or "lognormal"
  None

\* What the constants may be.
TimingAssumption == Rounds \in Nat \ {0} /\ Mode \in {"trace", "lognormal"}

Round == 1 .. Rounds
Event == [time : 0..MaxTime, type : {"input", "output"}]

VARIABLES
  events,      \* round -> its timing events, in file order
  proxy,       \* round -> its timing_proxy, or None
  rows,        \* round -> [valid, gap] of the row written for it, or None
  requests,    \* the analysed requests
  intervals,   \* the planned intervals
  phase        \* convert, analyze, plan, planned or rejected

vars == <<events, proxy, rows, requests, intervals, phase>>

Init ==
  /\ events \in [Round -> UNION {[1..n -> Event] : n \in 0..MaxEvents}]
  /\ proxy = << >> /\ rows = << >> /\ requests = << >> /\ intervals = << >>
  /\ phase = "convert"
-----------------------------------------------------------------------------
(* _timing_proxy(): the last input event before the first output event, and *)
(* the last output event.  Events compare by (timestamp, index).            *)

Earlier(e, i, j) == e[i].time < e[j].time \/ (e[i].time = e[j].time /\ i < j)
Earliest(e, S) == CHOOSE i \in S : \A j \in S : i = j \/ Earlier(e, i, j)
Last(e, S) == CHOOSE i \in S : \A j \in S : i = j \/ Earlier(e, j, i)
Of(e, type) == {i \in DOMAIN e : e[i].type = type}

InputsBefore(e) == {i \in Of(e, "input") : Earlier(e, i, Earliest(e, Of(e, "output")))}

Invalid == [valid |-> FALSE]
TimingProxy(e) ==
  IF Of(e, "output") = {} THEN Invalid
  ELSE IF InputsBefore(e) = {} THEN Invalid
  ELSE LET ready == Last(e, InputsBefore(e))
           end == Last(e, Of(e, "output"))
       IN  IF e[end].time < e[ready].time THEN Invalid
           ELSE [valid |-> TRUE, ready |-> e[ready].time, end |-> e[end].time]

\* The gap of a round with a negative one is dropped, and its timing counts
\* as invalid for the round after it too.  The first round has gap 0.
Measured(gap) == IF gap >= 0 THEN [valid |-> TRUE, gap |-> gap] ELSE [valid |-> FALSE, gap |-> None]

RowFor(t, i) ==
  IF i = 1 THEN [valid |-> t.valid, gap |-> 0]
  ELSE IF t.valid /\ rows[i - 1].valid THEN Measured(t.ready - proxy[i - 1].end)
  ELSE [valid |-> t.valid, gap |-> None]

Convert ==
  LET i == Len(rows) + 1
      t == TimingProxy(events[i])
  IN
  /\ phase = "convert"
  /\ proxy' = Append(proxy, t)
  /\ rows' = Append(rows, RowFor(t, i))
  /\ phase' = IF i = Rounds THEN "analyze" ELSE phase
  /\ UNCHANGED <<events, requests, intervals>>
-----------------------------------------------------------------------------
(* analyze_explicit_trace_ir() and effective_interval_seconds()            *)

RequestFor(i) ==
  [after |-> IF i = 1 THEN None ELSE i - 1,
   delay |-> IF rows[i].gap = None THEN 0 ELSE rows[i].gap,
   dependency |-> IF i = 1 THEN "session_root" ELSE "same_agent",
   gap |-> IF i = 1 THEN None ELSE rows[i].gap]

AnalyzeExplicit ==
  /\ phase = "analyze"
  /\ requests' = [i \in Round |-> RequestFor(i)]
  /\ phase' = "plan"
  /\ UNCHANGED <<events, proxy, rows, intervals>>

\* "sampled" stands for a value of the lognormal model; None is the error.
Interval(q) ==
  IF q.after = None /\ q.delay = 0 THEN 0
  ELSE IF q.dependency # "same_agent" THEN q.delay
  ELSE IF Mode = "trace" THEN q.gap ELSE "sampled"

Plan ==
  /\ phase = "plan"
  /\ intervals' = [i \in Round |-> Interval(requests[i])]
  /\ phase' = IF \E i \in Round : intervals'[i] = None THEN "rejected" ELSE "planned"
  /\ UNCHANGED <<events, proxy, rows, requests>>

Next == Convert \/ AnalyzeExplicit \/ Plan

Spec == Init /\ [][Next]_vars
-----------------------------------------------------------------------------
\* The interval a proxy spans is inside its round: no output event precedes
\* its start, and no event of the answer follows its end.
ProxySpansRound ==
  \A i \in DOMAIN proxy : proxy[i].valid =>
    /\ proxy[i].ready <= proxy[i].end
    /\ \A k \in Of(events[i], "output") : proxy[i].ready <= events[i][k].time /\ events[i][k].time <= proxy[i].end

\* In trace mode a plan sleeps only times that were measured: the interval
\* before every continuation lies between two rounds with valid proxies.
IntervalsAreMeasured ==
  phase = "planned" /\ Mode = "trace" =>
    \A i \in 2..Rounds :
      /\ proxy[i].valid /\ proxy[i - 1].valid
      /\ intervals[i] = proxy[i].ready - proxy[i - 1].end /\ intervals[i] >= 0
=============================================================================
