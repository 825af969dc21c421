----------------------------- MODULE RollingStats -----------------------------
(***************************************************************************)
(* The rolling statistics of the Progress-TTL policy,                      *)
(* ProgressTTLGlobalFactors in                                             *)
(* agentinfer/scheduling/progress_ttl/rolling_stats.py: bounded windows of *)
(* request samples, TTL pauses, request intervals and tool-call intervals, *)
(* with running sums, averages and the AUTO switch derived from them.      *)
(*                                                                         *)
(* Numbers are integers and an average is the pair of its sum and count.   *)
(* The fields of a request sample that are only cut off at zero (latency,  *)
(* gap, queue, programs, rounds, churn) are one field, "other".  The       *)
(* lognormal fit is real-valued: here it is absent, degenerate or fitted,  *)
(* and a fitted one may recommend any TTL of the configured range.         *)
(***************************************************************************)
EXTENDS Integers, Sequences, SequencesExt, FiniteSets, FiniteSetsExt, Folds

CONSTANTS
  Window,                    \* request_window_size
  FractionNum, FractionDen,  \* min_update_window_fraction
  Feeds,                     \* the windows that receive observations
  Requests,                  \* raw request observations
  Rounds,                    \* served_rounds of a pause
  MaxClock,                  \* bound on the times of the request intervals
  Gaps, Impacts, TTLs,       \* of a tool-call interval
  MinTTL, MaxTTL, RatioNum, RatioDen, EnableAt, DisableAt,   \* of the configuration
  None

\* What the constants may be.
RollingStatsAssumption ==
  /\ {Window, FractionNum, FractionDen, MaxClock, RatioDen} \subseteq Nat \ {0}
  /\ FractionNum <= FractionDen /\ RatioNum \in 0..RatioDen
  /\ MinTTL \in Nat /\ MaxTTL \in Nat /\ MinTTL <= MaxTTL
  /\ 0 <= DisableAt /\ DisableAt <= EnableAt

Plain == {"prompt", "cached", "uncached", "total", "other"}
Optional == {"completion", "decode"}

VARIABLES
  samples, sums, counts,   \* the request window, its sums, the optional values in it
  avg,                     \* the published averages
  pauses, pause_sum, pause_avg,
  intervals,               \* of requests, for the throughput
  ints,                    \* the continuity window
  fit, utility, enabled    \* of the continuity window

request == <<samples, sums, counts, avg>>
pause == <<pauses, pause_sum, pause_avg>>
continuity == <<ints, fit, utility, enabled>>
vars == <<request, pause, intervals, continuity>>

Init ==
  /\ samples = <<>>
  /\ sums = [f \in Plain \cup Optional |-> 0]
  /\ counts = [f \in Optional |-> 0]
  /\ avg = [f \in Plain \cup Optional \cup {"growth"} |-> None]
  /\ pauses = <<>> /\ pause_sum = 0 /\ pause_avg = None
  /\ intervals = <<>>
  /\ ints = <<>> /\ fit = "none" /\ utility = 0 /\ enabled = FALSE

Pos(n) == IF n > 0 THEN n ELSE 0
Least(a, b) == IF a < b THEN a ELSE b
Greatest(a, b) == IF a > b THEN a ELSE b

SumOver(S, f(_)) == MapThenFoldSet(+, 0, f, LAMBDA T : CHOOSE x \in T : TRUE, S)
SumSeq(q, f(_)) == SumOver(DOMAIN q, LAMBDA i : f(q[i]))

\* _min_samples_for_update().
MinSamples == Greatest(1, (Window * FractionNum) \div FractionDen)
-----------------------------------------------------------------------------
(* The request window.                                                     *)

\* _sanitize_completion_tokens().
SanitizeCompletion(completion, prompt, total) ==
  IF \/ total <= 0
     \/ prompt <= 0 /\ Pos(completion) >= total
     \/ Pos(completion) > total
  THEN None ELSE Pos(completion)

\* _sanitize_input_token_growth(): a growth as large as the context before
\* is a replaced context and no growth.
SanitizeGrowth(growth, previous) ==
  IF previous > 0 /\ growth > 0 /\ growth < previous THEN growth ELSE None

\* _sanitize_request_sample().
Sanitize(r) ==
  LET prompt == Pos(r.prompt)
      cached == Least(prompt, Pos(r.cached))
      total == Pos(r.total)
  IN  [prompt |-> prompt, cached |-> cached, uncached |-> prompt - cached, total |-> total,
       completion |-> SanitizeCompletion(r.completion, prompt, total),
       growth |-> SanitizeGrowth(r.growth, Pos(total - Pos(r.growth))),
       other |-> Pos(r.other), decode |-> r.decode]

Add(sum, s) == [f \in Plain \cup Optional |-> sum[f] + (IF s[f] = None THEN 0 ELSE s[f])]
AddCount(n, s) == [f \in Optional |-> n[f] + (IF s[f] = None THEN 0 ELSE 1)]
Subtract(sum, s) == [f \in Plain \cup Optional |-> sum[f] - (IF s[f] = None THEN 0 ELSE s[f])]
SubtractCount(n, s) == [f \in Optional |-> n[f] - (IF s[f] = None THEN 0 ELSE 1)]

OverPresent(sum, n, f, size) == <<sum[f], n[f]>>

\* _refresh_request_averages_if_ready(): a field no sample of the window has
\* keeps its average.
Refresh(q, sum, n) ==
  LET growths == SelectSeq(q, LAMBDA s : s.growth # None)
  IN  IF Len(q) < MinSamples THEN avg
      ELSE [f \in DOMAIN avg |->
              IF f \in Plain THEN <<sum[f], Len(q)>>
              ELSE IF f = "growth"
                   THEN IF growths = <<>> THEN avg[f]
                        ELSE <<SumSeq(growths, LAMBDA s : s.growth), Len(growths)>>
              ELSE IF n[f] > 0 THEN OverPresent(sum, n, f, Len(q)) ELSE avg[f]]

UpdateRequest(r) ==
  LET s == Sanitize(r)
      q == Append(samples, s)
      full == Len(q) > Window
      sum == IF full THEN Subtract(Add(sums, s), Head(q)) ELSE Add(sums, s)
      n == IF full THEN SubtractCount(AddCount(counts, s), Head(q)) ELSE AddCount(counts, s)
      kept == IF full THEN Tail(q) ELSE q
  IN  /\ "request" \in Feeds
      /\ samples' = kept /\ sums' = sum /\ counts' = n
      /\ avg' = Refresh(kept, sum, n)
      /\ UNCHANGED <<pause, intervals, continuity>>
-----------------------------------------------------------------------------
(* TTL pauses and request intervals.                                       *)

EvictedSum(q, sum) == IF Len(q) > Window THEN sum - Head(q) ELSE sum
Bounded(q) == IF Len(q) > Window THEN Tail(q) ELSE q

UpdatePause(rounds) ==
  LET q == Append(pauses, Pos(rounds))
  IN  /\ "pause" \in Feeds
      /\ pauses' = Bounded(q)
      /\ pause_sum' = EvictedSum(q, pause_sum + Pos(rounds))
      /\ pause_avg' = IF Len(pauses') >= MinSamples THEN <<pause_sum', Len(pauses')>> ELSE pause_avg
      /\ UNCHANGED <<request, intervals, continuity>>

\* A request that finished later may have started earlier.
ObserveInterval(start, finish) ==
  /\ "interval" \in Feeds
  /\ start <= finish
  /\ \A i \in DOMAIN intervals : intervals[i][2] <= finish
  /\ intervals' = Bounded(Append(intervals, <<start, finish>>))
  /\ UNCHANGED <<request, pause, continuity>>

\* Mutant of LatestEnd: the last interval of a busy period ends it.
LastEnd(end, iv) == iv[2]
LatestEnd(end, iv) == Greatest(end, iv[2])

\* request_throughput_per_second: the busy time, the intervals in the order
\* of their starts.
CoveredSeconds ==
  LET sorted == SetToSortSeq(ToSet(intervals),
                   LAMBDA a, b : a[1] < b[1] \/ (a[1] = b[1] /\ a[2] < b[2]))
      Merge(acc, iv) ==
        IF iv[1] > acc.end
        THEN [seconds |-> acc.seconds + acc.end - acc.start, start |-> iv[1], end |-> iv[2]]
        ELSE [acc EXCEPT !.end = LatestEnd(@, iv)]
      merged == FoldLeft(Merge, [seconds |-> 0, start |-> sorted[1][1], end |-> sorted[1][2]], Tail(sorted))
  IN  IF intervals = <<>> THEN 0 ELSE merged.seconds + merged.end - merged.start
-----------------------------------------------------------------------------
(* The continuity window and the AUTO switch.                              *)

Complete(q) == Len(q) >= Window

\* A hit saves the impact and costs the interval, an expiry costs the TTL.
SampleUtility(gap, impact, ttl) == IF gap <= ttl THEN impact - gap ELSE -ttl

\* _refresh_continuity_fit(): the positive intervals give no distribution,
\* one without spread, or a fitted one.
Fit(q) ==
  LET gaps == {i \in DOMAIN q : q[i].gap > 0}
  IN  IF Cardinality(gaps) < 2 THEN "none"
      ELSE IF Cardinality({q[i].gap : i \in gaps}) = 1 THEN "degenerate"
      ELSE "fitted"

Clamp(impact) == Least(MaxTTL, Greatest(MinTTL, impact))

\* recommended_ttl_seconds() and estimate_ttl(): the TTLs that may be given
\* for an impact, never more than its share and none during warm-up.
Estimates(q, f, impact) ==
  LET cap == (impact * RatioNum) \div RatioDen
  IN  IF ~Complete(q) THEN {0}
      ELSE IF f # "fitted" THEN {Least(Clamp(impact), cap)}
      ELSE {0} \cup {Least(t, cap) : t \in MinTTL..MaxTTL}

WithTTL(s, t) == [s EXCEPT !.ttl = t, !.utility = SampleUtility(s.gap, s.impact, t)]

\* recalibrate_continuity_window(): r is q with every TTL estimated again.
Recalibrated(q, f, r) ==
  \A i \in DOMAIN q : \E t \in Estimates(q, f, q[i].impact) : r[i] = WithTTL(q[i], t)

TotalUtility(q) == SumSeq(q, LAMBDA s : s.utility)

\* update_continuity_mode().
Hysteresis(on, u) == IF on THEN u >= DisableAt ELSE u >= EnableAt

\* What the strategy does with a finished request whose Program had a TTL:
\* observe_continuity(), the recalibration when the window completes, and
\* the AUTO switch.
ObserveContinuity(gap, impact, ttl) ==
  LET q == Bounded(Append(ints, [gap |-> gap, impact |-> impact, ttl |-> ttl,
                                 utility |-> SampleUtility(gap, impact, ttl)]))
      f == IF Complete(q) THEN Fit(q) ELSE fit
      first == ~Complete(ints) /\ Complete(q)
  IN  /\ "continuity" \in Feeds
      /\ gap > 0
      /\ \E r \in IF first THEN [1..Len(q) -> {WithTTL(q[i], t) : i \in DOMAIN q, t \in 0..MaxTTL}]
                           ELSE {q} :
           /\ first => Recalibrated(q, f, r)
           /\ ints' = r
           /\ utility' = IF Complete(q) THEN TotalUtility(r) ELSE utility
      /\ fit' = f
      /\ enabled' = IF Complete(q) THEN Hysteresis(enabled, utility') ELSE enabled
      /\ UNCHANGED <<request, pause, intervals>>

Next ==
  \/ \E r \in Requests : UpdateRequest(r)
  \/ \E n \in Rounds : UpdatePause(n)
  \/ \E a, b \in 0..MaxClock : ObserveInterval(a, b)
  \/ \E g \in Gaps, i \in Impacts, t \in TTLs : ObserveContinuity(g, i, t)

Spec == Init /\ [][Next]_vars
-----------------------------------------------------------------------------
(* Properties.                                                             *)

\* Type invariant.
RollingStatsTypeOK ==
  /\ Len(samples) <= Window /\ Len(pauses) <= Window /\ Len(intervals) <= Window /\ Len(ints) <= Window
  /\ \A i \in DOMAIN samples : samples[i].cached <= samples[i].prompt
  /\ fit \in {"none", "degenerate", "fitted"} /\ enabled \in BOOLEAN

\* The running sums never drift from the window: after any number of
\* evictions they are the sums over the samples that are left.
SumsMatchWindow ==
  /\ \A f \in Plain : sums[f] = SumSeq(samples, LAMBDA s : s[f])
  /\ \A f \in Optional :
       LET present == SelectSeq(samples, LAMBDA s : s[f] # None)
       IN  sums[f] = SumSeq(present, LAMBDA s : s[f]) /\ counts[f] = Len(present)

\* The averages the policy decides with are the means of the current window,
\* each over the samples that have the field, and none is published before
\* the window has enough samples.
AveragesMatchWindow ==
  /\ Len(samples) < MinSamples => \A f \in DOMAIN avg : avg[f] = None
  /\ Len(samples) >= MinSamples =>
       \A f \in DOMAIN avg :
         LET present == IF f \in Plain THEN samples ELSE SelectSeq(samples, LAMBDA s : s[f] # None)
         IN  present # <<>> => avg[f] = <<SumSeq(present, LAMBDA s : s[f]), Len(present)>>

\* A published TTL-pause average is that of the current window.
PauseAverageCurrent ==
  pause_avg # None => pause_avg = <<SumSeq(pauses, LAMBDA r : r), Len(pauses)>>

\* The throughput's busy time is the time some request of the window was in
\* flight, however the requests overlap.
CoveredIsUnion ==
  CoveredSeconds = Cardinality({c \in 0..MaxClock : \E i \in DOMAIN intervals :
                                   intervals[i][1] <= c /\ c < intervals[i][2]})

\* The utility that drives AUTO is that of the window, with the TTLs as they
\* were estimated last.
UtilityMatchesWindow ==
  Complete(ints) =>
    utility = SumSeq(ints, LAMBDA s : IF s.gap <= s.ttl THEN s.impact - s.gap ELSE -s.ttl)

\* AUTO never rests on the wrong side of a threshold.
ModeMatchesUtility ==
  Complete(ints) => IF enabled THEN utility >= DisableAt ELSE utility < EnableAt

\* Between the thresholds nothing is switched.
SwitchesAtThresholds ==
  enabled # enabled' => IF enabled' THEN utility' >= EnableAt ELSE utility' < DisableAt

\* The first utility AUTO decides with holds no TTL from the warm-up: every
\* one was estimated again and respects the cap.
WarmUpForgotten ==
  ~Complete(ints) /\ Complete(ints') =>
    \A i \in DOMAIN ints' : RatioDen * ints'[i].ttl <= RatioNum * ints'[i].impact
=============================================================================
