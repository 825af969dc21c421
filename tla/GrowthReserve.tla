---------------------------- MODULE GrowthReserve -----------------------------
(***************************************************************************)
(* The capacity projections of the Progress-TTL policy,                    *)
(* agentinfer/scheduling/progress_ttl/strategy.py: a Program is activated  *)
(* when its context, its own growth over a service segment and the growth  *)
(* still owed to the active Programs fit, or when the gain of a larger     *)
(* batch covers what that costs them; and the force-resume timeout of a    *)
(* Program follows from the work ahead of it.                              *)
(*                                                                         *)
(* The rolling estimates are constants here and a round grows a context by *)
(* at most the estimate, so that what the reserve promises can be checked. *)
(* A rational is a numerator and a denominator.  Privileges and forced     *)
(* resumes, which bypass the projection, are in module ProgressTTL.        *)
(***************************************************************************)
EXTENDS Integers, FiniteSets, FiniteSetsExt

CONSTANTS
  Programs,                 \* numbered in resume order
  Total,                    \* effective capacity in tokens
  Buffer,                   \* decode_buffer_tokens
  Growth, Target,           \* tokens per round, rounds of a segment
  MaxContext,               \* bound on a context
  MaxRounds,                \* bound on the rounds of a segment
  BatchGain,                \* enable_batch_gain_admission
  DecodeSeconds, StepFixed, StepPerRequest, StepPerToken,  \* decode surface
  PrefillFixed, PrefillPerToken,                            \* recovery cost
  Scale, Throughput, MinTimeout, MaxTimeout                 \* force resume

\* What the constants may be.
GrowthReserveAssumption ==
  /\ Programs \subseteq Nat \ {0} /\ IsFiniteSet(Programs)
  /\ {Total, Buffer, Growth, Target, MaxContext, MaxRounds} \subseteq Nat
  /\ BatchGain \in BOOLEAN
  /\ {DecodeSeconds, StepPerRequest, StepPerToken, PrefillFixed, PrefillPerToken, Scale} \subseteq Nat
  /\ {StepFixed, Throughput, MinTimeout, MaxTimeout} \subseteq Nat \ {0} /\ MinTimeout <= MaxTimeout

VARIABLES
  prog,       \* [active, reasoning, context, rounds] of every Program
  native,     \* whether the engine reports its KV usage
  gained      \* the Programs activated beyond the reserve

vars == <<prog, native, gained>>

Init ==
  /\ prog \in [Programs -> [active : {FALSE}, reasoning : {TRUE}, context : 1..MaxContext, rounds : {0}]]
  /\ native \in BOOLEAN
  /\ gained = {}

SumOf(S, f(_)) == MapThenFoldSet(+, 0, f, LAMBDA T : CHOOSE x \in T : TRUE, S)
Pos(n) == IF n > 0 THEN n ELSE 0
Least(a, b) == IF a < b THEN a ELSE b

Active == {p \in Programs : prog[p].active}
Waiting == {p \in Programs : ~prog[p].active /\ prog[p].reasoning}
-----------------------------------------------------------------------------
(* The projection.                                                         *)

\* _capacity_tokens() and _required_tokens().
CapacityTokens(p) == prog[p].context + Buffer

\* The engine counts the running and queued requests; what acting Programs
\* hold is added.
NativeUsed ==
  SumOf({p \in Active : prog[p].reasoning}, LAMBDA p : prog[p].context)
    + SumOf({p \in Active : ~prog[p].reasoning}, CapacityTokens)

\* _remaining_tokens().
Remaining == Total - (IF native THEN NativeUsed ELSE SumOf(Active, CapacityTokens))

RoundsLeft(p) == Pos(Target - prog[p].rounds)

\* _continuous_growth_reserve_tokens().
Reserve(active, c) == Growth * (Target + SumOf(active \ {c}, RoundsLeft))

Fits(active, c, remaining) == remaining >= CapacityTokens(c) + Reserve(active, c)
-----------------------------------------------------------------------------
(* Batch gain: all amounts over a common denominator.                      *)

\* _cold_prefill_seconds() with the decode interference.
RecoveryCost(p) == IF prog[p].context <= 0 THEN 0 ELSE PrefillFixed + PrefillPerToken * prog[p].context

StepSeconds(n, context) == StepFixed + StepPerRequest * n + StepPerToken * context

\* _batch_gain_covers_recovery() with _decode_throughput(): the relative gain
\* of one more request, against the candidate's recovery and the loss below.
Gain(c) ==
  LET running == {p \in Active : prog[p].reasoning /\ p # c}
      n == Cardinality(running)
      context == SumOf(running, LAMBDA p : prog[p].context)
      before == StepSeconds(n, context)
      after == StepSeconds(n + 1, context + prog[c].context)
  IN  [num |-> DecodeSeconds * Pos((n + 1) * before - n * after), den |-> n * after]

Protected(c) == {p \in Active \ {c} : RoundsLeft(p) > 0}

\* The rounds of growth the active Programs can still count on, in tokens.
ProtectedTokens(c, tokens) == Least(Growth * SumOf(Protected(c), RoundsLeft), Pos(tokens))
Before(c, remaining) == ProtectedTokens(c, remaining)
\* Mutant of After: the candidate's own growth is not charged.
AfterContext(c, remaining) == ProtectedTokens(c, remaining - CapacityTokens(c))
After(c, remaining) == ProtectedTokens(c, remaining - CapacityTokens(c) - Growth * Target)

\* _continuity_loss_seconds(): an infinite loss has denominator 0.
Loss(c, remaining) ==
  LET lost == Before(c, remaining) - After(c, remaining)
      costs == SumOf(Protected(c), RecoveryCost)
  IN  IF Growth = 0 \/ Target = 0 \/ Protected(c) = {} \/ lost <= 0 \/ costs <= 0
      THEN [num |-> 0, den |-> 1]
      ELSE [num |-> lost * costs, den |-> After(c, remaining) * Cardinality(Protected(c))]

GainCovers(c, remaining) ==
  LET g == Gain(c)  l == Loss(c, remaining)
  IN  /\ BatchGain /\ g.den > 0 /\ l.den > 0
      /\ g.num * l.den >= (RecoveryCost(c) * l.den + l.num) * g.den
-----------------------------------------------------------------------------
(* Activation, by admission or by the resume pass; the Program starts a    *)
(* fresh segment.                                                          *)

Activated(c) == [prog EXCEPT ![c].active = TRUE, ![c].rounds = 0]

\* direct_capacity, progress_ttl_arrival_resume, progress_ttl_resume.
Activate(c) ==
  /\ c \in Waiting
  /\ Fits(Active, c, Remaining)
  /\ prog' = Activated(c)
  /\ UNCHANGED <<native, gained>>

\* batch_gain_over_recovery_cost, progress_ttl_resume_batch_gain.
ActivateForGain(c) ==
  /\ c \in Waiting
  /\ ~Fits(Active, c, Remaining)
  /\ Remaining >= CapacityTokens(c) /\ GainCovers(c, Remaining)
  /\ gained' = gained \cup {c}
  /\ prog' = Activated(c)
  /\ UNCHANGED native

\* The resume pass pauses acting Programs to make room (progress_ttl_resume_
\* reclaim); they go even when the room then does not suffice.
Reclaim(c, victims) ==
  /\ c \in Waiting
  /\ ~Fits(Active, c, Remaining) /\ ~(Remaining >= CapacityTokens(c) /\ GainCovers(c, Remaining))
  /\ SumOf(victims, CapacityTokens) >= CapacityTokens(c) + Reserve(Active, c) - Remaining
  /\ LET active == Active \ victims
         room == Remaining + SumOf(victims, CapacityTokens)
         paused == [p \in Programs |-> IF p \in victims THEN [prog[p] EXCEPT !.active = FALSE, !.rounds = 0]
                                       ELSE prog[p]]
     IN  prog' = IF Fits(active, c, room)
                 THEN [paused EXCEPT ![c].active = TRUE, ![c].rounds = 0] ELSE paused
  /\ gained' = gained \ victims
  /\ UNCHANGED native

\* The rest of the system: a round is served, the next request arrives, a
\* Program is paused or starts over.
FinishRound(p) ==
  /\ prog[p].active /\ prog[p].reasoning /\ prog[p].rounds < MaxRounds
  /\ \E g \in 0..Growth :
       /\ prog[p].context + g <= MaxContext + Growth * MaxRounds
       /\ prog' = [prog EXCEPT ![p].context = @ + g, ![p].rounds = @ + 1, ![p].reasoning = FALSE]
  /\ UNCHANGED <<native, gained>>

Arrive(p) ==
  /\ ~prog[p].reasoning
  /\ prog' = [prog EXCEPT ![p].reasoning = TRUE]
  /\ UNCHANGED <<native, gained>>

Pause(p) ==
  /\ prog[p].active /\ ~prog[p].reasoning
  /\ prog' = [prog EXCEPT ![p].active = FALSE, ![p].rounds = 0]
  /\ gained' = gained \ {p}
  /\ UNCHANGED native

Next ==
  \/ \E c \in Programs : Activate(c) \/ ActivateForGain(c) \/ FinishRound(c) \/ Arrive(c) \/ Pause(c)
  \/ \E c \in Programs : \E victims \in SUBSET {p \in Active : ~prog[p].reasoning} \ {{}} : Reclaim(c, victims)

Spec == Init /\ [][Next]_vars
-----------------------------------------------------------------------------
(* The force-resume timeout, _dynamic_force_resume_timeout().              *)

ActiveWork == SumOf(Active, LAMBDA p : IF prog[p].reasoning /\ RoundsLeft(p) < 1 THEN 1 ELSE RoundsLeft(p))

Ahead(c) == {p \in Waiting : p < c}

PoolWork(c) == SumOf(Ahead(c), LAMBDA p : IF RoundsLeft(p) < 1 THEN 1 ELSE RoundsLeft(p))

Timeout(c) ==
  LET raw == (Scale * (ActiveWork + PoolWork(c))) \div Throughput
  IN  Least(MaxTimeout, IF raw < MinTimeout THEN MinTimeout ELSE raw)
-----------------------------------------------------------------------------
(* Properties.                                                             *)

\* Type invariant.
GrowthReserveTypeOK ==
  /\ \A p \in Programs : prog[p].context \in 0..(MaxContext + Growth * MaxRounds) /\ prog[p].rounds \in 0..MaxRounds
  /\ \A p \in Programs : ~prog[p].active => prog[p].rounds = 0

\* What the reserve promises: unless a batch gain went beyond it, the active
\* Programs fit with all the growth they may still have in their segments.
GrowthFits ==
  gained = {} =>
    SumOf({p \in Active : prog[p].rounds <= Target}, LAMBDA p : prog[p].context + Growth * RoundsLeft(p)) <= Total

\* A batch gain never uses up the growth of the active Programs: there is
\* room left beyond the candidate's context and growth.
GainLeavesRoom ==
  \A c \in gained' \ gained :
    Protected(c) # {} => Remaining - CapacityTokens(c) - Growth * Target > 0

\* Programs that are resumed first have no later force-resume deadline.
TimeoutsFollowOrder == \A a, b \in Waiting : a <= b => Timeout(a) <= Timeout(b)
=============================================================================
