----------------------------- MODULE CapacityFit ------------------------------
(***************************************************************************)
(* The choice of the Programs that capacity repair pauses, in              *)
(* agentinfer/scheduling/progress_ttl/strategy.py:                         *)
(* _select_capacity_fit() walks over the Programs of one progress tier and *)
(* keeps, for every amount of tokens that can be freed below the deficit,  *)
(* the smallest selection that frees it, and the best selection that frees *)
(* enough; _select_layered_capacity_fit() takes whole tiers until one can  *)
(* cover what is left.  A step handles one Program.                        *)
(***************************************************************************)
EXTENDS Integers, Sequences, SequencesExt, FiniteSets, FiniteSetsExt, TLC

CONSTANTS
  Programs,    \* numbered in the order of their references
  Layers,      \* how many tiers
  MaxTokens, MaxDeficit,
  None

\* What the constants may be.
CapacityFitAssumption ==
  /\ Programs \subseteq Nat \ {0} /\ IsFiniteSet(Programs)
  /\ Layers \in Nat \ {0} /\ MaxTokens \in Nat /\ MaxDeficit \in Nat

VARIABLES
  tokens, tier,      \* of every Program; a tier of 0 is no candidate
  deficit,
  layer, selected, remaining,    \* of the layered selection
  rest, reachable, best,         \* of the selection within a tier
  done, answer                   \* whether it returned, and what

inputs == <<tokens, tier, deficit>>
vars == <<inputs, layer, selected, remaining, rest, reachable, best, done, answer>>

Tier(n) == {p \in Programs : tier[p] = n}
Freed(S) == MapThenFoldSet(+, 0, LAMBDA p : tokens[p], LAMBDA T : CHOOSE x \in T : TRUE, S)
Empty == 0 :> <<>>

Init ==
  /\ tokens \in [Programs -> 0..MaxTokens]
  /\ tier \in [Programs -> 0..Layers]
  /\ deficit \in 1..MaxDeficit
  /\ layer = 1 /\ selected = <<>> /\ remaining = deficit
  /\ rest = Tier(1) /\ reachable = Empty /\ best = None
  /\ done = FALSE /\ answer = None
-----------------------------------------------------------------------------
\* Tuples of references, compared as Python compares them.
Before(a, b) ==
  \/ Len(a) < Len(b) /\ a = SubSeq(b, 1, Len(a))
  \/ \E i \in 1..Min({Len(a), Len(b)}) :
       a[i] < b[i] /\ SubSeq(a, 1, i - 1) = SubSeq(b, 1, i - 1)

\* Of two selections that free the same: fewer Programs, then the references.
Smaller(a, b) == Len(a) < Len(b) \/ (Len(a) = Len(b) /\ Before(a, b))

Covers(f) == f >= remaining

Better(f, c, b) == b = None \/ f < b.freed \/ (f = b.freed /\ Smaller(c, b.chosen))

\* One Program of the tier: every amount reachable before is tried with it.
Consider(p) ==
  LET t == tokens[p]
      tried == {f \in DOMAIN reachable : Covers(f + t)}
      \* the candidates that cover, the best of them by (freed, size, references)
      BestOf(b, f) == LET c == Append(reachable[f], p)
                      IN  IF Better(f + t, c, b) THEN [freed |-> f + t, chosen |-> c] ELSE b
      \* the amounts that stay below, with the smaller selection for each
      below == {f + t : f \in DOMAIN reachable \ tried}
      Keep(f) == LET c == IF f - t \in DOMAIN reachable \ tried THEN Append(reachable[f - t], p) ELSE None
                 IN  IF f \notin DOMAIN reachable THEN c
                     ELSE IF c # None /\ Smaller(c, reachable[f]) THEN c
                     ELSE reachable[f]
  IN  /\ best' = FoldLeft(BestOf, best, SetToSortSeq(tried, <))
      /\ reachable' = [f \in DOMAIN reachable \cup below |-> Keep(f)]

Step ==
  /\ ~done /\ rest # {}
  /\ Consider(Min(rest))
  /\ rest' = rest \ {Min(rest)}
  /\ UNCHANGED <<inputs, layer, selected, remaining, done, answer>>

Fits ==
  /\ ~done /\ rest = {} /\ best # None
  /\ done' = TRUE /\ answer' = selected \o best.chosen
  /\ UNCHANGED <<inputs, layer, selected, remaining, rest, reachable, best>>

Left == remaining - Freed(Tier(layer))

Taken == selected \o SetToSortSeq(Tier(layer), <)

\* The tier does not cover the deficit: all of it goes, and the next is tried.
NextTier ==
  /\ ~done /\ rest = {} /\ best = None /\ layer < Layers
  /\ layer' = layer + 1
  /\ selected' = Taken
  /\ remaining' = Left
  /\ rest' = Tier(layer + 1) /\ reachable' = Empty
  /\ UNCHANGED <<inputs, best, done, answer>>

Unfit ==
  /\ ~done /\ rest = {} /\ best = None /\ layer = Layers
  /\ done' = TRUE /\ answer' = None
  /\ UNCHANGED <<inputs, layer, selected, remaining, rest, reachable, best>>

Next == Step \/ Fits \/ NextTier \/ Unfit
Spec == Init /\ [][Next]_vars
-----------------------------------------------------------------------------
(* Properties.                                                             *)

Upto(n) == UNION {Tier(k) : k \in 1..n}

\* The reference: every selection of the current tier that covers.
Covering == {S \in SUBSET Tier(layer) : Freed(S) >= remaining}
AsRefs(S) == SetToSortSeq(S, <)

\* Type invariant: what is remembered for an amount frees that amount.
CapacityFitTypeOK ==
  /\ \A f \in DOMAIN reachable : f < remaining /\ Freed(ToSet(reachable[f])) = f
  /\ best # None => Freed(ToSet(best.chosen)) = best.freed
  /\ answer # None => ToSet(answer) \subseteq Programs

\* Within a tier the selection is the best of all subsets: it frees the least
\* that suffices, with the fewest Programs, and is the first such.
FitIsOptimal ==
  rest = {} =>
    IF Covering = {} THEN best = None
    ELSE /\ best # None /\ ToSet(best.chosen) \in Covering
         /\ \A S \in Covering :
              \/ best.freed < Freed(S)
              \/ best.freed = Freed(S) /\ (Smaller(best.chosen, AsRefs(S)) \/ best.chosen = AsRefs(S))

\* What is paused covers the deficit, and only when all candidates together
\* cannot is nothing chosen.
ReleaseSuffices ==
  done => IF answer = None THEN Freed(Upto(Layers)) < deficit
          ELSE Freed(ToSet(answer)) >= deficit

\* A Program of a later tier is paused only when all Programs of the tiers
\* before it are, and do not suffice.
OlderTiersFirst ==
  done /\ answer # None =>
    \A p \in ToSet(answer) :
      /\ Upto(tier[p] - 1) \subseteq ToSet(answer)
      /\ Freed(Upto(tier[p] - 1)) < deficit
=============================================================================
