----------------------------- MODULE PromptTokens -----------------------------
(***************************************************************************)
(* _token_prompt() of PromptBuilder (agentinfer/agentbench/replay/         *)
(* prompt.py) over the turns of one actor: the next Prompt is the previous *)
(* one with the actual output tokens appended, brought to the target       *)
(* length by adding private filler or by cutting filler of earlier turns.  *)
(* mutable_token_spans records where filler is, as half-open intervals of  *)
(* zero-based positions.                                                   *)
(*                                                                         *)
(* A token is <<kind, turn, i>>: where it came from, not its value.        *)
(***************************************************************************)
EXTENDS Integers, Sequences, FiniteSets, SequencesExt

CONSTANTS
  MaxShared,   \* bound: tokens of the root segments
  MaxOutput,   \* bound: output tokens of a turn
  MaxTokens,   \* bound: planned_input_tokens
  MaxTurns,    \* bound: turns of the actor
  TrimLimit    \* context_micro_trim_limit()

VARIABLES
  tokens,      \* token_ids of the latest Prompt
  spans,       \* its mutable_token_spans
  before,      \* what it was built from: the previous Prompt and its output
  trailing,    \* tokens of the trailing system segment
  target,      \* its planned_input_tokens
  preserved,   \* preserved_prefix_tokens
  turn,
  state        \* "next", "failed"

vars == <<tokens, spans, before, trailing, target, preserved, turn, state>>

Made(kind, count) == [i \in 1..count |-> <<kind, turn, i>>]
Least(a, b) == IF a < b THEN a ELSE b

Init ==
  /\ tokens = << >> /\ spans = << >> /\ before = << >>
  /\ trailing = 0 /\ target = 0 /\ preserved = 0 /\ turn = 0
  /\ state = "next"
-----------------------------------------------------------------------------
\* Cutting the tail of one span moves every later one.
MoveLater(s, index, cut, removed) ==
  [j \in DOMAIN s |-> IF j < index THEN s[j]
                      ELSE IF j = index THEN <<s[j][1], cut>>
                      ELSE <<s[j][1] - removed, s[j][2] - removed>>]

CutOut(s, cut, end) == SubSeq(s, 1, cut) \o SubSeq(s, end + 1, Len(s))

KeepTo(n, cut) == Least(n, cut)

\* One iteration of the trim loop; it stops when nothing is left to remove.
TrimSpan(acc, index) ==
  LET start == acc.spans[index][1]
      end == acc.spans[index][2]
      removed == Least(end - start, acc.deficit)
      cut == end - removed
  IN  IF acc.deficit = 0 THEN acc
      ELSE [tokens |-> CutOut(acc.tokens, cut, end),
            spans |-> MoveLater(acc.spans, index, cut, removed),
            preserved |-> KeepTo(acc.preserved, cut),
            deficit |-> acc.deficit - removed]

NearestFirst(n) == [i \in 1..n |-> n + 1 - i]

NonEmptySpans(sp) == SelectSeq(sp, LAMBDA x : x[1] < x[2])

Trim(s, sp, deficit) ==
  LET r == FoldLeft(TrimSpan, [tokens |-> s, spans |-> sp, preserved |-> Len(s), deficit |-> deficit],
                    NearestFirst(Len(sp)))
  IN  [r EXCEPT !.spans = NonEmptySpans(@)]

Mutable(sp) == FoldLeft(LAMBDA n, x : n + x[2] - x[1], 0, sp)

\* The early returns: a root, or a mode other than trim, never shrinks; a trim
\* is limited, and only touches filler.
Refused(root, mode, deficit) ==
  deficit > 0 /\ (root \/ mode # "trim" \/ deficit > TrimLimit \/ Mutable(spans) < deficit)

InitialLength(base, extra) == Len(base) + extra

FillerSpan(length, filler, extra) == <<length, length + filler>>

Build(base, root, mode, extra, wanted) ==
  LET deficit == InitialLength(base, extra) - wanted
      fitted == IF deficit > 0 THEN Trim(base, spans, deficit)
                ELSE [tokens |-> base, spans |-> spans, preserved |-> Len(base), deficit |-> 0]
      filler == wanted - Len(fitted.tokens) - extra
  IN  IF Refused(root, mode, deficit)
      THEN state' = "failed" /\ UNCHANGED <<tokens, spans, before, trailing, target, preserved, turn>>
      ELSE /\ tokens' = fitted.tokens \o Made("filler", filler) \o Made("system", extra)
           /\ spans' = IF filler = 0 THEN fitted.spans
                       ELSE Append(fitted.spans, FillerSpan(Len(fitted.tokens), filler, extra))
           /\ before' = base
           /\ trailing' = extra
           /\ target' = wanted
           /\ preserved' = IF root THEN 0 ELSE fitted.preserved
           /\ turn' = turn + 1
           /\ UNCHANGED state

\* An independent or reset request: the shared and session prefixes of its family.
BuildRoot ==
  /\ state = "next"
  /\ turn = 0
  /\ \E shared \in 1..MaxShared, extra \in 0..1, wanted \in 1..MaxTokens :
       Build(Made("shared", shared), TRUE, "independent", extra, wanted)

\* A continuation: the predecessor's Prompt with its actual output.
BuildContinuation ==
  /\ state = "next"
  /\ turn \in 1..(MaxTurns - 1)
  /\ \E output \in 1..MaxOutput, extra \in 0..1, wanted \in 1..MaxTokens, mode \in {"append", "trim"} :
       Build(tokens \o Made("output", output), FALSE, mode, extra, wanted)

Stops == (state = "failed" \/ turn = MaxTurns) /\ UNCHANGED vars

Next == BuildRoot \/ BuildContinuation \/ Stops

Spec == Init /\ [][Next]_vars
-----------------------------------------------------------------------------
Fixed(s) == SelectSeq(s, LAMBDA t : t[1] # "filler")
Positions(sp) == UNION {(sp[i][1] + 1)..sp[i][2] : i \in DOMAIN sp}
CommonPrefix(a, b) ==
  CHOOSE n \in 0..Least(Len(a), Len(b)) :
    /\ SubSeq(a, 1, n) = SubSeq(b, 1, n)
    /\ n < Least(Len(a), Len(b)) => a[n + 1] # b[n + 1]

\* Type invariant of the Prompt chain.
PromptTypeOK ==
  /\ state \in {"next", "failed"}
  /\ turn \in 0..MaxTurns
  /\ \A i \in DOMAIN spans : 0 <= spans[i][1] /\ spans[i][1] < spans[i][2] /\ spans[i][2] <= Len(tokens)

\* "trimming only explicitly recorded private filler" (prompt.py:548): every
\* shared, system and output token of the history is in the next Prompt, in
\* order, however often its filler was cut.
HistorySurvives == turn > 0 => Fixed(tokens) = Fixed(before) \o [i \in 1..trailing |-> <<"system", turn - 1, i>>]

\* After any number of cuts and paddings the recorded spans still mark exactly
\* the filler of the Prompt.
SpansMarkFiller == Positions(spans) = {i \in DOMAIN tokens : tokens[i][1] = "filler"}

\* The Prompt has the planned length.
TargetMet == turn > 0 => Len(tokens) = target

\* preserved_prefix_tokens is the prefix the Prompt really shares with its
\* predecessor and that predecessor's output.
PreservedIsCommonPrefix == turn > 1 => preserved = CommonPrefix(before, tokens)

\* "Nearest historical private remainder first" (prompt.py:585): filler of a
\* turn is only cut when all filler of later turns is gone.
OlderFillerKept ==
  \A i, j \in DOMAIN before :
    i < j /\ before[i][1] = "filler" /\ before[j][1] = "filler" /\ before[i] \notin ToSet(tokens)
      => before[j] \notin ToSet(tokens)
===============================================================================
