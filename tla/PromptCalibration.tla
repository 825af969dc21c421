--------------------------- MODULE PromptCalibration ---------------------------
(***************************************************************************)
(* How PromptBuilder of agentinfer/agentbench/replay/prompt.py brings a    *)
(* Prompt to its target token count: _calibrate() with its historical trim *)
(* and suffix repair, and _calibrate_current_turn() with its descending    *)
(* prefix search.  The Backend's count of a Prompt is authoritative and    *)
(* nothing is assumed about it: a longer text may count fewer tokens.  The *)
(* same Prompt always counts the same, which `counted' remembers.          *)
(*                                                                         *)
(* A Prompt is what calibration may change: how much is left of each       *)
(* historical private remainder (oldest first), how much of the current    *)
(* user text is kept, and the fillers appended to it.  Everything else     *)
(* (system, tools, other messages) has no operation that changes it.       *)
(***************************************************************************)
EXTENDS Integers, Sequences, FiniteSets, SequencesExt

CONSTANTS
  Current,     \* TRUE: _calibrate_current_turn(); FALSE: _calibrate()
  Target,      \* planned_input_tokens
  MaxCount,    \* bound: the Backend counts 0..MaxCount tokens
  History,     \* tokens of the historical private remainders, oldest first
  UserLength,  \* characters of the current user text
  Rounds,      \* iterations of the filler loop (8 in the code)
  Offsets,     \* the extra_tokens tried by the repair, in order
  Variants,    \* seeds tried for each of them (8 in the code)
  TrimLimit,   \* context_micro_trim_limit(target), 0 when not adaptive
  Tolerance    \* prompt_calibration_tolerance_tokens

VARIABLES
  pc,          \* the step of the coroutine
  prompt,      \* calibrated / candidate
  count,       \* count
  counted,     \* the Backend's answers so far: Prompt -> tokens
  history,     \* count_history
  stalled, round, requested, attempts, trimmed,
  base,        \* padding_base_count
  search,      \* the binary search of the historical trim
  rep          \* the state of _repair_calibration_suffix()

vars == <<pc, prompt, count, counted, history, stalled, round, requested, attempts, trimmed, base, search, rep>>

Original == [hist |-> History, kept |-> UserLength, fill |-> << >>]
NoSearch == [index |-> 0, low |-> 0, high |-> 0, best |-> << >>]
NoRepair == [of |-> Original, ofCount |-> 0, best |-> Original, bestCount |-> 0, bestSize |-> 0,
             key |-> << >>, tries |-> << >>, seen |-> {}]

Init ==
  /\ pc = "count"
  /\ prompt = Original
  /\ count = 0
  /\ counted = << >>
  /\ history = << >>
  /\ stalled = FALSE
  /\ round = 0
  /\ requested = 0 /\ attempts = 0 /\ trimmed = 0 /\ base = 0
  /\ search = NoSearch
  /\ rep = NoRepair

\* tokenizer.count(p): any number, but the same one whenever p is counted again.
Counts(p, n) ==
  /\ n \in 0..MaxCount
  /\ p \in DOMAIN counted => n = counted[p]
  /\ counted' = [q \in DOMAIN counted \cup {p} |-> IF q = p THEN n ELSE counted[q]]

Filled(p, size, variant) == [p EXCEPT !.fill = Append(@, <<variant, size>>)]
Keep(p, length) == [p EXCEPT !.kept = length]
Remain(p, i, length) == [p EXCEPT !.hist[i] = length]
-----------------------------------------------------------------------------
(* The first count decides between trimming, padding and failing.          *)

NearestRemainder == Len(History)

\* What comes after a count that leaves the Prompt at or under its target.
\* The current turn has no filler loop: it goes to the repair directly.
AfterFit(n) == IF n = Target THEN "finish" ELSE IF Current THEN "repair" ELSE "loop"

CountFirst ==
  /\ pc = "count"
  /\ \E n \in 0..MaxCount :
       /\ Counts(prompt, n)
       /\ count' = n
       /\ history' = <<n>>
       /\ base' = n
       /\ pc' = IF n <= Target THEN AfterFit(n)
                ELSE IF Current THEN "empty"
                ELSE IF n - Target > TrimLimit THEN "error" ELSE "trim"
       /\ search' = [NoSearch EXCEPT !.index = NearestRemainder]
  /\ UNCHANGED <<prompt, stalled, round, requested, attempts, trimmed, rep>>
-----------------------------------------------------------------------------
(* _trim_historical_private_remainder(): nearest remainder first.          *)

TrimNext ==
  /\ pc = "trim"
  /\ search.low = 0
  /\ search.index = 0
  /\ pc' = "error"
  /\ UNCHANGED <<prompt, count, counted, history, stalled, round, requested, attempts, trimmed, base, search, rep>>

TrimSkipsEmpty ==
  /\ pc = "trim"
  /\ search.low = 0
  /\ search.index > 0
  /\ prompt.hist[search.index] = 0
  /\ search' = [search EXCEPT !.index = @ - 1]
  /\ UNCHANGED <<pc, prompt, count, counted, history, stalled, round, requested, attempts, trimmed, base, rep>>

\* The remainder emptied: if that is not enough it stays empty and the next
\* older one is tried, otherwise the shortest cut is searched for.
TrimEmpties ==
  LET i == search.index
      empty == Remain(prompt, i, 0)
  IN  /\ pc = "trim"
      /\ search.low = 0
      /\ i > 0
      /\ prompt.hist[i] > 0
      /\ \E n \in 0..MaxCount :
           /\ Counts(empty, n)
           /\ IF n > Target
              THEN /\ prompt' = empty
                   /\ count' = n
                   /\ trimmed' = trimmed + prompt.hist[i]
                   /\ search' = [search EXCEPT !.index = i - 1]
              ELSE /\ search' = [search EXCEPT !.low = 1, !.high = prompt.hist[i]]
                   /\ UNCHANGED <<prompt, count, trimmed>>
      /\ UNCHANGED <<pc, history, stalled, round, requested, attempts, base, rep>>

\* Mutant of Probed: the best cut so far is not kept.
ProbeForgets(remove, n) == [search EXCEPT !.low = IF n <= Target THEN @ ELSE remove + 1,
                                          !.high = IF n <= Target THEN remove - 1 ELSE @]

\* One probe of the binary search.
Probed(remove, n) ==
  IF n <= Target THEN [search EXCEPT !.high = remove - 1, !.best = <<n, remove>>]
                 ELSE [search EXCEPT !.low = remove + 1]

TrimProbes ==
  LET i == search.index
      remove == (search.low + search.high) \div 2
  IN  /\ pc = "trim"
      /\ 0 < search.low /\ search.low <= search.high
      /\ \E n \in 0..MaxCount :
           /\ Counts(Remain(prompt, i, prompt.hist[i] - remove), n)
           /\ search' = Probed(remove, n)
      /\ UNCHANGED <<pc, prompt, count, history, stalled, round, requested, attempts, trimmed, base, rep>>

TrimEnds ==
  LET i == search.index IN
  /\ pc = "trim"
  /\ search.low > search.high
  /\ IF search.best = << >>
     THEN /\ search' = [NoSearch EXCEPT !.index = i - 1]
          /\ UNCHANGED <<pc, prompt, count, history, trimmed, base>>
     ELSE LET n == search.best[1]
              remove == search.best[2]
          IN  /\ prompt' = Remain(prompt, i, prompt.hist[i] - remove)
              /\ count' = n
              /\ history' = Append(history, n)
              /\ trimmed' = trimmed + remove
              /\ base' = n
              /\ pc' = AfterFit(n)
              /\ UNCHANGED search
  /\ UNCHANGED <<counted, stalled, round, requested, attempts, rep>>
-----------------------------------------------------------------------------
(* _find_current_user_prefix(): every longer prefix is counted first.      *)

NextPrefix(length) == length - 1

\* The Prompt with an empty user message is counted before the search.
PrefixStarts ==
  /\ pc = "empty"
  /\ \E n \in 0..MaxCount : Counts(Keep(prompt, 0), n) /\ history' = Append(history, n)
  /\ pc' = "prefix"
  /\ UNCHANGED <<prompt, count, stalled, round, requested, attempts, trimmed, base, search, rep>>

PrefixProbes ==
  LET length == NextPrefix(prompt.kept) IN
  /\ pc = "prefix"
  /\ prompt.kept > 0
  /\ \E n \in 0..MaxCount :
       /\ Counts(Keep(prompt, length), n)
       /\ history' = Append(history, n)
       /\ prompt' = Keep(prompt, length)
       /\ count' = n
       /\ base' = n
       /\ pc' = IF n <= Target THEN AfterFit(n) ELSE "prefix"
  /\ UNCHANGED <<stalled, round, requested, attempts, trimmed, search, rep>>

PrefixFails ==
  /\ pc = "prefix"
  /\ prompt.kept = 0
  /\ pc' = "error"
  /\ UNCHANGED <<prompt, count, counted, history, stalled, round, requested, attempts, trimmed, base, search, rep>>
-----------------------------------------------------------------------------
(* The filler loop of _calibrate().                                        *)

RoundsLeft == round < Rounds

\* The filler credited to the Prompt: nothing for a candidate that overshoots.
Credit(n) == IF n > Target THEN 0 ELSE Target - count

FillerLoop ==
  /\ pc = "loop"
  /\ ~stalled
  /\ RoundsLeft
  /\ round' = round + 1
  /\ LET candidate == Filled(prompt, Target - count, 0)
     IN \E n \in 0..MaxCount :
          /\ Counts(candidate, n)
          /\ stalled' = (\E i \in DOMAIN history : history[i] = n)
          /\ history' = Append(history, n)
          /\ requested' = requested + Credit(n)
          /\ IF n > Target
             THEN pc' = "repair" /\ UNCHANGED <<prompt, count>>
             ELSE /\ prompt' = candidate
                  /\ count' = n
                  /\ pc' = IF n = Target THEN "finish" ELSE "loop"
  /\ UNCHANGED <<attempts, trimmed, base, search, rep>>

\* A repeated count, or the last round, leaves the rest to the suffix repair.
FillerLoopEnds ==
  /\ pc = "loop"
  /\ stalled \/ ~RoundsLeft
  /\ pc' = "repair"
  /\ UNCHANGED <<prompt, count, counted, history, stalled, round, requested, attempts, trimmed, base, search, rep>>
-----------------------------------------------------------------------------
(* _repair_calibration_suffix(): the closest of a fixed list of suffixes.  *)

Abs(n) == IF n < 0 THEN -n ELSE n
CandidateKey(n, extra, variant) == <<Abs(Target - n), IF n > Target THEN 1 ELSE 0, extra, variant>>

\* Python compares tuples component by component.
LessKey(a, b) == \E i \in 1..4 : a[i] < b[i] /\ \A j \in 1..(i - 1) : a[j] = b[j]

\* The suffixes in the order they are tried; a size below one is skipped.
Tries(delta) ==
  LET all == [i \in 1..(Len(Offsets) * Variants) |->
                [extra |-> Offsets[(i - 1) \div Variants + 1], variant |-> (i - 1) % Variants]]
  IN  SelectSeq(all, LAMBDA t : delta + t.extra > 0)

RepairStarts ==
  /\ pc = "repair"
  /\ rep' = [of |-> prompt, ofCount |-> count, best |-> prompt, bestCount |-> count, bestSize |-> 0,
             key |-> CandidateKey(count, 0, 0), tries |-> Tries(Target - count), seen |-> {count}]
  /\ pc' = "repairing"
  /\ UNCHANGED <<prompt, count, counted, history, stalled, round, requested, attempts, trimmed, base, search>>

RepairTries ==
  LET t == Head(rep.tries)
      size == Target - rep.ofCount + t.extra
      candidate == Filled(rep.of, size, t.variant + 1)
  IN  /\ pc = "repairing"
      /\ rep.tries # << >>
      /\ rep.bestCount # Target
      /\ attempts' = attempts + 1
      /\ \E n \in 0..MaxCount :
           /\ Counts(candidate, n)
           /\ history' = Append(history, n)
           /\ rep' = [IF LessKey(CandidateKey(n, t.extra, t.variant), rep.key)
                      THEN [rep EXCEPT !.best = candidate, !.bestCount = n, !.bestSize = size,
                                       !.key = CandidateKey(n, t.extra, t.variant)]
                      ELSE rep EXCEPT !.tries = Tail(@), !.seen = @ \cup {n}]
      /\ UNCHANGED <<pc, prompt, count, stalled, round, requested, trimmed, base, search>>

\* Mutant of TakeBest: the count is updated but the Prompt stays.
TakeCountOnly == prompt' = prompt /\ count' = rep.bestCount

\* What the callers take from the repair's result.
TakeBest == prompt' = rep.best /\ count' = rep.bestCount

RepairEnds ==
  /\ pc = "repairing"
  /\ rep.tries = << >> \/ rep.bestCount = Target
  /\ TakeBest
  /\ requested' = requested + rep.bestSize
  /\ history' = IF Last(history) # rep.bestCount THEN Append(history, rep.bestCount) ELSE history
  /\ pc' = "finish"
  /\ UNCHANGED <<counted, stalled, round, attempts, trimmed, base, search, rep>>
-----------------------------------------------------------------------------
(* The final check.                                                        *)

Finish ==
  /\ pc = "finish"
  /\ ~Current
  /\ pc' = IF Abs(count - Target) > Tolerance THEN "error" ELSE "accepted"
  /\ UNCHANGED <<prompt, count, counted, history, stalled, round, requested, attempts, trimmed, base, search, rep>>

\* _verify_frozen_token_prefix(): a current turn that was changed has to keep
\* the tokens before the user text, and may not.
MayLoseFrozenPrefix == history[1] # Target

\* The current turn accepts no residual.
FinishTurn ==
  /\ pc = "finish"
  /\ Current
  /\ \/ count = Target /\ pc' = "accepted"
     \/ (count # Target \/ MayLoseFrozenPrefix) /\ pc' = "error"
  /\ UNCHANGED <<prompt, count, counted, history, stalled, round, requested, attempts, trimmed, base, search, rep>>

Ended == pc \in {"accepted", "error"} /\ UNCHANGED vars

Step == \/ CountFirst \/ TrimNext \/ TrimSkipsEmpty \/ TrimEmpties \/ TrimProbes \/ TrimEnds
        \/ PrefixStarts \/ PrefixProbes \/ PrefixFails \/ FillerLoop \/ FillerLoopEnds
        \/ RepairStarts \/ RepairTries \/ RepairEnds \/ Finish \/ FinishTurn

Next == Step \/ Ended

\* The Backend answers every count, or the request fails and with it the call.
Spec == Init /\ [][Next]_vars
-----------------------------------------------------------------------------
\* Type invariant of one calibration.
CalibrationTypeOK ==
  /\ pc \in {"count", "trim", "empty", "prefix", "loop", "repair", "repairing", "finish", "accepted", "error"}
  /\ count \in 0..MaxCount
  /\ round \in 0..Rounds
  /\ attempts \in 0..(Len(Offsets) * Variants)
  /\ requested \in Nat /\ trimmed \in Nat

\* "The Backend count endpoint is authoritative" (prompt.py:1306): the Prompt
\* that is sent was counted, and the recorded final_tokens is that Prompt's own
\* count and not the one of another candidate.
FinalCountIsMeasured ==
  pc = "accepted" => prompt \in DOMAIN counted /\ counted[prompt] = count /\ Last(history) = count

\* The recorded filler and trim totals are those of the Prompt that is sent:
\* a candidate that was rejected leaves nothing behind in them.
TotalsDescribePrompt ==
  pc = "accepted" =>
    /\ requested = FoldLeft(LAMBDA acc, f : acc + f[2], 0, prompt.fill)
    /\ trimmed = FoldLeft(LAMBDA acc, i : acc + History[i] - prompt.hist[i], 0, [i \in DOMAIN History |-> i])

\* "an under-target candidate is preferred over an equally close over-target
\* candidate" (prompt.py:1204): the repair returns the best of all it counted,
\* the Prompt it started from included.
RepairPicksClosest ==
  pc \in {"finish", "accepted"} /\ rep.seen # {} =>
    \A n \in rep.seen :
      \/ Abs(n - Target) > Abs(count - Target)
      \/ Abs(n - Target) = Abs(count - Target) /\ (count > Target => n > Target)

\* Historical text is only given up nearest first, and only as a last resort: a
\* remainder is cut only when every newer one is empty.
NearestFirst ==
  \A i \in DOMAIN History : prompt.hist[i] < History[i] =>
    \A j \in DOMAIN History : j > i => prompt.hist[j] = 0

\* _find_current_user_prefix() "keeps the longest source prefix that fits the
\* target" (prompt.py:949) although counts are not monotone.
LongestPrefixKept ==
  Current /\ pc = "accepted" =>
    \A l \in (prompt.kept + 1)..UserLength :
      LET p == [Original EXCEPT !.kept = l] IN p \in DOMAIN counted /\ counted[p] > Target

\* Whenever an emptied remainder fits, the binary search ends on a cut that
\* fits, whatever the counts in between: it never gives up on a Prompt that
\* could have been trimmed.
TrimFindsCut == TrimEnds => pc' # "trim"
===============================================================================
