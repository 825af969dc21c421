---------------------------- MODULE TraceLabPrompt ----------------------------
(***************************************************************************)
(* TraceLab prompts of agentinfer/agentbench/replay/prompt.py: the warmup  *)
(* is the shared cache root; every root request reuses a recorded prefix   *)
(* of it and then branches off, every continuation reuses a recorded       *)
(* prefix of its live predecessor and then branches off.  The measured     *)
(* cache hits are only right when a Prompt shares exactly that prefix, so  *)
(* the first new token has to differ.                                      *)
(*                                                                         *)
(* The Backend's tokens for a seed text are arbitrary non-empty sequences; *)
(* they may repeat each other and the warmup.                              *)
(***************************************************************************)
EXTENDS Integers, Sequences, FiniteSets, SequencesExt

CONSTANTS
  Token,       \* token ids
  Candidates,  \* the distinct tokens of the printable characters, in order
  Root,        \* the root requests, in plan order
  Variants,    \* seeds tried for a namespace (8 in the code)
  MaxSeed,     \* bound: tokens of a seed
  MaxPrefix,   \* bound: recorded cached_tokens
  MaxNew,      \* bound: new tokens of a Prompt
  None

VARIABLES
  phase,       \* "warmup", "branch", "build", "reply", "continue", "done", "failed"
  prefix,      \* request -> source_prefix_tokens
  length,      \* request -> planned_input_tokens
  warmup,      \* _tracelab_warmup_ids
  branch,      \* _tracelab_root_branch_tokens
  todo,        \* root requests without a branch token or a Prompt yet
  prompt,      \* request -> token_ids
  context      \* the predecessor's tokens and its output

vars == <<phase, prefix, length, warmup, branch, todo, prompt, context>>

Roots == ToSet(Root)
Next2 == "continuation"     \* the continuation of the first root
Request == Roots \cup {Next2}
Seed == UNION {[1..n -> Token] : n \in 1..MaxSeed}
Greatest(S) == CHOOSE n \in S : \A k \in S : k <= n
Least(a, b) == IF a < b THEN a ELSE b

Init ==
  /\ phase = "warmup"
  /\ prefix \in [Request -> 0..MaxPrefix]
  /\ \E new \in [Request -> 0..MaxNew] :
       length = [r \in Request |-> prefix[r] + new[r]] /\ \A r \in Request : length[r] > 0
  /\ warmup = << >>
  /\ branch = [r \in Roots |-> None]
  /\ todo = Root
  /\ prompt = [r \in Request |-> << >>]
  /\ context = << >>

\* filler_token_ids(): the first variant whose seed has a token other than the
\* forbidden one, rotated to start there; None when there is none.
Filler(seeds, count, forbidden) ==
  LET good == {v \in 1..Variants : \E i \in DOMAIN seeds[v] : seeds[v][i] # forbidden}
      v == CHOOSE x \in good : \A y \in good : x <= y
      first == CHOOSE i \in DOMAIN seeds[v] :
                 seeds[v][i] # forbidden /\ \A j \in 1..(i - 1) : seeds[v][j] = forbidden
  IN  IF count = 0 THEN << >>
      ELSE IF good = {} THEN None
      ELSE [i \in 1..count |-> seeds[v][((first + i - 2) % Len(seeds[v])) + 1]]

\* prepare_tracelab_warmup(): one token more than the longest recorded prefix
\* of a first round (what validate_trace_ir() requires of the conversion).
Warmup ==
  /\ phase = "warmup"
  /\ \E seed \in Seed :
       warmup' = Filler([v \in 1..Variants |-> seed], Greatest({prefix[r] : r \in Roots}) + 1, None)
  /\ phase' = "branch"
  /\ UNCHANGED <<prefix, length, branch, todo, prompt, context>>

\* Mutant of Excluded: the tokens other roots took are not excluded.
IgnoreUsed(r) == {warmup[prefix[r] + 1]}
Excluded(r) == {branch[q] : q \in {x \in Roots : prefix[x] = prefix[r]}} \cup {warmup[prefix[r] + 1]}

AssignBranch ==
  LET r == Head(todo)
      free == SelectSeq(Candidates, LAMBDA t : t \notin Excluded(r))
  IN  /\ phase = "branch"
      /\ todo # << >>
      /\ IF length[r] = prefix[r] THEN UNCHANGED <<branch, phase>>
         ELSE IF free = << >> THEN phase' = "failed" /\ UNCHANGED branch
         ELSE branch' = [branch EXCEPT ![r] = Head(free)] /\ UNCHANGED phase
      /\ todo' = Tail(todo)
      /\ UNCHANGED <<prefix, length, warmup, prompt, context>>

Branched ==
  /\ phase = "branch"
  /\ todo = << >>
  /\ phase' = "build"
  /\ todo' = Root
  /\ UNCHANGED <<prefix, length, warmup, branch, prompt, context>>
-----------------------------------------------------------------------------
NewTokens(r, reused) == length[r] - reused

\* _tracelab_prompt(): the reused prefix, the branch token if the request has
\* one, and filler.
Built(r, previous, own, seeds) ==
  LET reused == Least(prefix[r], Len(previous))
      forbidden == IF reused < Len(previous) THEN previous[reused + 1] ELSE None
      count == NewTokens(r, reused)
      suffix == IF own = None THEN Filler(seeds, count, forbidden)
                ELSE LET rest == Filler(seeds, count - 1, None) IN IF rest = None THEN None ELSE <<own>> \o rest
  IN  IF suffix = None THEN None ELSE SubSeq(previous, 1, reused) \o suffix

BuildRoot ==
  LET r == Head(todo) IN
  /\ phase = "build"
  /\ todo # << >>
  /\ \E seed \in Seed : prompt' = [prompt EXCEPT ![r] = Built(r, warmup, branch[r], [v \in 1..Variants |-> seed])]
  /\ todo' = Tail(todo)
  /\ UNCHANGED <<phase, prefix, length, warmup, branch, context>>

\* The Backend answers the first root.
Reply ==
  /\ phase = "build"
  /\ todo = << >>
  /\ \E output \in Seed : context' = prompt[Root[1]] \o output
  /\ phase' = "continue"
  /\ UNCHANGED <<prefix, length, warmup, branch, todo, prompt>>

BuildContinuation ==
  /\ phase = "continue"
  /\ \E seeds \in [1..Variants -> Seed] :
       LET tokens == Built(Next2, context, None, seeds) IN
       /\ phase' = IF tokens = None THEN "failed" ELSE "done"
       /\ prompt' = IF tokens = None THEN prompt ELSE [prompt EXCEPT ![Next2] = tokens]
  /\ UNCHANGED <<prefix, length, warmup, branch, todo, context>>

Stops == phase \in {"done", "failed"} /\ UNCHANGED vars

Next == Warmup \/ AssignBranch \/ Branched \/ BuildRoot \/ Reply \/ BuildContinuation \/ Stops

Spec == Init /\ [][Next]_vars
-----------------------------------------------------------------------------
CommonPrefix(a, b) ==
  CHOOSE n \in 0..Least(Len(a), Len(b)) :
    /\ SubSeq(a, 1, n) = SubSeq(b, 1, n)
    /\ n < Least(Len(a), Len(b)) => a[n + 1] # b[n + 1]

\* Every Prompt has the planned number of tokens.
PlannedLength == \A r \in Request : prompt[r] # << >> => Len(prompt[r]) = length[r]

\* A root shares with the warmup exactly the prefix its trace recorded as
\* cached: filler that happens to repeat the warmup never adds a hit.
RootReusesExactly ==
  \A r \in Roots : prompt[r] # << >> => CommonPrefix(prompt[r], warmup) = prefix[r]

\* "Reuse the requested token prefix of the live predecessor" (prompt.py:750):
\* a continuation shares exactly that prefix with its predecessor and the
\* predecessor's actual output, or all of it when it is shorter.
ContinuationReusesExactly ==
  prompt[Next2] # << >> => CommonPrefix(prompt[Next2], context) = Least(prefix[Next2], Len(context))

\* Two roots share no more than the prefix both took from the warmup, so the
\* order in which they are sent cannot change the cache hits of either.
RootsBranchApart ==
  \A a, b \in Roots : a # b /\ prompt[a] # << >> /\ prompt[b] # << >> =>
    CommonPrefix(prompt[a], prompt[b]) = Least(prefix[a], prefix[b])
===============================================================================
