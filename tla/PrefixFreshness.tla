--------------------------- MODULE PrefixFreshness ---------------------------
(***************************************************************************)
(* What the runtime knows about the prefix that a Program shares with      *)
(* others, and for how long it believes it: the observations that          *)
(* agentcache/core/scheduler.py takes from vLLM's prefix lookup, and the   *)
(* pause-anchored freshness rule of scheduling/runtime.py, for one Program *)
(* id through its generations.                                             *)
(*                                                                         *)
(* The decisions to admit, resume, pause and release are the strategy's    *)
(* and left open.  A pause that was marked and is applied by the           *)
(* completion is a pause at the time of the completion.                    *)
(***************************************************************************)
EXTENDS Integers, Sequences, FiniteSets, FiniteSetsExt, SequencesExt

CONSTANTS
  None,
  Request,         \* request ids of the Program
  Prompt,          \* prompt tokens of a request
  Hits,            \* what the prefix lookup finds: cached tokens and, for every group, the ref counts of its blocks
  Warmup,          \* shared_prefix_freshness_warmup_seconds
  Turnovers,       \* shared_prefix_freshness_kv_turnovers
  Facts,           \* what the strategy knows of the KV pool when an estimate is made
  MaxGeneration,   \* bound of TLC's instances: generations of the Program
  MaxTime          \* bound of TLC's instances: time

PrefixAssumption ==
  /\ {Prompt, Warmup, Turnovers, MaxGeneration, MaxTime} \subseteq Nat
  /\ Facts # {}

VARIABLES
  now,         \* time.monotonic()
  generation,  \* of the latest Program
  state,       \* of the live Program, "absent" without one
  tokens,      \* its shared-prefix estimate: shared, until, attribution
  anchor,      \* _shared_prefix_freshness_anchor_at
  pool,        \* the retained requests, in the pool's order
  native,      \* the requests vLLM holds, and whether they were scheduled
  binding,     \* _request_bindings: the request's own observations
  local,       \* _local_prefix_observations
  pending,     \* _prefix_refresh_pending
  reported,    \* history: request -> the cache fields of its completion event, None if cancelled
  segment,     \* history: when the Program came or was last paused
  duration,    \* history: the freshness of the present estimate
  found        \* history: request -> what its last lookup before it was scheduled found

prefixVars == <<now, generation, state, tokens, anchor, pool, native, binding, local, pending,
                reported, segment, duration, found>>

NoTokens == [shared |-> 0, until |-> None, attribution |-> "unknown"]
Fresh(track) == [track |-> track, cached |-> None, shared |-> None, hbm |-> None, refZero |-> None]

PrefixInit ==
  /\ now = 0
  /\ generation = 0
  /\ state = "absent"
  /\ tokens = NoTokens
  /\ anchor = << >>
  /\ pool = << >>
  /\ native = << >>
  /\ binding = << >>
  /\ local = << >>
  /\ pending = FALSE
  /\ reported = << >>
  /\ segment = None
  /\ duration = None
  /\ found = << >>

Put(f, k, x) == [y \in DOMAIN f \cup {k} |-> IF y = k THEN x ELSE f[y]]
Drop(f, k) == [y \in DOMAIN f \ {k} |-> f[y]]

\* A request of the Program is unfinished.
Reasoning == DOMAIN binding # {}
-----------------------------------------------------------------------------
(* The freshness rule.                                                     *)

\* shared_prefix_freshness_seconds(): the time in which the pool is turned over,
\* once the statistics are complete.
FreshnessSeconds(f) ==
  IF ~f.complete \/ f.reasoning <= 0 \/ f.capacity = None \/ f.churn <= 0 THEN Warmup
  ELSE (Turnovers * f.capacity * f.latency) \div (f.reasoning * f.churn)

Freshness == {FreshnessSeconds(f) : f \in Facts}

\* _shared_prefix_observation_due()
Due(t) == generation \notin DOMAIN anchor \/ t.until = None \/ now >= t.until

\* _restart_shared_prefix_freshness(): the duration is kept, from now on.
Rebased(t) ==
  IF generation \notin DOMAIN anchor \/ t.until = None THEN t
  ELSE [t EXCEPT !.until = now + Max({0, t.until - anchor[generation]})]

\* on_prefix_cache_observation() for the live Program: the binding's own
\* numbers, and the Program's estimate t when it is due.
Clip(n, limit) == Min({limit, n})

Observed(b, cached, hit) ==
  LET c == Clip(cached, Prompt)
      h == Clip(hit.cached, Prompt)
  IN  IF hit = None THEN b
      ELSE [b EXCEPT !.cached = c, !.shared = Clip(hit.shared, c), !.hbm = h,
                     !.refZero = Clip(Max({0, hit.cached - hit.shared}), h)]

Estimated(t, cached, hit, seconds) ==
  LET c == Clip(cached, Prompt)
  IN  [shared |-> IF hit = None THEN c ELSE Clip(hit.shared, c),
       until |-> anchor[generation] + seconds,
       attribution |-> IF hit = None THEN "partial" ELSE "exact"]
-----------------------------------------------------------------------------
(* The Program and its requests.                                           *)

ToNative(requests) == [r \in DOMAIN native \cup requests |-> IF r \in requests THEN FALSE ELSE native[r]]

\* on_request_arrival(): the Program is created if need be, and the strategy
\* admits it or leaves it paused.  Requests of an ACTIVE Program go to vLLM.
Arrive(r) ==
  LET created == state = "absent"
  IN  /\ r \notin DOMAIN binding \cup DOMAIN reported
      /\ created => generation < MaxGeneration
      /\ generation' = IF created THEN generation + 1 ELSE generation
      /\ tokens' = IF created THEN NoTokens ELSE tokens
      /\ anchor' = IF created THEN Put(anchor, generation', now) ELSE anchor
      /\ segment' = IF created THEN now ELSE segment
      /\ duration' = IF created THEN None ELSE duration
      /\ binding' = Put(binding, r, Fresh(state # "active"))
      /\ \/ /\ state' = "active"
            /\ native' = ToNative(ToSet(pool) \cup {r})
            /\ pool' = << >>
         \/ /\ state # "active"
            /\ state' = "paused"
            /\ pool' = Append(pool, r)
            /\ UNCHANGED native
      /\ UNCHANGED <<now, local, pending, reported, found>>

\* RESUME, with _admit_program_requests().
Resume ==
  /\ state = "paused"
  /\ state' = "active"
  /\ native' = ToNative(ToSet(pool))
  /\ pool' = << >>
  /\ UNCHANGED <<now, generation, tokens, anchor, binding, local, pending, reported, segment, duration, found>>

Pause ==
  /\ state = "active" /\ ~Reasoning
  /\ state' = "paused"
  /\ tokens' = Rebased(tokens)
  /\ anchor' = Put(anchor, generation, now)
  /\ segment' = now
  /\ UNCHANGED <<now, generation, pool, native, binding, local, pending, reported, duration, found>>

Release ==
  /\ state # "absent" /\ ~Reasoning
  /\ state' = "absent"
  /\ anchor' = Drop(anchor, generation)
  /\ tokens' = NoTokens
  /\ segment' = None /\ duration' = None
  /\ UNCHANGED <<now, generation, pool, native, binding, local, pending, reported, found>>

\* cancel_request(): the binding goes with the entry, no event is sent.
Cancel(r) ==
  /\ r \in ToSet(pool)
  /\ pool' = SelectSeq(pool, LAMBDA x : x # r)
  /\ binding' = Drop(binding, r)
  /\ reported' = Put(reported, r, None)
  /\ UNCHANGED <<now, generation, state, tokens, anchor, native, local, pending, segment, duration, found>>
-----------------------------------------------------------------------------
(* The observations.                                                       *)

\* _ref_count_shared_tokens(): the least share of referenced blocks of any
\* group that has blocks.
RefCountShared(hit) ==
  LET groups == {g \in ToSet(hit.groups) : g # << >>}
      lengths == {(hit.cached * Cardinality({i \in DOMAIN g : g[i] > 0})) \div Len(g) : g \in groups}
  IN  IF hit.cached <= 0 \/ groups = {} THEN 0 ELSE Min({hit.cached} \cup lengths)

\* observed_get_computed_blocks(): vLLM looks a request's prefix up, again when
\* there was no room for it or after it was preempted.
Lookup(r, hit) ==
  /\ r \in DOMAIN native
  /\ LET seen == [cached |-> hit.cached, shared |-> RefCountShared(hit)]
     IN  /\ local' = Put(local, r, seen)
         /\ found' = IF native[r] THEN found ELSE Put(found, r, seen)
  /\ UNCHANGED <<now, generation, state, tokens, anchor, pool, native, binding, pending, reported, segment, duration>>

\* observe_prefix_cache(): the first time a request is scheduled.  External
\* caches may add to what the lookup found.
ScheduleNew(r, cached, seconds) ==
  LET hit == IF r \in DOMAIN local THEN local[r] ELSE None
      estimate == binding[r].track /\ Due(tokens)
  IN  /\ r \in DOMAIN native /\ ~native[r]
      /\ hit # None => cached >= hit.cached
      /\ native' = [native EXCEPT ![r] = TRUE]
      /\ local' = Drop(local, r)
      /\ binding' = [binding EXCEPT ![r] = Observed(@, cached, hit)]
      /\ tokens' = IF estimate THEN Estimated(tokens, cached, hit, seconds) ELSE tokens
      /\ duration' = IF estimate THEN seconds ELSE duration
      /\ UNCHANGED <<now, generation, state, anchor, pool, pending, reported, segment, found>>

\* prefix_cache_candidates()
Candidates ==
  IF state = "paused" /\ Due(tokens) THEN SelectSeq(pool, LAMBDA r : binding[r].track) ELSE << >>

\* _observe_retained_prefix_cache() in before_schedule(): one read-only lookup
\* per candidate, which may fail; the first that succeeds makes the estimate
\* fresh, and the others find it so unless its time is already over.
Refresh(cached, seconds) ==
  LET n == Len(Candidates)
      asked == {i \in 1 .. n : cached[i] # None}
      used == IF asked = {} THEN 0 ELSE IF anchor[generation] + seconds > now THEN Min(asked) ELSE Max(asked)
  IN  /\ pending
      /\ pending' = FALSE
      /\ tokens' = IF used = 0 THEN tokens ELSE Estimated(tokens, cached[used], None, seconds)
      /\ duration' = IF used = 0 THEN duration ELSE seconds
      /\ UNCHANGED <<now, generation, state, anchor, pool, native, binding, local, reported, segment, found>>

\* on_request_completion() from after_output(), or from finish_requests(), which
\* asks for no refresh.  What the request did not observe itself comes from
\* the Program's estimate.
Finish(r, output) ==
  LET b == binding[r]
      cached == IF b.cached # None THEN b.cached ELSE tokens.shared
  IN  /\ r \in DOMAIN native
      /\ output => native[r]
      /\ reported' = Put(reported, r,
           [cached |-> cached,
            shared |-> IF b.shared # None THEN b.shared ELSE tokens.shared,
            hbm |-> IF b.hbm # None THEN b.hbm ELSE cached,
            refZero |-> IF b.refZero # None THEN b.refZero ELSE 0,
            scheduled |-> native[r]])
      /\ binding' = Drop(binding, r)
      /\ native' = Drop(native, r)
      /\ local' = Drop(local, r)
      /\ pending' = (pending \/ output)
      /\ UNCHANGED <<now, generation, state, tokens, anchor, pool, segment, duration, found>>

Tick ==
  /\ now < MaxTime
  /\ now' = now + 1
  /\ UNCHANGED <<generation, state, tokens, anchor, pool, native, binding, local, pending, reported, segment, duration, found>>

PrefixNext ==
  \/ \E r \in Request :
       \/ Arrive(r) \/ Cancel(r)
       \/ \E hit \in Hits : Lookup(r, hit)
       \/ \E cached \in 0 .. Prompt + 1, seconds \in Freshness : ScheduleNew(r, cached, seconds)
       \/ \E output \in BOOLEAN : Finish(r, output)
  \/ Resume \/ Pause \/ Release \/ Tick
  \/ \E cached \in [1 .. Len(Candidates) -> {0, Prompt, None}], seconds \in Freshness : Refresh(cached, seconds)
-----------------------------------------------------------------------------
PrefixTypeOK ==
  /\ state \in {"absent", "active", "paused"}
  /\ DOMAIN binding = DOMAIN native \cup ToSet(pool) /\ DOMAIN native \cap ToSet(pool) = {}
  /\ tokens.shared \in 0 .. Prompt
  /\ state = "absent" <=> anchor = << >>

\* Freshness is anchored to the Program's entry or to its latest pause
\* (PT-INV-007): an estimate is believed for exactly its own duration from
\* there, however often it was carried over a pause.
FreshnessAnchored ==
  state # "absent" =>
    /\ DOMAIN anchor = {generation} /\ anchor[generation] = segment
    /\ tokens.until = (IF duration = None THEN None ELSE segment + duration)

\* The cache fields of a completion event are the request's own: what the last
\* lookup before it was scheduled found, no matter how often it was looked up
\* later and what its Program learned meanwhile; shared and unreferenced tokens
\* do not overlap.
ReportsOwnLookup ==
  \A r \in DOMAIN reported \cap DOMAIN found :
    reported[r] # None /\ reported[r].scheduled =>
      LET e == reported[r]
      IN  /\ e.hbm = Clip(found[r].cached, Prompt)
          /\ e.shared = Clip(found[r].shared, e.cached)
          /\ found[r].cached <= Prompt => e.shared + e.refZero <= e.hbm /\ e.hbm <= e.cached

\* What a lookup found is kept only while vLLM holds the request.
NoStaleLookup == DOMAIN local \subseteq DOMAIN native

\* Within its duration an estimate is replaced by none, and a request that
\* came while its Program was active never replaces it.
EstimateHeld ==
  tokens' # tokens /\ generation' = generation /\ state' # "absent" /\ segment' = segment =>
    /\ duration = None \/ now >= segment + duration
    /\ \E r \in DOMAIN binding :
         binding[r].track /\ (r \in ToSet(pool) \/ (~native[r] /\ native'[r]))
=============================================================================
