----------------------------- MODULE ProgressTTL -----------------------------
(***************************************************************************)
(* The Progress-TTL strategy (agentinfer/scheduling/progress_ttl/          *)
(* strategy.py, with its factors.py) inside the runtime of runtime.py: the *)
(* strategy that ProgramScheduler leaves open.  A hook of the strategy     *)
(* reads a snapshot of the Programs and its own per-Program factors, and   *)
(* requests transitions one after the other; each is accepted at once by   *)
(* _apply_transition() and reported back as an event that updates the      *)
(* factors.                                                                *)
(*                                                                         *)
(* Time is discrete.  A deadline is the number of ticks left until it (0:  *)
(* due), so time itself needs no bound; acting_age counts up to the point  *)
(* where every acting TTL is over.                                         *)
(*                                                                         *)
(* Tokens are left out: a comparison of token counts (does a Program fit,  *)
(* is there a deficit, does the batch gain cover the cost) and an estimate *)
(* of the rolling statistics (a TTL, a force timeout, the utility that     *)
(* switches the AUTO mode, a score) may come out either way wherever the   *)
(* code makes it.  What is checked here holds for all capacities.          *)
(***************************************************************************)
EXTENDS ProgramScheduler, FiniteSetsExt, SequencesExt

CONSTANTS
  Mode,             \* ProgressTTLConfig.mode: "on", "off" or "auto"
  TtlMax,           \* ttl_max_seconds
  ForceMin,         \* force_resume_timeout_min_seconds
  ForceMax,         \* force_resume_timeout_max_seconds
  PausedTtl,        \* paused_program_ttl_seconds
  PrivilegedTtl,    \* privileged_ttl_seconds
  PrivilegedLimit,  \* _privileged_program_limit()
  TargetMaxRounds,  \* target_max_segment_rounds
  KnownIdentity,    \* the identities that send requests
  Cancellation      \* whether requests are cancelled in this instance

ASSUME ProgressTTLAssumption ==
  /\ Mode \in {"on", "off", "auto"}
  /\ {TtlMax, PausedTtl, PrivilegedTtl, ForceMin, ForceMax} \subseteq Nat
  /\ ForceMin <= ForceMax
  /\ {PrivilegedLimit, TargetMaxRounds} \subseteq Nat \ {0}
  /\ KnownIdentity \subseteq Identity
  /\ Cancellation \in BOOLEAN
  /\ None \notin Nat

VARIABLES
  factors,            \* the sidecar of each Program's live generation
  continuity_enabled, \* ProgressTTLGlobalFactors.continuity_enabled
  next_check,         \* ticks to the runtime's _next_check_at_monotonic_s
  next_lightweight,   \* ticks to its _next_lightweight_check_at_monotonic_s
  phase,              \* the strategy function that is running
  snapshot,           \* the SchedulingSnapshot it was given
  advanced,           \* that snapshot with the transitions accepted since
  todo,               \* the Programs its loop has still to visit
  protected,          \* protected_targets of handle_scheduled_check()
  requests,           \* the transitions it has decided on and not yet requested
  outcome             \* the AdmissionOutcome it will return

strategyVars == <<factors, continuity_enabled, next_check, next_lightweight>>
hookVars == <<phase, snapshot, advanced, todo, protected, requests, outcome>>
ttlVars == <<schedulerVars, strategyVars, hookVars>>

\* ProgressTTLProgramFactors(), as far as control depends on them.  A sidecar is
\* created on first use and dropped on release: an absent one is a fresh one.
FreshFactors ==
  [privileged |-> FALSE, privilege_left |-> None, privilege_ttl_expired |-> FALSE,
   force_left |-> None, acting_age |-> None, ttl |-> None, ttl_expiry_observed |-> FALSE,
   release_left |-> None, rounds |-> 0, evictable |-> FALSE]

NoSnapshot == [state |-> [p \in ProgramId |-> "terminated"],
               status |-> [p \in ProgramId |-> "acting"],
               marked |-> [p \in ProgramId |-> FALSE], waiting |-> {}]

TTLInit ==
  /\ Init
  /\ factors = [p \in ProgramId |-> FreshFactors]
  /\ continuity_enabled = FALSE
  /\ next_check = None
  /\ next_lightweight = None
  /\ phase = "none"
  /\ snapshot = NoSnapshot
  /\ advanced = NoSnapshot
  /\ todo = {}
  /\ protected = {}
  /\ requests = << >>
  /\ outcome = "none"

\* _transitions_enabled()
TransitionsEnabled == Mode = "on" \/ (Mode = "auto" /\ continuity_enabled)
-----------------------------------------------------------------------------
(***************************************************************************)
(* Snapshots.  waiting_programs is the set of paused Programs; a Program   *)
(* that this very arrival created is left out of it.                       *)
(***************************************************************************)
Live(sn) == {p \in ProgramId : sn.state[p] # "terminated"}

ActivePrograms(sn) == {p \in ProgramId : sn.state[p] = "active"}

\* The paused reasoning Programs: those with a retained request.
Waiters(sn) == {p \in sn.waiting : sn.state[p] = "paused" /\ sn.status[p] = "reasoning"}

\* _snapshot() of the state this step leaves.
SnapshotAfter(excluded) ==
  [state |-> state', status |-> status', marked |-> marked_for_pause',
   waiting |-> {p \in ProgramId : state'[p] = "paused"} \ excluded]

\* Mutant of AdvanceSnapshot: a reclaimed Program stays active in the snapshot.
AdvanceForgettingPause(sn, kind, p) ==
  IF kind = "pause" THEN sn
  ELSE LET st == CASE kind = "resume" -> "active" [] kind = "release" -> "terminated"
                   [] OTHER -> sn.state[p]
           states == [sn.state EXCEPT ![p] = st]
       IN  [sn EXCEPT !.state = states, !.marked[p] = (kind = "mark"),
                      !.waiting = {q \in ProgramId : states[q] = "paused"}]

\* _advance_snapshot(), for one entry of the ledger of accepted transitions.
AdvanceSnapshot(sn, kind, p) ==
  LET states == [sn.state EXCEPT ![p] = CASE kind = "resume" -> "active"
                                          [] kind = "pause" -> "paused"
                                          [] kind = "release" -> "terminated"
                                          [] OTHER -> @]
  IN  [sn EXCEPT !.state = states,
                 !.marked[p] = CASE kind = "mark" -> TRUE
                                 [] kind = "queue" -> @
                                 [] OTHER -> FALSE,
                 !.waiting = {q \in ProgramId : states[q] = "paused"}]
-----------------------------------------------------------------------------
(***************************************************************************)
(* What each event does to the factors of its Program.                     *)
(***************************************************************************)
\* on_program_admitted(), on_program_resumed(): a new service segment.
StartSegment(f) ==
  [f EXCEPT !.rounds = 0, !.evictable = FALSE, !.force_left = None,
            !.acting_age = None, !.ttl = None, !.release_left = None]

\* Mutant of OnProgramPaused: the retention deadline is not set.
OnProgramPausedNoRelease(f, reason) ==
  [StartSegment(f) EXCEPT !.ttl_expiry_observed = FALSE,
                          !.privileged = @ /\ reason = "ttl_expired",
                          !.privilege_left = IF reason = "ttl_expired" THEN @ ELSE None]

\* on_program_paused(): the segment ends and retention starts; only a TTL pause
\* keeps the privilege.
OnProgramPaused(f, reason) ==
  [StartSegment(f) EXCEPT !.ttl_expiry_observed = FALSE,
                          !.release_left = PausedTtl,
                          !.privileged = @ /\ reason = "ttl_expired",
                          !.privilege_left = IF reason = "ttl_expired" THEN @ ELSE None]

\* Mutant of QueueRequest: the force deadline is not frozen.
QueueWithoutDeadline(f, timeout) ==
  [f EXCEPT !.acting_age = None, !.ttl = None, !.release_left = None]

\* _queue() freezes the force deadline of a request that starts to wait, unless
\* one is running; on_request_pending() then stops the other clocks.
QueueRequest(f, timeout) ==
  [f EXCEPT !.force_left = IF @ = None THEN timeout ELSE @,
            !.acting_age = None, !.ttl = None, !.release_left = None]

\* on_program_status_changed(), for a Program that starts reasoning.
OnReasoning(f) == [f EXCEPT !.acting_age = None, !.ttl = None]

\* on_request_finished(): the acting clock starts with the Program's last
\* request; a round counts only if the cached prefix survived.
OnRequestFinished(f, now, ttl, continuous, minimum) ==
  LET rounds == IF continuous THEN Min({f.rounds + 1, TargetMaxRounds}) ELSE f.rounds
  IN  [f EXCEPT !.rounds = rounds, !.evictable = rounds >= minimum,
                !.ttl_expiry_observed = FALSE,
                !.acting_age = IF now = "acting" THEN 0 ELSE None,
                !.ttl = IF now = "acting" THEN ttl ELSE None,
                !.release_left = None]

\* _set_privileged()
SetPrivileged(f, enabled) ==
  [f EXCEPT !.privileged = enabled,
            !.privilege_left = IF enabled THEN PrivilegedTtl ELSE None,
            !.privilege_ttl_expired = IF enabled THEN FALSE ELSE @]
-----------------------------------------------------------------------------
(***************************************************************************)
(* Deadlines.                                                              *)
(***************************************************************************)
Left(deadline, age) == Max({0, deadline - age})

\* The deadlines next_check_at() looks at for one Program.  In the off mode an
\* expiry that was recorded does not count again.
Deadlines(f, enabled) ==
  LET watched == enabled \/ ~f.ttl_expiry_observed
  IN  (IF watched /\ f.ttl # None THEN {Left(f.ttl, f.acting_age)} ELSE {})
      \cup (IF watched /\ f.acting_age # None THEN {Left(TtlMax, f.acting_age)} ELSE {})
      \cup (IF f.release_left # None THEN {f.release_left} ELSE {})

Earliest(deadlines) == IF deadlines = {} THEN None ELSE Min(deadlines)

NextCheckAt(fs, enabled) == Earliest(UNION {Deadlines(fs[p], enabled) : p \in ProgramId})

NextLightweightCheckAt(fs) ==
  Earliest({fs[p].privilege_left : p \in {q \in ProgramId :
              fs[q].privileged /\ fs[q].privilege_left # None}})

\* _dispatch_event() ends by caching the strategy's next deadlines.
CacheDeadlines ==
  /\ next_check' = NextCheckAt(factors', TransitionsEnabled')
  /\ next_lightweight' = NextLightweightCheckAt(factors')

\* _force_resume_due()
ForceResumeDue(p) == status[p] = "reasoning" /\ factors[p].force_left = 0
-----------------------------------------------------------------------------
(***************************************************************************)
(* Privileges.                                                             *)
(***************************************************************************)
RetainsPrivilege(fs, sn, p) ==
  /\ fs[p].privileged
  /\ \/ sn.state[p] = "active"
     \/ sn.state[p] = "paused" /\ sn.status[p] = "reasoning"
  /\ task_id[p] # None
  /\ fs[p].privilege_left # 0

\* K is what the loop of _reconcile_privileges() keeps of the eligible set E: it
\* goes by progress, and takes one Program per task up to the limit.
KeptPrivileges(fs, E, K) ==
  /\ \A p, q \in K : p # q => task_id[p] # task_id[q]
  /\ Cardinality(K) <= PrivilegedLimit
  /\ \A p \in E \ K :
       \/ \E q \in K : task_id[q] = task_id[p] /\ fs[q].rounds >= fs[p].rounds
       \/ /\ Cardinality(K) = PrivilegedLimit
          /\ \A q \in K : fs[q].rounds >= fs[p].rounds

\* _reconcile_privileges(): the factors it may leave.
Reconciled(fs, sn) ==
  LET E == {p \in ProgramId : RetainsPrivilege(fs, sn, p)}
      Cleared(K) == [p \in ProgramId |-> IF fs[p].privileged /\ p \notin K
                                         THEN SetPrivileged(fs[p], FALSE) ELSE fs[p]]
  IN  {Cleared(K) : K \in {S \in SUBSET E : KeptPrivileges(fs, E, S)}}

\* Mutant of CanPromote: one slot too many.
CanPromoteOneMore(fs, sn, p) ==
  LET holders == {q \in ActivePrograms(sn) : fs[q].privileged}
  IN  /\ task_id[p] # None
      /\ ~fs[p].privilege_ttl_expired
      /\ \A q \in holders : q # p => task_id[q] # task_id[p]
      /\ Cardinality(holders) <= PrivilegedLimit

\* _can_promote(): the slots in use are those of active Programs.
CanPromote(fs, sn, p) ==
  LET holders == {q \in ActivePrograms(sn) : fs[q].privileged}
  IN  /\ task_id[p] # None
      /\ ~fs[p].privilege_ttl_expired
      /\ \A q \in holders : q # p => task_id[q] # task_id[p]
      /\ Cardinality(holders) < PrivilegedLimit

\* _promote_progress_privileges(): slots are filled until no active Program can be
\* promoted.  The code goes by progress and generated tokens; any order is allowed.
Promoted(fs, sn) ==
  LET C == {p \in ActivePrograms(sn) : ~fs[p].privileged}
      With(K) == [p \in ProgramId |-> IF p \in K THEN SetPrivileged(fs[p], TRUE) ELSE fs[p]]
  IN  {With(K) : K \in {S \in SUBSET C :
                          /\ \A p \in S : CanPromote(With(S \ {p}), sn, p)
                          /\ \A p \in C \ S : ~CanPromote(With(S), sn, p)}}

\* relation_tier() of _privileged_relationship_source().
RelationTier(source, candidate) ==
  IF parent_program_id[candidate] = source THEN 0
  ELSE IF \/ /\ parent_program_id[candidate] # None
             /\ parent_program_id[source] = parent_program_id[candidate]
          \/ parent_program_id[source] = candidate
  THEN 1 ELSE 2

\* The Programs a candidate may take the privilege of.
RelationshipSources(fs, p) ==
  LET sources == {q \in ActivePrograms(snapshot) \ {p} :
                    /\ RelationTier(q, p) < 2
                    /\ task_id[p] # None /\ task_id[q] = task_id[p]
                    /\ snapshot.status[q] = "acting"
                    /\ ~snapshot.marked[q]
                    /\ fs[q].privileged}
  IN  {q \in sources : \A o \in sources : RelationTier(q, p) <= RelationTier(o, p)}

\* _same_task_ttl_privilege_target()
TargetTier(p) ==
  CASE snapshot.state[p] = "active" /\ snapshot.status[p] = "reasoning" -> 0
    [] snapshot.state[p] = "paused" /\ snapshot.status[p] = "reasoning" -> 1
    [] snapshot.state[p] = "active" /\ snapshot.status[p] = "acting" -> 2
    [] OTHER -> 3

TtlPrivilegeTargets(p) ==
  LET targets == {q \in Live(snapshot) \ {p} :
                    task_id[p] # None /\ task_id[q] = task_id[p] /\ TargetTier(q) < 3}
  IN  {q \in targets : \A o \in targets : TargetTier(q) <= TargetTier(o)}
-----------------------------------------------------------------------------
(***************************************************************************)
(* Requested transitions, with the privilege updates that go with them.    *)
(***************************************************************************)
Ask(kind, p, reason) == [kind |-> kind, program |-> p, reason |-> reason]

AskAll(kind, seq, reason) == [i \in DOMAIN seq |-> Ask(kind, seq[i], reason)]

Requesting(kind) == requests # << >> /\ Head(requests).kind = kind

\* The factors after an event of Program p, and the deadlines cached with them.
Applied(p, f) ==
  /\ factors' = [factors EXCEPT ![p] = f]
  /\ UNCHANGED continuity_enabled
  /\ CacheDeadlines
  /\ requests' = Tail(requests)
  /\ advanced' = AdvanceSnapshot(advanced, Head(requests).kind, p)
  /\ UNCHANGED <<phase, snapshot, todo, protected, outcome>>

ApplyResume ==
  LET p == Head(requests).program
  IN  Requesting("resume") /\ AdmitOrResume(p) /\ Applied(p, StartSegment(factors[p]))

ApplyPause ==
  LET p == Head(requests).program
  IN  /\ Requesting("pause")
      /\ Pause(p)
      /\ Applied(p, OnProgramPaused(factors[p], Head(requests).reason))

\* on_program_marked_for_pause()
ApplyMark ==
  LET p == Head(requests).program
  IN  /\ Requesting("mark")
      /\ MarkForPause(p)
      /\ Applied(p, [factors[p] EXCEPT !.ttl = None])

ApplyRelease ==
  LET p == Head(requests).program
  IN  Requesting("release") /\ ReleaseIdle(p) /\ Applied(p, FreshFactors)

\* The timeout that _dynamic_force_resume_timeout() estimates is clamped.
ApplyQueue ==
  LET p == Head(requests).program
  IN  /\ Requesting("queue")
      /\ state[p] = "paused"
      /\ UNCHANGED schedulerVars
      /\ \E timeout \in ForceMin..ForceMax : Applied(p, QueueRequest(factors[p], timeout))

SetPrivilege ==
  LET p == Head(requests).program
  IN  /\ Requesting("promote") \/ Requesting("demote")
      /\ factors' = [factors EXCEPT ![p] = SetPrivileged(@, Head(requests).kind = "promote")]
      /\ requests' = Tail(requests)
      /\ UNCHANGED <<schedulerVars, continuity_enabled, next_check, next_lightweight,
                     phase, snapshot, advanced, todo, protected, outcome>>
-----------------------------------------------------------------------------
(***************************************************************************)
(* Admission.  The arrival binds the request and reports the change to     *)
(* REASONING; handle_admission() then decides on a fresh snapshot.         *)
(***************************************************************************)
Arrive(r, m) ==
  LET p == m.program
      created == p \notin programs
  IN  /\ OnRequestArrival(r, m)
      /\ UNCHANGED continuity_enabled
      /\ \/ /\ status[p] = "acting"
            /\ factors' = [factors EXCEPT ![p] = OnReasoning(@)]
            /\ CacheDeadlines
         \/ /\ status[p] = "reasoning"
            /\ UNCHANGED <<factors, next_check, next_lightweight>>
      /\ phase' = "admission"
      /\ snapshot' = SnapshotAfter(IF created THEN {p} ELSE {})
      /\ advanced' = snapshot'
      /\ UNCHANGED <<todo, protected, requests, outcome>>

ArriveRefused(r, m) == OnRequestArrivalRefused(r, m) /\ UNCHANGED <<strategyVars, hookVars>>

Decide(asked, disposition) ==
  /\ requests' = asked
  /\ outcome' = disposition
  /\ phase' = "outcome"
  /\ UNCHANGED <<schedulerVars, continuity_enabled, next_check, next_lightweight,
                 snapshot, advanced, todo, protected>>

\* _admit_without_pt()
AdmitWithoutPT ==
  LET p == CandidateProgram
  IN  /\ phase = "admission"
      /\ ~TransitionsEnabled
      /\ Decide(IF snapshot.state[p] = "active" THEN << >>
                ELSE <<Ask("resume", p, "off_direct")>>, "admitted")
      /\ UNCHANGED factors

AdmitActive ==
  /\ phase = "admission"
  /\ TransitionsEnabled
  /\ factors' \in Reconciled(factors, snapshot)
  /\ snapshot.state[CandidateProgram] = "active"
  /\ Decide(<< >>, "admitted")

\* A candidate that is not active, with the privileges reconciled.
Considering(p) ==
  /\ phase = "admission"
  /\ TransitionsEnabled
  /\ factors' \in Reconciled(factors, snapshot)
  /\ snapshot.state[p] # "active"

\* _admit_by_privilege_handoff()
AdmitByHandoff ==
  LET p == CandidateProgram
  IN  /\ Considering(p)
      /\ \E source \in RelationshipSources(factors', p) :
           Decide(<<Ask("pause", source, "handoff"), Ask("demote", source, "handoff"),
                    Ask("resume", p, "handoff"), Ask("promote", p, "handoff")>>, "admitted")

\* A paused Program is resumed by its own arrival only if no other request waits.
ArrivalResumes(p) ==
  p \in snapshot.waiting /\ Cardinality({r \in Request : pool_status[r] = "waiting"}) = 1

AdmitResumed ==
  LET p == CandidateProgram
  IN  /\ Considering(p)
      /\ RelationshipSources(factors', p) = {}
      /\ ArrivalResumes(p)
      /\ Decide(<<Ask("resume", p, "arrival")>>, "admitted")

\* direct_capacity and batch_gain_over_recovery_cost: with nothing paused, a
\* candidate that fits is admitted, and promoted if a slot is free.
AdmitDirect ==
  LET p == CandidateProgram
  IN  /\ Considering(p)
      /\ RelationshipSources(factors', p) = {}
      /\ snapshot.waiting = {}
      /\ Decide(<<Ask("resume", p, "direct")>>
                  \o (IF CanPromote(factors', snapshot, p)
                      THEN <<Ask("promote", p, "direct")>> ELSE << >>), "admitted")

\* Mutant of QueueCandidate: the outcome is not the transition's.
QueueReportedAdmitted ==
  LET p == CandidateProgram
  IN  /\ Considering(p)
      /\ RelationshipSources(factors', p) = {}
      /\ Decide(<<Ask("queue", p, "queued")>>, "admitted")

\* already_waiting, waiting_queue_precedence, capacity_unknown and
\* insufficient_capacity.
QueueCandidate ==
  LET p == CandidateProgram
  IN  /\ Considering(p)
      /\ RelationshipSources(factors', p) = {}
      /\ Decide(<<Ask("queue", p, "queued")>>, "queued")

\* The hook has returned: what it held is forgotten.
HookOver ==
  /\ phase' = "none"
  /\ snapshot' = NoSnapshot
  /\ advanced' = NoSnapshot
  /\ todo' = {}
  /\ protected' = {}
  /\ requests' = << >>
  /\ outcome' = "none"

\* The rest of on_request_arrival(): the runtime believes the outcome.
FinishAdmission ==
  /\ phase = "outcome"
  /\ requests = << >>
  /\ hook' = Idle
  /\ HookOver
  /\ next_lightweight' = NextLightweightCheckAt(factors)
  /\ UNCHANGED <<registryVars, recordVars, request_bindings, program_requests, sideVars,
                 cycle_dirty, factors, continuity_enabled, next_check>>

HandOver ==
  /\ outcome = "admitted"
  /\ RemoveEntries({hook.request})
  /\ native' = native \cup {hook.request}
  /\ FinishAdmission

Retain ==
  /\ outcome = "queued"
  /\ UNCHANGED <<pool_status, pool_program, recent_admit, native>>
  /\ FinishAdmission

Admission == \/ AdmitWithoutPT \/ AdmitActive \/ AdmitByHandoff \/ AdmitResumed
             \/ AdmitDirect \/ QueueCandidate
-----------------------------------------------------------------------------
(***************************************************************************)
(* Completion, cancellation and terminal facts.                            *)
(***************************************************************************)
Complete(r) ==
  LET p == request_bindings[r][1]
      paused == state[p] = "active" /\ state'[p] = "paused"
  IN  /\ OnRequestCompletion(r)
      /\ continuity_enabled' \in (IF Mode = "auto" THEN BOOLEAN ELSE {continuity_enabled})
      /\ \E ttl \in 0..TtlMax, continuous \in BOOLEAN, minimum \in 0..TargetMaxRounds :
           LET f == OnRequestFinished(factors[p], status'[p], ttl, continuous, minimum)
           IN  factors' = [factors EXCEPT ![p] = IF paused THEN OnProgramPaused(f, "marked") ELSE f]
      /\ CacheDeadlines
      /\ \/ /\ hook' = Idle
            /\ UNCHANGED hookVars
         \/ /\ hook' # Idle
            /\ phase' = "completion"
            /\ snapshot' = SnapshotAfter({})
            /\ advanced' = snapshot'
            /\ todo' = {p}
            /\ UNCHANGED <<protected, requests, outcome>>

\* handle_request_completion(): a Program that has used up its segment yields to
\* the waiters, unless marked pauses will make room for the first of them.
YieldCompleted(p) ==
  /\ phase = "completion"
  /\ p \in todo
  /\ TransitionsEnabled
  /\ snapshot.state[p] = "active"
  /\ snapshot.status[p] = "acting"
  /\ ~factors[p].privileged
  /\ factors[p].rounds >= TargetMaxRounds
  /\ Waiters(snapshot) # {}
  /\ requests' = <<Ask("pause", p, "max_round")>>
  /\ phase' = "yielding"
  /\ UNCHANGED <<schedulerVars, strategyVars, snapshot, advanced, todo, protected, outcome>>

FinishCompletion ==
  /\ phase \in {"completion", "yielding"}
  /\ requests = << >>
  /\ EndHook
  /\ HookOver
  /\ UNCHANGED strategyVars

\* on_program_released() drops the sidecar.  A Program that stops reasoning by a
\* cancellation has no factor changed.
Cancel(r) ==
  LET p == request_bindings[r][1]
  IN  /\ Cancellation
      /\ CancelRequest(r)
      /\ factors' = IF state'[p] = "terminated" THEN [factors EXCEPT ![p] = FreshFactors]
                    ELSE factors
      /\ UNCHANGED continuity_enabled
      /\ IF UNCHANGED recordVars THEN UNCHANGED <<next_check, next_lightweight>>
         ELSE CacheDeadlines
      /\ UNCHANGED hookVars

Terminal(p) ==
  /\ OnResponseTerminal(p)
  /\ factors' = [factors EXCEPT ![p] = FreshFactors]
  /\ UNCHANGED continuity_enabled
  /\ CacheDeadlines
  /\ UNCHANGED hookVars
-----------------------------------------------------------------------------
(***************************************************************************)
(* schedule_cycle(): resume, then repair, then the due checks, each on the *)
(* snapshot advanced by what the one before has done.                      *)
(***************************************************************************)
\* needs_schedule_cycle(); the periodic interval is shorter than a tick.
CycleNeeded == next_check = 0 \/ cycle_dirty \/ programs # {}

BeginCycle ==
  /\ CycleNeeded
  /\ ScheduleCycle
  /\ snapshot' = SnapshotAfter({})
  /\ advanced' = snapshot'
  /\ phase' = "resume"
  /\ todo' = Waiters(snapshot')
  /\ factors' \in (IF TransitionsEnabled THEN Reconciled(factors, snapshot') ELSE {factors})
  /\ UNCHANGED <<continuity_enabled, next_check, next_lightweight, protected, requests, outcome>>

Deciding(step) == phase = step /\ requests = << >>

\* A loop iteration of Program p that asks for the given transitions.
Visit(p, asked) ==
  /\ requests' = asked
  /\ todo' = todo \ {p}
  /\ UNCHANGED <<schedulerVars, continuity_enabled, next_check, next_lightweight,
                 phase, snapshot, advanced, outcome>>

\* The tiers of _resume_key().  Ordinary waiters are ordered by estimates.
ResumeTier(p) == IF ForceResumeDue(p) THEN -2 ELSE IF factors[p].privileged THEN -1 ELSE 0

FirstWaiter(p) == p \in todo /\ \A q \in todo : ResumeTier(p) <= ResumeTier(q)

\* schedule_resume() in the off mode, and for forced and privileged waiters.
ResumeAtOnce(p) ==
  /\ Deciding("resume")
  /\ FirstWaiter(p)
  /\ ~TransitionsEnabled \/ ResumeTier(p) < 0
  /\ Visit(p, <<Ask("resume", p, "resume")>>)
  /\ UNCHANGED <<factors, protected>>

\* The acting Programs that may be reclaimed, those at the end of their segment
\* before the others.
Victims == {v \in ActivePrograms(advanced) :
              /\ snapshot.state[v] = "active" /\ snapshot.status[v] = "acting"
              /\ factors[v].evictable /\ ~factors[v].privileged}

LayeredFit(V) ==
  LET old == {v \in Victims : factors[v].rounds >= TargetMaxRounds}
  IN  V # {} /\ (V \subseteq old \/ old \subseteq V)

\* An ordinary waiter that fits is resumed; one that does not may have victims
\* paused for it, which need not be enough once the reserve is computed again.
ResumeOrdinary(p) ==
  /\ Deciding("resume")
  /\ FirstWaiter(p)
  /\ TransitionsEnabled
  /\ ResumeTier(p) = 0
  /\ \/ Visit(p, << >>)
     \/ Visit(p, <<Ask("resume", p, "resume")>>)
     \/ \E V \in {S \in SUBSET Victims : LayeredFit(S)} :
          \E seq \in SetToSeqs(V), fits \in BOOLEAN :
            Visit(p, AskAll("pause", seq, "reclaim")
                       \o (IF fits THEN <<Ask("resume", p, "resume")>> ELSE << >>))
  /\ UNCHANGED <<factors, protected>>

\* repair_capacity(): privileges first, then victims.
BeginRepair ==
  /\ Deciding("resume")
  /\ todo = {}
  /\ phase' = "repair"
  /\ snapshot' = advanced
  /\ \/ /\ TransitionsEnabled
        /\ todo' = {p \in ActivePrograms(advanced) : ~advanced.marked[p]}
        /\ factors' \in UNION {Promoted(fs, advanced) : fs \in Reconciled(factors, advanced)}
     \/ ~TransitionsEnabled /\ UNCHANGED <<factors, todo>>
  /\ UNCHANGED <<schedulerVars, continuity_enabled, next_check, next_lightweight,
                 advanced, protected, requests, outcome>>

\* One more victim of a deficit: an idle Program is paused, a reasoning one
\* marked.  A privileged Program is demoted only when no ordinary one is left.
RepairVictim(v) ==
  /\ Deciding("repair")
  /\ v \in todo
  /\ factors[v].privileged => \A o \in todo : factors[o].privileged
  /\ Visit(v, (IF factors[v].privileged THEN <<Ask("demote", v, "repair")>> ELSE << >>)
                \o <<Ask(IF snapshot.status[v] = "acting" THEN "pause" ELSE "mark", v, "repair")>>)
  /\ UNCHANGED <<factors, protected>>

\* handle_scheduled_check(), if a deadline is due by now.
BeginCheck ==
  /\ Deciding("repair")
  /\ next_check = 0
  /\ phase' = "check"
  /\ snapshot' = advanced
  /\ todo' = Live(advanced)
  /\ factors' \in Reconciled(factors, advanced)
  /\ UNCHANGED <<schedulerVars, continuity_enabled, next_check, next_lightweight,
                 advanced, protected, requests, outcome>>

\* The acting deadline was armed with one estimate of the TTL and is checked
\* with another, or the Program is acting without a clock.
ActingExpired(p, estimate) ==
  LET f == factors[p]
  IN  /\ snapshot.state[p] = "active"
      /\ snapshot.status[p] = "acting"
      /\ p \notin protected
      /\ \/ f.acting_age = None
         \/ /\ f.acting_age # None
            /\ \E ttl \in {f.ttl, estimate} \ {None} : ttl <= f.acting_age

KeepActing(p) ==
  /\ Deciding("check")
  /\ p \in todo
  /\ \E estimate \in 0..TtlMax : ~ActingExpired(p, estimate)
  /\ Visit(p, << >>)
  /\ UNCHANGED <<factors, protected>>

\* In the off mode the expiry is only recorded.
RecordExpiry(p) ==
  /\ Deciding("check")
  /\ p \in todo
  /\ ~TransitionsEnabled
  /\ \E estimate \in 0..TtlMax : ActingExpired(p, estimate)
  /\ Visit(p, << >>)
  /\ factors' = [factors EXCEPT ![p].ttl_expiry_observed = TRUE]
  /\ protected' = protected \cup {p}

\* An expired Program is paused; its privilege goes to a Program of its task if
\* there is one that can use it, and is kept otherwise.
ExpireActing(p) ==
  LET targets == IF factors[p].privileged THEN TtlPrivilegeTargets(p) ELSE {}
      pause == <<Ask("pause", p, "ttl_expired")>>
  IN  /\ Deciding("check")
      /\ p \in todo
      /\ TransitionsEnabled
      /\ \E estimate \in 0..TtlMax : ActingExpired(p, estimate)
      /\ \/ /\ targets = {}
            /\ Visit(p, pause)
            /\ UNCHANGED protected
         \/ \E t \in targets :
              /\ Visit(p, pause \o <<Ask("demote", p, "ttl_expired")>>
                            \o (IF snapshot.state[t] = "paused"
                                THEN <<Ask("resume", t, "ttl_handoff")>> ELSE << >>)
                            \o <<Ask("promote", t, "ttl_handoff")>>)
              /\ protected' = protected \cup {t}
      /\ UNCHANGED factors

\* The second loop of handle_scheduled_check().
ReleaseExpired ==
  LET expired == {p \in Live(snapshot) :
                    /\ snapshot.state[p] = "paused" /\ snapshot.status[p] = "acting"
                    /\ factors[p].release_left = 0}
  IN  /\ Deciding("check")
      /\ todo = {}
      /\ phase' = "checked"
      /\ \E seq \in SetToSeqs(expired) : requests' = AskAll("release", seq, "retention")
      /\ UNCHANGED <<schedulerVars, strategyVars, snapshot, advanced, todo, protected, outcome>>

\* Mutant of FinishCycle: the deadlines cached by the last event are kept.
FinishCycleStale ==
  /\ \/ Deciding("repair") /\ next_check # 0
     \/ Deciding("checked")
  /\ EndHook
  /\ HookOver
  /\ UNCHANGED strategyVars

FinishCycle ==
  /\ \/ Deciding("repair") /\ next_check # 0
     \/ Deciding("checked")
  /\ EndHook
  /\ HookOver
  /\ UNCHANGED <<factors, continuity_enabled>>
  /\ CacheDeadlines
-----------------------------------------------------------------------------
(***************************************************************************)
(* Time, and the checks that need no cycle.                                *)
(***************************************************************************)
Countdown(left) == IF left = None THEN None ELSE Max({0, left - 1})

Tick ==
  /\ hook = Idle
  /\ factors' = [p \in ProgramId |->
       [factors[p] EXCEPT !.privilege_left = Countdown(@), !.force_left = Countdown(@),
                          !.release_left = Countdown(@),
                          !.acting_age = IF @ = None THEN None ELSE Min({@ + 1, TtlMax})]]
  /\ next_check' = Countdown(next_check)
  /\ next_lightweight' = Countdown(next_lightweight)
  /\ UNCHANGED <<schedulerVars, continuity_enabled, hookVars>>

\* run_due_lightweight_checks() and handle_lightweight_check(): a privilege that
\* has run out is lost, and not given again by promotion.
LightweightCheck ==
  /\ hook = Idle
  /\ next_lightweight = 0
  /\ factors' = [p \in ProgramId |->
       IF factors[p].privileged /\ factors[p].privilege_left = 0
       THEN [SetPrivileged(factors[p], FALSE) EXCEPT !.privilege_ttl_expired = TRUE]
       ELSE factors[p]]
  /\ next_lightweight' = NextLightweightCheckAt(factors')
  /\ UNCHANGED <<schedulerVars, continuity_enabled, next_check, hookVars>>

Consume == ConsumeAdmitted /\ UNCHANGED <<strategyVars, hookVars>>

Apply == ApplyResume \/ ApplyPause \/ ApplyMark \/ ApplyRelease \/ ApplyQueue \/ SetPrivilege

CycleStep ==
  \/ \E p \in ProgramId : \/ ResumeAtOnce(p) \/ ResumeOrdinary(p) \/ RepairVictim(p)
                          \/ KeepActing(p) \/ RecordExpiry(p) \/ ExpireActing(p)
  \/ BeginRepair
  \/ BeginCheck
  \/ ReleaseExpired
  \/ FinishCycle

TTLNext ==
  \/ \E r \in Request, m \in KnownIdentity : Arrive(r, m)
  \/ \E r \in Request, m \in KnownIdentity : ArriveRefused(r, m)
  \/ Admission
  \/ HandOver
  \/ Retain
  \/ Apply
  \/ \E r \in Request : Complete(r)
  \/ \E p \in ProgramId : YieldCompleted(p)
  \/ FinishCompletion
  \/ \E r \in Request : Cancel(r)
  \/ \E p \in ProgramId : Terminal(p)
  \/ BeginCycle
  \/ CycleStep
  \/ Consume
  \/ Tick
  \/ LightweightCheck

TTLSpec == TTLInit /\ [][TTLNext]_ttlVars

(***************************************************************************)
(* EngineCore polls while a request is retained, so a cycle and the time   *)
(* that passes come again and again; a hook that was entered returns.      *)
(* Nothing is assumed of completions, arrivals or capacity.                *)
(***************************************************************************)
PollingWithWork == BeginCycle /\ \E r \in Request : pool_status[r] # "absent"

TTLFairness ==
  /\ SF_ttlVars(Tick)
  /\ SF_ttlVars(PollingWithWork)
  /\ WF_ttlVars(Admission)
  /\ WF_ttlVars(HandOver \/ Retain)
  /\ WF_ttlVars(Apply)
  /\ WF_ttlVars(FinishCompletion)
  /\ WF_ttlVars(CycleStep)

FairTTLSpec == TTLSpec /\ TTLFairness
-----------------------------------------------------------------------------
Ticks(n) == 0..n \cup {None}

FactorRecord ==
  [privileged : BOOLEAN, privilege_left : Ticks(PrivilegedTtl),
   privilege_ttl_expired : BOOLEAN, force_left : Ticks(ForceMax),
   acting_age : Ticks(TtlMax), ttl : Ticks(TtlMax), ttl_expiry_observed : BOOLEAN,
   release_left : Ticks(PausedTtl), rounds : 0..TargetMaxRounds, evictable : BOOLEAN]

TTLTypeOK ==
  /\ factors \in [ProgramId -> FactorRecord]
  /\ continuity_enabled \in BOOLEAN
  /\ next_check \in Nat \cup {None}
  /\ next_lightweight \in Nat \cup {None}
  /\ phase \in {"none", "admission", "outcome", "completion", "yielding", "resume",
               "repair", "check", "checked"}
  /\ outcome \in {"none", "admitted", "queued"}
  /\ todo \subseteq ProgramId
  /\ protected \subseteq ProgramId

\* Every transition the strategy decides on is still valid when its turn comes,
\* after the ones before it have changed Programs and factors: the RuntimeError
\* of _require_applied() never leaves a hook half done.
RequestsApply ==
  requests # << >> =>
    LET q == Head(requests)
        p == q.program
    IN  CASE q.kind = "resume" -> p \in programs /\ state[p] = "paused"
          [] q.kind = "queue" -> p \in programs /\ state[p] = "paused"
          [] q.kind = "pause" -> CanPause(p)
          [] q.kind = "mark" -> /\ p \in programs /\ state[p] = "active"
                                /\ status[p] = "reasoning" /\ ~marked_for_pause[p]
          [] q.kind = "release" -> p \in programs /\ RequestsOf(Ref(p)) = {}
          [] OTHER -> p \in programs

\* The snapshot that repair and the checks decide on, derived from the ledger of
\* accepted transitions, is what the registry would say (_advance_snapshot()).
AdvancedSnapshotExact ==
  hook.kind = "cycle" =>
    /\ advanced.state = state
    /\ advanced.status = status
    /\ advanced.marked = marked_for_pause
    /\ advanced.waiting = {p \in ProgramId : state[p] = "paused"}

\* A decision is taken on the present and applied to it: types, requests that
\* still apply when their turn comes, and the snapshot they were decided on.
DecisionsCurrent == TTLTypeOK /\ RequestsApply /\ AdvancedSnapshotExact

\* Between hooks the deadlines the runtime has cached are the strategy's: no
\* timer is missed, none fires for a factor that has changed.
CachedDeadlinesExact ==
  hook = Idle =>
    /\ next_check = NextCheckAt(factors, TransitionsEnabled)
    /\ next_lightweight = NextLightweightCheckAt(factors)

\* A Program with a retained request has a force deadline running, whichever way
\* it came to wait: the bound on starvation exists for every waiter.
WaitersHaveForceDeadline ==
  hook = Idle =>
    \A p \in ProgramId :
      state[p] = "paused" /\ status[p] = "reasoning" => factors[p].force_left # None

\* A paused Program without requests is on its retention clock, at the end of
\* which handle_scheduled_check() releases it (progress-ttl-scheduling.md: "Release
\* an idle paused Program after `paused_program_ttl_seconds`").
RetentionRuns ==
  hook = Idle =>
    \A p \in programs :
      status[p] = "acting" /\ state[p] = "paused" => factors[p].release_left # None

\* An idle Program is always on some clock, however it became idle: an active one
\* on its acting TTL, a paused one on its retention.  None is kept for ever.
IdleHasDeadline ==
  /\ RetentionRuns
  /\ hook = Idle =>
       \A p \in programs :
         status[p] = "acting" /\ state[p] = "active" => factors[p].acting_age # None

\* Between hooks at most one Program of a task is privileged, and at most
\* PrivilegedLimit in all, through promotions, handoffs and TTL pauses that keep
\* a privilege; and a privilege always has an end.
PrivilegesBounded ==
  LET holders == {p \in ProgramId : factors[p].privileged}
  IN  hook = Idle =>
        /\ Cardinality(holders) <= PrivilegedLimit
        /\ \A p, q \in holders : p # q => task_id[p] # task_id[q]
        /\ \A p \in holders : factors[p].privilege_left # None /\ task_id[p] # None

\* The strategy keeps the contract of the open one: above all, an admission is
\* answered ADMITTED exactly when the candidate's Program is left ACTIVE.
OpenStrategyContract == Spec

\* No retained request starves, whatever the capacity: its Program is resumed, by
\* force in the end, or the request is cancelled.
WaiterServed ==
  \A p \in ProgramId :
    state[p] = "paused" /\ status[p] = "reasoning"
      ~> ~(state[p] = "paused" /\ status[p] = "reasoning")
-----------------------------------------------------------------------------
(***************************************************************************)
(* The identities of the instances that TLC checks, for two Programs: a    *)
(* coordinator and its subagent, of one task.                              *)
(***************************************************************************)
OfTask(p, task, parent) == [program |-> p, task |-> task, parent |-> parent, blocks |-> FALSE]
Coordinator == CHOOSE p \in ProgramId : TRUE
FirstTask == CHOOSE t \in Task : TRUE
ParentAndChild ==
  {OfTask(Coordinator, FirstTask, None)}
    \cup {OfTask(p, FirstTask, Coordinator) : p \in ProgramId \ {Coordinator}}

\* The same, but a request of the subagent may name another task.
ChangingTask ==
  ParentAndChild \cup
    {OfTask(p, t, None) : p \in ProgramId \ {Coordinator}, t \in Task \ {FirstTask}}

\* Agents of no task: nobody is privileged.
Unrelated == {OfTask(p, None, None) : p \in ProgramId}

RequestSymmetry == Permutations(Request)
=============================================================================
