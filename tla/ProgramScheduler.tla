--------------------------- MODULE ProgramScheduler ---------------------------
(***************************************************************************)
(* The host-neutral Program runtime: request retention, Program state and  *)
(* status, typed transitions (agentinfer/scheduling/runtime.py with        *)
(* request_pool.py and transitions.py) over the ProgramRegistry.           *)
(*                                                                         *)
(* The scheduling strategy is left open here.  The runtime calls it inside *)
(* a hook (admission, completion, cycle); while the hook is open it may    *)
(* request any transition on any Program, one after the other, and         *)
(* _apply_transition accepts or refuses each.  A refused transition changes *)
(* nothing.  The only thing asked of the strategy is its contract: the     *)
(* outcome it returns for an admission is ADMITTED exactly when it leaves  *)
(* the candidate's Program ACTIVE.                                         *)
(*                                                                         *)
(* Each entry point is written in two parts: what the code does when it is *)
(* called, and what its caller has promised.  ProgramScheduler is          *)
(* synchronous, so one entry point runs at a time (hook = Idle); a request *)
(* id arrives once while it is in use; only a request that was handed over *)
(* is reported as completed.  Nothing in the code enforces the promises;   *)
(* VllmBridge calls the first parts, and shows that it keeps them.         *)
(*                                                                         *)
(* Token counts, timestamps and diagnostics are left out: no guard of this *)
(* module depends on them.  The order of the pool's entries is left out    *)
(* too: they are admitted and handed over together.                        *)
(***************************************************************************)
EXTENDS ProgramRegistry

LOCAL INSTANCE TLC

CONSTANT Request    \* the request ids of the host

ASSUME SchedulerAssumption ==
  /\ None \notin Request
  /\ None \notin Refs

VARIABLES
  state,              \* RuntimeProgram.state
  status,             \* RuntimeProgram.status
  marked_for_pause,   \* RuntimeProgram.marked_for_pause
  served,             \* RuntimeProgram.step_count > 0
  request_bindings,   \* request -> the reference it is bound to, or None
  program_requests,   \* the pairs <<reference, unfinished request>>
  pool_status,        \* request -> RequestPoolStatus, "absent" without entry
  pool_program,       \* request -> RequestPoolEntry.program
  recent_admit,       \* requests admitted and not yet consumed by the host
  finished_at,        \* references with a _last_request_finished_at entry
  freshness_anchor,   \* references with a _shared_prefix_freshness_anchor_at entry
  cycle_dirty,
  hook,               \* the strategy hook that is open, and its request
  native              \* requests the host took over and has not finished

recordVars == <<state, status, marked_for_pause, served>>
requestVars == <<request_bindings, program_requests, pool_status, pool_program,
                 recent_admit, native>>
sideVars == <<finished_at, freshness_anchor>>
schedulerVars == <<registryVars, recordVars, requestVars, sideVars, cycle_dirty, hook>>

Idle == [kind |-> "idle", request |-> None]

Init ==
  /\ RegistryInit
  /\ state = [p \in ProgramId |-> "terminated"]
  /\ status = [p \in ProgramId |-> "acting"]
  /\ marked_for_pause = [p \in ProgramId |-> FALSE]
  /\ served = [p \in ProgramId |-> FALSE]
  /\ request_bindings = [r \in Request |-> None]
  /\ program_requests = {}
  /\ pool_status = [r \in Request |-> "absent"]
  /\ pool_program = [r \in Request |-> None]
  /\ recent_admit = {}
  /\ finished_at = {}
  /\ freshness_anchor = {}
  /\ cycle_dirty = FALSE
  /\ hook = Idle
  /\ native = {}
-----------------------------------------------------------------------------
\* _program_requests.get(ref): the unfinished requests of one generation.
RequestsOf(ref) == {r \in Request : <<ref, r>> \in program_requests}

\* Mutant of PopBinding: the per-Program set keeps the request.
PopBindingOnly(r) ==
  /\ request_bindings' = [request_bindings EXCEPT ![r] = None]
  /\ UNCHANGED program_requests

\* _pop_binding(): the binding and its entry in the per-Program set go together.
PopBinding(r) ==
  /\ request_bindings' = [request_bindings EXCEPT ![r] = None]
  /\ program_requests' = program_requests \ {<<request_bindings[r], r>>}

\* _program_requests.get(ref) after _pop_binding(r).
RequestsLeft(ref, r) == RequestsOf(ref) \ {r}

\* The reference materialize() returns for Program p.
MaterializedRef(p) == <<p, last_generations'[p]>>

(***************************************************************************)
(* The RequestPool: an activated Program's waiting entries are admitted    *)
(* together, and an entry leaves the pool with its place in recent_admit.  *)
(***************************************************************************)
\* Mutant of WaitingOf: an admission admits its candidate only.
WaitingCandidateOf(ref) ==
  {r \in Request : /\ pool_status[r] = "waiting" /\ pool_program[r] = ref
                   /\ hook.request \in {None, r}}

WaitingOf(ref) == {r \in Request : pool_status[r] = "waiting" /\ pool_program[r] = ref}

\* Mutant of RemoveEntries: the entries stay in the pool.
KeepEntries(R) ==
  /\ UNCHANGED <<pool_status, pool_program>>
  /\ recent_admit' = recent_admit \ R

RemoveEntries(R) ==
  /\ pool_status' = [r \in Request |-> IF r \in R THEN "absent" ELSE pool_status[r]]
  /\ pool_program' = [r \in Request |-> IF r \in R THEN None ELSE pool_program[r]]
  /\ recent_admit' = recent_admit \ R

DropSideTables(ref) ==
  /\ finished_at' = finished_at \ {ref}
  /\ freshness_anchor' = freshness_anchor \ {ref}

(***************************************************************************)
(* RELEASE: the registry drops the record and the runtime its side tables. *)
(***************************************************************************)
ReleaseProgram(ref) ==
  /\ Release(ref)
  /\ state' = [state EXCEPT ![ref[1]] = "terminated"]
  /\ status' = [status EXCEPT ![ref[1]] = "acting"]
  /\ marked_for_pause' = [marked_for_pause EXCEPT ![ref[1]] = FALSE]
  /\ served' = [served EXCEPT ![ref[1]] = FALSE]
  /\ DropSideTables(ref)

\* PAUSE of _apply_transition(), also taken by the completion that consumes a
\* delayed pause.
ToPaused(p) ==
  /\ state' = [state EXCEPT ![p] = "paused"]
  /\ marked_for_pause' = [marked_for_pause EXCEPT ![p] = FALSE]
  /\ freshness_anchor' = freshness_anchor \cup {Ref(p)}

\* Mutant of CanPause: an in-flight Program may be paused.
CanPauseReasoning(p) == p \in programs /\ state[p] = "active"

CanPause(p) == p \in programs /\ state[p] = "active" /\ status[p] = "acting"
-----------------------------------------------------------------------------
(***************************************************************************)
(* on_request_arrival(), up to the strategy's admission hook: the request  *)
(* is bound to the current or next generation of its Program and retained. *)
(***************************************************************************)
BindArrival(r, m) ==
  LET p == m.program
      created == p \notin programs
  IN  /\ Materialize(m)
      /\ state' = [state EXCEPT ![p] = IF created THEN "paused" ELSE @]
      /\ status' = [status EXCEPT ![p] = "reasoning"]
      /\ marked_for_pause' = [marked_for_pause EXCEPT ![p] = IF created THEN FALSE ELSE @]
      /\ served' = [served EXCEPT ![p] = IF created THEN FALSE ELSE @]
      /\ request_bindings' = [request_bindings EXCEPT ![r] = MaterializedRef(p)]
      /\ program_requests' = program_requests \cup {<<MaterializedRef(p), r>>}
      /\ pool_status' = [pool_status EXCEPT ![r] = "waiting"]
      /\ pool_program' = [pool_program EXCEPT ![r] = MaterializedRef(p)]
      /\ freshness_anchor' = IF created THEN freshness_anchor \cup {MaterializedRef(p)}
                                        ELSE freshness_anchor
      /\ cycle_dirty' = TRUE
      /\ hook' = [kind |-> "admission", request |-> r]
      /\ UNCHANGED <<recent_admit, native, finished_at>>

\* on_request_arrival() of a live Program under another task: materialize()
\* raises after the cycle was marked dirty, before anything is bound.
RefuseArrival(m) ==
  /\ TaskConflict(m)
  /\ cycle_dirty' = TRUE
  /\ UNCHANGED <<registryVars, recordVars, requestVars, sideVars, hook>>

\* The promise of an arrival: the id is not in use.
Unused(r) == hook = Idle /\ request_bindings[r] = None /\ r \notin native

OnRequestArrival(r, m) == Unused(r) /\ BindArrival(r, m)

OnRequestArrivalRefused(r, m) == Unused(r) /\ RefuseArrival(m)

(***************************************************************************)
(* The admission outcome.  An admitted request is committed to the pool's  *)
(* recent_admit if the transition has not done so, taken out again at      *)
(* once, and handed to the host.  Other requests of the same Program that  *)
(* the transition admitted stay until the next consume_admitted_requests().*)
(***************************************************************************)
CandidateProgram == pool_program[hook.request][1]

AdmissionAdmitted ==
  /\ hook.kind = "admission"
  /\ state[CandidateProgram] = "active"
  /\ RemoveEntries({hook.request})
  /\ native' = native \cup {hook.request}
  /\ hook' = Idle
  /\ UNCHANGED <<registryVars, recordVars, request_bindings, program_requests,
                 sideVars, cycle_dirty>>

AdmissionQueued ==
  /\ hook.kind = "admission"
  /\ state[CandidateProgram] # "active"
  /\ hook' = Idle
  /\ UNCHANGED <<registryVars, recordVars, requestVars, sideVars, cycle_dirty>>
-----------------------------------------------------------------------------
(***************************************************************************)
(* _apply_transition(), one action per accepted kind.  QUEUE is accepted   *)
(* for a paused Program and changes no runtime state.                      *)
(***************************************************************************)
AdmitOrResume(p) ==
  /\ hook.kind # "idle"
  /\ p \in programs
  /\ state[p] = "paused"
  /\ state' = [state EXCEPT ![p] = "active"]
  /\ marked_for_pause' = [marked_for_pause EXCEPT ![p] = FALSE]
  /\ pool_status' = [r \in Request |-> IF r \in WaitingOf(Ref(p)) THEN "admitted"
                                       ELSE pool_status[r]]
  /\ recent_admit' = recent_admit \cup WaitingOf(Ref(p))
  /\ UNCHANGED <<registryVars, status, served, request_bindings, program_requests,
                 pool_program, native, sideVars, cycle_dirty, hook>>

Pause(p) ==
  /\ hook.kind # "idle"
  /\ CanPause(p)
  /\ ToPaused(p)
  /\ UNCHANGED <<registryVars, status, served, requestVars, finished_at, cycle_dirty, hook>>

MarkForPause(p) ==
  /\ hook.kind # "idle"
  /\ p \in programs
  /\ state[p] = "active"
  /\ status[p] = "reasoning"
  /\ ~marked_for_pause[p]
  /\ marked_for_pause' = [marked_for_pause EXCEPT ![p] = TRUE]
  /\ UNCHANGED <<registryVars, state, status, served, requestVars, sideVars, cycle_dirty, hook>>

ReleaseIdle(p) ==
  /\ hook.kind # "idle"
  /\ RequestsOf(Ref(p)) = {}
  /\ ReleaseProgram(Ref(p))
  /\ UNCHANGED <<requestVars, cycle_dirty, hook>>
-----------------------------------------------------------------------------
(***************************************************************************)
(* on_request_completion(), up to the strategy's completion hook.  The     *)
(* Program starts acting with its last request; a pause that was delayed   *)
(* until then is taken instead of asking the strategy.  The early return   *)
(* for a request without binding changes nothing; BindingsExact shows that *)
(* the one for a released Program is never taken.  The promise is that the *)
(* host reports only requests it took over.                                *)
(***************************************************************************)
FinishBound(r) ==
  LET ref == request_bindings[r]
      p == ref[1]
      last == RequestsLeft(ref, r) = {}
      pauseNow == last /\ marked_for_pause[p] /\ state[p] = "active"
  IN  /\ ref # None
      /\ Get(ref)
      /\ native' = native \ {r}
      /\ PopBinding(r)
      /\ cycle_dirty' = TRUE
      /\ finished_at' = finished_at \cup {ref}
      /\ served' = [served EXCEPT ![p] = TRUE]
      /\ status' = [status EXCEPT ![p] = IF last THEN "acting" ELSE "reasoning"]
      /\ IF pauseNow THEN ToPaused(p)
         ELSE UNCHANGED <<state, marked_for_pause, freshness_anchor>>
      /\ hook' = IF last /\ marked_for_pause[p] THEN Idle
                 ELSE [kind |-> "completion", request |-> None]
      /\ UNCHANGED <<registryVars, pool_status, pool_program, recent_admit>>

OnRequestCompletion(r) == hook = Idle /\ r \in native /\ FinishBound(r)

\* on_response_completion(): a TERMINAL lifecycle fact names only the Program
\* id, and releases the current generation when it is idle.
TerminalApplies(p) ==
  /\ p \in programs
  /\ RequestsOf(Ref(p)) = {}
  /\ status[p] = "acting"

ReleaseTerminal(p) ==
  /\ TerminalApplies(p)
  /\ ReleaseProgram(Ref(p))
  /\ cycle_dirty' = TRUE
  /\ UNCHANGED <<requestVars, hook>>

OnResponseTerminal(p) == hook = Idle /\ ReleaseTerminal(p)

(***************************************************************************)
(* cancel_request(): the entry and the binding go, the status is           *)
(* recomputed, and a Program that was never served and has nothing left is *)
(* released.  The host cancels requests it retains and, for an explicit    *)
(* abort, requests it took over.                                           *)
(***************************************************************************)
DropBound(r) ==
  LET ref == request_bindings[r]
      p == ref[1]
      last == RequestsLeft(ref, r) = {}
      discard == Get(ref) /\ last /\ state[p] = "paused" /\ ~served[p]
  IN  /\ ref # None
      /\ RemoveEntries({r})
      /\ native' = native \ {r}
      /\ PopBinding(r)
      /\ cycle_dirty' = TRUE
      /\ \/ /\ discard
            /\ ReleaseProgram(ref)
         \/ /\ ~discard
            /\ status' = [status EXCEPT ![p] = IF ~Get(ref) THEN @
                                              ELSE IF last THEN "acting" ELSE "reasoning"]
            /\ UNCHANGED <<registryVars, state, marked_for_pause, served, sideVars>>
      /\ UNCHANGED hook

CancelRequest(r) == hook = Idle /\ DropBound(r)
-----------------------------------------------------------------------------
(***************************************************************************)
(* schedule_cycle(): resume, repair and the due checks are one hook for    *)
(* the open strategy.  Whether a cycle is due is a matter of time, so it   *)
(* may start whenever the runtime is idle.                                 *)
(***************************************************************************)
OpenCycle ==
  /\ hook' = [kind |-> "cycle", request |-> None]
  /\ UNCHANGED <<registryVars, recordVars, requestVars, sideVars, cycle_dirty>>

ScheduleCycle == hook = Idle /\ OpenCycle

EndHook ==
  /\ hook.kind \in {"completion", "cycle"}
  /\ hook' = Idle
  /\ cycle_dirty' = (cycle_dirty /\ hook.kind # "cycle")
  /\ UNCHANGED <<registryVars, recordVars, requestVars, sideVars>>

\* consume_admitted_requests(): every admitted entry leaves the pool for the host.
TakeAdmitted ==
  /\ recent_admit # {}
  /\ RemoveEntries(recent_admit)
  /\ native' = native \cup {r \in recent_admit : pool_status[r] # "absent"}
  /\ UNCHANGED <<registryVars, recordVars, request_bindings, program_requests,
                 sideVars, cycle_dirty, hook>>

ConsumeAdmitted == hook = Idle /\ TakeAdmitted

Transition(p) == AdmitOrResume(p) \/ Pause(p) \/ MarkForPause(p) \/ ReleaseIdle(p)

Next ==
  \/ \E r \in Request, m \in Identity : OnRequestArrival(r, m)
  \/ \E r \in Request, m \in Identity : OnRequestArrivalRefused(r, m)
  \/ AdmissionAdmitted
  \/ AdmissionQueued
  \/ \E p \in ProgramId : Transition(p)
  \/ \E r \in Request : OnRequestCompletion(r)
  \/ \E p \in ProgramId : OnResponseTerminal(p)
  \/ \E r \in Request : CancelRequest(r)
  \/ ScheduleCycle
  \/ EndHook
  \/ ConsumeAdmitted

Spec == Init /\ [][Next]_schedulerVars
-----------------------------------------------------------------------------
SchedulerTypeOK ==
  /\ state \in [ProgramId -> {"active", "paused", "terminated"}]
  /\ status \in [ProgramId -> {"reasoning", "acting"}]
  /\ marked_for_pause \in [ProgramId -> BOOLEAN]
  /\ served \in [ProgramId -> BOOLEAN]
  /\ request_bindings \in [Request -> Refs \cup {None}]
  /\ program_requests \subseteq Refs \X Request
  /\ pool_status \in [Request -> {"absent", "waiting", "admitted"}]
  /\ pool_program \in [Request -> Refs \cup {None}]
  /\ recent_admit \subseteq Request
  /\ finished_at \subseteq Refs
  /\ freshness_anchor \subseteq Refs
  /\ cycle_dirty \in BOOLEAN
  /\ hook \in [kind : {"idle", "admission", "completion", "cycle"},
               request : Request \cup {None}]
  /\ native \subseteq Request

\* The two request indexes agree, and a request is only ever bound to a live
\* generation: no completion or cancellation reaches a Program that was
\* released and re-created under the same id while the request was unfinished
\* (runtime.py _request_bindings, _program_requests; PSM-INV-002).
BindingsExact ==
  /\ \A r \in Request :
       request_bindings[r] # None => /\ Get(request_bindings[r])
                                     /\ <<request_bindings[r], r>> \in program_requests
  /\ \A e \in program_requests : request_bindings[e[2]] = e[1]

\* A Program is REASONING exactly while it has an unfinished request, whether
\* retained, admitted or native, through every overlap of arrivals,
\* completions and cancellations (runtime.py on_request_arrival,
\* on_request_completion, cancel_request; PSM-INV-003).
StatusTracksRequests ==
  \A p \in programs :
    status[p] = "reasoning" <=> \E r \in Request : request_bindings[r] = Ref(p)

\* Every unfinished request has exactly one owner, the RequestPool or the host
\* (PSM-INV-001), and an owner only for a request that is bound.
OneOwner ==
  \A r \in Request :
    /\ request_bindings[r] # None <=> pool_status[r] # "absent" \/ r \in native
    /\ ~(pool_status[r] # "absent" /\ r \in native)
    /\ pool_status[r] # "absent" => pool_program[r] = request_bindings[r]

\* A request the pool holds as WAITING belongs to a paused Program, where
\* schedule_resume() looks for work: none is left behind when its Program is
\* activated.  Only the admission candidate may wait for its own outcome.
NoStrandedRequest ==
  \A r \in Request :
    pool_status[r] = "waiting" =>
      \/ state[pool_program[r][1]] = "paused"
      \/ hook = [kind |-> "admission", request |-> r]

\* What the host executes, or is about to be given, belongs to an ACTIVE
\* Program: a paused Program is never served (runtime.py _apply_transition;
\* PSM-INV-005).
ServedOnlyWhileActive ==
  \A r \in Request :
    r \in native \/ pool_status[r] = "admitted" =>
      state[request_bindings[r][1]] = "active"

\* recent_admit lists exactly the admitted entries: no admission is lost or
\* replayed (request_pool.py admit, consume_admitted, cancel), and the
\* RuntimeError of on_request_arrival() cannot fire.
RecentAdmitExact == recent_admit = {r \in Request : pool_status[r] = "admitted"}

\* The side tables hold no reference of a released generation (runtime.py
\* _last_request_finished_at, _shared_prefix_freshness_anchor_at).
SideTablesLive == \A ref \in finished_at \cup freshness_anchor : Get(ref)

\* A delayed pause is only ever pending on an ACTIVE Program.
MarkedOnlyActive == \A p \in ProgramId : marked_for_pause[p] => state[p] = "active"

\* The runtime's records of Programs agree with those of requests: bindings name
\* live generations, the status follows the unfinished requests, a delayed pause
\* is pending only on an ACTIVE Program and nothing outlives a release.
RuntimeConsistent ==
  /\ SchedulerTypeOK
  /\ BindingsExact /\ StatusTracksRequests
  /\ MarkedOnlyActive /\ SideTablesLive

\* Every unfinished request has one owner, where its Program's state says it
\* must be: retained under a paused Program, served or about to be under an
\* ACTIVE one, and each admission listed once for the host to take.
RequestsOwned ==
  OneOwner /\ NoStrandedRequest /\ ServedOnlyWhileActive /\ RecentAdmitExact

\* A Program leaves ACTIVE, by pause or by release, only when none of its
\* requests remains unfinished: the pause of an in-flight Program is delayed
\* and release never interrupts one (PSM-INV-005, PSM-INV-006).
NeverInterrupted ==
  [][\A p \in ProgramId :
       state[p] = "active" /\ state'[p] # "active" =>
         \A r \in Request : request_bindings'[r] # Ref(p)]_schedulerVars

\* A request reaches the host from the pool, once: it is never handed over
\* while the host still holds it, nor without having been retained first
\* (VI-INV-001).
HandedOverOnce ==
  [][\A r \in native' \ native :
       /\ pool_status[r] # "absent" /\ pool_status'[r] = "absent"
       /\ request_bindings'[r] = request_bindings[r]]_schedulerVars
-----------------------------------------------------------------------------
\* For TLC: the runtime compares ids and tasks only with themselves.
RuntimeSymmetry == Permutations(ProgramId) \cup Permutations(Request) \cup Permutations(Task)
=============================================================================
