------------------------------ MODULE VllmBridge ------------------------------
(***************************************************************************)
(* The embedded vLLM integration: the scheduler bridge of                  *)
(* agentinfer/agentcache/core/scheduler.py around one ProgramScheduler,    *)
(* and the API-side lifecycle channel of api_adapter.py.                   *)
(*                                                                         *)
(* EngineCore's loop is single-threaded: one entry point (add_request,     *)
(* schedule, update_from_output, finish_requests) runs at a time, and call *)
(* records where it is.  The API workers are other processes: their        *)
(* terminal facts arrive late, in any order, or never, between any two     *)
(* steps.  vLLM itself is external: engine is the set of requests in its   *)
(* scheduler, and it finishes any of them at any time.                     *)
(*                                                                         *)
(* The bridge calls the runtime when its own control and tracked_native    *)
(* say so, and never looks whether the runtime expects the call: that it   *)
(* always does is RuntimeContract.                                         *)
(***************************************************************************)
EXTENDS ProgramScheduler

CONSTANT OwnIdentity   \* the identities that the hosted requests carry

ASSUME OwnIdentityAssumption == OwnIdentity \subseteq Identity

VARIABLES
  tracked_native,   \* _VllmAdmissionHooks.tracked_native
  engine,           \* the unfinished requests of the native scheduler
  call,             \* the entry point in progress and what it has still to do
  socket,           \* Program ids with a TERMINAL datagram not yet received
  response          \* request -> Program id of its API response, None once it ended

bridgeVars == <<tracked_native, engine, call, socket, response>>
vars == <<schedulerVars, bridgeVars>>

Calls == [op : {"none", "add", "admit", "schedule", "cycle", "consume", "output",
                "cancel", "finish"},
          signals : SUBSET ProgramId,
          left : SUBSET Request,
          finishing : SUBSET Request]

NoCall == [op |-> "none", signals |-> {}, left |-> {}, finishing |-> {}]

BridgeInit ==
  /\ Init
  /\ tracked_native = {}
  /\ engine = {}
  /\ call = NoCall
  /\ socket = {}
  /\ response = [r \in Request |-> None]

Retained == {r \in Request : pool_status[r] # "absent"}

\* unfinished_count(): what keeps EngineCore polling.
Unfinished == engine \cup Retained

\* The host gives a request an id that is neither unfinished nor being answered.
Fresh(r) == r \notin Unfinished /\ response[r] = None
-----------------------------------------------------------------------------
(***************************************************************************)
(* add_request() and before_schedule() first apply the lifecycle facts     *)
(* that have arrived.  receive() empties the socket; each signal then      *)
(* releases the current generation of its Program if that is idle.         *)
(***************************************************************************)
Enter(op) ==
  /\ call = NoCall
  /\ call' = [NoCall EXCEPT !.op = op, !.signals = socket]
  /\ socket' = {}
  /\ UNCHANGED <<schedulerVars, tracked_native, engine, response>>

EnterAdd == (\E r \in Request : Fresh(r)) /\ Enter("add")

\* EngineCore steps the scheduler while it reports unfinished work.
EnterSchedule == Unfinished # {} /\ Enter("schedule")

DrainSignal(p) ==
  /\ p \in call.signals
  /\ call' = [call EXCEPT !.signals = @ \ {p}]
  /\ \/ ReleaseTerminal(p)
     \/ ~TerminalApplies(p) /\ UNCHANGED schedulerVars
  /\ UNCHANGED <<tracked_native, engine, socket, response>>

Drained(op) == call.op = op /\ call.signals = {}
-----------------------------------------------------------------------------
(***************************************************************************)
(* add_request().  Requests without Program identity go straight to vLLM.  *)
(* The others are bound and retained; those admitted at once follow.  A    *)
(* task conflict raises out of the entry point.                            *)
(***************************************************************************)
AddCompatible(r) ==
  /\ Drained("add")
  /\ Fresh(r)
  /\ engine' = engine \cup {r}
  /\ call' = NoCall
  /\ UNCHANGED <<schedulerVars, tracked_native, socket, response>>

AddAgentic(r, m) ==
  /\ Drained("add")
  /\ Fresh(r)
  /\ BindArrival(r, m)
  /\ call' = [NoCall EXCEPT !.op = "admit"]
  /\ response' = [response EXCEPT ![r] = m.program]
  /\ UNCHANGED <<tracked_native, engine, socket>>

AddRefused(r, m) ==
  /\ Drained("add")
  /\ Fresh(r)
  /\ RefuseArrival(m)
  /\ call' = NoCall
  /\ UNCHANGED <<tracked_native, engine, socket, response>>

DispatchNow ==
  /\ call.op = "admit"
  /\ AdmissionAdmitted
  /\ tracked_native' = tracked_native \cup {hook.request}
  /\ engine' = engine \cup {hook.request}
  /\ call' = NoCall
  /\ UNCHANGED <<socket, response>>

\* Mutant of AddRetained: the outcome is ignored, and the request goes to vLLM
\* while the runtime retains it.
IgnoreOutcome ==
  /\ call.op = "admit"
  /\ AdmissionQueued
  /\ tracked_native' = tracked_native \cup {hook.request}
  /\ engine' = engine \cup {hook.request}
  /\ call' = NoCall
  /\ UNCHANGED <<socket, response>>

AddRetained ==
  /\ call.op = "admit"
  /\ AdmissionQueued
  /\ call' = NoCall
  /\ UNCHANGED <<tracked_native, engine, socket, response>>
-----------------------------------------------------------------------------
(***************************************************************************)
(* before_schedule().  Whether a cycle is due depends on time; a cycle     *)
(* that is entered ends with the transfer of everything admitted so far.   *)
(***************************************************************************)
CycleNotDue ==
  /\ Drained("schedule")
  /\ call' = NoCall
  /\ UNCHANGED <<schedulerVars, tracked_native, engine, socket, response>>

CycleDue ==
  /\ Drained("schedule")
  /\ OpenCycle
  /\ call' = [NoCall EXCEPT !.op = "cycle"]
  /\ UNCHANGED <<tracked_native, engine, socket, response>>

\* Mutant of CycleEnd: the entry point returns before the transfer.
CycleEndReturns ==
  /\ call.op = "cycle"
  /\ EndHook
  /\ call' = NoCall
  /\ UNCHANGED <<tracked_native, engine, socket, response>>

CycleEnd ==
  /\ call.op = "cycle"
  /\ EndHook
  /\ call' = [NoCall EXCEPT !.op = "consume"]
  /\ UNCHANGED <<tracked_native, engine, socket, response>>

\* consume_admitted_requests() and the loop over what it returns.
Transfer ==
  /\ TakeAdmitted
  /\ tracked_native' = tracked_native \cup recent_admit
  /\ engine' = engine \cup recent_admit

TransferAdmitted ==
  /\ call.op = "consume"
  /\ \/ Transfer
     \/ recent_admit = {} /\ UNCHANGED <<schedulerVars, tracked_native, engine>>
  /\ call' = NoCall
  /\ UNCHANGED <<socket, response>>

StrategyStep(p) == Transition(p) /\ UNCHANGED bridgeVars
-----------------------------------------------------------------------------
(***************************************************************************)
(* update_from_output(): vLLM has removed the finished requests of a step  *)
(* before after_output() reports them one by one.                          *)
(***************************************************************************)
NativeOutput(finished) ==
  /\ call = NoCall
  /\ finished # {}
  /\ engine' = engine \ finished
  /\ call' = [NoCall EXCEPT !.op = "output", !.left = finished]
  /\ UNCHANGED <<schedulerVars, tracked_native, socket, response>>

\* Mutant of Untrack: a finished request stays tracked.
KeepTracked(r) == UNCHANGED tracked_native

Untrack(r) == tracked_native' = tracked_native \ {r}

\* Progress of the loop over the finished requests: the completion hook of the
\* previous one has returned.
Report(r) ==
  /\ hook.kind # "completion"
  /\ r \in call.left
  /\ call' = [call EXCEPT !.left = @ \ {r}]

\* on_request_completion() with its early return for a request without binding.
ReportCompletion(r) ==
  IF request_bindings[r] = None THEN UNCHANGED schedulerVars ELSE FinishBound(r)

AfterOutput(r) ==
  /\ call.op = "output"
  /\ Report(r)
  /\ r \in tracked_native
  /\ ReportCompletion(r)
  /\ Untrack(r)
  /\ UNCHANGED <<engine, socket, response>>

AfterCompatibleOutput(r) ==
  /\ call.op = "output"
  /\ Report(r)
  /\ r \notin tracked_native
  /\ UNCHANGED <<schedulerVars, tracked_native, engine, socket, response>>

CompletionHookEnd ==
  /\ hook.kind = "completion"
  /\ EndHook
  /\ UNCHANGED bridgeVars

LeaveLoop ==
  /\ call.op \in {"output", "finish"}
  /\ call.left = {}
  /\ hook.kind # "completion"
  /\ call' = NoCall
  /\ UNCHANGED <<schedulerVars, tracked_native, engine, socket, response>>
-----------------------------------------------------------------------------
(***************************************************************************)
(* finish_requests(), for given ids or (None) for every request: first     *)
(* cancel_retained() calls cancel_request() for each id, which for given   *)
(* ids includes the native ones; then vLLM finishes its own, and each of   *)
(* these that is tracked is reported as completed.  A completion that      *)
(* finds no binding any more does nothing.                                 *)
(***************************************************************************)
EnterFinish(ids) ==
  /\ call = NoCall
  /\ ids # {}
  /\ call' = [NoCall EXCEPT !.op = "cancel", !.left = ids, !.finishing = ids]
  /\ UNCHANGED <<schedulerVars, tracked_native, engine, socket, response>>

EnterFinishAll ==
  /\ call = NoCall
  /\ Unfinished # {}
  /\ call' = [NoCall EXCEPT !.op = "cancel", !.left = Retained, !.finishing = Request]
  /\ UNCHANGED <<schedulerVars, tracked_native, engine, socket, response>>

CancelRetained(r) ==
  /\ call.op = "cancel"
  /\ Report(r)
  /\ \/ DropBound(r)
     \/ request_bindings[r] = None /\ UNCHANGED schedulerVars
  /\ response' = [response EXCEPT ![r] = IF r \in Retained THEN None ELSE @]
  /\ UNCHANGED <<tracked_native, engine, socket>>

NativeFinish ==
  /\ call.op = "cancel"
  /\ call.left = {}
  /\ engine' = engine \ call.finishing
  /\ call' = [NoCall EXCEPT !.op = "finish", !.left = engine \cap call.finishing]
  /\ UNCHANGED <<schedulerVars, tracked_native, socket, response>>

FinishRequest(r) ==
  /\ call.op = "finish"
  /\ Report(r)
  /\ \/ /\ r \in tracked_native
        /\ ReportCompletion(r)
        /\ Untrack(r)
     \/ r \notin tracked_native /\ UNCHANGED <<schedulerVars, tracked_native>>
  /\ UNCHANGED <<engine, socket, response>>
-----------------------------------------------------------------------------
(***************************************************************************)
(* The API side.  AgentCacheLifecycleMiddleware classifies a response when *)
(* it ends: TERMINAL is sent as a datagram that names the Program id, and  *)
(* may be lost; every other outcome leaves the Program to the strategy's   *)
(* timers.  A response ends on its own clock: after a stop string it ends  *)
(* while vLLM still holds the request, and a slow one ends long after, when *)
(* the Program has gone on.                                                *)
(***************************************************************************)
SendTerminal(r) ==
  /\ response[r] # None
  /\ r \notin Retained
  /\ socket' = socket \cup {response[r]}
  /\ response' = [response EXCEPT ![r] = None]
  /\ UNCHANGED <<schedulerVars, tracked_native, engine, call>>

NothingSent(r) ==
  /\ response[r] # None
  /\ response' = [response EXCEPT ![r] = None]
  /\ UNCHANGED <<schedulerVars, tracked_native, engine, call, socket>>

BridgeNext ==
  \/ EnterAdd
  \/ EnterSchedule
  \/ \E p \in ProgramId : DrainSignal(p)
  \/ \E r \in Request : AddCompatible(r)
  \/ \E r \in Request, m \in OwnIdentity : AddAgentic(r, m)
  \/ \E r \in Request, m \in OwnIdentity : AddRefused(r, m)
  \/ DispatchNow
  \/ AddRetained
  \/ CycleNotDue
  \/ CycleDue
  \/ CycleEnd
  \/ TransferAdmitted
  \/ \E p \in ProgramId : StrategyStep(p)
  \/ \E finished \in SUBSET engine : NativeOutput(finished)
  \/ \E r \in Request : AfterOutput(r)
  \/ \E r \in Request : AfterCompatibleOutput(r)
  \/ CompletionHookEnd
  \/ LeaveLoop
  \/ \E ids \in SUBSET Request : EnterFinish(ids)
  \/ EnterFinishAll
  \/ \E r \in Request : CancelRetained(r)
  \/ NativeFinish
  \/ \E r \in Request : FinishRequest(r)
  \/ \E r \in Request : SendTerminal(r)
  \/ \E r \in Request : NothingSent(r)

BridgeSpec == BridgeInit /\ [][BridgeNext]_vars

(***************************************************************************)
(* EngineCore's loop drains its input queue and then steps, as long as     *)
(* there is unfinished work: neither arrivals nor aborts keep it from      *)
(* schedule() for ever.  An entry point that was entered returns, and so   *)
(* does the strategy.  A poll finds a cycle due once schedule_interval     *)
(* seconds have passed, however often it was early before.                 *)
(***************************************************************************)
BridgeFairness ==
  /\ SF_vars(EnterSchedule)
  /\ SF_vars(CycleDue)
  /\ WF_vars(\E p \in ProgramId : DrainSignal(p))
  /\ WF_vars(\E r \in Request : AddCompatible(r) \/ \E m \in OwnIdentity : AddAgentic(r, m))
  /\ WF_vars(DispatchNow \/ AddRetained)
  /\ WF_vars(CycleNotDue)
  /\ WF_vars(CycleEnd)
  /\ WF_vars(TransferAdmitted)
  /\ WF_vars(\E r \in Request : AfterOutput(r) \/ AfterCompatibleOutput(r))
  /\ WF_vars(CompletionHookEnd)
  /\ WF_vars(LeaveLoop)
  /\ WF_vars(\E r \in Request : CancelRetained(r))
  /\ WF_vars(NativeFinish)
  /\ WF_vars(\E r \in Request : FinishRequest(r))

FairBridgeSpec == BridgeSpec /\ BridgeFairness
-----------------------------------------------------------------------------
BridgeTypeOK ==
  /\ tracked_native \subseteq Request
  /\ engine \subseteq Request
  /\ call \in Calls
  /\ socket \subseteq ProgramId
  /\ response \in [Request -> ProgramId \cup {None}]

\* Between two entry points the bridge, vLLM and the runtime agree on who owns
\* each request: the bridge tracks exactly the bound requests that vLLM holds,
\* and each bound request is held by vLLM or by the RequestPool and not by
\* both, so that EngineCore's unfinished count counts it once and keeps
\* polling for it (scheduler.py tracked_native, unfinished_count; VI-INV-001,
\* PSM-INV-001).
OwnersAgree ==
  call = NoCall =>
    /\ tracked_native = {r \in engine : request_bindings[r] # None}
    /\ engine \cap Retained = {}
    /\ \A r \in Request : request_bindings[r] # None => r \in Unfinished

\* Types, and owners that agree between entry points.
BridgeConsistent == BridgeTypeOK /\ OwnersAgree

\* Whatever order EngineCore, vLLM and the API workers act in, what the bridge
\* makes the runtime do is a behaviour of ProgramScheduler.  The bridge decides
\* from its own control and tracked_native; each of its calls must come while
\* no other call into the runtime is open, bind an id the runtime has
\* forgotten, and complete a request the runtime really handed over: after an
\* abort, a refused add, or an outcome that retained the request too.  So what
\* is proved of ProgramScheduler holds of the integration (scheduler.py
\* _VllmAdmissionHooks).
RuntimeContract == Spec

\* A request that a transition admitted outside its own arrival, and that only
\* waits in recent_admit, always gets to vLLM unless it is aborted: no poll
\* pattern leaves it there (scheduler.py before_schedule, runtime.py
\* needs_schedule_cycle).
AdmittedReachesEngine ==
  \A r \in Request : pool_status[r] = "admitted" ~> pool_status[r] # "admitted"
-----------------------------------------------------------------------------
(***************************************************************************)
(* The identities of the instance that TLC checks: one Program whose       *)
(* requests may name any task, so that with two tasks one of its requests  *)
(* is refused, and other Programs without a task.  The two kinds of        *)
(* Program differ, so the run uses no symmetry.                            *)
(***************************************************************************)
Busiest == CHOOSE p \in ProgramId : TRUE
Lone(p, task) == [program |-> p, task |-> task, parent |-> None, blocks |-> FALSE]
OneWithTasks == {Lone(Busiest, t) : t \in Task} \cup {Lone(p, None) : p \in ProgramId \ {Busiest}}
=============================================================================
