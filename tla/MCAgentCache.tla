----------------------------- MODULE MCAgentCache -----------------------------
(***************************************************************************)
(* Small instances of the components of AgentCache beside the scheduler, for*)
(* TLC: the identity a request carries, the lifecycle of a response and the *)
(* channel that takes it to the engines, and the arithmetic of the Progress-*)
(* TTL policy with the prefix observations it rests on. The components do   *)
(* not share state, so one behaviour runs one of them: part says which, and *)
(* v1, v2, ... are that component's variables, in the order of its          *)
(* VARIABLES.                                                               *)
(***************************************************************************)
EXTENDS AgentIdentity, Integers, FiniteSets, TLC

CONSTANTS
  Parts,               \* the components a run explores
  e0, e1, e2,          \* engines
  Signal, Worker,      \* lifecycle facts, and the API processes that send them
  NoFile, Junk, Nothing

VARIABLES
  part,   \* the component of this behaviour
  v1, v2, v3, v4, v5, v6, v7, v8, v9, v10, v11, v12, v13, v14   \* its variables

vars == <<part, v1, v2, v3, v4, v5, v6, v7, v8, v9, v10, v11, v12, v13, v14>>

\* The variables a component does not have.
from13 == <<v13, v14>>
from12 == <<v12, from13>>
from8 == <<v8, v9, v10, v11, from12>>
from4 == <<v4, v5, v6, v7, from8>>
Unused13 == v13 = 0 /\ v14 = 0
Unused12 == v12 = 0 /\ Unused13
Unused8 == v8 = 0 /\ v9 = 0 /\ v10 = 0 /\ v11 = 0 /\ Unused12
Unused4 == v4 = 0 /\ v5 = 0 /\ v6 = 0 /\ v7 = 0 /\ Unused8
-----------------------------------------------------------------------------
(* The requests that reach the identity middleware.                        *)

Obj(v) == [given |-> "object", value |-> v]
BadObject == [given |-> "bad"]

\* The objects, and each of them with one of the values under the key.
With(objects, key, values) == objects \union {o @@ (key :> v) : o \in objects, v \in values}
Always(objects, key, values) == {o @@ (key :> v) : o \in objects, v \in values}

S == <<"s">>
A == <<"a">>
Bare == {<< >>}

TaskContexts ==
  With(With(With(With(With(With(Bare, "program_id", {<<"p">>, <<"s", "a">>, Bad}), "task_id", {None, S}),
    "session_id", {<<"u">>}), "agent_id", {A, <<"s", "a">>, <<"s", "">>}), "parent_agent_id", {<<"b">>}),
    "blocks_parent", {Yes, No})

ParentContexts ==
  With(With(With(With(Always(Always(Bare, "program_id", {<<"p">>, <<"n", "a">>}), "agent_id", {A}),
    "agent_role", {Lead, Subagent}), "parent_program_id", {None, <<"q">>, <<"p">>}),
    "parent_id", {<<"r">>, Yes}), "expected_resume", {Yes, No, A})

Hints ==
  With(With(With(With(Bare, "session_id", {<<"h">>, <<"h", "a">>}), "parent_session_id", {<<"g">>, <<"h">>}),
    "blocks_parent", {Yes, No}), "expected_resume", {No})

ClaudeSession == "claude-session" :> S
ClaudeAgent == ClaudeSession @@ ("claude-agent" :> A)
Headers == {<< >>, ClaudeSession, ClaudeAgent, ClaudeAgent @@ ("claude-parent" :> <<"s", "b">>),
            ("session-id" :> S) @@ ("thread-id" :> Lead), "x-session-id" :> <<"x">>}

Base == [endpoint |-> "openai", json |-> "object", compact |-> FALSE, xargs |-> NoObject, hint |-> NoObject,
         headers |-> << >>, metadata |-> NoObject, sampling |-> "absent", chunks |-> <<1>>, ends |-> TRUE]

\* The client's own agentic context in metadata, as replay writes it.
ReplayMetadata == [given |-> "object", context |-> Obj(("program_id" :> <<"p">>) @@ ("task_id" :> None))]

Requests ==
  {[Base EXCEPT !.xargs = Obj(c), !.headers = h] : c \in TaskContexts \union ParentContexts, h \in Headers}
  \union {[Base EXCEPT !.hint = Obj(o), !.headers = h, !.endpoint = e] :
            o \in Hints, h \in Headers, e \in {"openai", "anthropic"}}
  \union {[Base EXCEPT !.endpoint = e, !.json = j, !.xargs = x, !.hint = i, !.headers = h, !.metadata = m,
                       !.sampling = s, !.chunks = k, !.ends = d, !.compact = c] :
            e \in {"openai", "anthropic", "other"}, j \in {"object", "other"},
            x \in {NoObject, BadObject, Obj(EncodeAgentIdentity(ContextIdentity(<< >>, ClaudeSession).id))},
            i \in {NoObject, BadObject}, h \in {<< >>, ClaudeSession},
            m \in {NoObject, BadObject, [given |-> "object", context |-> NoObject], ReplayMetadata},
            s \in {"absent", "valid", "bad"}, k \in {<<1>>, <<1, 1>>, <<2, 1, 1>>}, d \in BOOLEAN, c \in BOOLEAN}

(* The exchanges that the lifecycle middleware observes.                   *)

Payloads == {[reasons |-> r, tools |-> t] : r \in {{}, {"stop"}, {"tool"}, {"stop", "tool"}}, t \in BOOLEAN}
Line(p, n, d) == [payload |-> p, length |-> n, data |-> d]
Stop == [reasons |-> {"stop"}, tools |-> FALSE]
Tool == [reasons |-> {}, tools |-> TRUE]
Empty == [reasons |-> {}, tools |-> FALSE]

Plain == [endpoint |-> "openai", ok |-> TRUE, streaming |-> TRUE, lines |-> << >>, closed |-> TRUE,
          request |-> <<1, 1>>, json |-> TRUE, identity |-> "program", rank |-> "none"]

\* A payload of each kind; streams of up to three events; one body that is no stream.
Streams == {<<Line(p, n, TRUE), Line(q, 2, TRUE)>> : p \in Payloads, q \in Payloads, n \in {1, 2, 3, 4}}
           \union {<<Line(p, 2, TRUE), Line(Empty, 1, FALSE), Line(q, n, d)>> :
                     p \in {Stop, Tool}, q \in {Stop, Tool}, n \in {2, 3, 4}, d \in BOOLEAN}
Whole == {<<Line(p, n, TRUE)>> : p \in Payloads, n \in {1, 4, 5}}

Exchanges ==
  {[Plain EXCEPT !.endpoint = e, !.lines = l, !.closed = c] :
     e \in {"openai", "anthropic"}, l \in Streams, c \in BOOLEAN}
  \union {[Plain EXCEPT !.endpoint = e, !.lines = l, !.closed = FALSE, !.streaming = FALSE] :
            e \in {"openai", "anthropic"}, l \in Whole}
  \union {[Plain EXCEPT !.lines = <<Line(Stop, 2, TRUE)>>, !.request = r, !.ok = o, !.json = j,
                        !.identity = i, !.rank = k] :
            r \in {<<1>>, <<2, 1>>, <<2, 1, 1>>}, o \in BOOLEAN, j \in BOOLEAN,
            i \in {"none", "program", "error"}, k \in {"none", "one", "bad"}}

\* Lifecycle facts are interchangeable, and so are the API processes.
Symmetry == Permutations(Signal) \union Permutations(Worker)

\* Two engines share a data-parallel rank.
Ranks == (e0 :> 0) @@ (e1 :> 1) @@ (e2 :> 0)

\* Request reports: a round that grows its context, a replaced context without
\* a decode time, a completion that exceeds its total, negative numbers.
Reports == {
  [prompt |-> 3, cached |-> 2, completion |-> 1, total |-> 4, growth |-> 1, other |-> 2, decode |-> 1],
  [prompt |-> 2, cached |-> 3, completion |-> 0, total |-> 2, growth |-> 2, other |-> 0, decode |-> Nothing],
  [prompt |-> 0, cached |-> 0, completion |-> 3, total |-> 2, growth |-> 0, other |-> 1, decode |-> 2],
  [prompt |-> -1, cached |-> -1, completion |-> -1, total |-> -1, growth |-> -1, other |-> -1, decode |-> Nothing]}

\* What a prefix lookup finds: nothing, a hit half of which others hold, and a
\* hit longer than the prompt over three groups, one of them empty.
PrefixHits ==
  {[cached |-> 0, groups |-> <<<< >>>>], [cached |-> 2, groups |-> <<<<1, 0>>>>],
   [cached |-> 3, groups |-> << <<1, 1, 0>>, << >>, <<1>> >>]}

\* The statistics of the KV pool: incomplete, without reasoning Programs, without
\* a capacity, without churn, and complete, with and without latency.
KvFact(complete, reasoning, capacity, churn, latency) ==
  [complete |-> complete, reasoning |-> reasoning, capacity |-> capacity, churn |-> churn, latency |-> latency]
KvFacts ==
  {KvFact(FALSE, 1, 4, 4, 1), KvFact(TRUE, 0, 4, 4, 1), KvFact(TRUE, 1, Nothing, 4, 1), KvFact(TRUE, 1, 4, 0, 1),
   KvFact(TRUE, 1, 4, 4, 1), KvFact(TRUE, 2, 4, 4, 0)}

Api == INSTANCE ApiIdentity WITH
  MaxBody <- 3, Extra <- 2, MaxReads <- 4, req <- v1, pc <- v2, next <- v3, buffered <- v4,
  body <- v5, adapted <- v6, length <- v7, replayed <- v8, delivered <- v9, hook <- v10,
  engine <- v11
Observer == INSTANCE LifecycleObserver WITH
  MaxEvent <- 3, MaxResponse <- 4, MaxRequest <- 3, MaxCut <- 4, x <- v1, read <- v2,
  requestBody <- v3, overflowed <- v4, sent <- v5, forwarded <- v6, phase <- v7, buffer <- v8,
  lifecycle <- v9, overflow <- v10, signals <- v11
Channel == INSTANCE LifecycleChannel WITH
  Engine <- {e0, e1, e2}, RankOf <- Ranks, Cap <- 2, Overlap <- FALSE, file <- v1, sock <- v2,
  queue <- v3, got <- v4, worker <- v5, sentBy <- v6, steady <- v7
Stats == INSTANCE RollingStats WITH
  Window <- 3, FractionNum <- 3, FractionDen <- 4, Feeds <- {"request", "pause"},
  Requests <- Reports, Rounds <- {-1, 2}, MaxClock <- 4, Gaps <- {1, 3}, Impacts <- {0, 2, 4},
  TTLs <- {0, 3}, MinTTL <- 1, MaxTTL <- 3, RatioNum <- 1, RatioDen <- 2, EnableAt <- 3,
  DisableAt <- 1, None <- Nothing, samples <- v1, sums <- v2, counts <- v3, avg <- v4, pauses <- v5,
  pause_sum <- v6, pause_avg <- v7, intervals <- v8, ints <- v9, fit <- v10, utility <- v11,
  enabled <- v12
Rate == INSTANCE RollingStats WITH
  Window <- 3, FractionNum <- 3, FractionDen <- 4, Feeds <- {"interval"}, Requests <- Reports,
  Rounds <- {-1, 2}, MaxClock <- 4, Gaps <- {1, 3}, Impacts <- {0, 2, 4}, TTLs <- {0, 3},
  MinTTL <- 1, MaxTTL <- 3, RatioNum <- 1, RatioDen <- 2, EnableAt <- 3, DisableAt <- 1,
  None <- Nothing, samples <- v1, sums <- v2, counts <- v3, avg <- v4, pauses <- v5,
  pause_sum <- v6, pause_avg <- v7, intervals <- v8, ints <- v9, fit <- v10, utility <- v11,
  enabled <- v12
Auto == INSTANCE RollingStats WITH
  Window <- 3, FractionNum <- 3, FractionDen <- 4, Feeds <- {"continuity"}, Requests <- Reports,
  Rounds <- {-1, 2}, MaxClock <- 4, Gaps <- {1, 3}, Impacts <- {0, 2, 4}, TTLs <- {0, 3},
  MinTTL <- 1, MaxTTL <- 3, RatioNum <- 1, RatioDen <- 2, EnableAt <- 3, DisableAt <- 1,
  None <- Nothing, samples <- v1, sums <- v2, counts <- v3, avg <- v4, pauses <- v5,
  pause_sum <- v6, pause_avg <- v7, intervals <- v8, ints <- v9, fit <- v10, utility <- v11,
  enabled <- v12
Fit == INSTANCE CapacityFit WITH
  Programs <- 1 .. 4, Layers <- 2, MaxTokens <- 3, MaxDeficit <- 5, None <- Nothing, tokens <- v1,
  tier <- v2, deficit <- v3, layer <- v4, selected <- v5, remaining <- v6, rest <- v7,
  reachable <- v8, best <- v9, done <- v10, answer <- v11
Reserve == INSTANCE GrowthReserve WITH
  Programs <- 1 .. 3, Total <- 9, Buffer <- 1, Growth <- 1, Target <- 2, MaxContext <- 2,
  MaxRounds <- 3, BatchGain <- FALSE, DecodeSeconds <- 40, StepFixed <- 30, StepPerRequest <- 1,
  StepPerToken <- 1, PrefillFixed <- 1, PrefillPerToken <- 1, Scale <- 3, Throughput <- 1,
  MinTimeout <- 2, MaxTimeout <- 15, prog <- v1, native <- v2, gained <- v3
Gain == INSTANCE GrowthReserve WITH
  Programs <- 1 .. 3, Total <- 9, Buffer <- 1, Growth <- 1, Target <- 2, MaxContext <- 2,
  MaxRounds <- 3, BatchGain <- TRUE, DecodeSeconds <- 40, StepFixed <- 30, StepPerRequest <- 1,
  StepPerToken <- 1, PrefillFixed <- 1, PrefillPerToken <- 1, Scale <- 3, Throughput <- 1,
  MinTimeout <- 2, MaxTimeout <- 15, prog <- v1, native <- v2, gained <- v3
Prefix == INSTANCE PrefixFreshness WITH
  None <- Nothing, Request <- {"r1", "r2"}, Prompt <- 2, Hits <- PrefixHits, Warmup <- 2,
  Turnovers <- 2, Facts <- KvFacts, MaxGeneration <- 2, MaxTime <- 3, now <- v1, generation <- v2,
  state <- v3, tokens <- v4, anchor <- v5, pool <- v6, native <- v7, binding <- v8, local <- v9,
  pending <- v10, reported <- v11, segment <- v12, duration <- v13, found <- v14

ASSUME Channel!ChannelAssumption
ASSUME Stats!RollingStatsAssumption
ASSUME Rate!RollingStatsAssumption
ASSUME Auto!RollingStatsAssumption
ASSUME Fit!CapacityFitAssumption
ASSUME Reserve!GrowthReserveAssumption
ASSUME Gain!GrowthReserveAssumption
ASSUME Prefix!PrefixAssumption

Init ==
  /\ part \in Parts
  /\ \/ part = "identity" /\ Api!IdInit /\ Unused12
     \/ part = "observer" /\ Observer!ObsInit /\ Unused12
     \/ part = "channel" /\ Channel!ChanInit /\ Unused8
     \/ part = "window" /\ Stats!Init /\ Unused13
     \/ part = "throughput" /\ Rate!Init /\ Unused13
     \/ part = "auto" /\ Auto!Init /\ Unused13
     \/ part = "fit" /\ Fit!Init /\ Unused12
     \/ part = "growth" /\ Reserve!Init /\ Unused4
     \/ part = "gain" /\ Gain!Init /\ Unused4
     \/ part = "prefix" /\ Prefix!PrefixInit

Next ==
  \/ part = "identity" /\ Api!IdNext /\ UNCHANGED <<part, from12>>
  \/ part = "observer" /\ Observer!ObsNext /\ UNCHANGED <<part, from12>>
  \/ part = "channel" /\ Channel!ChanNext /\ UNCHANGED <<part, from8>>
  \/ part = "window" /\ Stats!Next /\ UNCHANGED <<part, from13>>
  \/ part = "throughput" /\ Rate!Next /\ UNCHANGED <<part, from13>>
  \/ part = "auto" /\ Auto!Next /\ UNCHANGED <<part, from13>>
  \/ part = "fit" /\ Fit!Next /\ UNCHANGED <<part, from12>>
  \/ part = "growth" /\ Reserve!Next /\ UNCHANGED <<part, from4>>
  \/ part = "gain" /\ Gain!Next /\ UNCHANGED <<part, from4>>
  \/ part = "prefix" /\ Prefix!PrefixNext /\ UNCHANGED part

Spec == Init /\ [][Next]_vars
-----------------------------------------------------------------------------
\* The identity middleware: the application reads the request the client sent
\* (with a content length that matches its body), a parent that is inferred is
\* the id of a Program, and the engine, the lifecycle fact and the sampling
\* arguments all name the identity that was resolved, whichever of extra args,
\* hint and headers it came from (api_adapter.py, identity.py).
IdentityExact ==
  part = "identity" =>
    /\ Api!IdTypeOK
    /\ Api!AppReadsTheRequest /\ Api!LengthMatchesBody /\ Api!InferredParentIsAProgram
    /\ Api!LifecycleNamesTheProgram /\ Api!EngineSeesResolved /\ Api!SamplingReachesEngine

\* The outcome of a response does not depend on how it was cut into chunks, a
\* signal is sent only for a response that earned it, and the response reaches
\* the client untouched; a broadcast reaches every engine that is bound, a
\* bound socket has its file, and an engine receives in the order of sending.
LifecycleExact ==
  /\ part = "observer" =>
       /\ Observer!ObsTypeOK
       /\ Observer!OutcomeIgnoresCuts /\ Observer!SignalIsEarned /\ Observer!ResponseUntouched
  /\ part = "channel" =>
       /\ Channel!ChanTypeOK
       /\ Channel!BoundIsNamed /\ Channel!BroadcastReachesAll /\ Channel!ReceivedInOrder

\* The incremental sums, averages, covered time and utility of the rolling
\* windows equal those of the samples in the window, and the automatic mode is
\* the one the utility asks for; the capacity-fit selection releases enough,
\* as little as possible, older tiers first; the growth reserve fits the
\* capacity and the staggered timeouts follow the order of the Programs; a
\* shared-prefix estimate is believed for its own duration from the Program's
\* entry or latest pause, and a completion reports the request's own lookup.
PolicyExact ==
  /\ part = "window" =>
       /\ Stats!RollingStatsTypeOK
       /\ Stats!SumsMatchWindow /\ Stats!AveragesMatchWindow /\ Stats!PauseAverageCurrent
  /\ part = "throughput" => Rate!CoveredIsUnion
  /\ part = "auto" => Auto!UtilityMatchesWindow /\ Auto!ModeMatchesUtility
  /\ part = "fit" =>
       /\ Fit!CapacityFitTypeOK
       /\ Fit!FitIsOptimal /\ Fit!OlderTiersFirst /\ Fit!ReleaseSuffices
  /\ part = "growth" => Reserve!GrowthReserveTypeOK /\ Reserve!GrowthFits /\ Reserve!TimeoutsFollowOrder
  /\ part = "prefix" =>
       /\ Prefix!PrefixTypeOK
       /\ Prefix!FreshnessAnchored /\ Prefix!ReportsOwnLookup /\ Prefix!NoStaleLookup

\* What a step of the policy never does: switch the automatic mode away from a
\* threshold, keep a sample of the warm-up, or admit a batch gain that leaves no
\* room for the growth of the active Programs, or replace a shared-prefix
\* estimate before its time or for a request that came to an active Program.
PolicySteps ==
  [][/\ part = "auto" => Auto!SwitchesAtThresholds /\ Auto!WarmUpForgotten
     /\ part = "gain" => Gain!GainLeavesRoom
     /\ part = "prefix" => Prefix!EstimateHeld]_vars
=============================================================================
