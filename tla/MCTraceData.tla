----------------------------- MODULE MCTraceData ------------------------------
(***************************************************************************)
(* Small instances of the conversions that turn a recorded trace into a     *)
(* replay plan and a plan into prompts, for TLC. They work on one input each*)
(* and do not share state, so one behaviour runs one of them: part says     *)
(* which, and v1, v2, ... are that component's variables, in the order of   *)
(* its VARIABLES.                                                           *)
(***************************************************************************)
EXTENDS Integers, Sequences, FiniteSets

CONSTANTS
  Parts,   \* the components a run explores
  None

VARIABLES
  part,   \* the component of this behaviour
  v1, v2, v3, v4, v5, v6, v7, v8, v9, v10, v11, v12, v13, v14, v15   \* its variables

vars == <<part, v1, v2, v3, v4, v5, v6, v7, v8, v9, v10, v11, v12, v13, v14, v15>>

\* The variables a component does not have.
from12 == <<v12, v13, v14, v15>>
from11 == <<v11, from12>>
from9 == <<v9, v10, from11>>
from8 == <<v8, from9>>
from7 == <<v7, from8>>
Unused12 == v12 = 0 /\ v13 = 0 /\ v14 = 0 /\ v15 = 0
Unused11 == v11 = 0 /\ Unused12
Unused9 == v9 = 0 /\ v10 = 0 /\ Unused11
Unused8 == v8 = 0 /\ Unused9
Unused7 == v7 = 0 /\ Unused8
-----------------------------------------------------------------------------
\* The JSON texts of a stream: every short one, and arrays of two objects with
\* blanks, missing and doubled separators, and text after the end.
Char == {"[", "]", ",", "{", "}", "_", "1"}
Texts == UNION {[1..n -> Char] : n \in 0..4}
         \cup {<<"[">> \o t : t \in [1..4 -> Char]}
         \cup {<<"[", "{", "}", ",", "_", "{", "}", "]">> , <<"[", "{", "_", "}", ",", "{", "}", "]", "_">>,
               <<"_", "[", "{", "}", "_", ",", "{", "}", "]">>, <<"[", "{", "}", "]", "_", "_", ",">>,
               <<"[", "{", "}", ",", ",", "{", "}", "]">>, <<"[", "{", "}", "{", "}", "]">>,
               <<"[", "{", "}", ",", "{", "}", ",", "]">>, <<"[", "{", "}", ",", "{", "}", "]", "]">>}

\* The branch candidates of a prompt, and the sessions that share its root.
BranchTokens == <<0, 1, 2>>
Roots == <<"r1", "r2">>

Timing == INSTANCE TraceLabTiming WITH
  Rounds <- 3, MaxEvents <- 2, MaxTime <- 1, Mode <- "trace", events <- v1, proxy <- v2, rows <- v3,
  requests <- v4, intervals <- v5, phase <- v6
AgentX == INSTANCE AgentXTrace WITH
  Request <- 1 .. 4, MaxTime <- 2, MaxDuration <- 2, t <- v1, api <- v2, order <- v3, done <- v4,
  heap <- v5, latest <- v6, after <- v7, gap <- v8, active <- v9, overlaps <- v10, phase <- v11
Planner == INSTANCE ReplayPlanner WITH
  N <- 3, MaxTime <- 2, Sub <- {"s1"}, Purposes <- {None}, Adaptive <- TRUE, TrimLimit <- 1,
  rows <- v1, phase <- v2, at <- v3, kinds <- v4, pending <- v5, match <- v6, tokens <- v7,
  running <- v8, predecessor <- v9, latest_attempt <- v10, latest_success <- v11, parents <- v12,
  active <- v13, requests <- v14, plan <- v15
LeadPlanner == INSTANCE ReplayPlanner WITH
  N <- 3, MaxTime <- 1, Sub <- {}, Purposes <- {None, "lead_title", "continuation"},
  Adaptive <- FALSE, TrimLimit <- 1, rows <- v1, phase <- v2, at <- v3, kinds <- v4, pending <- v5,
  match <- v6, tokens <- v7, running <- v8, predecessor <- v9, latest_attempt <- v10,
  latest_success <- v11, parents <- v12, active <- v13, requests <- v14, plan <- v15
Tokens == INSTANCE PromptTokens WITH
  MaxShared <- 2, MaxOutput <- 2, MaxTokens <- 8, MaxTurns <- 4, TrimLimit <- 3, tokens <- v1,
  spans <- v2, before <- v3, trailing <- v4, target <- v5, preserved <- v6, turn <- v7, state <- v8
Prompts == INSTANCE TraceLabPrompt WITH
  Token <- {0, 1}, Candidates <- BranchTokens, Root <- Roots, Variants <- 2, MaxSeed <- 2,
  MaxPrefix <- 3, MaxNew <- 2, phase <- v1, prefix <- v2, length <- v3, warmup <- v4, branch <- v5,
  todo <- v6, prompt <- v7, context <- v8
IR == INSTANCE TraceIR WITH
  Kind <- "token_recipe", Session <- 1 .. 2, Lines <- 3, MaxRound <- 2, MaxTokens <- 2, phase <- v1,
  source <- v2, rows <- v3, texts <- v4, manifest <- v5, temporary <- v6, clean <- v7
TextIR == INSTANCE TraceIR WITH
  Kind <- "text_turns", Session <- 1 .. 2, Lines <- 3, MaxRound <- 2, MaxTokens <- 1, phase <- v1,
  source <- v2, rows <- v3, texts <- v4, manifest <- v5, temporary <- v6, clean <- v7
Json == INSTANCE JsonArrayStream WITH
  text <- v1, fed <- v2, buffer <- v3, position <- v4, started <- v5, finished <- v6,
  expect_value <- v7, after_comma <- v8, yielded <- v9, verdict <- v10
Source == INSTANCE DatasetSource WITH
  Proc <- {"p1", "p2"}, Session <- {"s1", "s2", "s3"}, MaxRows <- 4, MaxTasks <- 2,
  Kind <- "tracelab", dataset <- v1, task_num <- v2, pc <- v3, line <- v4, selected <- v5,
  staged <- v6, destination <- v7
Records == INSTANCE DatasetSource WITH
  Proc <- {"p1", "p2"}, Session <- {"s1", "s2", "s3"}, MaxRows <- 4, MaxTasks <- 2,
  Kind <- "inferact", dataset <- v1, task_num <- v2, pc <- v3, line <- v4, selected <- v5,
  staged <- v6, destination <- v7

ASSUME Timing!TimingAssumption
ASSUME Planner!PlannerAssumption
ASSUME LeadPlanner!PlannerAssumption
ASSUME Source!SourceAssumption
ASSUME Records!SourceAssumption

Init ==
  /\ part \in Parts
  /\ \/ part = "timing" /\ Timing!Init /\ Unused7
     \/ part = "agentx" /\ AgentX!Init /\ Unused12
     \/ part = "planner" /\ Planner!Init
     \/ part = "planner_lead" /\ LeadPlanner!Init
     \/ part = "tokens" /\ Tokens!Init /\ Unused9
     \/ part = "prompts" /\ Prompts!Init /\ Unused9
     \/ part = "ir" /\ IR!Init /\ Unused8
     \/ part = "ir_text" /\ TextIR!Init /\ Unused8
     \/ part = "json" /\ Json!Init /\ Unused11
     \/ part = "dataset" /\ Source!Init /\ Unused8
     \/ part = "records" /\ Records!Init /\ Unused8

Next ==
  \/ part = "timing" /\ Timing!Next /\ UNCHANGED <<part, from7>>
  \/ part = "agentx" /\ AgentX!Next /\ UNCHANGED <<part, from12>>
  \/ part = "planner" /\ Planner!Next /\ UNCHANGED part
  \/ part = "planner_lead" /\ LeadPlanner!Next /\ UNCHANGED part
  \/ part = "tokens" /\ Tokens!Next /\ UNCHANGED <<part, from9>>
  \/ part = "prompts" /\ Prompts!Next /\ UNCHANGED <<part, from9>>
  \/ part = "ir" /\ IR!Next /\ UNCHANGED <<part, from8>>
  \/ part = "ir_text" /\ TextIR!Next /\ UNCHANGED <<part, from8>>
  \/ part = "json" /\ Json!Next /\ UNCHANGED <<part, from11>>
  \/ part = "dataset" /\ Source!Next /\ UNCHANGED <<part, from8>>
  \/ part = "records" /\ Records!Next /\ UNCHANGED <<part, from8>>

Spec == Init /\ [][Next]_vars
-----------------------------------------------------------------------------
\* From the trace to the plan: a TraceLab proxy interval spans its round and
\* the waits are the measured ones; an AgentX request waits for the request
\* that completed last before it started, never for one it overlapped, and its
\* gaps rebuild the recorded starts; the planner keeps the first success of a
\* retried request, finds exactly the overlaps, and plans a graph that can be
\* executed, has no redundant edge and rebuilds the recorded starts.
ConversionExact ==
  /\ part = "timing" => Timing!ProxySpansRound /\ Timing!IntervalsAreMeasured
  /\ part = "agentx" =>
       /\ AgentX!WaitsForLatestCompleted /\ AgentX!GapsRebuildStarts
       /\ AgentX!NoWaitOnOverlap /\ AgentX!OverlapsExact
  /\ part = "planner" =>
       /\ Planner!RetryIsFirstSuccess /\ Planner!ParallelIsOverlap /\ Planner!PlanExecutable
       /\ Planner!AnalysisPlans /\ Planner!PlanIsMinimal /\ Planner!IntervalsRebuildStarts
  /\ part = "planner_lead" => LeadPlanner!PlanExecutable /\ LeadPlanner!AnalysisPlans

\* From the plan to the prompts: a prompt has its planned length, the history
\* and the filler of older turns survive a later turn, the filler spans mark
\* filler, and what is reported as preserved is the prefix two turns share;
\* TraceLab prompts reuse exactly the planned prefix of their root or their
\* predecessor, and sessions of one root branch apart at the planned token.
PromptsReuse ==
  /\ part = "tokens" =>
       /\ Tokens!TargetMet /\ Tokens!PromptTypeOK /\ Tokens!HistorySurvives /\ Tokens!SpansMarkFiller
       /\ Tokens!OlderFillerKept /\ Tokens!PreservedIsCommonPrefix
  /\ part = "prompts" =>
       /\ Prompts!PlannedLength /\ Prompts!RootReusesExactly
       /\ Prompts!ContinuationReusesExactly /\ Prompts!RootsBranchApart

\* The inputs: a unified trace that is accepted is complete and the one that is
\* published validates; a streamed JSON array yields every element before its
\* error and accepts exactly the grammar, however the text is cut; the cached
\* dataset that two processes race to write is complete, and a failed selection
\* leaves no file.
InputsComplete ==
  /\ part = "ir" => IR!AcceptedIsComplete /\ IR!PublishedValidates /\ IR!WarmupHasBranchToken
  /\ part = "ir_text" => TextIR!AcceptedIsComplete /\ TextIR!PublishedValidates
  /\ part = "json" => Json!YieldsAllBeforeError /\ Json!VerdictIsGrammar
  /\ part = "dataset" => Source!CachedIsComplete /\ Source!FailureLeavesNothing
  /\ part = "records" => Records!CachedIsComplete
=============================================================================
