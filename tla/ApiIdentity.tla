----------------------------- MODULE ApiIdentity -----------------------------
(***************************************************************************)
(* AgentCacheIdentityMiddleware of agentinfer/agentcache/core/             *)
(* api_adapter.py, for one HTTP request: it buffers the ASGI messages of   *)
(* the request, resolves the identity, and lets the application read       *)
(* either the client's own messages again or one message with the adapted  *)
(* body.  The application is vLLM's API server: it reads the body and      *)
(* builds the engine request, for Anthropic through the conversion hook    *)
(* that _install_anthropic_identity_bridge puts in place.                  *)
(*                                                                         *)
(* Two other places parse the same metadata: EngineCore, from what the     *)
(* engine request carries and no headers, and the lifecycle middleware,    *)
(* from the body it saw (the client's or the adapted one) and the headers. *)
(***************************************************************************)
EXTENDS AgentIdentity

CONSTANTS
  Requests,    \* the requests clients send
  MaxBody,     \* _MAX_REQUEST_BODY_BYTES
  Extra,       \* how much longer a body gets by the injected context
  MaxReads     \* bound: messages the application reads

VARIABLES
  req,         \* the request
  pc,          \* where the middleware is
  next,        \* index of the next message of the client
  buffered,    \* len(messages)
  body,        \* len(request_body)
  adapted,     \* the identity injected into the body, or none
  length,      \* the Content-Length of the scope the application gets
  replayed,    \* index into the messages of _replay_receive
  delivered,   \* the messages the application received
  hook,        \* how many bridges wrap _build_base_request
  engine       \* the engine request vLLM built, once it did

idVars == <<req, pc, next, buffered, body, adapted, length, replayed, delivered, hook, engine>>

\* The client's messages: the chunks of the body, and a disconnect for ever after.
NChunks == Len(req.chunks)
Disconnect == [type |-> "disconnect", size |-> 0, more |-> FALSE]
Message(i) ==
  IF i > NChunks THEN Disconnect
  ELSE [type |-> "request", size |-> req.chunks[i], more |-> i < NChunks \/ ~req.ends]

Size(k) == FoldSeq(LAMBDA n, sum : n + sum, 0, SubSeq(req.chunks, 1, k))

\* What the body says of the identity, before and after adaptation.
Resolved == ParseAgentIdentity(req.xargs, req.hint, req.headers)
Canonical(id) == [given |-> "object", value |-> EncodeAgentIdentity(id)]

Anthropic == req.endpoint = "anthropic"
Observed == req.endpoint \in {"openai", "anthropic"}

\* _adapt_identity_request_body returns something else than the body it was given.
Adapts ==
  /\ req.json = "object"
  /\ Resolved.kind = "identity"
  /\ Anthropic => req.metadata.given \in {"none", "object"}
  /\ ~(req.compact /\ ~Anthropic /\ req.xargs = Canonical(Resolved.id))

IdInit ==
  /\ req \in Requests
  /\ pc = "start"
  /\ next = 1
  /\ buffered = 0
  /\ body = 0
  /\ adapted = NoIdentity
  /\ length = Size(NChunks)
  /\ replayed = 0
  /\ delivered = << >>
  /\ hook \in {0, 1}
  /\ engine = [kind |-> "pending"]
-----------------------------------------------------------------------------
\* _install_anthropic_identity_bridge: its marker makes it idempotent.
InstallBridge == IF hook = 0 THEN 1 ELSE hook

Start ==
  /\ pc = "start"
  /\ pc' = IF Observed THEN "reading" ELSE "app"
  /\ hook' = IF Anthropic THEN InstallBridge ELSE hook
  /\ UNCHANGED <<req, next, buffered, body, adapted, length, replayed, delivered, engine>>

\* One turn of the buffering loop of __call__.
ReadMessage ==
  /\ pc = "reading"
  /\ LET msg == Message(next) IN
     /\ next' = next + 1
     /\ buffered' = buffered + 1
     /\ body' = body + msg.size
     /\ pc' = IF msg.type # "request" \/ body' > MaxBody THEN "app"
              ELSE IF msg.more THEN "reading" ELSE "adapting"
  /\ UNCHANGED <<req, adapted, length, replayed, delivered, hook, engine>>

\* _scope_with_content_length
AdaptedLength == body + Extra

AdaptBody ==
  /\ pc = "adapting"
  /\ IF req.json = "object" /\ Resolved.kind = "error"
     THEN pc' = "rejected" /\ UNCHANGED <<adapted, length>>     \* status 400, the application is not called
     ELSE /\ pc' = "app"
          /\ IF Adapts THEN adapted' = Resolved /\ length' = AdaptedLength
             ELSE UNCHANGED <<adapted, length>>
  /\ UNCHANGED <<req, next, buffered, body, replayed, delivered, hook, engine>>

\* The messages given to _replay_receive.
Replay ==
  IF adapted.kind # "none"
  THEN <<[type |-> "request", size |-> body + Extra, more |-> FALSE]>>
  ELSE [i \in 1 .. buffered |-> Message(i)]

\* replay(), called by the application.
AppReceive ==
  /\ pc = "app"
  /\ Len(delivered) < MaxReads
  /\ IF replayed < Len(Replay)
     THEN /\ delivered' = Append(delivered, Replay[replayed + 1])
          /\ replayed' = replayed + 1
          /\ UNCHANGED next
     ELSE /\ delivered' = Append(delivered, Message(next))
          /\ next' = next + 1
          /\ UNCHANGED replayed
  /\ UNCHANGED <<req, pc, buffered, body, adapted, length, hook, engine>>

-----------------------------------------------------------------------------
\* The context that the body the application read has for the engine.
BodyContext ==
  IF Anthropic
  THEN IF adapted.kind # "none" THEN Canonical(adapted.id)
       ELSE IF req.metadata.given = "object" THEN req.metadata.context ELSE NoObject
  ELSE IF adapted.kind # "none" THEN Canonical(adapted.id) ELSE req.xargs

\* _parse_anthropic_replay_sampling: only metadata can carry it.
Sampling == IF Anthropic /\ req.metadata.given = "object" THEN req.sampling ELSE "absent"

HasBody == \E k \in DOMAIN delivered : delivered[k].type = "request" /\ ~delivered[k].more

\* vLLM builds the engine request once it has the whole body; build_base_request is on the
\* way of an Anthropic one, and refuses sampling metadata that is malformed.
BuildRequest ==
  /\ pc = "app"
  /\ engine.kind = "pending"
  /\ HasBody
  /\ req.json = "object"
  /\ engine' = IF Sampling = "bad" THEN [kind |-> "refused"]
               ELSE [kind |-> "built", context |-> BodyContext, sampling |-> Sampling]
  /\ UNCHANGED <<req, pc, next, buffered, body, adapted, length, replayed, delivered, hook>>

IdNext == Start \/ ReadMessage \/ AdaptBody \/ AppReceive \/ BuildRequest

IdSpec == IdInit /\ [][IdNext]_idVars
-----------------------------------------------------------------------------
IdTypeOK ==
  /\ pc \in {"start", "reading", "adapting", "app", "rejected"}
  /\ next \in 1 .. NChunks + MaxReads + 2
  /\ buffered \in 0 .. NChunks + 1
  /\ body \in 0 .. Size(NChunks)
  /\ adapted.kind \in {"none", "identity"}
  /\ length \in Nat
  /\ replayed \in 0 .. MaxReads
  /\ Len(delivered) <= MaxReads
  /\ hook \in {0, 1}
  /\ engine.kind \in {"pending", "built", "refused"}

\* What the application reads is the client's request and nothing else: the client's own
\* messages in order, or the adapted body in one message followed by what the client sent
\* after its body (a disconnect), none lost and none twice, however the request was cut,
\* broken off or too long to be buffered.
AppReadsTheRequest ==
  \A k \in DOMAIN delivered :
    delivered[k] = IF adapted.kind = "none" THEN Message(k)
                   ELSE IF k = 1 THEN [type |-> "request", size |-> length, more |-> FALSE]
                   ELSE Message(NChunks + k - 1)

\* The Content-Length the application is told is the number of bytes it can read.
LengthMatchesBody ==
  pc = "app" => length = (IF adapted.kind = "none" THEN Size(NChunks) ELSE Size(NChunks) + Extra)

Scheduled(id) == [program |-> id.program_id, task |-> id.task_id, parent |-> id.parent_program_id,
                  blocks |-> id.blocks_parent, resume |-> id.expected_resume]

EngineIdentity == ParseAgentIdentity(engine.context, NoObject, << >>)

\* The identity EngineCore schedules by, parsed again from the context it got and without
\* the headers, is the one the middleware resolved: Program, task, parent and both hints.
EngineSeesResolved ==
  (engine.kind = "built" /\ adapted.kind = "identity") =>
    EngineIdentity.kind = "identity" /\ Scheduled(EngineIdentity.id) = Scheduled(adapted.id)

\* The lifecycle middleware names the Program EngineCore knows, whether it wraps the
\* identity middleware (and parses the client's body) or is wrapped by it (and parses the
\* adapted one).
LifecycleNamesTheProgram ==
  (engine.kind = "built" /\ EngineIdentity.kind = "identity" /\ (Anthropic => adapted.kind = "identity")) =>
    \A seen \in {req.xargs, IF adapted.kind = "identity" /\ ~Anthropic THEN Canonical(adapted.id) ELSE req.xargs} :
      LET named == ParseAgentIdentity(seen, req.hint, req.headers) IN
      named.kind = "identity" => named.id.program_id = EngineIdentity.id.program_id

\* The same request as sent by the given agent of the same task or session.
AsAgent(context, agent) ==
  [k \in (DOMAIN context \ {"parent_agent_id", "agent_role", "blocks_parent"}) \union {"agent_id"} |->
     IF k = "agent_id" THEN agent ELSE context[k]]

\* A parent that is inferred from an agent name, or from the lead's, is a Program that
\* agent's own requests would resolve to: the edge leads to the parent, however its name
\* was qualified.
InferredParentIsAProgram ==
  (pc = "adapting" /\ Resolved.kind = "identity" /\ Resolved.id.parent_program_id # None /\ ~Given(req.hint)) =>
    LET context == IF Given(req.xargs) THEN req.xargs.value ELSE << >>
        agent == Or(ContextValue(context, <<"parent_agent_id">>), Or(FrameworkHeaders(req.headers)[3], Lead))
        own == ContextIdentity(AsAgent(context, agent), [k \in DOMAIN req.headers \ {"claude-parent"} |-> req.headers[k]])
    IN {"program_id", "parent_program_id", "parent_id"} \intersect DOMAIN context = {}
         => own.kind = "identity" /\ own.id.program_id = Resolved.id.parent_program_id

\* Replay's sampling metadata reaches the engine request, with or without an identity.
SamplingReachesEngine ==
  (engine.kind = "built" /\ Anthropic /\ req.metadata.given = "object") => engine.sampling = req.sampling
=============================================================================
