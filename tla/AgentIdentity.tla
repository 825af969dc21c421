---------------------------- MODULE AgentIdentity ----------------------------
(***************************************************************************)
(* agentinfer/scheduling/identity.py: request metadata -> AgentIdentity.   *)
(*                                                                         *)
(* An identifier is the sequence of its ":"-separated components, so that  *)
(* "session:agent" is <<"session", "agent">>; << >> is None (JSON null) and *)
(* a component "" is an empty one.  A metadata object is a function from   *)
(* the keys it has to values; Bad is a value no identifier can be (a list, *)
(* a float, a blank string), Yes and No are JSON booleans.  Sizes and      *)
(* encodings of the strings are left out.                                  *)
(***************************************************************************)
EXTENDS Naturals, Sequences, SequencesExt

None == << >>
Bad == <<"?">>
Yes == <<"true">>
No == <<"false">>
Lead == <<"lead">>
Subagent == <<"subagent">>
NoObject == [given |-> "none"]

StringField == {"program_id", "task_id", "session_id", "agent_id", "parent_program_id",
                "agent_role", "spawn_reason", "request_id"}

-----------------------------------------------------------------------------
\* _context_string and _context_bool: the first key that is there and not null.
ContextValue(context, keys) ==
  LET supplied == SelectSeq(keys, LAMBDA k : k \in DOMAIN context /\ context[k] # None)
  IN IF supplied = << >> THEN None ELSE context[Head(supplied)]

NotAString(v) == v \in {Bad, Yes, No}
NotABool(v) == v \notin {None, Yes, No}
Or(v, otherwise) == IF v = None THEN otherwise ELSE v

Qualified(task, agent) == task # None /\ IsStrictPrefix(task, agent)
Unqualified(task, agent) == SubSeq(agent, Len(task) + 1, Len(agent))

\* _agent_component; Bad stands for the error it raises.
AgentComponent(task, agent) ==
  IF ~Qualified(task, agent) THEN agent
  ELSE IF Unqualified(task, agent) = <<"">> THEN Bad ELSE Unqualified(task, agent)

\* _program_id
ProgramId(task, agent) ==
  IF task = None \/ agent = None THEN None
  ELSE IF Qualified(task, agent) THEN agent ELSE task \o agent

\* _related_program_id: the namespace of program, if it ends with ":agent".
RelatedProgramId(program, agent, related, task) ==
  IF agent # None /\ IsStrictSuffix(agent, program)
  THEN SubSeq(program, 1, Len(program) - Len(agent)) \o related
  ELSE ProgramId(task, related)
-----------------------------------------------------------------------------
\* What parsing returns: an identity, no identity, or MetadataError.
NoIdentity == [kind |-> "none"]
Malformed == [kind |-> "error"]

\* AgentIdentity(...) with the checks of __post_init__.
Identity(id) ==
  IF \/ \E f \in StringField \ {"agent_role", "spawn_reason"} : id[f] = <<"">>
     \/ id.parent_program_id = id.program_id
     \/ id.blocks_parent /\ id.parent_program_id = None
  THEN Malformed ELSE [kind |-> "identity", id |-> id]

\* _framework_identity_headers: session, agent and parent agent of the first framework named.
FrameworkHeaders(headers) ==
  LET Get(k) == IF k \in DOMAIN headers THEN headers[k] ELSE None IN
  IF "claude-session" \in DOMAIN headers
  THEN <<Get("claude-session"), Get("claude-agent"), Get("claude-parent")>>
  ELSE IF "session-id" \in DOMAIN headers THEN <<Get("session-id"), Get("thread-id"), None>>
  ELSE <<Get("x-session-id"), None, None>>

\* _agent_hint_identity
AgentHintIdentity(hint) ==
  LET session == ContextValue(hint, <<"session_id">>)
      parent == ContextValue(hint, <<"parent_session_id">>)
      blocks == Or(ContextValue(hint, <<"blocks_parent">>), Yes)
      resume == ContextValue(hint, <<"expected_resume">>)
  IN IF \/ session = None \/ NotAString(session) \/ NotAString(parent)
        \/ NotABool(blocks) \/ NotABool(resume)
        \/ blocks = Yes /\ parent = None
     THEN Malformed
     ELSE Identity([program_id |-> session, task_id |-> None, session_id |-> session,
                    agent_id |-> None, parent_program_id |-> parent,
                    blocks_parent |-> blocks = Yes,
                    expected_resume |-> IF resume = None THEN blocks # Yes ELSE resume = Yes,
                    agent_role |-> None, spawn_reason |-> None, request_id |-> None])

\* A Program named explicitly may say that it has no task.
TaskId(context, program, task, session) ==
  IF task # None \/ (program # None /\ "task_id" \in DOMAIN context) THEN task ELSE session

ExpectedResume(given, blocks, role) ==
  IF given = None THEN ~(blocks /\ role = Subagent) ELSE given = Yes

\* parse_agent_identity, from the canonical context and the headers.
ContextIdentity(context, headers) ==
  LET Text(keys) == ContextValue(context, keys)
      header == FrameworkHeaders(headers)
      program0 == Text(<<"program_id">>)
      session == Or(Text(<<"session_id">>), header[1])
      task == TaskId(context, program0, Text(<<"task_id">>), session)
      named == Or(Text(<<"agent_id">>), header[2])
      agent == AgentComponent(task, IF named = None /\ task # None THEN Lead ELSE named)
      role0 == Text(<<"agent_role">>)
      role == IF role0 # None \/ agent = None THEN role0 ELSE IF agent = Lead THEN Lead ELSE Subagent
      program == Or(program0, ProgramId(task, agent))
      parentAgent == AgentComponent(task, Or(Text(<<"parent_agent_id">>), header[3]))
      parent0 == Text(<<"parent_program_id", "parent_id">>)
      parent1 == IF parent0 = None /\ parentAgent # None
                 THEN RelatedProgramId(program, agent, parentAgent, task) ELSE parent0
      parent == IF parent1 = None /\ role = Subagent
                THEN RelatedProgramId(program, agent, Lead, task) ELSE parent1
      blocks0 == Text(<<"blocks_parent", "blocking_parent">>)
      blocks == IF blocks0 = None THEN role = Subagent ELSE blocks0 = Yes
      resume0 == Text(<<"expected_resume">>)
      reason == Text(<<"spawn_reason", "subagent_type", "agent_type">>)
  IN IF \E k \in {"program_id", "task_id", "session_id", "agent_id", "agent_role"} : NotAString(Text(<<k>>))
     THEN Malformed
     ELSE IF NotAString(agent) THEN Malformed
     ELSE IF program = None THEN NoIdentity
     ELSE IF \/ \E v \in {parent0, Text(<<"parent_agent_id">>), reason, Text(<<"request_id">>)} : NotAString(v)
             \/ NotAString(parentAgent)
             \/ NotABool(blocks0) \/ NotABool(resume0)
     THEN Malformed
     ELSE Identity([program_id |-> program, task_id |-> task, session_id |-> session, agent_id |-> agent,
                    parent_program_id |-> parent, blocks_parent |-> blocks,
                    expected_resume |-> ExpectedResume(resume0, blocks, role),
                    agent_role |-> role, spawn_reason |-> reason, request_id |-> Text(<<"request_id">>)])

\* A request's metadata: the context in vllm_xargs, the agent_hint of the body, each given or not.
Given(raw) == raw.given = "object"

\* parse_agent_identity
ParseAgentIdentity(xargs, hint, headers) ==
  IF xargs.given = "bad" THEN Malformed
  ELSE IF ~Given(xargs) /\ hint.given = "bad" THEN Malformed
  ELSE IF ~Given(xargs) /\ Given(hint) THEN AgentHintIdentity(hint.value)
  ELSE ContextIdentity(IF Given(xargs) THEN xargs.value ELSE << >>, headers)
-----------------------------------------------------------------------------
\* Mutant of EncodeAgentIdentity: the canonical context carries the fields that have a value, and those alone.
SparseEncode(id) ==
  LET set == {f \in StringField : id[f] # None} IN
  [f \in set \union {"blocks_parent", "expected_resume"} |->
     IF f = "blocks_parent" THEN (IF id.blocks_parent THEN Yes ELSE No)
     ELSE IF f = "expected_resume" THEN (IF id.expected_resume THEN Yes ELSE No) ELSE id[f]]

\* encode_agent_identity: as_context(), and task_id even when it is null.
EncodeAgentIdentity(id) ==
  LET set == {f \in StringField : id[f] # None} \union {"task_id"} IN
  [f \in set \union {"blocks_parent", "expected_resume"} |->
     IF f = "blocks_parent" THEN (IF id.blocks_parent THEN Yes ELSE No)
     ELSE IF f = "expected_resume" THEN (IF id.expected_resume THEN Yes ELSE No) ELSE id[f]]
=============================================================================
