-------------------------- MODULE LifecycleObserver --------------------------
(***************************************************************************)
(* AgentCacheLifecycleMiddleware and _LifecycleResponseObserver of         *)
(* agentinfer/agentcache/core/api_adapter.py, for one HTTP request: the    *)
(* application reads the request and sends its response in ASGI messages   *)
(* cut anywhere; the middleware forwards every one of them and, at the     *)
(* last, reports what the response says of the Program.                    *)
(*                                                                         *)
(* A response body is a sequence of bytes.  Byte <<i, k>> is the k-th byte *)
(* of line i, Newline ends a line; a line decodes to its payload only when *)
(* all of it is there, and to nothing otherwise.  A payload is what        *)
(* _response_lifecycle looks at: the finish reasons, and whether a tool    *)
(* call is among the choices or the content.                               *)
(***************************************************************************)
EXTENDS Naturals, Sequences, SequencesExt, FiniteSets

CONSTANTS
  Exchanges,    \* request and response: endpoint, status, streaming, lines, tail, body, identity, rank
  MaxEvent,     \* _MAX_STREAM_EVENT_BYTES
  MaxResponse,  \* _MAX_NON_STREAM_RESPONSE_BYTES
  MaxRequest,   \* _MAX_REQUEST_BODY_BYTES
  MaxCut        \* bound: bytes in one message of the response

VARIABLES
  x,            \* the exchange
  read,         \* request messages the application has received
  requestBody,  \* len(request_body)
  overflowed,   \* request_body_overflow
  sent,         \* bytes of the response the application has sent
  forwarded,    \* bytes of the response that reached the client
  phase,        \* of the response: "waiting", "body", "ended", "broken"
  buffer,       \* _buffer
  lifecycle,    \* _lifecycle
  overflow,     \* _overflow
  signals       \* what was given to sender.send

obsVars == <<x, read, requestBody, overflowed, sent, forwarded, phase, buffer, lifecycle, overflow, signals>>

Newline == <<0, 0>>
LineBytes(i) == [k \in 1 .. x.lines[i].length |-> <<i, k>>]

\* The bytes of the response; the last line may lack its newline.
Body == FlattenSeq([i \in DOMAIN x.lines |->
          IF i = Len(x.lines) /\ ~x.closed THEN LineBytes(i) ELSE Append(LineBytes(i), Newline)])

-----------------------------------------------------------------------------
\* _response_lifecycle; a payload that is no object has no reasons and no tools.
ResponseLifecycle(payload) ==
  IF x.endpoint = "anthropic"
  THEN IF "tool" \in payload.reasons THEN "continue"
       ELSE IF "stop" \in payload.reasons THEN "terminal"
       ELSE IF payload.tools THEN "continue" ELSE "unknown"
  ELSE IF payload.tools \/ "tool" \in payload.reasons THEN "continue"
       ELSE IF "stop" \in payload.reasons THEN "terminal" ELSE "unknown"

\* What one more payload makes of the outcome: a tool call is never taken back.
Combine(now, seen) ==
  IF seen = "continue" \/ (seen = "terminal" /\ now # "continue") THEN seen ELSE now

\* _observe_json and _observe_sse_line on the bytes of one line.
ObserveLine(now, bytes) ==
  IF \E i \in DOMAIN x.lines : bytes = LineBytes(i) /\ x.lines[i].data
  THEN Combine(now, ResponseLifecycle(x.lines[CHOOSE i \in DOMAIN x.lines : bytes = LineBytes(i)].payload))
  ELSE now

FirstNewline(bytes) == SelectInSeq(bytes, LAMBDA b : b = Newline)

\* One turn of the loop of feed: the first complete line.
TakeLine(o) ==
  LET end == FirstNewline(o.buffer) IN
  IF end - 1 > MaxEvent THEN [o EXCEPT !.buffer = << >>, !.overflow = TRUE]
  ELSE [o EXCEPT !.buffer = SubSeq(@, end + 1, Len(@)),
                 !.lifecycle = ObserveLine(@, SubSeq(o.buffer, 1, end - 1))]

Lines(o) ==
  LET after[n \in 0 .. Len(o.buffer)] ==
        IF n = 0 THEN o
        ELSE LET p == after[n - 1] IN IF p.overflow \/ FirstNewline(p.buffer) = 0 THEN p ELSE TakeLine(p)
  IN after[Len(o.buffer)]

TooLong(o) == Len(o.buffer) > (IF x.streaming THEN MaxEvent ELSE MaxResponse)

\* feed
Feed(bytes) ==
  LET o == [buffer |-> buffer \o bytes, lifecycle |-> lifecycle, overflow |-> FALSE]
      p == IF x.streaming THEN Lines(o) ELSE o
  IN IF overflow THEN [buffer |-> buffer, lifecycle |-> lifecycle, overflow |-> TRUE]
     ELSE IF p.overflow \/ TooLong(p) THEN [p EXCEPT !.buffer = << >>, !.overflow = TRUE]
     ELSE p

\* finish, after the last feed
Finish(o) ==
  IF o.overflow THEN "unknown" ELSE IF o.buffer = << >> THEN o.lifecycle ELSE ObserveLine(o.lifecycle, o.buffer)
-----------------------------------------------------------------------------
ObsInit ==
  /\ x \in Exchanges
  /\ read = 0
  /\ requestBody = 0
  /\ overflowed = FALSE
  /\ sent = 0
  /\ forwarded = 0
  /\ phase = "waiting"
  /\ buffer = << >>
  /\ lifecycle = "unknown"
  /\ overflow = FALSE
  /\ signals = << >>

\* observed_receive
Receive ==
  /\ read < Len(x.request)
  /\ phase \in {"waiting", "body"}
  /\ read' = read + 1
  /\ IF overflowed THEN UNCHANGED <<requestBody, overflowed>>
     ELSE LET n == requestBody + x.request[read + 1] IN
          /\ overflowed' = (n > MaxRequest)
          /\ requestBody' = IF n > MaxRequest THEN 0 ELSE n
  /\ UNCHANGED <<x, sent, forwarded, phase, buffer, lifecycle, overflow, signals>>

\* observed_send of http.response.start
StartResponse ==
  /\ phase = "waiting"
  /\ phase' = "body"
  /\ UNCHANGED <<x, read, requestBody, overflowed, sent, forwarded, buffer, lifecycle, overflow, signals>>

\* json.loads(request_body) gives an object: the whole body was read, and is one.
RequestParsed == x.json /\ read = Len(x.request)

\* _finish: the signal given to the sender, if any; identity "error" raises, which is logged.
SignalFor(outcome) ==
  IF \/ overflowed \/ outcome = "unknown" \/ ~x.ok
     \/ ~RequestParsed \/ x.identity # "program" \/ x.rank = "bad"
  THEN << >> ELSE <<[lifecycle |-> outcome, rank |-> x.rank]>>

Forwards(last) == TRUE

\* observed_send of http.response.body with n bytes, the last of them if last
SendBody(n, last) ==
  /\ phase = "body"
  /\ sent + n <= Len(Body)
  /\ last => sent + n = Len(Body)
  /\ LET o == Feed(SubSeq(Body, sent + 1, sent + n)) IN
     /\ buffer' = IF last THEN << >> ELSE o.buffer
     /\ overflow' = o.overflow
     /\ lifecycle' = IF last THEN Finish(o) ELSE o.lifecycle
     /\ signals' = IF last THEN SignalFor(Finish(o)) ELSE signals
  /\ sent' = sent + n
  /\ forwarded' = IF Forwards(last) THEN forwarded + n ELSE forwarded
  /\ phase' = IF last THEN "ended" ELSE phase
  /\ UNCHANGED <<x, read, requestBody, overflowed>>

\* The application fails or is cancelled: there is no last message.
AppFails ==
  /\ phase \in {"waiting", "body"}
  /\ phase' = "broken"
  /\ UNCHANGED <<x, read, requestBody, overflowed, sent, forwarded, buffer, lifecycle, overflow, signals>>

ObsNext ==
  \/ Receive \/ StartResponse \/ AppFails
  \/ \E n \in 0 .. MaxCut, last \in BOOLEAN : (n > 0 \/ last) /\ SendBody(n, last)

ObsSpec == ObsInit /\ [][ObsNext]_obsVars
-----------------------------------------------------------------------------
ObsTypeOK ==
  /\ read \in 0 .. Len(x.request)
  /\ requestBody \in 0 .. MaxRequest
  /\ overflowed \in BOOLEAN
  /\ sent \in 0 .. Len(Body)
  /\ phase \in {"waiting", "body", "ended", "broken"}
  /\ Len(buffer) <= (IF x.streaming THEN MaxEvent ELSE MaxResponse)
  /\ lifecycle \in {"unknown", "continue", "terminal"}
  /\ overflow \in BOOLEAN
  /\ Len(signals) <= 1

Data == {i \in DOMAIN x.lines : x.lines[i].data}
Outcomes == {ResponseLifecycle(x.lines[i].payload) : i \in Data}

\* The outcome as the whole response has it, read at once.
WholeOutcome ==
  IF \/ x.streaming /\ \E i \in DOMAIN x.lines : x.lines[i].length > MaxEvent
     \/ ~x.streaming /\ Len(Body) > MaxResponse
  THEN "unknown"
  ELSE IF "continue" \in Outcomes THEN "continue"
  ELSE IF "terminal" \in Outcomes THEN "terminal" ELSE "unknown"

\* What is found out about a response does not depend on how the application cut it into
\* messages, inside an event or across several: it is what the whole body says, a tool call
\* wherever it stands outweighs a stop, and a body with an event too long says nothing.
OutcomeIgnoresCuts == phase = "ended" => lifecycle = WholeOutcome

\* A Program is declared finished, or continued, only by a complete successful response to
\* a request that was read whole, and with what that response says.
SignalIsEarned ==
  signals # << >> =>
    /\ phase = "ended" /\ x.ok
    /\ signals[1].lifecycle = WholeOutcome
    /\ FoldSeq(LAMBDA n, s : n + s, 0, x.request) = requestBody

\* Observation never changes the response: the client has every byte the application sent,
\* the last message too when reporting it failed.
ResponseUntouched == forwarded = sent
=============================================================================
