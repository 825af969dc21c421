----------------------------- MODULE RequestProxy -----------------------------
(***************************************************************************)
(* The request proxy of agentinfer/agentbench/request_proxy: the child     *)
(* process (server.py) that forwards model requests and records one fact   *)
(* for each, and the parent's RequestProxyLifecycle (lifecycle.py,         *)
(* process.py) that starts it, shuts it down and reads its trace health.   *)
(*                                                                         *)
(* A request may be cancelled or fail wherever its handler awaits.  The    *)
(* shutdown may time out on either side, be cancelled by the parent, or    *)
(* meet a child that already died.  What the upstream sends is external.   *)
(***************************************************************************)
EXTENDS RequestTrace

CONSTANTS
  ShutdownHandler,    \* writer.close() called through POST /shutdown
  ExitProxy,  \* writer.close() called through proxy.close() after serve()
  ExitWriter  \* the writer.close() after that
\* What the constants may be.
ClosersAssumption ==
  /\ Closer = {ShutdownHandler, ExitProxy, ExitWriter}
  /\ ShutdownHandler # ExitProxy /\ ShutdownHandler # ExitWriter /\ ExitProxy # ExitWriter
  /\ IsFiniteSet(Fact)

\* Every forwarded request has one fact, which stands for it.
Forwarded == Fact

VARIABLES
  accepting,      \* RequestProxyServer.accepting
  active,         \* _active_requests
  request,        \* request -> where its handler is
  completed,      \* the requests whose stream reached the protocol's last event
  outcome,        \* request -> status of the fact its handler submitted
  closing,        \* holder of _close_lock
  close_health,   \* _close_health was set
  server,         \* caller of RequestProxyServer.close() -> where it is
  process,        \* the child process
  lifecycle,      \* where the parent's close() is
  cancelled,      \* the parent's close() was cancelled once
  result          \* RequestProxyCloseResult

proxyVars == <<accepting, active, request, completed, outcome, closing, close_health,
               server, process, lifecycle, cancelled, result>>
vars == <<traceVars, proxyVars>>

ServerCloser == {ShutdownHandler, ExitProxy}
Idle == {"new", "refused", "released", "gone", "abandoned"}
NoResult == [clean |-> FALSE, health |-> NoHealth]

Init ==
  /\ TraceInit
  /\ accepting = TRUE
  /\ active = 0
  /\ request = [r \in Forwarded |-> "new"]
  /\ completed = {}
  /\ outcome = [r \in Forwarded |-> "none"]
  /\ closing = None
  /\ close_health = FALSE
  /\ server = [c \in ServerCloser |-> "idle"]
  /\ process = "starting"
  /\ lifecycle = "starting"
  /\ cancelled = FALSE
  /\ result = NoResult

Alive == process \in {"serving", "draining", "exiting"}
Serving == process = "serving"
-----------------------------------------------------------------------------
(***************************************************************************)
(* handle_model_request().  The fact is submitted before the request is    *)
(* released, and a writer that refuses it is ignored (_submit_safely).     *)
(***************************************************************************)
requestVars == <<active, request, completed, outcome>>
serverVars == <<accepting, closing, close_health, server>>
parentVars == <<process, lifecycle, cancelled, result>>

Goto(r, where) == request' = [request EXCEPT ![r] = where]

Record(r, status) ==
  /\ outcome' = [outcome EXCEPT ![r] = status]
  /\ IF Accepts THEN Submit(r) ELSE UNCHANGED traceVars

Admit(r) ==
  /\ Serving
  /\ request[r] = "new"
  /\ IF accepting THEN Goto(r, "body") /\ active' = active + 1
                  ELSE Goto(r, "refused") /\ UNCHANGED active
  /\ UNCHANGED <<completed, outcome, traceVars, serverVars, parentVars>>

\* The client went away before its body arrived: nothing was forwarded.
BodyFails(r) ==
  /\ Alive /\ request[r] = "body"
  /\ Goto(r, "abandoning")
  /\ UNCHANGED <<active, completed, outcome, traceVars, serverVars, parentVars>>

Forward(r) ==
  /\ Alive /\ request[r] = "body"
  /\ Goto(r, "upstream")
  /\ UNCHANGED <<active, completed, outcome, traceVars, serverVars, parentVars>>

\* The send fails or is cancelled.
UpstreamFails(r) ==
  /\ Alive /\ request[r] = "upstream"
  /\ Record(r, "error")
  /\ Goto(r, "releasing")
  /\ UNCHANGED <<active, completed, serverVars, parentVars>>

\* A response that is not an event stream is read whole; its HTTP status, a
\* read error or a cancellation decides the status of the fact.
PlainResponse(r) ==
  /\ Alive /\ request[r] = "upstream"
  /\ \E status \in {"success", "error"} : Record(r, status)
  /\ Goto(r, "releasing")
  /\ UNCHANGED <<active, completed, serverVars, parentVars>>

StreamStarts(r) ==
  /\ Alive /\ request[r] = "upstream"
  /\ Goto(r, "streaming")
  /\ UNCHANGED <<active, completed, outcome, traceVars, serverVars, parentVars>>

\* The usage observer meets message_stop or the last chunk.
StreamCompletes(r) ==
  /\ Alive /\ request[r] = "streaming"
  /\ r \notin completed
  /\ completed' = completed \cup {r}
  /\ UNCHANGED <<active, request, outcome, traceVars, serverVars, parentVars>>

\* SDKs close HTTP right after the protocol's last event.
CancelStatus(r) == IF r \in completed THEN "success" ELSE "error"

\* The stream ends, raises, or is cancelled; finalize() records it and releases.
StreamEnds(r) ==
  /\ Alive /\ request[r] = "streaming"
  /\ \E status \in {"success", "error"} : Record(r, status)
  /\ Goto(r, "releasing")
  /\ UNCHANGED <<active, completed, serverVars, parentVars>>

StreamCancelled(r) ==
  /\ Alive /\ request[r] = "streaming"
  /\ Record(r, CancelStatus(r))
  /\ Goto(r, "disconnected")
  /\ UNCHANGED <<active, completed, serverVars, parentVars>>

Ended == [releasing |-> "released", disconnected |-> "gone", abandoning |-> "abandoned"]

Release(r) ==
  /\ Alive /\ request[r] \in {"releasing", "disconnected", "abandoning"}
  /\ Goto(r, Ended[request[r]])
  /\ active' = active - 1
  /\ UNCHANGED <<completed, outcome, traceVars, serverVars, parentVars>>
-----------------------------------------------------------------------------
(***************************************************************************)
(* RequestProxyServer.close(), called by POST /shutdown and again after    *)
(* uvicorn returned.  A timed-out wait leaves accepting FALSE.             *)
(***************************************************************************)
SetServer(c, where) == server' = [server EXCEPT ![c] = where]

CloseStarts(c) ==
  /\ closing = None
  /\ server[c] = "called"
  /\ IF close_health
       THEN SetServer(c, "returned") /\ UNCHANGED <<accepting, closing>>
       ELSE SetServer(c, "waiting") /\ accepting' = FALSE /\ closing' = c
  /\ UNCHANGED <<close_health, traceVars, requestVars, parentVars>>

\* Mutant of Quiescent: the wait for the active requests is skipped.
AnyActive == TRUE

Quiescent == active = 0

CloseWriter(c) ==
  /\ server[c] = "waiting"
  /\ Quiescent
  /\ SetServer(c, "writing")
  /\ Close(c) \/ CloseAgain(c)
  /\ UNCHANGED <<accepting, closing, close_health, requestVars, parentVars>>

CloseTimesOut(c) ==
  /\ Alive
  /\ server[c] = "waiting"
  /\ active > 0
  /\ SetServer(c, "raised")
  /\ closing' = None
  /\ UNCHANGED <<accepting, close_health, traceVars, requestVars, parentVars>>

CloseEnds(c) ==
  /\ server[c] = "writing"
  /\ closer[c].at = "returned"
  /\ SetServer(c, "returned")
  /\ closing' = None
  /\ close_health' = TRUE
  /\ UNCHANGED <<accepting, traceVars, requestVars, parentVars>>

ServerClose(c) == CloseStarts(c) \/ CloseWriter(c) \/ CloseTimesOut(c) \/ CloseEnds(c)

\* shutdown_callback: uvicorn leaves once every open request has ended.
ShutdownCallback ==
  /\ Serving
  /\ server[ShutdownHandler] = "returned"
  /\ process' = "draining"
  /\ UNCHANGED <<lifecycle, cancelled, result, traceVars, requestVars, serverVars>>

ServeReturns ==
  /\ process = "draining"
  /\ \A r \in Forwarded : request[r] \in Idle
  /\ server[ShutdownHandler] \in {"idle", "returned", "raised"}
  /\ process' = "exiting"
  /\ SetServer(ExitProxy, "called")
  /\ UNCHANGED <<accepting, closing, close_health, lifecycle, cancelled, result, traceVars, requestVars>>

ExitCloseWriter ==
  /\ process = "exiting"
  /\ server[ExitProxy] \in {"returned", "raised"}
  /\ Close(ExitWriter) \/ CloseAgain(ExitWriter)
  /\ UNCHANGED <<requestVars, serverVars, parentVars>>

Exit ==
  /\ process = "exiting"
  /\ closer[ExitWriter].at = "returned"
  /\ process' = IF server[ExitProxy] = "raised" THEN "crashed" ELSE "exited"
  /\ UNCHANGED <<lifecycle, cancelled, result, traceVars, requestVars, serverVars>>

Started ==
  /\ process = "starting"
  /\ process' = "serving"
  /\ UNCHANGED <<lifecycle, cancelled, result, traceVars, requestVars, serverVars>>

Crash ==
  /\ process \in {"starting", "serving"}
  /\ process' = "crashed"
  /\ UNCHANGED <<lifecycle, cancelled, result, traceVars, requestVars, serverVars>>
-----------------------------------------------------------------------------
(***************************************************************************)
(* The parent: start(), wait_ready(), close().                             *)
(***************************************************************************)
Parent(from, to) == lifecycle = from /\ lifecycle' = to
childVars == <<traceVars, requestVars, serverVars>>
Gone == process \in {"exited", "crashed", "killed"}

\* wait_ready() returns, or raises because the child died or stayed silent;
\* the caller closes the proxy in either case.
WaitReady ==
  /\ \/ Serving /\ Parent("starting", "running")
     \/ ~Serving /\ Parent("starting", "failed")
  /\ UNCHANGED <<process, cancelled, result, childVars>>

PostShutdown ==
  /\ lifecycle \in {"running", "failed"}
  /\ lifecycle' = "posting"
  /\ IF Serving /\ server[ShutdownHandler] = "idle" THEN SetServer(ShutdownHandler, "called")
                                            ELSE UNCHANGED server
  /\ UNCHANGED <<accepting, closing, close_health, process, cancelled, result, traceVars, requestVars>>

ShutdownAnswered ==
  /\ Alive
  /\ server[ShutdownHandler] = "returned"
  /\ Parent("posting", "waiting")
  /\ result' = [result EXCEPT !.health = closer[ShutdownHandler].health]
  /\ UNCHANGED <<process, cancelled, childVars>>

\* The handler raised, the client timed out, or nobody listens.
ShutdownFails == Parent("posting", "terminating") /\ UNCHANGED <<process, cancelled, result, childVars>>

CleanExit == process = "exited"

ProcessWaited ==
  /\ Gone
  /\ Parent("waiting", "closed")
  /\ result' = [result EXCEPT !.clean = CleanExit]
  /\ UNCHANGED <<process, cancelled, childVars>>

WaitTimesOut ==
  /\ ~Gone
  /\ Parent("waiting", "terminating")
  /\ UNCHANGED <<process, cancelled, result, childVars>>

\* terminate(): SIGTERM lets uvicorn drain; a child that stays is killed.
Terminate ==
  /\ lifecycle \in {"terminating", "terminating_cancelled"}
  /\ process \in {"starting", "serving"}
  /\ process' = IF Serving THEN "draining" ELSE "crashed"
  /\ UNCHANGED <<lifecycle, cancelled, result, childVars>>

\* Mutant of Kill: a child that hangs after serve() returned is not killed.
KillDraining ==
  /\ lifecycle \in {"terminating", "terminating_cancelled"}
  /\ process = "draining"
  /\ process' = "killed"
  /\ UNCHANGED <<lifecycle, cancelled, result, childVars>>

Kill ==
  /\ lifecycle \in {"terminating", "terminating_cancelled"}
  /\ process \in {"draining", "exiting"}
  /\ process' = "killed"
  /\ UNCHANGED <<lifecycle, cancelled, result, childVars>>

Terminated ==
  /\ Gone
  /\ \/ Parent("terminating", "closed")
     \/ Parent("terminating_cancelled", "running")
  /\ UNCHANGED <<process, cancelled, result, childVars>>

\* The parent's close() is cancelled: the child is terminated all the same,
\* and a later close() finds it gone.
CancelClose ==
  /\ ~cancelled
  /\ lifecycle \in {"posting", "waiting"}
  /\ lifecycle' = "terminating_cancelled"
  /\ cancelled' = TRUE
  /\ result' = NoResult
  /\ UNCHANGED <<process, childVars>>
-----------------------------------------------------------------------------
RequestStep(r) ==
  \/ BodyFails(r) \/ Forward(r) \/ UpstreamFails(r) \/ PlainResponse(r)
  \/ StreamStarts(r) \/ StreamEnds(r) \/ StreamCancelled(r) \/ Release(r)

ChildStep ==
  \/ Alive /\ (WriterStep \/ \E c \in Closer : Joined(c) \/ CloseReturns(c))
     /\ UNCHANGED proxyVars
  \/ Alive /\ \E c \in ServerCloser : ServerClose(c)
  \/ ShutdownCallback \/ ServeReturns \/ ExitCloseWriter \/ Exit \/ Started

ParentStep ==
  \/ WaitReady \/ PostShutdown \/ ShutdownAnswered \/ ShutdownFails
  \/ ProcessWaited \/ WaitTimesOut \/ Terminate \/ Kill \/ Terminated

Done == lifecycle = "closed" /\ UNCHANGED vars

Next ==
  \/ \E r \in Forwarded : Admit(r) \/ StreamCompletes(r) \/ RequestStep(r)
  \/ ChildStep \/ ParentStep \/ CancelClose \/ Crash \/ Done

Spec == Init /\ [][Next]_vars
-----------------------------------------------------------------------------
ProxyTypeOK ==
  /\ TraceTypeOK
  /\ accepting \in BOOLEAN
  /\ active \in 0 .. Cardinality(Forwarded)
  /\ request \in [Forwarded -> {"new", "refused", "body", "upstream", "streaming", "releasing",
                              "disconnected", "abandoning", "released", "gone", "abandoned"}]
  /\ outcome \in [Forwarded -> {"none", "success", "error"}]
  /\ closing \in ServerCloser \cup {None}
  /\ server \in [ServerCloser -> {"idle", "called", "waiting", "writing", "returned", "raised"}]
  /\ process \in {"starting", "serving", "draining", "exiting", "exited", "crashed", "killed"}

\* The counter close() waits on is the number of admitted, unreleased requests:
\* no path through the handler leaks or double-counts one (server.py:121-265).
ActiveIsExact ==
  active = Cardinality({r \in Forwarded :
    request[r] \notin Idle})

\* The trace health of a clean shutdown covers every forwarded request: nothing
\* dropped and no error means each has its fact in the file (lifecycle.py:105).
CleanCloseHasEveryFact ==
  /\ lifecycle = "closed" /\ result.clean
  /\ result.health.dropped = 0 /\ ~result.health.error
  => \A r \in Forwarded : request[r] \in {"released", "gone"} => Contains(LoadFacts, r)

\* A shutdown is only reported clean when the child closed its trace and left
\* by itself; no request was then still being served (lifecycle.py:124-133).
CleanMeansDrained ==
  lifecycle = "closed" /\ result.clean =>
    /\ process = "exited" /\ closed
    /\ \A r \in Forwarded : request[r] \in Idle

\* A client that leaves after the protocol's last event made a successful
\* request; one that leaves earlier did not (server.py:243-246).
CancelAfterCompletion ==
  \A r \in Forwarded : request[r] \in {"disconnected", "gone"} =>
    (outcome[r] = "success" <=> r \in completed)

ShutDown == lifecycle = "closed"
=============================================================================
