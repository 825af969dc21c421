----------------------------- MODULE RequestTrace -----------------------------
(***************************************************************************)
(* RequestTraceWriter of agentinfer/agentbench/request_proxy/              *)
(* request_trace.py: callers submit request facts to an unbounded asyncio  *)
(* queue, one task appends them to a JSONL file through a one-thread       *)
(* executor, and close() drains it.  unfinished is the queue's own count   *)
(* of items put and not yet task_done(), what queue.join() waits for.      *)
(*                                                                         *)
(* Opening, appending and closing the file may fail.  A failed append may  *)
(* have left nothing, a torn line or the whole line in the file.           *)
(***************************************************************************)
EXTENDS Naturals, Sequences, FiniteSets, SequencesExt

CONSTANTS
  Fact,       \* the request facts of the run
  Closer,     \* the callers of close()
  Torn,       \* a last line cut off before its newline
  None

\* What the constants may be.
TraceAssumption == Torn \notin Fact /\ None \notin Fact

VARIABLES
  queue,        \* _queue
  unfinished,   \* _queue._unfinished_tasks
  writer,       \* where the task _run() is
  current,      \* the fact it is appending
  file,         \* the lines of the trace file
  accepted,     \* the facts submit() took, in order (_submitted is its length)
  written,      \* _written
  failed,       \* _error is not None
  closed,       \* _closed
  closer        \* caller of close() -> where it is, and the health it returned

traceVars == <<queue, unfinished, writer, current, file, accepted, written, failed, closed, closer>>

Sentinel == None

Health == [submitted |-> Len(accepted), written |-> written,
           dropped |-> Len(accepted) - written, error |-> failed]
NoHealth == [submitted |-> 0, written |-> 0, dropped |-> 0, error |-> FALSE]

TraceInit ==
  /\ queue = << >>
  /\ unfinished = 0
  /\ writer = "opening"
  /\ current = None
  /\ file = << >>
  /\ accepted = << >>
  /\ written = 0
  /\ failed = FALSE
  /\ closed = FALSE
  /\ closer = [c \in Closer |-> [at |-> "idle", health |-> NoHealth]]
-----------------------------------------------------------------------------
Accepts == ~closed /\ ~failed

Put(item) ==
  /\ queue' = Append(queue, item)
  /\ unfinished' = unfinished + 1

Submit(f) ==
  /\ Accepts
  /\ Put(f)
  /\ accepted' = Append(accepted, f)
  /\ UNCHANGED <<writer, current, file, written, failed, closed, closer>>

\* _discard_pending(): every item left in the queue is also task_done().
DiscardPending ==
  /\ queue' = << >>
  /\ unfinished' = unfinished - Len(queue) - (IF current = None THEN 0 ELSE 1)

\* The except branch of _run().  The item in hand is task_done() on the way.
Fails ==
  /\ failed' = TRUE
  /\ DiscardPending
  /\ current' = None
  /\ writer' = "closing"

Open ==
  /\ writer = "opening"
  /\ \/ writer' = "getting" /\ UNCHANGED <<queue, unfinished, current, failed>>
     \/ Fails
  /\ UNCHANGED <<file, accepted, written, closed, closer>>

Get ==
  /\ writer = "getting"
  /\ queue # << >>
  /\ queue' = Tail(queue)
  /\ IF Head(queue) = Sentinel
       THEN writer' = "closing" /\ unfinished' = unfinished - 1 /\ UNCHANGED current
       ELSE writer' = "appending" /\ current' = Head(queue) /\ UNCHANGED unfinished
  /\ UNCHANGED <<file, accepted, written, failed, closed, closer>>

AppendFact ==
  /\ writer = "appending"
  /\ file' = Append(file, current)
  /\ written' = written + 1
  /\ unfinished' = unfinished - 1
  /\ current' = None
  /\ writer' = "getting"
  /\ UNCHANGED <<queue, accepted, failed, closed, closer>>

AppendFails ==
  /\ writer = "appending"
  /\ \E left \in {<< >>, <<Torn>>, <<current>>} : file' = file \o left
  /\ Fails
  /\ UNCHANGED <<accepted, written, closed, closer>>

CloseHandle ==
  /\ writer = "closing"
  /\ writer' = "done"
  /\ failed' \in {failed, TRUE}
  /\ UNCHANGED <<queue, unfinished, current, file, accepted, written, closed, closer>>
-----------------------------------------------------------------------------
(***************************************************************************)
(* close().  Only the first caller stops the task; a later one returns the *)
(* health of the moment.                                                   *)
(***************************************************************************)
At(c, where) == [closer EXCEPT ![c].at = where]
Returns(c) == [closer EXCEPT ![c] = [at |-> "returned", health |-> Health]]

\* Mutant of TaskGone: close() does not look at a task that already failed.
TaskDone == writer = "done"

TaskGone == writer = "done" \/ failed

Close(c) ==
  /\ closer[c].at = "idle"
  /\ ~closed
  /\ closed' = TRUE
  /\ IF TaskGone
       THEN closer' = At(c, "awaiting") /\ UNCHANGED <<queue, unfinished>>
       ELSE closer' = At(c, "joining") /\ Put(Sentinel)
  /\ UNCHANGED <<writer, current, file, accepted, written, failed>>

CloseAgain(c) ==
  /\ closer[c].at = "idle"
  /\ closed
  /\ closer' = Returns(c)
  /\ UNCHANGED <<queue, unfinished, writer, current, file, accepted, written, failed, closed>>

Joined(c) ==
  /\ closer[c].at = "joining"
  /\ unfinished = 0
  /\ closer' = At(c, "awaiting")
  /\ UNCHANGED <<queue, unfinished, writer, current, file, accepted, written, failed, closed>>

CloseReturns(c) ==
  /\ closer[c].at = "awaiting"
  /\ writer = "done"
  /\ closer' = Returns(c)
  /\ UNCHANGED <<queue, unfinished, writer, current, file, accepted, written, failed, closed>>

WriterStep == Open \/ Get \/ AppendFact \/ AppendFails \/ CloseHandle

CloserStep(c) == Close(c) \/ CloseAgain(c) \/ Joined(c) \/ CloseReturns(c)

\* A fact is submitted once: every request has its own id.
SubmitOnce(f) == ~Contains(accepted, f) /\ Submit(f)

TraceNext ==
  \/ \E f \in Fact : SubmitOnce(f)
  \/ WriterStep
  \/ \E c \in Closer : CloserStep(c)

TraceSpec == TraceInit /\ [][TraceNext]_traceVars
-----------------------------------------------------------------------------
\* load_request_facts(): a last line without its newline is ignored.
LoadFacts ==
  IF file # << >> /\ file[Len(file)] = Torn THEN SubSeq(file, 1, Len(file) - 1) ELSE file

TraceTypeOK ==
  /\ queue \in Seq(Fact \cup {Sentinel})
  /\ unfinished \in Nat
  /\ writer \in {"opening", "getting", "appending", "closing", "done"}
  /\ current \in Fact \cup {None}
  /\ file \in Seq(Fact \cup {Torn})
  /\ accepted \in Seq(Fact)
  /\ written \in 0 .. Len(accepted)
  /\ failed \in BOOLEAN /\ closed \in BOOLEAN
  /\ \A c \in Closer : closer[c].at \in {"idle", "joining", "awaiting", "returned"}

\* queue.join() waits for exactly what is queued or in hand: a failure that
\* drops queued facts must account for each, or close() never returns
\* (request_trace.py:117).
JoinCountsPending == unfinished = Len(queue) + (IF current = None THEN 0 ELSE 1)

\* The file holds the accepted facts in submission order and without gaps, and
\* a torn line is the last (request_trace.py:108,142).
FileIsPrefix ==
  /\ IsPrefix(LoadFacts, accepted)
  /\ \A i \in DOMAIN file : file[i] = Torn => i = Len(file)
  /\ Len(LoadFacts) \in {written, written + 1}

\* The health the closing caller gets is final: nothing dropped and no error
\* means every accepted fact is in the file (request_trace.py:122,129).
CleanHealthIsComplete ==
  \A c \in Closer :
    /\ closer[c].at = "returned"
    /\ closer[c].health.dropped = 0
    /\ ~closer[c].health.error
    => LoadFacts = SubSeq(accepted, 1, closer[c].health.submitted)

Closing(c) == closer[c].at \in {"joining", "awaiting"}
Returned(c) == closer[c].at = "returned"
=============================================================================
