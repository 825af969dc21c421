---------------------------- MODULE TokenizerCache ----------------------------
(***************************************************************************)
(* TokenizerClient of agentinfer/agentbench/replay/prompt.py and the       *)
(* preparation workers of PromptBuilder.prepare_tasks().  Coroutines ask   *)
(* for the seed tokens or the text of a namespace, or for the count of a   *)
(* Prompt.  A cache miss starts one operation per key, which every other   *)
(* caller of that key joins behind asyncio.shield(); an operation posts to *)
(* the Backend under a semaphore and retries transport failures.  A task   *)
(* that has stopped is released: its private operations are cancelled and  *)
(* its private caches deleted.                                             *)
(*                                                                         *)
(* A task owns one private namespace, which is the task itself, and a      *)
(* namespace is asked for at one length.  A local tokenizer answers        *)
(* without the semaphore.  An operation has started before anyone cancels  *)
(* it: the event loop runs it before a graph that asked for it can stop.   *)
(***************************************************************************)
EXTENDS Naturals, FiniteSets

CONSTANTS
  Task,          \* the tasks of the plan
  SharedNs,      \* the namespaces "shared:..."
  PreparedNs,    \* the shared namespaces prepare_tasks() prepares
  Node,          \* the request coroutines
  TaskOf(_),     \* their tasks
  Worker,        \* the workers of prepare_tasks()
  NumPermits,    \* tokenizer_max_concurrency
  MaxAttempts,   \* TOKENIZER_REQUEST_MAX_ATTEMPTS
  UsesTokenIds,  \* config.replay.uses_token_ids: no shared text is prepared
  None

Namespace == SharedNs \cup Task
Caller == Node \cup Worker
Seed(n) == <<"seed", n>>
Text(n) == <<"text", n>>
Count(c) == <<"count", c>>
KeysOf(ns) == {Seed(n) : n \in ns} \cup {Text(n) : n \in ns}
SharedKey == KeysOf(Namespace)
Key == SharedKey \cup {Count(c) : c \in Node}

\* What the constants may be: the namespaces "shared:..." are no task ids, and
\* nodes, workers and keys are told apart.
TokenizerAssumption ==
  /\ Task \cap SharedNs = {} /\ PreparedNs \subseteq SharedNs
  /\ \A c \in Node : TaskOf(c) \in Task
  /\ Node \cap Worker = {} /\ Caller \cap Key = {}
  /\ NumPermits \in Nat /\ MaxAttempts \in Nat \ {0}

VARIABLES
  phase,      \* where the run is: "discover", "seeds", "texts", "run", "failed", "closed"
  local,      \* local_tokenizer is not None
  todo,       \* the items the preparation workers have not taken
  seeds,      \* namespaces of _token_ids
  texts,      \* namespaces of _text_cache
  op,         \* key -> where its operation is; "none": not in _inflight
  tries,      \* key -> the attempt its _post() is at
  doomed,     \* operations that were cancelled and have not run since
  permits,    \* free permits of _semaphore
  at,         \* caller -> where its coroutine is
  want,       \* caller -> the key it waits for
  answer,     \* caller, or key of a text operation -> what the awaited operation ended with
  release,    \* task -> "live", "releasing", "released"
  fetched     \* namespace -> seeds fetched for it

vars == <<phase, local, todo, seeds, texts, op, tries, doomed, permits, at, want, answer, release, fetched>>

Stopped(c) == at[c] \in {"idle", "ok", "failed", "cancelled", "broken"}
PrivateKeys(t) == {Seed(t), Text(t)}

Init ==
  /\ phase = "discover"
  /\ local = FALSE
  /\ todo = {}
  /\ seeds = {} /\ texts = {}
  /\ op = [k \in Key |-> "none"]
  /\ tries = [k \in Key |-> 1]
  /\ doomed = {}
  /\ permits = NumPermits
  /\ at = [c \in Caller |-> "idle"]
  /\ want = [c \in Caller |-> None]
  /\ answer = [w \in Caller \cup Key |-> "none"]
  /\ release = [t \in Task |-> "live"]
  /\ fetched = [n \in Namespace |-> 0]

\* prepare_local_tokenizer(): discovery finds a validated tokenizer or none.
Discover ==
  /\ phase = "discover"
  /\ local' \in BOOLEAN
  /\ phase' = "seeds"
  /\ todo' = {Seed(n) : n \in PreparedNs}
  /\ UNCHANGED <<seeds, texts, op, tries, doomed, permits, at, want, answer, release, fetched>>
-----------------------------------------------------------------------------
(* A call of token_sequence(), token_text() or count().                    *)

Cached(k) == (k[1] = "seed" /\ k[2] \in seeds) \/ (k[1] = "text" /\ k[2] \in texts)

\* The first step of a new operation: a text operation first asks for its seed.
FirstStep(k) == IF k[1] = "text" /\ k[2] \notin seeds THEN "seedwait" ELSE "want"

\* _shared(): join the operation of the key, or start it; a text operation
\* starts the one of its seed in turn.
Shared(k) ==
  LET new == {j \in {k} \cup (IF FirstStep(k) = "seedwait" THEN {Seed(k[2])} ELSE {}) :
                op[k] = "none" /\ op[j] = "none"}
  IN  /\ op' = [j \in Key |-> IF j \in new THEN FirstStep(j) ELSE op[j]]
      /\ tries' = [j \in Key |-> IF j \in new THEN 1 ELSE tries[j]]

Call(c, k) ==
  /\ IF Cached(k)
     THEN /\ at' = [at EXCEPT ![c] = "ok"]
          /\ UNCHANGED <<op, tries>>
     ELSE /\ at' = [at EXCEPT ![c] = "wait"]
          /\ Shared(k)
  /\ want' = [want EXCEPT ![c] = k]
  /\ UNCHANGED <<phase, local, seeds, texts, doomed, permits, answer, release, fetched>>

NodeCalls(c) ==
  /\ phase = "run"
  /\ at[c] = "idle"
  /\ \E k \in {Count(c)} \cup KeysOf(SharedNs \cup {TaskOf(c)}) : Call(c, k)
  /\ UNCHANGED todo

\* One iteration of a worker of bounded(): the iterator hands each item to one worker.
WorkerCalls(w) ==
  /\ phase \in {"seeds", "texts"}
  /\ at[w] \in {"idle", "ok"}
  /\ \E k \in todo : Call(w, k) /\ todo' = todo \ {k}

\* The coroutine goes on after the await.  token_sequence() then reads
\* _token_ids[namespace]; token_text() stores the text once more.  A
\* CancelledError or a missing key ("broken") reaches a caller nobody cancelled.
Resume(c) ==
  LET k == want[c] IN
  /\ at[c] = "ready"
  /\ at' = [at EXCEPT ![c] = CASE answer[c] = "failed" -> "failed"
                               [] answer[c] \in {"cancelled", "lost"} -> "broken"
                               [] OTHER -> IF k[1] = "seed" /\ k[2] \notin seeds THEN "broken" ELSE "ok"]
  /\ texts' = IF answer[c] = "ok" /\ k[1] = "text" THEN texts \cup {k[2]} ELSE texts
  /\ answer' = [answer EXCEPT ![c] = "none"]
  /\ UNCHANGED <<phase, local, todo, seeds, op, tries, doomed, permits, want, release, fetched>>
-----------------------------------------------------------------------------
(* The operations.                                                         *)

Running(k) == op[k] # "none" /\ k \notin doomed

\* The finally of run() pops the key, and the task's end wakes who awaits it.
Ends(k, result) ==
  LET waiters == {c \in Caller : at[c] = "wait" /\ want[c] = k}
      text == IF k[1] = "seed" /\ op[Text(k[2])] = "seedwait" THEN {Text(k[2])} ELSE {}
  IN  /\ op' = [j \in Key |-> IF j = k THEN "none" ELSE IF j \in text THEN "seedready" ELSE op[j]]
      /\ at' = [c \in Caller |-> IF c \in waiters THEN "ready" ELSE at[c]]
      /\ answer' = [w \in Caller \cup Key |-> IF w \in waiters \cup text THEN result ELSE answer[w]]
      /\ doomed' = doomed \ {k}
      /\ tries' = [tries EXCEPT ![k] = 1]

\* The text operation goes on after the await on its seed.
SeedArrived(k) ==
  /\ Running(k)
  /\ op[k] = "seedready"
  /\ CASE answer[k] # "ok" -> Ends(k, answer[k])
       [] answer[k] = "ok" /\ k[2] \notin seeds -> Ends(k, "lost")
       [] OTHER -> op' = [op EXCEPT ![k] = "want"] /\ UNCHANGED <<at, answer, doomed, tries>>
  /\ UNCHANGED <<phase, local, todo, seeds, texts, permits, want, release, fetched>>

\* async with self._semaphore: post.
Acquire(k) ==
  /\ Running(k)
  /\ op[k] = "want"
  /\ ~local
  /\ permits > 0
  /\ permits' = permits - 1
  /\ op' = [op EXCEPT ![k] = "post"]
  /\ UNCHANGED <<phase, local, todo, seeds, texts, tries, doomed, at, want, answer, release, fetched>>

\* What prepare() of the key stores before it returns.
Store(k) ==
  /\ seeds' = IF k[1] = "seed" THEN seeds \cup {k[2]} ELSE seeds
  /\ texts' = IF k[1] = "text" THEN texts \cup {k[2]} ELSE texts
  /\ fetched' = IF k[1] = "seed" THEN [fetched EXCEPT ![k[2]] = @ + 1] ELSE fetched

\* The answer of the Backend, or of the local tokenizer (which needs no permit).
Answered(k) == (op[k] = "post" /\ permits' = permits + 1) \/ (op[k] = "want" /\ local /\ UNCHANGED permits)

Succeeds(k) ==
  /\ Running(k)
  /\ Answered(k)
  /\ Store(k)
  /\ Ends(k, "ok")
  /\ UNCHANGED <<phase, local, todo, want, release>>

\* An error status, a malformed answer or an empty seed is not retried.
Rejected(k) ==
  /\ Running(k)
  /\ Answered(k)
  /\ Ends(k, "failed")
  /\ UNCHANGED <<phase, local, todo, seeds, texts, want, release, fetched>>

TransportFails(k) ==
  /\ Running(k)
  /\ op[k] = "post"
  /\ permits' = permits + 1
  /\ IF tries[k] = MaxAttempts
     THEN Ends(k, "failed")
     ELSE /\ op' = [op EXCEPT ![k] = "sleep"]
          /\ tries' = [tries EXCEPT ![k] = @ + 1]
          /\ UNCHANGED <<at, answer, doomed>>
  /\ UNCHANGED <<phase, local, todo, seeds, texts, want, release, fetched>>

BackoffEnds(k) ==
  /\ Running(k)
  /\ op[k] = "sleep"
  /\ op' = [op EXCEPT ![k] = "want"]
  /\ UNCHANGED <<phase, local, todo, seeds, texts, tries, doomed, permits, at, want, answer, release, fetched>>

\* CancelledError reaches the operation: a permit it holds goes back.
Returned(k) == IF op[k] = "post" THEN permits + 1 ELSE permits

OpCancelled(k) ==
  /\ k \in doomed
  /\ permits' = Returned(k)
  /\ Ends(k, "cancelled")
  /\ UNCHANGED <<phase, local, todo, seeds, texts, want, release, fetched>>
-----------------------------------------------------------------------------
(* Cancellation of a coroutine, release of a task, preparation, close.     *)

\* Mutant of CancelledWith: without the shield, the cancellation reaches the shared operation.
CancelAwaited(c) == {want[c]}

\* asyncio.shield(): the operation a cancelled coroutine awaited goes on; only
\* a count, which it awaited directly, ends with it.
CancelledWith(c) == {Count(c)} \cap {want[c]}

Cancel(c) ==
  LET gone == {k \in CancelledWith(c) : op[k] # "none"}
  IN  /\ at[c] \in {"wait", "ready"}
      /\ at' = [at EXCEPT ![c] = "cancelled"]
      /\ doomed' = doomed \cup gone

NodeCancelled(c) ==
  /\ Cancel(c)
  /\ UNCHANGED <<phase, local, todo, seeds, texts, op, tries, permits, want, answer, release, fetched>>

\* release_task(): called once the task's graph has stopped.
Pending(t) == {k \in PrivateKeys(t) : op[k] # "none"}

ReleaseStarts(t) ==
  /\ phase = "run"
  /\ release[t] = "live"
  /\ \A c \in Node : TaskOf(c) = t => Stopped(c) /\ at[c] # "idle" /\ op[Count(c)] = "none"
  /\ release' = [release EXCEPT ![t] = "releasing"]
  /\ doomed' = doomed \cup Pending(t)
  /\ UNCHANGED <<phase, local, todo, seeds, texts, op, tries, permits, at, want, answer, fetched>>

Released(t) ==
  /\ release[t] = "releasing"
  /\ doomed \cap PrivateKeys(t) = {}
  /\ release' = [release EXCEPT ![t] = "released"]
  /\ seeds' = seeds \ {t}
  /\ texts' = texts \ {t}
  /\ UNCHANGED <<phase, local, todo, op, tries, doomed, permits, at, want, answer, fetched>>

\* A stage of prepare_tasks() ends when every item is done.
Prepared ==
  /\ phase \in {"seeds", "texts"}
  /\ todo = {}
  /\ \A w \in Worker : at[w] \in {"idle", "ok"}
  /\ IF phase = "seeds" /\ ~UsesTokenIds
     THEN phase' = "texts" /\ todo' = {Text(n) : n \in PreparedNs}
     ELSE phase' = "run" /\ UNCHANGED todo
  /\ UNCHANGED <<local, seeds, texts, op, tries, doomed, permits, at, want, answer, release, fetched>>

\* gather() raises the first failure; the other workers are cancelled.
PreparationFails ==
  /\ phase \in {"seeds", "texts"}
  /\ \E w \in Worker : at[w] = "failed"
  /\ phase' = "failed"
  /\ at' = [c \in Caller |-> IF Stopped(c) THEN at[c] ELSE "cancelled"]
  /\ UNCHANGED <<local, todo, seeds, texts, op, tries, doomed, permits, want, answer, release, fetched>>

\* close(): cancels what is in flight, then closes the HTTP client.
Close ==
  /\ phase = "failed" \/ (phase = "run" /\ \A t \in Task : release[t] = "released")
  /\ phase' = "closing"
  /\ doomed' = doomed \cup {k \in SharedKey : op[k] # "none"}
  /\ UNCHANGED <<local, todo, seeds, texts, op, tries, permits, at, want, answer, release, fetched>>

Closed ==
  /\ phase = "closing"
  /\ doomed = {}
  /\ phase' = "closed"
  /\ UNCHANGED <<local, todo, seeds, texts, op, tries, doomed, permits, at, want, answer, release, fetched>>

Done == phase = "closed" /\ UNCHANGED vars

OpStep(k) == SeedArrived(k) \/ Acquire(k) \/ Succeeds(k) \/ Rejected(k) \/ TransportFails(k)
               \/ BackoffEnds(k) \/ OpCancelled(k)
CallStep(c) == Resume(c) \/ (c \in Node /\ NodeCalls(c)) \/ (c \in Worker /\ WorkerCalls(c))
RunStep == Discover \/ Prepared \/ PreparationFails \/ Close \/ Closed
             \/ \E t \in Task : ReleaseStarts(t) \/ Released(t)

Next ==
  \/ \E k \in Key : OpStep(k)
  \/ \E c \in Caller : CallStep(c)
  \/ \E c \in Node : NodeCancelled(c)
  \/ RunStep
  \/ Done

Spec == Init /\ [][Next]_vars
-----------------------------------------------------------------------------
\* Type invariant of the tokenizer client.
TokenizerTypeOK ==
  /\ phase \in {"discover", "seeds", "texts", "run", "failed", "closing", "closed"}
  /\ local \in BOOLEAN
  /\ todo \subseteq Key
  /\ seeds \subseteq Namespace /\ texts \subseteq Namespace
  /\ op \in [Key -> {"none", "seedwait", "seedready", "want", "post", "sleep"}]
  /\ tries \in [Key -> 1..MaxAttempts]
  /\ doomed \subseteq Key
  /\ permits \in 0..NumPermits
  /\ at \in [Caller -> {"idle", "wait", "ready", "ok", "failed", "cancelled", "broken"}]
  /\ answer \in [Caller \cup Key -> {"none", "ok", "failed", "cancelled", "lost"}]
  /\ release \in [Task -> {"live", "releasing", "released"}]
  /\ fetched \in [Namespace -> Nat]

\* _shared(): "Share cache misses without propagating one waiter's cancellation"
\* (prompt.py:193).  No coroutine that was not cancelled itself ever sees a
\* CancelledError from an operation it shared, nor a seed that disappeared
\* between the await and the read of _token_ids.
NoForeignCancellation == \A c \in Caller : at[c] # "broken"

\* A released task leaves no entry behind in the caches or in _inflight, even
\* when its operations were still running as its graph stopped.
ReleasedLeavesNothing ==
  \A t \in Task : release[t] = "released" =>
    t \notin seeds \cup texts /\ \A k \in PrivateKeys(t) : op[k] = "none"

\* The seed of a namespace is fetched successfully once, however the callers
\* that miss it interleave: there is no moment at which it is neither in
\* flight nor cached.
FetchedOnce == \A n \in Namespace : fetched[n] <= 1

\* Every permit of the semaphore is free or held by a running post.
PermitsBalance == permits + Cardinality({k \in Key : op[k] = "post"}) = NumPermits

Waits(c) == at[c] = "wait"
ClientClosed == phase = "closed"
===============================================================================
