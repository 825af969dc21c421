----------------------------- MODULE DatasetSource -----------------------------
(***************************************************************************)
(* The cached datasets of Replay: materialize_tracelab_source() keeps the  *)
(* rows of the first task_num Sessions of a downloaded file,               *)
(* materialize_inferact_source() the first task_num records of a stream.   *)
(* Both write a staging file beside the destination and rename it; the     *)
(* destination's name holds task_num, and an existing file is used as is.  *)
(*                                                                         *)
(* Several runs share the cache directory, each with its own task_num;     *)
(* any of them may fail or be killed between two rows.                     *)
(***************************************************************************)
EXTENDS Naturals, Sequences, FiniteSets

CONSTANTS
  Proc,      \* concurrent runs
  Session,   \* Sessions of the dataset
  MaxRows,   \* bound: rows of the dataset
  MaxTasks,  \* bound: task_num
  Kind,      \* "tracelab" (rows of Sessions) or "inferact" (records)
  None

\* What the constants may be.
SourceAssumption == MaxTasks \in Nat \ {0} /\ Kind \in {"tracelab", "inferact"}

VARIABLES
  dataset,      \* the pinned dataset: a sequence of Sessions, one per row
  task_num,     \* run -> its task_num
  pc,           \* run -> check, copy, publish, returned, failed or killed
  line,         \* run -> rows read
  selected,     \* run -> Sessions chosen so far
  staged,       \* run -> its staging file, None when there is none
  destination   \* task_num -> the cached file, None when there is none

vars == <<dataset, task_num, pc, line, selected, staged, destination>>

Init ==
  /\ dataset \in UNION {[1..n -> Session] : n \in 0..MaxRows}
  /\ task_num \in [Proc -> 1..MaxTasks]
  /\ pc = [p \in Proc |-> "check"]
  /\ line = [p \in Proc |-> 0]
  /\ selected = [p \in Proc |-> {}]
  /\ staged = [p \in Proc |-> None]
  /\ destination = [n \in 1..MaxTasks |-> None]

Goto(p, to) == pc' = [pc EXCEPT ![p] = to]

\* An existing, non-empty destination is returned without looking inside.
Cached(n) == destination[n] # None

Check(p) ==
  /\ pc[p] = "check"
  /\ \/ /\ destination[task_num[p]] # None
        /\ Goto(p, "returned")
        /\ UNCHANGED staged
     \/ /\ ~Cached(task_num[p])
        /\ Goto(p, "copy")
        /\ staged' = [staged EXCEPT ![p] = << >>]
  /\ UNCHANGED <<dataset, task_num, line, selected, destination>>

\* A Session is chosen at its first row while there is room; all its later
\* rows follow.
MoreRows(p) ==
  IF Kind = "tracelab" THEN line[p] < Len(dataset)
  ELSE line[p] < Len(dataset) /\ Len(staged[p]) < task_num[p]

Choose(p, s) ==
  IF Kind = "tracelab" /\ Cardinality(selected[p]) < task_num[p] THEN selected[p] \cup {s} ELSE selected[p]

Copy(p) ==
  /\ pc[p] = "copy"
  /\ MoreRows(p)
  /\ LET s == dataset[line[p] + 1] IN
       /\ selected' = [selected EXCEPT ![p] = Choose(p, s)]
       /\ staged' = [staged EXCEPT ![p] =
                       IF Kind = "inferact" \/ s \in Choose(p, s) THEN Append(@, line[p] + 1) ELSE @]
  /\ line' = [line EXCEPT ![p] = @ + 1]
  /\ UNCHANGED <<dataset, task_num, pc, destination>>

\* An empty result is an error; otherwise the staging file is renamed.
Publish(p) ==
  /\ pc[p] = "copy"
  /\ ~MoreRows(p)
  /\ \/ staged[p] = << >> /\ Goto(p, "failed") /\ UNCHANGED destination
     \/ /\ staged[p] # << >>
        /\ destination' = [destination EXCEPT ![task_num[p]] = staged[p]]
        /\ Goto(p, "returned")
  /\ staged' = [staged EXCEPT ![p] = None]
  /\ UNCHANGED <<dataset, task_num, line, selected>>

\* Mutant of Fail: what was copied so far is published.
PublishPartial(p) ==
  /\ pc[p] = "copy"
  /\ destination' = [destination EXCEPT ![task_num[p]] = staged[p]]
  /\ staged' = [staged EXCEPT ![p] = None]
  /\ Goto(p, "failed")
  /\ UNCHANGED <<dataset, task_num, line, selected>>

\* A row cannot be read or written: the staging file is removed and the error raised.
Fail(p) ==
  /\ pc[p] = "copy"
  /\ staged' = [staged EXCEPT ![p] = None]
  /\ Goto(p, "failed")
  /\ UNCHANGED <<dataset, task_num, line, selected, destination>>

\* The process dies: the staging file stays.
Kill(p) ==
  /\ pc[p] \in {"check", "copy"}
  /\ Goto(p, "killed")
  /\ UNCHANGED <<dataset, task_num, line, selected, staged, destination>>

Next == \E p \in Proc : Check(p) \/ Copy(p) \/ Publish(p) \/ Fail(p) \/ Kill(p)

Spec == Init /\ [][Next]_vars
-----------------------------------------------------------------------------
FirstRow(s) == CHOOSE i \in DOMAIN dataset : dataset[i] = s /\ \A j \in 1..(i - 1) : dataset[j] # s
Seen == {dataset[i] : i \in DOMAIN dataset}
FirstSessions(n) == {s \in Seen : Cardinality({t \in Seen : FirstRow(t) < FirstRow(s)}) < n}

\* A cached file, whichever run wrote it and whatever happened to the others,
\* holds every row of the first task_num Sessions in file order, or exactly
\* the first task_num records: a Session is never cut off.
CachedIsComplete ==
  \A n \in 1..MaxTasks : destination[n] # None =>
    LET kept == {destination[n][i] : i \in DOMAIN destination[n]} IN
    /\ \A i, j \in DOMAIN destination[n] : i < j => destination[n][i] < destination[n][j]
    /\ kept = IF Kind = "tracelab" THEN {i \in DOMAIN dataset : dataset[i] \in FirstSessions(n)}
              ELSE {i \in DOMAIN dataset : i <= n}

\* A run that returns has a file to return; one that fails leaves neither a
\* staging file nor a destination nobody completed.
FailureLeavesNothing ==
  \A p \in Proc :
    /\ pc[p] = "returned" => destination[task_num[p]] # None
    /\ pc[p] \in {"failed", "returned"} => staged[p] = None
=============================================================================
