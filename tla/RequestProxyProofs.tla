-------------------------- MODULE RequestProxyProofs --------------------------
(***************************************************************************)
(* For every number of requests: the trace writer loses no fact without    *)
(* saying so, and a proxy whose shutdown is reported clean has drained its *)
(* requests and recorded every one of them.                                *)
(***************************************************************************)
EXTENDS RequestProxy, FiniteSetTheorems, SequenceTheorems, TLAPS
-----------------------------------------------------------------------------
(***************************************************************************)
(* The trace writer.                                                       *)
(***************************************************************************)
CloserRecord ==
  [at : {"idle", "joining", "awaiting", "returned"},
   health : [submitted : Nat, written : Nat, dropped : Int, error : BOOLEAN]]

\* The facts the writer has taken from the queue: those in the file, and the one
\* in hand.
Taken == IF current = None THEN written ELSE written + 1

\* The file is what was written, and after a failure perhaps one more line,
\* whole or torn.
FileInv ==
  /\ Len(file) = written \/ Len(file) = written + 1
  /\ \A i \in 1..written : file[i] = accepted[i]
  /\ Len(file) = written + 1 =>
       failed /\ written < Len(accepted) /\ file[written + 1] \in {accepted[written + 1], Torn}

\* As long as the writer runs, the queue is the rest of what was accepted, and
\* the sentinel after it; when it stops without a failure, nothing is left.
QueueInv ==
  /\ current # None <=> writer = "appending"
  /\ current # None => written < Len(accepted) /\ current = accepted[written + 1]
  /\ failed => queue = << >> /\ writer \in {"closing", "done"}
  /\ writer \in {"closing", "done"} => queue = << >>
  /\ ~failed /\ writer \in {"closing", "done"} => closed /\ written = Len(accepted)
  /\ writer \in {"opening", "getting", "appending"} =>
       /\ Len(queue) = (Len(accepted) - Taken) + (IF closed THEN 1 ELSE 0)
       /\ \A i \in 1..(Len(accepted) - Taken) : queue[i] = accepted[Taken + i]
       /\ closed => queue[Len(queue)] = Sentinel

\* Nothing is accepted after close(), so a health that was returned still
\* counts all that was accepted, and what was written can only have grown.
HealthInv ==
  /\ closer \in [Closer -> CloserRecord]
  /\ \A c \in Closer : closer[c].at # "idle" => closed
  /\ \A c \in Closer : closer[c].at = "returned" =>
       /\ closer[c].health.submitted = Len(accepted)
       /\ closer[c].health.written <= written
       /\ closer[c].health.dropped = closer[c].health.submitted - closer[c].health.written

TraceInv == TraceTypeOK /\ JoinCountsPending /\ FileInv /\ QueueInv /\ HealthInv

\* What Append, Tail and \o do, as the proofs use it.
LEMMA AppendFacts ==
  ASSUME NEW S, NEW s \in Seq(S), NEW e \in S
  PROVE  /\ Append(s, e) \in Seq(S) /\ Len(Append(s, e)) = Len(s) + 1
         /\ \A i \in 1..Len(s) : Append(s, e)[i] = s[i]
         /\ Append(s, e)[Len(s) + 1] = e
OBVIOUS

LEMMA TailFacts ==
  ASSUME NEW S, NEW s \in Seq(S), s # << >>
  PROVE  /\ Tail(s) \in Seq(S) /\ Len(Tail(s)) = Len(s) - 1 /\ Len(s) \in Nat \ {0}
         /\ \A i \in 1..(Len(s) - 1) : Tail(s)[i] = s[i + 1]
         /\ Head(s) = s[1] /\ Head(s) \in S
OBVIOUS

\* The writer starts with nothing.
LEMMA TraceInitInv == ASSUME TraceAssumption, TraceInit PROVE TraceInv
<1>a. /\ << >> \in Seq(Fact \cup {Sentinel}) /\ << >> \in Seq(Fact \cup {Torn}) /\ << >> \in Seq(Fact)
      /\ Len(<< >>) = 0
  OBVIOUS
<1>b. \A c \in Closer : closer[c].at \in {"idle", "joining", "awaiting", "returned"}
  BY DEF TraceInit
<1>c. written \in 0..Len(accepted) /\ unfinished \in Nat
  BY <1>a DEF TraceInit
<1>d. failed \in BOOLEAN /\ closed \in BOOLEAN
  BY DEF TraceInit
<1>1. TraceTypeOK
  BY <1>a, <1>b, <1>c, <1>d DEF TraceInit, TraceTypeOK
<1>e. JoinCountsPending
  BY <1>a DEF TraceInit, JoinCountsPending
<1>2. FileInv /\ QueueInv
  BY DEF TraceInit, FileInv, QueueInv, Taken
<1>3. HealthInv
  BY DEF TraceInit, HealthInv, CloserRecord, NoHealth
<1> QED BY <1>1, <1>2, <1>3, <1>e DEF TraceInv

\* Each health is a health.
LEMMA HealthType ==
  ASSUME TraceTypeOK
  PROVE  /\ Health \in [submitted : Nat, written : Nat, dropped : Int, error : BOOLEAN]
         /\ Health.submitted = Len(accepted) /\ Health.written = written
         /\ Health.dropped = Len(accepted) - written /\ Health.error = failed
<1>1. Len(accepted) \in Nat /\ written \in Nat /\ failed \in BOOLEAN
  BY DEF TraceTypeOK
<1> QED BY <1>1 DEF Health

LEMMA SubmitKeeps ==
  ASSUME TraceAssumption, TraceInv, NEW f \in Fact, Submit(f) PROVE TraceInv'
<1>0. TraceTypeOK /\ JoinCountsPending /\ FileInv /\ QueueInv /\ HealthInv
  BY DEF TraceInv
<1>1. /\ ~closed /\ ~failed /\ queue' = Append(queue, f) /\ unfinished' = unfinished + 1
      /\ accepted' = Append(accepted, f)
      /\ UNCHANGED <<writer, current, file, written, failed, closed, closer>>
  BY DEF Submit, Accepts, Put
<1>2. /\ queue' \in Seq(Fact \cup {Sentinel}) /\ Len(queue') = Len(queue) + 1
      /\ \A i \in 1..Len(queue) : queue'[i] = queue[i]
      /\ queue'[Len(queue) + 1] = f
  BY <1>0, <1>1, AppendFacts DEF TraceTypeOK
<1>3. /\ accepted' \in Seq(Fact) /\ Len(accepted') = Len(accepted) + 1
      /\ \A i \in 1..Len(accepted) : accepted'[i] = accepted[i]
      /\ accepted'[Len(accepted) + 1] = f
  BY <1>0, <1>1, AppendFacts DEF TraceTypeOK
<1>4. Len(queue) \in Nat /\ Len(accepted) \in Nat /\ written \in 0..Len(accepted)
  BY <1>0 DEF TraceTypeOK
<1>5. TraceTypeOK'
  BY <1>0, <1>1, <1>2, <1>3, <1>4 DEF TraceTypeOK
<1>6. JoinCountsPending'
  BY <1>0, <1>1, <1>2, <1>4 DEF JoinCountsPending
<1>7. FileInv'
  BY <1>0, <1>1, <1>3, <1>4 DEF FileInv
<1>8. QueueInv'
  <2>1. writer \in {"opening", "getting", "appending"}
    BY <1>0, <1>1 DEF QueueInv, TraceTypeOK
  <2>2. Len(queue) = Len(accepted) - Taken /\ \A i \in 1..(Len(accepted) - Taken) : queue[i] = accepted[Taken + i]
    BY <1>0, <1>1, <1>4, <2>1 DEF QueueInv, Taken
  <2>3. Taken' = Taken /\ Taken \in 0..Len(accepted)
    BY <1>0, <1>1, <1>4 DEF Taken, QueueInv
  <2>4. \A i \in 1..(Len(accepted') - Taken) : queue'[i] = accepted'[Taken + i]
    <3> SUFFICES ASSUME NEW i \in 1..(Len(accepted') - Taken) PROVE queue'[i] = accepted'[Taken + i]
      OBVIOUS
    <3>1. CASE i \in 1..Len(queue)
      <4>1. queue'[i] = queue[i]
        BY <3>1, <1>2
      <4>2. queue[i] = accepted[Taken + i]
        BY <3>1, <2>2
      <4>3. Taken + i \in 1..Len(accepted)
        BY <3>1, <1>4, <2>2, <2>3
      <4> QED BY <4>1, <4>2, <4>3, <1>3
    <3>2. CASE i = Len(queue) + 1
      BY <3>2, <1>2, <1>3, <1>4, <2>2, <2>3
    <3> QED BY <3>1, <3>2, <1>3, <1>4, <2>2, <2>3
  <2>5. Len(queue') = Len(accepted') - Taken'
    BY <1>2, <1>3, <1>4, <2>2, <2>3
  <2>6. current # None => written < Len(accepted') /\ current = accepted'[written + 1]
    BY <1>0, <1>3, <1>4 DEF QueueInv
  <2>7. \A i \in 1..(Len(accepted') - Taken') : queue'[i] = accepted'[Taken' + i]
    BY <2>3, <2>4
  <2>8. Len(queue') = (Len(accepted') - Taken') + (IF closed' THEN 1 ELSE 0)
    BY <1>1, <1>3, <1>4, <2>3, <2>5
  <2> QED BY <1>0, <1>1, <2>1, <2>6, <2>7, <2>8 DEF QueueInv
<1>9. HealthInv'
  BY <1>0, <1>1 DEF HealthInv
<1> QED BY <1>5, <1>6, <1>7, <1>8, <1>9 DEF TraceInv

\* The lengths and types that arithmetic needs.
LEMMA TraceLengths ==
  ASSUME TraceTypeOK
  PROVE  /\ Len(queue) \in Nat /\ Len(accepted) \in Nat /\ Len(file) \in Nat
         /\ written \in Nat /\ written <= Len(accepted) /\ unfinished \in Nat
         /\ Sentinel = None
BY DEF TraceTypeOK, Sentinel

\* A failure of the writer drops the queue and the fact in hand, and accounts
\* for each.
LEMMA FailsKeeps ==
  ASSUME TraceAssumption, TraceInv, Fails, ~failed,
         \/ file' = file
         \/ /\ current # None
            /\ file' = Append(file, current) \/ file' = Append(file, Torn),
         UNCHANGED <<accepted, written, closed, closer>>
  PROVE  TraceInv'
<1>0. TraceTypeOK /\ JoinCountsPending /\ FileInv /\ QueueInv /\ HealthInv
  BY DEF TraceInv
<1>1. /\ failed' = TRUE /\ queue' = << >> /\ current' = None /\ writer' = "closing"
      /\ unfinished' = unfinished - Len(queue) - (IF current = None THEN 0 ELSE 1)
  BY DEF Fails, DiscardPending
<1>2. unfinished' = 0 /\ queue' \in Seq(Fact \cup {Sentinel}) /\ Len(queue') = 0
  BY <1>0, <1>1, TraceLengths DEF JoinCountsPending
<1>3. Len(file) = written
  BY <1>0 DEF FileInv
<1>4. current # None => current \in Fact /\ current = accepted[written + 1] /\ written < Len(accepted)
  BY <1>0 DEF QueueInv, TraceTypeOK
<1>5. FileInv' /\ file' \in Seq(Fact \cup {Torn})
  <2>1. CASE file' = file
    BY <2>1, <1>0, <1>1, <1>3, TraceLengths DEF FileInv, TraceTypeOK
  <2>2. ASSUME NEW line \in Fact \cup {Torn}, file' = Append(file, line), current # None,
               line \in {current, Torn}
        PROVE  FileInv' /\ file' \in Seq(Fact \cup {Torn})
    <3>1. /\ file' \in Seq(Fact \cup {Torn}) /\ Len(file') = written + 1
          /\ \A i \in 1..written : file'[i] = file[i]
          /\ file'[written + 1] = line
      BY <1>0, <1>3, <2>2, AppendFacts DEF TraceTypeOK
    <3> QED BY <1>0, <1>1, <1>3, <1>4, <2>2, <3>1, TraceLengths DEF FileInv
  <2> QED BY <1>4, <2>1, <2>2
<1>6. TraceTypeOK'
  BY <1>0, <1>1, <1>2, <1>5 DEF TraceTypeOK
<1>7. JoinCountsPending'
  BY <1>1, <1>2 DEF JoinCountsPending
<1>8. QueueInv'
  BY <1>1 DEF QueueInv
<1>9. HealthInv'
  BY <1>0 DEF HealthInv
<1> QED BY <1>5, <1>6, <1>7, <1>8, <1>9 DEF TraceInv

LEMMA OpenKeeps == ASSUME TraceAssumption, TraceInv, Open PROVE TraceInv'
<1>0. TraceTypeOK /\ JoinCountsPending /\ FileInv /\ QueueInv /\ HealthInv
  BY DEF TraceInv
<1>1. writer = "opening" /\ ~failed /\ current = None /\ UNCHANGED <<file, accepted, written, closed, closer>>
  BY <1>0 DEF Open, QueueInv
<1>2. CASE writer' = "getting" /\ UNCHANGED <<queue, unfinished, current, failed>>
  <2>1. TraceTypeOK' /\ JoinCountsPending' /\ FileInv' /\ HealthInv'
    BY <1>0, <1>1, <1>2 DEF TraceTypeOK, JoinCountsPending, FileInv, HealthInv
  <2>2. QueueInv'
    BY <1>0, <1>1, <1>2 DEF QueueInv, Taken
  <2> QED BY <2>1, <2>2 DEF TraceInv
<1>3. CASE Fails
  BY <1>1, <1>3, FailsKeeps
<1> QED BY <1>2, <1>3 DEF Open

LEMMA AppendFailsKeeps == ASSUME TraceAssumption, TraceInv, AppendFails PROVE TraceInv'
<1>0. TraceTypeOK /\ QueueInv
  BY DEF TraceInv
<1>1. writer = "appending" /\ Fails /\ UNCHANGED <<accepted, written, closed, closer>>
  BY DEF AppendFails
<1>2. ~failed /\ current # None /\ current \in Fact
  BY <1>0, <1>1 DEF QueueInv, TraceTypeOK
<1>3. PICK left \in {<< >>, <<Torn>>, <<current>>} : file' = file \o left
  BY DEF AppendFails
<1>4. file' = file \/ file' = Append(file, current) \/ file' = Append(file, Torn)
  <2>1. file \in Seq(Fact \cup {Torn})
    BY <1>0 DEF TraceTypeOK
  <2>2. /\ file \o << >> = file /\ file \o <<Torn>> = Append(file, Torn)
        /\ file \o <<current>> = Append(file, current)
    BY <1>2, <2>1, ConcatEmptySeq, AppendIsConcat
  <2> QED BY <1>3, <2>2
<1> QED BY <1>1, <1>2, <1>4, FailsKeeps

\* The head of the queue is the next fact, or the sentinel after the last.
LEMMA GetKeeps == ASSUME TraceAssumption, TraceInv, Get PROVE TraceInv'
<1>0. TraceTypeOK /\ JoinCountsPending /\ FileInv /\ QueueInv /\ HealthInv
  BY DEF TraceInv
<1>1. /\ writer = "getting" /\ queue # << >> /\ queue' = Tail(queue)
      /\ UNCHANGED <<file, accepted, written, failed, closed, closer>>
  BY DEF Get
<1>2. /\ Tail(queue) \in Seq(Fact \cup {Sentinel}) /\ Len(Tail(queue)) = Len(queue) - 1 /\ Len(queue) \in Nat \ {0}
      /\ \A i \in 1..(Len(queue) - 1) : Tail(queue)[i] = queue[i + 1]
      /\ Head(queue) = queue[1] /\ Head(queue) \in Fact \cup {Sentinel}
  BY <1>0, <1>1, TailFacts DEF TraceTypeOK
<1>3. /\ ~failed /\ current = None /\ Taken = written
      /\ Len(queue) = (Len(accepted) - written) + (IF closed THEN 1 ELSE 0)
      /\ \A i \in 1..(Len(accepted) - written) : queue[i] = accepted[written + i]
      /\ closed => queue[Len(queue)] = Sentinel
  BY <1>0, <1>1 DEF QueueInv, Taken
<1>4. FileInv' /\ HealthInv'
  BY <1>0, <1>1 DEF FileInv, HealthInv
<1>5. CASE Head(queue) = Sentinel
  <2>1. writer' = "closing" /\ unfinished' = unfinished - 1 /\ current' = None
    BY <1>3, <1>5 DEF Get
  <2>2. Len(accepted) = written
    <3>1. written < Len(accepted) => queue[1] = accepted[written + 1] /\ accepted[written + 1] \in Fact
      BY <1>0, <1>3, TraceLengths DEF TraceTypeOK
    <3> QED BY <1>0, <1>2, <1>5, <3>1, TraceLengths DEF TraceAssumption
  <2>3. Len(queue) = 1 /\ closed
    BY <1>0, <1>2, <1>3, <2>2, TraceLengths
  <2>4. queue' = << >> /\ Len(queue') = 0
    BY <1>1, <1>2, <2>3
  <2>c. current = None
    BY <1>3
  <2>a. unfinished = 1
    BY <1>0, <2>c, <2>3 DEF JoinCountsPending
  <2>5. unfinished' = 0
    BY <2>1, <2>a
  <2>6. TraceTypeOK'
    BY <1>0, <1>1, <1>2, <2>1, <2>5 DEF TraceTypeOK
  <2>b. Len(queue') + (IF current' = None THEN 0 ELSE 1) = 0
    BY <2>1, <2>4
  <2>7. JoinCountsPending'
    BY <2>5, <2>b DEF JoinCountsPending
  <2>8. QueueInv'
    BY <1>1, <1>3, <2>1, <2>2, <2>3, <2>4 DEF QueueInv
  <2> QED BY <1>4, <2>6, <2>7, <2>8 DEF TraceInv
<1>6. CASE Head(queue) # Sentinel
  <2>1. writer' = "appending" /\ unfinished' = unfinished /\ current' = Head(queue)
    BY <1>6 DEF Get
  <2>2. current' \in Fact /\ current' # None
    BY <1>2, <1>6, <2>1 DEF TraceAssumption, Sentinel
  <2>3. written < Len(accepted)
    BY <1>0, <1>2, <1>3, <1>6, TraceLengths
  <2>4. current' = accepted[written + 1]
    BY <1>0, <1>2, <1>3, <2>1, <2>3, TraceLengths
  <2>5. Taken' = written + 1
    BY <1>1, <2>2 DEF Taken
  <2>6. TraceTypeOK'
    BY <1>0, <1>1, <1>2, <2>1, <2>2 DEF TraceTypeOK
  <2>7. JoinCountsPending'
    BY <1>0, <1>1, <1>2, <1>3, <2>1, <2>2 DEF JoinCountsPending
  <2>8. \A i \in 1..(Len(accepted') - Taken') : queue'[i] = accepted'[Taken' + i]
    <3> SUFFICES ASSUME NEW i \in 1..(Len(accepted) - (written + 1)) PROVE Tail(queue)[i] = accepted[(written + 1) + i]
      BY <1>1, <2>5
    <3>1. i \in 1..(Len(queue) - 1) /\ i + 1 \in 1..(Len(accepted) - written)
      BY <1>0, <1>3, TraceLengths
    <3>2. Tail(queue)[i] = queue[i + 1] /\ queue[i + 1] = accepted[written + (i + 1)]
      BY <1>2, <1>3, <3>1
    <3>3. written + (i + 1) = (written + 1) + i
      BY <1>0, TraceLengths
    <3> QED BY <3>2, <3>3
  <2>9. Len(queue') = (Len(accepted') - Taken') + (IF closed' THEN 1 ELSE 0)
    BY <1>0, <1>1, <1>2, <1>3, <2>5, TraceLengths
  <2>10. closed => Len(queue) > 1
    BY <1>0, <1>2, <1>3, <2>3, TraceLengths
  <2>11. closed => queue'[Len(queue')] = Sentinel
    <3> SUFFICES ASSUME closed PROVE Tail(queue)[Len(queue) - 1] = Sentinel
      BY <1>1, <1>2
    <3>1. Len(queue) - 1 \in 1..(Len(queue) - 1) /\ (Len(queue) - 1) + 1 = Len(queue)
      BY <1>2, <2>10
    <3>2. Tail(queue)[Len(queue) - 1] = queue[(Len(queue) - 1) + 1]
      BY <1>2, <3>1
    <3> QED BY <1>3, <3>1, <3>2
  <2>12. QueueInv'
    BY <1>1, <1>3, <2>1, <2>2, <2>3, <2>4, <2>8, <2>9, <2>11 DEF QueueInv
  <2> QED BY <1>4, <2>6, <2>7, <2>12 DEF TraceInv
<1> QED BY <1>5, <1>6

LEMMA AppendFactKeeps == ASSUME TraceAssumption, TraceInv, AppendFact PROVE TraceInv'
<1>0. TraceTypeOK /\ JoinCountsPending /\ FileInv /\ QueueInv /\ HealthInv
  BY DEF TraceInv
<1>1. /\ writer = "appending" /\ file' = Append(file, current) /\ written' = written + 1
      /\ unfinished' = unfinished - 1 /\ current' = None /\ writer' = "getting"
      /\ UNCHANGED <<queue, accepted, failed, closed, closer>>
  BY DEF AppendFact
<1>2. ~failed /\ current # None /\ current \in Fact /\ written < Len(accepted) /\ current = accepted[written + 1]
  BY <1>0, <1>1 DEF QueueInv, TraceTypeOK
<1>3. Len(file) = written
  BY <1>0, <1>2 DEF FileInv
<1>4. /\ file' \in Seq(Fact \cup {Torn}) /\ Len(file') = written + 1
      /\ \A i \in 1..written : file'[i] = file[i]
      /\ file'[written + 1] = current
  BY <1>0, <1>1, <1>2, <1>3, AppendFacts DEF TraceTypeOK
<1>5. FileInv'
  BY <1>0, <1>1, <1>2, <1>4, TraceLengths DEF FileInv
<1>6. unfinished = Len(queue) + 1
  BY <1>0, <1>2 DEF JoinCountsPending
<1>7. JoinCountsPending' /\ unfinished' \in Nat
  BY <1>0, <1>1, <1>6, TraceLengths DEF JoinCountsPending
<1>8. TraceTypeOK'
  BY <1>0, <1>1, <1>2, <1>4, <1>7, TraceLengths DEF TraceTypeOK
<1>9. Taken' = Taken /\ Taken = written + 1
  BY <1>1, <1>2 DEF Taken
<1>10. QueueInv'
  BY <1>0, <1>1, <1>2, <1>9 DEF QueueInv
<1>11. HealthInv'
  BY <1>0, <1>1, TraceLengths DEF HealthInv, CloserRecord
<1> QED BY <1>5, <1>7, <1>8, <1>10, <1>11 DEF TraceInv

LEMMA CloseHandleKeeps == ASSUME TraceAssumption, TraceInv, CloseHandle PROVE TraceInv'
<1>0. TraceTypeOK /\ JoinCountsPending /\ FileInv /\ QueueInv /\ HealthInv
  BY DEF TraceInv
<1>1. /\ writer = "closing" /\ writer' = "done" /\ (failed' = failed \/ failed' = TRUE)
      /\ UNCHANGED <<queue, unfinished, current, file, accepted, written, closed, closer>>
  BY DEF CloseHandle
<1>2. TraceTypeOK'
  BY <1>0, <1>1 DEF TraceTypeOK
<1>3. JoinCountsPending' /\ FileInv' /\ HealthInv'
  BY <1>0, <1>1 DEF JoinCountsPending, FileInv, HealthInv
<1>4. QueueInv'
  BY <1>0, <1>1 DEF QueueInv
<1> QED BY <1>2, <1>3, <1>4 DEF TraceInv

\* Every step of the writer's task.
LEMMA WriterStepKeeps == ASSUME TraceAssumption, TraceInv, WriterStep PROVE TraceInv'
BY OpenKeeps, GetKeeps, AppendFactKeeps, AppendFailsKeeps, CloseHandleKeeps DEF WriterStep

\* The first close() puts the sentinel behind all that was accepted, unless the
\* task has already ended or failed.
LEMMA CloseKeeps ==
  ASSUME TraceAssumption, TraceInv, NEW c \in Closer, Close(c)
  PROVE  TraceInv' /\ accepted' = accepted /\ failed' = failed /\ closed' /\ closer'[c].at # "returned"
         /\ \A d \in Closer : d # c => closer'[d] = closer[d]
<1>0. TraceTypeOK /\ JoinCountsPending /\ FileInv /\ QueueInv /\ HealthInv
  BY DEF TraceInv
<1>1. /\ closer[c].at = "idle" /\ ~closed /\ closed' = TRUE
      /\ UNCHANGED <<writer, current, file, accepted, written, failed>>
  BY DEF Close
<1>2. PICK where \in {"joining", "awaiting"} : closer' = [closer EXCEPT ![c].at = where]
  BY DEF Close, At
<1>3. /\ closer' \in [Closer -> CloserRecord] /\ closer'[c].at = where
      /\ \A d \in Closer : d # c => closer'[d] = closer[d]
  BY <1>0, <1>2 DEF HealthInv, CloserRecord
<1>4. HealthInv' /\ \A d \in Closer : closer'[d].at \in {"idle", "joining", "awaiting", "returned"}
  <2>1. \A d \in Closer : closer'[d].at \in {"idle", "joining", "awaiting", "returned"}
    BY <1>3 DEF CloserRecord
  <2> QED BY <1>0, <1>1, <1>3, <2>1 DEF HealthInv
<1>5. FileInv'
  BY <1>0, <1>1 DEF FileInv
<1>6. CASE TaskGone
  <2>1. UNCHANGED <<queue, unfinished>>
    BY <1>6 DEF Close
  <2>2. failed
    BY <1>0, <1>1, <1>6 DEF TaskGone, QueueInv, TraceTypeOK
  <2>3. TraceTypeOK'
    BY <1>0, <1>1, <1>4, <2>1 DEF TraceTypeOK
  <2>4. JoinCountsPending' /\ QueueInv'
    BY <1>0, <1>1, <2>1, <2>2 DEF JoinCountsPending, QueueInv
  <2> QED BY <1>1, <1>3, <1>4, <1>5, <2>3, <2>4 DEF TraceInv
<1>7. CASE ~TaskGone
  <2>1. queue' = Append(queue, Sentinel) /\ unfinished' = unfinished + 1
    BY <1>7 DEF Close, Put
  <2>2. writer \in {"opening", "getting", "appending"} /\ ~failed
    BY <1>0, <1>1, <1>7 DEF TaskGone, QueueInv, TraceTypeOK
  <2>3. /\ queue' \in Seq(Fact \cup {Sentinel}) /\ Len(queue') = Len(queue) + 1
        /\ \A i \in 1..Len(queue) : queue'[i] = queue[i]
        /\ queue'[Len(queue) + 1] = Sentinel
    BY <1>0, <2>1, AppendFacts DEF TraceTypeOK
  <2>4. TraceTypeOK'
    BY <1>0, <1>1, <1>4, <2>1, <2>3 DEF TraceTypeOK
  <2>5. JoinCountsPending'
    BY <1>0, <1>1, <2>1, <2>3, TraceLengths DEF JoinCountsPending
  <2>6. Taken' = Taken /\ Taken \in 0..Len(accepted)
    BY <1>0, <1>1, TraceLengths DEF Taken, QueueInv
  <2>7. Len(queue) = Len(accepted) - Taken /\ \A i \in 1..(Len(accepted) - Taken) : queue[i] = accepted[Taken + i]
    BY <1>0, <1>1, <2>2, <2>6, TraceLengths DEF QueueInv
  <2>8. \A i \in 1..(Len(accepted') - Taken') : queue'[i] = accepted'[Taken' + i]
    BY <1>1, <2>3, <2>6, <2>7
  <2>9. Len(queue') = (Len(accepted') - Taken') + (IF closed' THEN 1 ELSE 0)
    BY <1>0, <1>1, <2>3, <2>6, <2>7, TraceLengths
  <2>10. queue'[Len(queue')] = Sentinel
    BY <2>3
  <2>11. QueueInv'
    BY <1>0, <1>1, <2>2, <2>8, <2>9, <2>10 DEF QueueInv
  <2> QED BY <1>1, <1>3, <1>4, <1>5, <2>4, <2>5, <2>11 DEF TraceInv
<1> QED BY <1>6, <1>7

\* A caller of close() waits, or returns the health of the moment.
LEMMA WaitsKeeps ==
  ASSUME TraceAssumption, TraceInv, NEW c \in Closer, closed,
         closer' = At(c, "awaiting") \/ closer' = Returns(c),
         UNCHANGED <<queue, unfinished, writer, current, file, accepted, written, failed, closed>>
  PROVE  TraceInv' /\ \A d \in Closer : d # c => closer'[d] = closer[d]
<1>0. TraceTypeOK /\ JoinCountsPending /\ FileInv /\ QueueInv /\ HealthInv
  BY DEF TraceInv
<1>1. \A d \in Closer : d # c => closer'[d] = closer[d]
  BY <1>0 DEF HealthInv, At, Returns
<1>2. closer' \in [Closer -> CloserRecord]
  <2>1. CASE closer' = At(c, "awaiting")
    BY <1>0, <2>1 DEF HealthInv, At, CloserRecord
  <2>2. CASE closer' = Returns(c)
    <3>1. [at |-> "returned", health |-> Health] \in CloserRecord
      BY <1>0, HealthType DEF CloserRecord
    <3> QED BY <1>0, <2>2, <3>1 DEF HealthInv, Returns
  <2> QED BY <2>1, <2>2
<1>3. \/ closer'[c].at = "awaiting"
      \/ closer'[c].at = "returned" /\ closer'[c].health = Health
  <2>1. CASE closer' = At(c, "awaiting")
    BY <1>0, <2>1 DEF HealthInv, At, CloserRecord
  <2>2. CASE closer' = Returns(c)
    BY <1>0, <2>2 DEF HealthInv, Returns
  <2> QED BY <2>1, <2>2
<1>4. HealthInv'
  <2>1. \A d \in Closer : closer'[d].at = "returned" =>
          /\ closer'[d].health.submitted = Len(accepted)
          /\ closer'[d].health.written <= written
          /\ closer'[d].health.dropped = closer'[d].health.submitted - closer'[d].health.written
    <3> SUFFICES ASSUME NEW d \in Closer, closer'[d].at = "returned"
                 PROVE  /\ closer'[d].health.submitted = Len(accepted)
                        /\ closer'[d].health.written <= written
                        /\ closer'[d].health.dropped = closer'[d].health.submitted - closer'[d].health.written
      OBVIOUS
    <3>1. CASE d # c
      BY <1>0, <1>1, <3>1 DEF HealthInv
    <3>2. CASE d = c
      BY <1>0, <1>3, <3>2, HealthType, TraceLengths
    <3> QED BY <3>1, <3>2
  <2> QED BY <1>2, <2>1 DEF HealthInv
<1>5. TraceTypeOK'
  <2>1. \A d \in Closer : closer'[d].at \in {"idle", "joining", "awaiting", "returned"}
    BY <1>2 DEF CloserRecord
  <2> QED BY <1>0, <2>1 DEF TraceTypeOK
<1>6. JoinCountsPending' /\ FileInv' /\ QueueInv'
  BY <1>0 DEF JoinCountsPending, FileInv, QueueInv, Taken
<1> QED BY <1>1, <1>4, <1>5, <1>6 DEF TraceInv

LEMMA CloserWaits ==
  ASSUME TraceAssumption, TraceInv, NEW c \in Closer, CloseAgain(c) \/ Joined(c) \/ CloseReturns(c)
  PROVE  /\ TraceInv' /\ closed
         /\ UNCHANGED <<queue, unfinished, writer, current, file, accepted, written, failed, closed>>
         /\ \A d \in Closer : d # c => closer'[d] = closer[d]
<1>1. closed
  BY DEF CloseAgain, Joined, CloseReturns, TraceInv, HealthInv
<1>2. /\ closer' = At(c, "awaiting") \/ closer' = Returns(c)
      /\ UNCHANGED <<queue, unfinished, writer, current, file, accepted, written, failed, closed>>
  BY DEF CloseAgain, Joined, CloseReturns
<1> QED BY <1>1, <1>2, WaitsKeeps

LEMMA TraceStutters == ASSUME TraceInv, UNCHANGED traceVars PROVE TraceInv'
BY DEF traceVars, TraceInv, TraceTypeOK, JoinCountsPending, FileInv, QueueInv, HealthInv, Taken

\* Every step of the writer and its callers keeps the inductive invariant.
LEMMA TraceStep == ASSUME TraceAssumption, TraceInv, [TraceNext]_traceVars PROVE TraceInv'
<1>1. CASE \E f \in Fact : SubmitOnce(f)
  BY <1>1, SubmitKeeps DEF SubmitOnce
<1>2. CASE WriterStep
  BY <1>2, WriterStepKeeps
<1>3. CASE \E c \in Closer : CloserStep(c)
  BY <1>3, CloseKeeps, CloserWaits DEF CloserStep
<1>4. CASE UNCHANGED traceVars
  BY <1>4, TraceStutters
<1> QED BY <1>1, <1>2, <1>3, <1>4 DEF TraceNext

\* What load_request_facts() reads back is the accepted facts up to some point,
\* and all of them if all were written.
LEMMA LoadedFacts ==
  ASSUME TraceAssumption, TraceInv
  PROVE  /\ LoadFacts \in Seq(Fact) /\ Len(LoadFacts) \in {written, written + 1}
         /\ Len(LoadFacts) <= Len(accepted)
         /\ \A i \in 1..Len(LoadFacts) : LoadFacts[i] = accepted[i]
<1>0. TraceTypeOK /\ FileInv /\ file \in Seq(Fact \cup {Torn}) /\ accepted \in Seq(Fact)
  BY DEF TraceInv, TraceTypeOK
<1>1. \A i \in 1..Len(accepted) : accepted[i] \in Fact /\ accepted[i] # Torn
  BY <1>0 DEF TraceAssumption
<1>2. CASE Len(file) = written + 1 /\ file[written + 1] = Torn
  <2>1. file # << >> /\ LoadFacts = SubSeq(file, 1, written)
    BY <1>0, <1>2, TraceLengths DEF LoadFacts
  <2>2. Len(LoadFacts) = written /\ \A i \in 1..written : LoadFacts[i] = file[i]
    BY <1>0, <1>2, <2>1, TraceLengths
  <2>3. \A i \in 1..written : LoadFacts[i] = accepted[i] /\ LoadFacts[i] \in Fact
    BY <1>0, <1>1, <2>2, TraceLengths DEF FileInv
  <2>4. LoadFacts \in Seq(Fact)
    <3>1. LoadFacts \in Seq(Fact \cup {Torn})
      BY <1>0, <1>2, <2>1, TraceLengths
    <3> QED BY <2>2, <2>3, <3>1
  <2> QED BY <1>0, <2>2, <2>3, <2>4, TraceLengths
<1>3. CASE ~(Len(file) = written + 1 /\ file[written + 1] = Torn)
  <2>1. Len(file) <= Len(accepted) /\ \A i \in 1..Len(file) : file[i] = accepted[i]
    BY <1>0, <1>3, TraceLengths DEF FileInv
  <2>2. \A i \in 1..Len(file) : file[i] \in Fact /\ file[i] # Torn
    BY <1>0, <1>1, <2>1, TraceLengths
  <2>3. LoadFacts = file
    BY <1>0, <2>2, TraceLengths DEF LoadFacts
  <2>4. file \in Seq(Fact)
    BY <1>0, <2>2
  <2> QED BY <1>0, <2>1, <2>3, <2>4 DEF FileInv
<1> QED BY <1>2, <1>3

\* Two sequences with the same elements are one.
LEMMA SameSequence ==
  ASSUME NEW S, NEW s \in Seq(S), NEW t \in Seq(S), Len(s) = Len(t), \A i \in 1..Len(s) : s[i] = t[i]
  PROVE  s = t
BY SeqEqual

LEMMA TraceInvImplies ==
  ASSUME TraceAssumption, TraceInv
  PROVE  TraceTypeOK /\ JoinCountsPending /\ FileIsPrefix /\ CleanHealthIsComplete
<1>0. TraceTypeOK /\ FileInv /\ HealthInv /\ accepted \in Seq(Fact)
  BY DEF TraceInv, TraceTypeOK
<1> DEFINE n == Len(LoadFacts)
<1>1. /\ LoadFacts \in Seq(Fact) /\ n \in {written, written + 1} /\ n <= Len(accepted) /\ n \in Nat
      /\ \A i \in 1..n : LoadFacts[i] = accepted[i]
  BY LoadedFacts
<1>2. SubSeq(LoadFacts, 1, n) = LoadFacts
  BY <1>1, SubSeqFull
<1>3. SubSeq(accepted, 1, n) = LoadFacts
  <2>1. SubSeq(accepted, 1, n) \in Seq(Fact) /\ Len(SubSeq(accepted, 1, n)) = n
    BY <1>0, <1>1, TraceLengths
  <2>2. \A i \in 1..n : SubSeq(accepted, 1, n)[i] = accepted[i]
    BY <1>0, <1>1, TraceLengths
  <2> HIDE DEF n
  <2>3. \A i \in 1..n : SubSeq(accepted, 1, n)[i] = LoadFacts[i]
    BY <1>1, <2>2
  <2> QED BY <1>1, <2>1, <2>3, SameSequence DEF n
<1>4. FileIsPrefix
  <2>1. IsPrefix(LoadFacts, accepted)
    BY <1>1, <1>2, <1>3 DEF IsPrefix
  <2>2. \A i \in DOMAIN file : file[i] = Torn => i = Len(file)
    <3>1. DOMAIN file = 1..Len(file) /\ \A i \in 1..Len(accepted) : accepted[i] # Torn
      BY <1>0 DEF TraceTypeOK, TraceAssumption
    <3> QED BY <1>0, <3>1, TraceLengths DEF FileInv
  <2> QED BY <1>1, <2>1, <2>2 DEF FileIsPrefix
<1>5. CleanHealthIsComplete
  <2> SUFFICES ASSUME NEW c \in Closer, closer[c].at = "returned", closer[c].health.dropped = 0
               PROVE  LoadFacts = SubSeq(accepted, 1, closer[c].health.submitted)
    BY DEF CleanHealthIsComplete
  <2>1. closer[c].health.submitted = Len(accepted) /\ written = Len(accepted)
    BY <1>0, TraceLengths DEF HealthInv, CloserRecord
  <2>2. n = Len(accepted)
    BY <1>0, <1>1, <2>1, TraceLengths
  <2> QED BY <1>3, <2>1, <2>2
<1> QED BY <1>4, <1>5 DEF TraceInv

\* RequestTraceWriter: whatever fails and whoever closes when, join() waits for
\* exactly what is pending, the file is a prefix of what was accepted, and a
\* health without drops and errors means that every accepted fact is in the file
\* (request_trace.py _run, _discard_pending, close).
THEOREM TraceIsFaithful ==
  ASSUME TraceAssumption
  PROVE  TraceSpec => [](TraceTypeOK /\ JoinCountsPending /\ FileIsPrefix /\ CleanHealthIsComplete)
<1>1. TraceInit => TraceInv
  BY TraceInitInv
<1>2. TraceInv /\ [TraceNext]_traceVars => TraceInv'
  BY TraceStep
<1>3. TraceInv => TraceTypeOK /\ JoinCountsPending /\ FileIsPrefix /\ CleanHealthIsComplete
  BY TraceInvImplies
<1> QED BY <1>1, <1>2, <1>3, PTL DEF TraceSpec
-----------------------------------------------------------------------------
(***************************************************************************)
(* The proxy.                                                              *)
(***************************************************************************)
Busy == {r \in Forwarded : request[r] \notin Idle}
HealthRecord == [submitted : Nat, written : Nat, dropped : Int, error : BOOLEAN]

\* The types that ProxyTypeOK leaves open.
ParentTypes ==
  /\ completed \subseteq Forwarded
  /\ close_health \in BOOLEAN /\ cancelled \in BOOLEAN
  /\ result \in [clean : BOOLEAN, health : HealthRecord]

\* Whoever closes the writer has first refused new requests and seen the last
\* one go; the child exits without requests.
DrainInv ==
  /\ close_health => ~accepting
  /\ \A c \in ServerCloser : server[c] \in {"waiting", "writing", "returned", "raised"} => ~accepting
  /\ closed => ~accepting /\ Busy = {}
  /\ process \in {"exiting", "exited"} => Busy = {}
  /\ process = "exited" => closed

\* A request that was answered has its fact among the accepted ones, or the
\* writer had failed; who got a health without an error got it after all of them.
RecordInv ==
  /\ \A r \in Forwarded : request[r] \in {"releasing", "disconnected", "released", "gone"} =>
       Contains(accepted, r) \/ failed
  /\ \A c \in Closer : closer[c].at = "returned" /\ ~closer[c].health.error =>
       \A r \in Forwarded : request[r] \in {"released", "gone"} => Contains(accepted, r)

\* POST /shutdown comes before the close() at the exit, so that its answer is the
\* health of a close() of its own.
HandlerInv ==
  /\ server[ExitProxy] # "idle" => process \notin {"starting", "serving", "draining"}
  /\ server[ShutdownHandler] \in {"called", "waiting", "writing"} =>
       ~close_health /\ server[ExitProxy] = "idle"
  /\ close_health => server[ShutdownHandler] = "returned" \/ server[ExitProxy] # "idle"
  /\ server[ShutdownHandler] = "returned" => closer[ShutdownHandler].at = "returned"

\* What the parent reports is what the handler answered, and clean only for a
\* child that has exited by itself.
ResultInv ==
  /\ lifecycle = "waiting" \/ result.clean =>
       closer[ShutdownHandler].at = "returned" /\ result.health = closer[ShutdownHandler].health
  /\ result.clean => process = "exited"

ProxyInv ==
  /\ TraceInv /\ ProxyTypeOK /\ ParentTypes
  /\ ActiveIsExact /\ CancelAfterCompletion
  /\ DrainInv /\ RecordInv /\ HandlerInv /\ ResultInv

\* Names of the closers.
LEMMA CloserNames ==
  ASSUME ClosersAssumption
  PROVE  /\ ServerCloser \subseteq Closer /\ ShutdownHandler \in ServerCloser /\ ExitProxy \in ServerCloser
         /\ ShutdownHandler \in Closer /\ ExitProxy \in Closer /\ ExitWriter \in Closer
         /\ ShutdownHandler # ExitProxy /\ ExitWriter \notin ServerCloser
         /\ \A c \in ServerCloser : c = ShutdownHandler \/ c = ExitProxy
BY DEF ClosersAssumption, ServerCloser

\* The requests in progress are finitely many, and what they are counted by is
\* within its type.
LEMMA BusyCount ==
  ASSUME ClosersAssumption
  PROVE  IsFiniteSet(Busy) /\ Cardinality(Busy) \in 0..Cardinality(Forwarded)
<1>1. IsFiniteSet(Forwarded) /\ Busy \subseteq Forwarded
  BY DEF ClosersAssumption, Forwarded, Busy
<1>2. IsFiniteSet(Busy) /\ Cardinality(Busy) <= Cardinality(Forwarded)
  BY <1>1, FS_Subset
<1>3. Cardinality(Busy) \in Nat /\ Cardinality(Forwarded) \in Nat
  BY <1>1, <1>2, FS_CardinalityType
<1> QED BY <1>2, <1>3

LEMMA ActiveCounts == ActiveIsExact <=> active = Cardinality(Busy)
BY DEF ActiveIsExact, Busy

\* The writer's task touches neither what was accepted nor the callers, and a
\* failure stays.
LEMMA WriterEffect ==
  ASSUME TraceInv, WriterStep
  PROVE  UNCHANGED <<accepted, closed, closer>> /\ (failed => failed')
<1>0. failed \in BOOLEAN
  BY DEF TraceInv, TraceTypeOK
<1>1. CASE Open
  <2>1. UNCHANGED <<accepted, closed, closer>> /\ (failed' = failed \/ failed' = TRUE)
    BY <1>1 DEF Open, Fails
  <2> QED BY <1>0, <2>1
<1>2. CASE Get
  BY <1>2 DEF Get
<1>3. CASE AppendFact
  BY <1>3 DEF AppendFact
<1>4. CASE AppendFails
  <2>1. UNCHANGED <<accepted, closed, closer>> /\ failed' = TRUE
    BY <1>4 DEF AppendFails, Fails
  <2> QED BY <2>1
<1>5. CASE CloseHandle
  <2>1. UNCHANGED <<accepted, closed, closer>> /\ (failed' = failed \/ failed' = TRUE)
    BY <1>5 DEF CloseHandle
  <2> QED BY <1>0, <2>1
<1> QED BY <1>1, <1>2, <1>3, <1>4, <1>5 DEF WriterStep

LEMMA NoResultType == NoResult \in [clean : BOOLEAN, health : HealthRecord] /\ NoResult.clean = FALSE
<1>1. NoHealth \in HealthRecord
  BY DEF NoHealth, HealthRecord
<1> QED BY <1>1 DEF NoResult

\* A proxy starts with nothing.
LEMMA ProxyInitInv == ASSUME TraceAssumption, ClosersAssumption, Init PROVE ProxyInv
<1>1. TraceInv
  BY TraceInitInv DEF Init
<1>2. Busy = {} /\ Cardinality(Busy) = 0
  <2>1. Busy = {}
    BY DEF Init, Busy, Idle
  <2> QED BY <2>1, FS_EmptySet
<1>3. active = 0 /\ 0 \in 0..Cardinality(Forwarded)
  BY <1>2, BusyCount DEF Init
<1>4. ProxyTypeOK
  <2>1. request \in [Forwarded -> {"new", "refused", "body", "upstream", "streaming", "releasing",
                              "disconnected", "abandoning", "released", "gone", "abandoned"}]
    BY DEF Init
  <2>2. outcome \in [Forwarded -> {"none", "success", "error"}]
    BY DEF Init
  <2>3. server \in [ServerCloser -> {"idle", "called", "waiting", "writing", "returned", "raised"}]
    BY DEF Init
  <2>4. accepting \in BOOLEAN /\ closing \in ServerCloser \cup {None}
    BY DEF Init
  <2>5. process \in {"starting", "serving", "draining", "exiting", "exited", "crashed", "killed"}
    BY DEF Init
  <2>6. TraceTypeOK
    BY <1>1 DEF TraceInv
  <2> QED BY <1>3, <2>1, <2>2, <2>3, <2>4, <2>5, <2>6 DEF ProxyTypeOK
<1>5. ParentTypes
  <2>1. completed \subseteq Forwarded
    BY DEF Init
  <2>2. close_health \in BOOLEAN /\ cancelled \in BOOLEAN
    BY DEF Init
  <2>3. result \in [clean : BOOLEAN, health : HealthRecord]
    BY NoResultType DEF Init
  <2> QED BY <2>1, <2>2, <2>3 DEF ParentTypes
<1>6. ActiveIsExact
  BY <1>2, <1>3, ActiveCounts
<1>7. CancelAfterCompletion
  BY DEF Init, CancelAfterCompletion
<1>8. DrainInv /\ HandlerInv
  BY <1>2, CloserNames DEF Init, TraceInit, DrainInv, HandlerInv
<1>9. RecordInv /\ ResultInv
  BY DEF Init, TraceInit, RecordInv, ResultInv, NoResult
<1> QED BY <1>1, <1>4, <1>5, <1>6, <1>7, <1>8, <1>9 DEF ProxyInv

\* A step of the writer's task, or of a caller that waits for it.
LEMMA TraceStepKeepsProxy ==
  ASSUME TraceAssumption, ClosersAssumption, ProxyInv, UNCHANGED proxyVars,
         WriterStep \/ \E c \in Closer : Joined(c) \/ CloseReturns(c)
  PROVE  ProxyInv'
<1>0. /\ TraceInv /\ ProxyTypeOK /\ ParentTypes /\ ActiveIsExact /\ CancelAfterCompletion
      /\ DrainInv /\ RecordInv /\ HandlerInv /\ ResultInv
  BY DEF ProxyInv
<1>1. UNCHANGED <<accepting, active, request, completed, outcome, closing, close_health,
               server, process, lifecycle, cancelled, result>>
  BY DEF proxyVars
<1>2. Busy' = Busy
  BY <1>1 DEF Busy
<1>3. ASSUME TraceInv', accepted' = accepted, closed' = closed, failed => failed',
             \A c \in Closer : closer[c].at = "returned" => closer'[c] = closer[c],
             \A c \in Closer : closer'[c].at = "returned" /\ closer[c].at # "returned" =>
               closed /\ closer'[c].health = Health
      PROVE  ProxyInv'
  <2>1. ProxyTypeOK' /\ ParentTypes'
    BY <1>0, <1>1, <1>3 DEF ProxyTypeOK, ParentTypes, TraceInv
  <2>2. ActiveIsExact' /\ CancelAfterCompletion'
    BY <1>0, <1>1 DEF ActiveIsExact, CancelAfterCompletion
  <2>3. DrainInv'
    BY <1>0, <1>1, <1>2, <1>3 DEF DrainInv
  <2>4. HandlerInv'
    BY <1>0, <1>1, <1>3, CloserNames DEF HandlerInv
  <2>5. ResultInv'
    BY <1>0, <1>1, <1>3, CloserNames DEF ResultInv
  <2>6. RecordInv'
    <3>1. \A r \in Forwarded : request[r] \in {"releasing", "disconnected", "released", "gone"} =>
            Contains(accepted, r) \/ failed'
      BY <1>0, <1>3 DEF RecordInv
    <3>2. ASSUME NEW c \in Closer, closer'[c].at = "returned", ~closer'[c].health.error
          PROVE  \A r \in Forwarded : request[r] \in {"released", "gone"} => Contains(accepted, r)
      <4>1. CASE closer[c].at = "returned"
        BY <1>0, <1>3, <3>2, <4>1 DEF RecordInv
      <4>2. CASE closer[c].at # "returned"
        <5>1. ~failed
          BY <1>0, <1>3, <3>2, <4>2, HealthType DEF TraceInv
        <5> QED BY <1>0, <5>1 DEF RecordInv
      <4> QED BY <4>1, <4>2
    <3> QED BY <1>1, <1>3, <3>1, <3>2 DEF RecordInv
  <2> QED BY <1>3, <2>1, <2>2, <2>3, <2>4, <2>5, <2>6 DEF ProxyInv
<1>4. CASE WriterStep
  BY <1>0, <1>3, <1>4, WriterStepKeeps, WriterEffect
<1>5. ASSUME NEW c \in Closer, Joined(c) \/ CloseReturns(c)
      PROVE  ProxyInv'
  <2>1. /\ TraceInv' /\ closed
        /\ UNCHANGED <<accepted, failed, closed>>
        /\ \A d \in Closer : d # c => closer'[d] = closer[d]
    BY <1>0, <1>5, CloserWaits
  <2>2. closer[c].at # "returned"
    BY <1>5 DEF Joined, CloseReturns
  <2>3. closer'[c].at = "returned" => closer'[c].health = Health
    BY <1>0, <1>5 DEF Joined, CloseReturns, At, Returns, TraceInv, HealthInv, CloserRecord
  <2> QED BY <1>3, <2>1, <2>2, <2>3
<1> QED BY <1>4, <1>5

-----------------------------------------------------------------------------
(***************************************************************************)
(* The requests.                                                           *)
(***************************************************************************)
RequestStates == {"new", "refused", "body", "upstream", "streaming", "releasing",
                  "disconnected", "abandoning", "released", "gone", "abandoned"}

\* What a step of one request may do: it moves that request only, may submit
\* its fact, and leaves what was submitted before it.
LEMMA RequestMoves ==
  ASSUME TraceAssumption, ClosersAssumption, ProxyInv, NEW r \in Forwarded, NEW w \in RequestStates,
         request' = [request EXCEPT ![r] = w],
         UNCHANGED <<completed, serverVars, parentVars>>,
         TraceInv', closed' = closed, closer' = closer, failed' = failed,
         \A q \in Forwarded : Contains(accepted, q) => Contains(accepted', q),
         outcome' \in [Forwarded -> {"none", "success", "error"}],
         \A q \in Forwarded : q # r => outcome'[q] = outcome[q],
         active' = Cardinality(Busy'),
         closed \/ process \in {"exiting", "exited"} => Busy' = {},
         w \in {"releasing", "disconnected"} => Contains(accepted', r) \/ failed,
         w = "disconnected" => (outcome'[r] = "success" <=> r \in completed),
         w \in {"released", "gone"} =>
           r \in Busy /\ outcome' = outcome /\ request[r] = IF w = "gone" THEN "disconnected" ELSE "releasing"
  PROVE  ProxyInv'
<1>0. /\ TraceInv /\ ProxyTypeOK /\ ParentTypes /\ ActiveIsExact /\ CancelAfterCompletion
      /\ DrainInv /\ RecordInv /\ HandlerInv /\ ResultInv
  BY DEF ProxyInv
<1>1. UNCHANGED <<accepting, closing, close_health, server, process, lifecycle, cancelled, result>>
  BY DEF serverVars, parentVars
<1>2. request \in [Forwarded -> RequestStates]
  BY <1>0 DEF ProxyTypeOK, RequestStates
<1>3. /\ request' \in [Forwarded -> RequestStates] /\ request'[r] = w
      /\ \A q \in Forwarded : q # r => request'[q] = request[q]
  BY <1>2
<1>4. ProxyTypeOK'
  <2>1. active' \in 0..Cardinality(Forwarded)
    <3>1. Busy' \subseteq Forwarded /\ IsFiniteSet(Forwarded)
      BY DEF Busy, Forwarded, ClosersAssumption
    <3>2. IsFiniteSet(Busy') /\ Cardinality(Busy') <= Cardinality(Forwarded)
      BY <3>1, FS_Subset
    <3>3. Cardinality(Busy') \in Nat /\ Cardinality(Forwarded) \in Nat
      BY <3>1, <3>2, FS_CardinalityType
    <3> QED BY <3>2, <3>3
  <2>2. TraceTypeOK'
    BY DEF TraceInv
  <2> QED BY <1>0, <1>1, <1>3, <2>1, <2>2 DEF ProxyTypeOK, RequestStates
<1>5. ParentTypes'
  BY <1>0, <1>1 DEF ParentTypes
<1>6. ActiveIsExact'
  BY DEF ActiveIsExact, Busy
<1>7. CancelAfterCompletion'
  <2> SUFFICES ASSUME NEW q \in Forwarded, request'[q] \in {"disconnected", "gone"}
               PROVE  outcome'[q] = "success" <=> q \in completed
    BY DEF CancelAfterCompletion
  <2>1. CASE q # r
    BY <1>0, <1>3, <2>1 DEF CancelAfterCompletion
  <2>2. CASE q = r
    BY <1>0, <1>3, <2>2 DEF CancelAfterCompletion
  <2> QED BY <2>1, <2>2
<1>8. DrainInv'
  BY <1>0, <1>1 DEF DrainInv
<1>9. HandlerInv' /\ ResultInv'
  BY <1>0, <1>1 DEF HandlerInv, ResultInv
<1>10. RecordInv'
  <2>1. \A q \in Forwarded : request'[q] \in {"releasing", "disconnected", "released", "gone"} =>
          Contains(accepted', q) \/ failed'
    <3> SUFFICES ASSUME NEW q \in Forwarded, request'[q] \in {"releasing", "disconnected", "released", "gone"}
                 PROVE  Contains(accepted', q) \/ failed
      OBVIOUS
    <3>1. CASE q # r
      BY <1>0, <1>3, <3>1 DEF RecordInv
    <3>2. CASE q = r
      BY <1>0, <1>3, <3>2 DEF RecordInv
    <3> QED BY <3>1, <3>2
  <2>2. ASSUME NEW c \in Closer, closer[c].at = "returned", ~closer[c].health.error,
               NEW q \in Forwarded, request'[q] \in {"released", "gone"}
        PROVE  Contains(accepted', q)
    <3>1. CASE q # r
      BY <1>0, <1>3, <2>2, <3>1 DEF RecordInv
    <3>2. CASE q = r
      <4>1. r \in Busy
        BY <1>3, <2>2, <3>2
      <4>2. closed
        BY <1>0, <2>2 DEF TraceInv, HealthInv
      <4> QED BY <1>0, <4>1, <4>2 DEF DrainInv
    <3> QED BY <3>1, <3>2
  <2> QED BY <2>1, <2>2 DEF RecordInv
<1> QED BY <1>4, <1>5, <1>6, <1>7, <1>8, <1>9, <1>10 DEF ProxyInv

\* How the moves of one request change who is in progress.
LEMMA BusyMoves ==
  ASSUME ClosersAssumption, ProxyInv, NEW r \in Forwarded, NEW w \in RequestStates,
         request' = [request EXCEPT ![r] = w]
  PROVE  /\ w \in Idle => Busy' = Busy \ {r}
         /\ w \notin Idle => Busy' = Busy \cup {r}
         /\ Cardinality(Busy) = active /\ active \in Nat /\ IsFiniteSet(Busy)
<1>1. request \in [Forwarded -> RequestStates] /\ ActiveIsExact
  BY DEF ProxyInv, ProxyTypeOK, RequestStates
<1>2. request'[r] = w /\ \A q \in Forwarded : q # r => request'[q] = request[q]
  BY <1>1
<1>3. w \in Idle => Busy' = Busy \ {r}
  BY <1>2 DEF Busy
<1>4. w \notin Idle => Busy' = Busy \cup {r}
  BY <1>2 DEF Busy
<1>5. Cardinality(Busy) = active /\ active \in Nat /\ IsFiniteSet(Busy)
  BY <1>1, BusyCount, ActiveCounts
<1> QED BY <1>3, <1>4, <1>5

\* A request in progress keeps the writer open and the child serving or draining.
LEMMA BusyBlocks ==
  ASSUME ProxyInv, NEW r \in Forwarded, request[r] \notin Idle
  PROVE  r \in Busy /\ ~closed /\ process \notin {"exiting", "exited"}
BY DEF ProxyInv, DrainInv, Busy

LEMMA AppendContains ==
  ASSUME NEW s \in Seq(Fact), NEW f \in Fact
  PROVE  /\ Contains(Append(s, f), f)
         /\ \A q \in Fact : Contains(s, q) => Contains(Append(s, f), q)
<1>1. /\ Len(Append(s, f)) = Len(s) + 1 /\ Append(s, f)[Len(s) + 1] = f /\ Len(s) \in Nat
      /\ \A i \in 1..Len(s) : Append(s, f)[i] = s[i]
  BY AppendFacts
<1>2. Contains(Append(s, f), f)
  BY <1>1 DEF Contains
<1>3. \A q \in Fact : Contains(s, q) => Contains(Append(s, f), q)
  BY <1>1 DEF Contains
<1> QED BY <1>2, <1>3

\* The fact of a request in progress is accepted, unless the writer has failed:
\* nobody closes it before the request is released.
LEMMA Recorded ==
  ASSUME TraceAssumption, ProxyInv, NEW r \in Forwarded, request[r] \notin Idle,
         NEW status \in {"success", "error"}, Record(r, status)
  PROVE  /\ TraceInv' /\ UNCHANGED <<closed, closer, failed>>
         /\ \A q \in Forwarded : Contains(accepted, q) => Contains(accepted', q)
         /\ Contains(accepted', r) \/ failed
         /\ outcome' \in [Forwarded -> {"none", "success", "error"}] /\ outcome'[r] = status
         /\ \A q \in Forwarded : q # r => outcome'[q] = outcome[q]
<1>1. ~closed /\ TraceInv /\ accepted \in Seq(Fact) /\ failed \in BOOLEAN
  BY BusyBlocks DEF ProxyInv, TraceInv, TraceTypeOK
<1>2. outcome \in [Forwarded -> {"none", "success", "error"}] /\ outcome' = [outcome EXCEPT ![r] = status]
  BY DEF ProxyInv, ProxyTypeOK, Record
<1>3. CASE Accepts
  <2>1. Submit(r)
    BY <1>3 DEF Record
  <2>2. TraceInv'
    BY <1>1, <2>1, SubmitKeeps DEF Forwarded
  <2>3. UNCHANGED <<closed, closer, failed>> /\ accepted' = Append(accepted, r)
    BY <2>1 DEF Submit
  <2>4. Contains(accepted', r) /\ \A q \in Forwarded : Contains(accepted, q) => Contains(accepted', q)
    BY <1>1, <2>3, AppendContains DEF Forwarded
  <2> QED BY <1>2, <2>2, <2>3, <2>4
<1>4. CASE ~Accepts
  <2>1. UNCHANGED traceVars /\ failed
    BY <1>1, <1>4 DEF Record, Accepts
  <2>2. TraceInv' /\ UNCHANGED <<closed, closer, failed, accepted>>
    BY <1>1, <2>1, TraceStutters DEF traceVars
  <2> QED BY <1>2, <2>1, <2>2
<1> QED BY <1>3, <1>4

\* A request admitted, or refused once close() has begun.
LEMMA AdmitKeeps ==
  ASSUME TraceAssumption, ClosersAssumption, ProxyInv, NEW r \in Forwarded, Admit(r)
  PROVE  ProxyInv'
<1>1. /\ process = "serving" /\ request[r] = "new"
      /\ UNCHANGED <<completed, outcome, traceVars, serverVars, parentVars>>
  BY DEF Admit, Serving
<1>2. TraceInv /\ DrainInv /\ outcome \in [Forwarded -> {"none", "success", "error"}] /\ accepting \in BOOLEAN
  BY DEF ProxyInv, ProxyTypeOK
<1>3. TraceInv' /\ UNCHANGED <<closed, closer, failed, accepted>>
  BY <1>1, <1>2, TraceStutters DEF traceVars
<1>4. r \notin Busy
  BY <1>1 DEF Busy, Idle
<1>5. CASE accepting
  <2>1. request' = [request EXCEPT ![r] = "body"] /\ active' = active + 1
    BY <1>5 DEF Admit, Goto
  <2>2. ~closed /\ process \notin {"exiting", "exited"}
    BY <1>1, <1>2, <1>5 DEF DrainInv
  <2>3. /\ Busy' = Busy \cup {r} /\ Cardinality(Busy) = active /\ active \in Nat /\ IsFiniteSet(Busy)
        /\ "body" \in RequestStates
    BY <2>1, BusyMoves DEF Idle, RequestStates
  <2>4. active' = Cardinality(Busy')
    BY <1>4, <2>1, <2>3, FS_AddElement
  <2> QED BY <1>1, <1>2, <1>3, <2>1, <2>2, <2>3, <2>4, RequestMoves
<1>6. CASE ~accepting
  <2>1. request' = [request EXCEPT ![r] = "refused"] /\ active' = active
    BY <1>6 DEF Admit, Goto
  <2>a. "refused" \in RequestStates /\ "refused" \in Idle
    BY DEF Idle, RequestStates
  <2>b. Busy' = Busy \ {r} /\ Cardinality(Busy) = active
    BY <2>1, <2>a, BusyMoves
  <2>2. Busy' = Busy /\ active' = Cardinality(Busy') /\ "refused" \in RequestStates
    BY <1>4, <2>1, <2>a, <2>b
  <2>3. closed \/ process \in {"exiting", "exited"} => Busy' = {}
    BY <1>2, <2>2 DEF DrainInv
  <2> QED BY <1>1, <1>2, <1>3, <2>1, <2>2, <2>3, RequestMoves
<1> QED BY <1>2, <1>5, <1>6

\* A request that stays in progress without recording anything.
LEMMA ProgressKeeps ==
  ASSUME TraceAssumption, ClosersAssumption, ProxyInv, NEW r \in Forwarded,
         BodyFails(r) \/ Forward(r) \/ StreamStarts(r)
  PROVE  ProxyInv'
<1>1. /\ request[r] \notin Idle
      /\ UNCHANGED <<active, completed, outcome, traceVars, serverVars, parentVars>>
  BY DEF BodyFails, Forward, StreamStarts, Idle
<1>2. PICK w \in {"abandoning", "upstream", "streaming"} : request' = [request EXCEPT ![r] = w]
  BY DEF BodyFails, Forward, StreamStarts, Goto
<1>3. TraceInv /\ outcome \in [Forwarded -> {"none", "success", "error"}]
  BY DEF ProxyInv, ProxyTypeOK
<1>4. TraceInv' /\ UNCHANGED <<closed, closer, failed, accepted>>
  BY <1>1, <1>3, TraceStutters DEF traceVars
<1>5. r \in Busy /\ ~closed /\ process \notin {"exiting", "exited"}
  BY <1>1, BusyBlocks
<1>6. w \in RequestStates /\ w \notin Idle
  BY DEF RequestStates, Idle
<1>7. Busy' = Busy /\ active' = Cardinality(Busy')
  BY <1>1, <1>2, <1>5, <1>6, BusyMoves
<1> QED BY <1>1, <1>2, <1>3, <1>4, <1>5, <1>6, <1>7, RequestMoves

\* A request whose fact is submitted.
LEMMA RecordingKeeps ==
  ASSUME TraceAssumption, ClosersAssumption, ProxyInv, NEW r \in Forwarded,
         request[r] \notin Idle, UNCHANGED <<active, completed, serverVars, parentVars>>,
         NEW status \in {"success", "error"}, Record(r, status),
         NEW w \in {"releasing", "disconnected"}, request' = [request EXCEPT ![r] = w],
         w = "disconnected" => (status = "success" <=> r \in completed)
  PROVE  ProxyInv'
<1>1. r \in Busy /\ ~closed /\ process \notin {"exiting", "exited"}
  BY BusyBlocks
<1>2. w \in RequestStates /\ w \notin Idle
  BY DEF RequestStates, Idle
<1>3. Busy' = Busy /\ active' = Cardinality(Busy')
  BY <1>1, <1>2, BusyMoves
<1>4. /\ TraceInv' /\ UNCHANGED <<closed, closer, failed>>
      /\ \A q \in Forwarded : Contains(accepted, q) => Contains(accepted', q)
      /\ Contains(accepted', r) \/ failed
      /\ outcome' \in [Forwarded -> {"none", "success", "error"}] /\ outcome'[r] = status
      /\ \A q \in Forwarded : q # r => outcome'[q] = outcome[q]
  BY Recorded
<1> QED BY <1>1, <1>2, <1>3, <1>4, RequestMoves

LEMMA AnswerKeeps ==
  ASSUME TraceAssumption, ClosersAssumption, ProxyInv, NEW r \in Forwarded,
         UpstreamFails(r) \/ PlainResponse(r) \/ StreamEnds(r) \/ StreamCancelled(r)
  PROVE  ProxyInv'
<1>1. request[r] \notin Idle /\ UNCHANGED <<active, completed, serverVars, parentVars>>
  BY DEF UpstreamFails, PlainResponse, StreamEnds, StreamCancelled, Idle
<1>2. CASE UpstreamFails(r) \/ PlainResponse(r) \/ StreamEnds(r)
  <2>1. PICK status \in {"success", "error"} : Record(r, status)
    BY <1>2 DEF UpstreamFails, PlainResponse, StreamEnds
  <2>2. request' = [request EXCEPT ![r] = "releasing"]
    BY <1>2 DEF UpstreamFails, PlainResponse, StreamEnds, Goto
  <2> QED BY <1>1, <2>1, <2>2, RecordingKeeps
<1>3. CASE StreamCancelled(r)
  <2>1. Record(r, CancelStatus(r)) /\ request' = [request EXCEPT ![r] = "disconnected"]
    BY <1>3 DEF StreamCancelled, Goto
  <2>2. CancelStatus(r) \in {"success", "error"} /\ (CancelStatus(r) = "success" <=> r \in completed)
    BY DEF CancelStatus
  <2> QED BY <1>1, <2>1, <2>2, RecordingKeeps
<1> QED BY <1>2, <1>3

\* The only step that lets a request go.
LEMMA ReleaseKeeps ==
  ASSUME TraceAssumption, ClosersAssumption, ProxyInv, NEW r \in Forwarded, Release(r)
  PROVE  ProxyInv'
<1>1. /\ request[r] \in {"releasing", "disconnected", "abandoning"} /\ active' = active - 1
      /\ request' = [request EXCEPT ![r] = Ended[request[r]]]
      /\ UNCHANGED <<completed, outcome, traceVars, serverVars, parentVars>>
  BY DEF Release, Goto
<1> DEFINE w == Ended[request[r]]
<1>2. /\ request[r] = "releasing" => w = "released"
      /\ request[r] = "disconnected" => w = "gone"
      /\ request[r] = "abandoning" => w = "abandoned"
  BY DEF Ended
<1>3. w \in RequestStates /\ w \in Idle /\ request' = [request EXCEPT ![r] = w]
  BY <1>1, <1>2 DEF RequestStates, Idle
<1>4. r \in Busy /\ ~closed /\ process \notin {"exiting", "exited"}
  BY <1>1, BusyBlocks DEF Idle
<1>5. w \in {"released", "gone"} => request[r] = IF w = "gone" THEN "disconnected" ELSE "releasing"
  BY <1>1, <1>2
<1>6. w \notin {"releasing", "disconnected"}
  BY <1>1, <1>2
<1> HIDE DEF w
<1>7. Busy' = Busy \ {r} /\ Cardinality(Busy) = active /\ active \in Nat /\ IsFiniteSet(Busy)
  BY <1>3, BusyMoves
<1>8. active' = Cardinality(Busy')
  BY <1>1, <1>4, <1>7, FS_RemoveElement
<1>9. TraceInv /\ outcome \in [Forwarded -> {"none", "success", "error"}]
  BY DEF ProxyInv, ProxyTypeOK
<1>10. TraceInv' /\ UNCHANGED <<closed, closer, failed, accepted>>
  BY <1>1, <1>9, TraceStutters DEF traceVars
<1> QED BY <1>1, <1>3, <1>4, <1>5, <1>6, <1>8, <1>9, <1>10, RequestMoves

\* A stream that completes is still in progress.
LEMMA CompletesKeeps ==
  ASSUME TraceAssumption, ClosersAssumption, ProxyInv, NEW r \in Forwarded, StreamCompletes(r)
  PROVE  ProxyInv'
<1>0. /\ TraceInv /\ ProxyTypeOK /\ ParentTypes /\ ActiveIsExact /\ CancelAfterCompletion
      /\ DrainInv /\ RecordInv /\ HandlerInv /\ ResultInv
  BY DEF ProxyInv
<1>1. /\ request[r] = "streaming" /\ completed' = completed \cup {r}
      /\ UNCHANGED <<active, request, outcome, traceVars>>
      /\ UNCHANGED <<accepting, closing, close_health, server, process, lifecycle, cancelled, result>>
  BY DEF StreamCompletes, serverVars, parentVars
<1>2. /\ TraceInv' /\ UNCHANGED <<closed, closer, failed, accepted>> /\ Busy' = Busy
  BY <1>0, <1>1, TraceStutters DEF traceVars, Busy
<1>3. ProxyTypeOK' /\ ActiveIsExact'
  BY <1>0, <1>1, <1>2 DEF ProxyTypeOK, ActiveIsExact, TraceInv
<1>4. ParentTypes'
  BY <1>0, <1>1 DEF ParentTypes
<1>5. CancelAfterCompletion'
  BY <1>0, <1>1 DEF CancelAfterCompletion
<1>6. DrainInv' /\ RecordInv' /\ HandlerInv' /\ ResultInv'
  BY <1>0, <1>1, <1>2 DEF DrainInv, RecordInv, HandlerInv, ResultInv
<1> QED BY <1>2, <1>3, <1>4, <1>5, <1>6 DEF ProxyInv
-----------------------------------------------------------------------------
(***************************************************************************)
(* The shutdown.  None of its steps moves a request.                       *)
(***************************************************************************)
LEMMA RequestsStay ==
  ASSUME ProxyInv, UNCHANGED requestVars
  PROVE  Busy' = Busy /\ ActiveIsExact' /\ CancelAfterCompletion'
         /\ UNCHANGED <<active, request, completed, outcome>>
<1>1. UNCHANGED <<active, request, completed, outcome>>
  BY DEF requestVars
<1> QED BY <1>1 DEF ProxyInv, Busy, ActiveIsExact, CancelAfterCompletion

\* The types of what the shutdown changes, each on its own.
LEMMA ShutdownTypes ==
  ASSUME ProxyInv, UNCHANGED requestVars, TraceInv',
         accepting' \in BOOLEAN, closing' \in ServerCloser \cup {None},
         server' \in [ServerCloser -> {"idle", "called", "waiting", "writing", "returned", "raised"}],
         process' \in {"starting", "serving", "draining", "exiting", "exited", "crashed", "killed"},
         close_health' \in BOOLEAN, cancelled' \in BOOLEAN,
         result' \in [clean : BOOLEAN, health : HealthRecord]
  PROVE  ProxyTypeOK' /\ ParentTypes'
<1>1. UNCHANGED <<active, request, completed, outcome>> /\ TraceTypeOK'
  BY RequestsStay DEF TraceInv
<1>2. ProxyTypeOK'
  BY <1>1 DEF ProxyInv, ProxyTypeOK
<1>3. ParentTypes'
  BY <1>1 DEF ProxyInv, ParentTypes
<1> QED BY <1>2, <1>3

\* The types before the step.
LEMMA ShutdownTyped ==
  ASSUME ProxyInv
  PROVE  /\ accepting \in BOOLEAN /\ closing \in ServerCloser \cup {None}
         /\ server \in [ServerCloser -> {"idle", "called", "waiting", "writing", "returned", "raised"}]
         /\ process \in {"starting", "serving", "draining", "exiting", "exited", "crashed", "killed"}
         /\ close_health \in BOOLEAN /\ cancelled \in BOOLEAN
         /\ result \in [clean : BOOLEAN, health : HealthRecord]
BY DEF ProxyInv, ProxyTypeOK, ParentTypes

\* A close() of the server that reaches the writer, and the last close() of the
\* writer itself, find nobody in progress and nobody let in.
LEMMA CloserStarts ==
  ASSUME TraceAssumption, ClosersAssumption, ProxyInv, NEW c \in Closer, Close(c) \/ CloseAgain(c),
         ~accepting, Busy = {}, UNCHANGED requestVars, UNCHANGED <<accepting, process>>
  PROVE  /\ TraceInv' /\ accepted' = accepted /\ closed' = TRUE
         /\ \A d \in Closer : closer[d].at = "returned" => closer'[d] = closer[d]
         /\ RecordInv'
<1>0. TraceInv /\ RecordInv /\ TraceTypeOK
  BY DEF ProxyInv, TraceInv
<1>1. closer[c].at = "idle"
  BY DEF Close, CloseAgain
<1>2. /\ TraceInv' /\ accepted' = accepted /\ closed' /\ failed' = failed
      /\ \A d \in Closer : d # c => closer'[d] = closer[d]
      /\ closer'[c].at = "returned" => closer'[c].health = Health
  <2>1. CASE Close(c)
    BY <1>0, <2>1, CloseKeeps
  <2>2. CASE CloseAgain(c)
    <3>1. closer' = Returns(c) /\ closer \in [Closer -> CloserRecord]
      BY <1>0, <2>2 DEF CloseAgain, TraceInv, HealthInv
    <3>2. closer'[c].health = Health
      BY <3>1 DEF Returns
    <3> QED BY <1>0, <2>2, <3>2, CloserWaits
  <2> QED BY <2>1, <2>2
<1>3. UNCHANGED request
  BY RequestsStay
<1>4. RecordInv'
  <2>1. \A r \in Forwarded : request'[r] \in {"releasing", "disconnected", "released", "gone"} =>
          Contains(accepted', r) \/ failed'
    BY <1>0, <1>2, <1>3 DEF RecordInv
  <2>2. ASSUME NEW d \in Closer, closer'[d].at = "returned", ~closer'[d].health.error
        PROVE  \A r \in Forwarded : request'[r] \in {"released", "gone"} => Contains(accepted', r)
    <3>1. CASE d # c
      BY <1>0, <1>2, <1>3, <2>2, <3>1 DEF RecordInv
    <3>2. CASE d = c
      <4>1. ~failed
        BY <1>0, <1>2, <2>2, <3>2, HealthType
      <4> QED BY <1>0, <1>2, <1>3, <4>1 DEF RecordInv
    <3> QED BY <3>1, <3>2
  <2> QED BY <2>1, <2>2 DEF RecordInv
<1>5. closed' = TRUE
  BY <1>2 DEF TraceInv, TraceTypeOK
<1> QED BY <1>1, <1>2, <1>4, <1>5

LEMMA CloseStartsKeeps ==
  ASSUME TraceAssumption, ClosersAssumption, ProxyInv, NEW c \in ServerCloser, CloseStarts(c)
  PROVE  ProxyInv'
<1>0. TraceInv /\ DrainInv /\ RecordInv /\ HandlerInv /\ ResultInv
  BY DEF ProxyInv
<1>1. /\ server[c] = "called" /\ UNCHANGED <<close_health, traceVars, requestVars>>
      /\ UNCHANGED <<process, lifecycle, cancelled, result>>
  BY DEF CloseStarts, parentVars
<1>2. TraceInv' /\ UNCHANGED <<closed, closer, failed, accepted>>
  BY <1>0, <1>1, TraceStutters DEF traceVars
<1>3. Busy' = Busy /\ ActiveIsExact' /\ CancelAfterCompletion' /\ UNCHANGED request
  BY <1>1, RequestsStay
<1>4. server \in [ServerCloser -> {"idle", "called", "waiting", "writing", "returned", "raised"}]
  BY ShutdownTyped
<1>5. RecordInv' /\ ResultInv'
  BY <1>0, <1>1, <1>2, <1>3 DEF RecordInv, ResultInv
<1>6. CASE close_health
  <2>1. server' = [server EXCEPT ![c] = "returned"] /\ UNCHANGED <<accepting, closing>>
    BY <1>6 DEF CloseStarts, SetServer
  <2>2. c # ShutdownHandler
    BY <1>0, <1>1, <1>6 DEF HandlerInv
  <2>3. server' \in [ServerCloser -> {"idle", "called", "waiting", "writing", "returned", "raised"}]
    BY <1>4, <2>1
  <2>4. ProxyTypeOK' /\ ParentTypes'
    BY <1>1, <1>2, <2>1, <2>3, ShutdownTyped, ShutdownTypes
  <2>5. DrainInv'
    BY <1>0, <1>1, <1>2, <1>3, <1>6, <2>1 DEF DrainInv
  <2>6. HandlerInv'
    BY <1>0, <1>1, <1>2, <1>4, <2>1, <2>2, CloserNames DEF HandlerInv
  <2> QED BY <1>2, <1>3, <1>5, <2>4, <2>5, <2>6 DEF ProxyInv
<1>7. CASE ~close_health
  <2>1. server' = [server EXCEPT ![c] = "waiting"] /\ accepting' = FALSE /\ closing' = c
    BY <1>7 DEF CloseStarts, SetServer
  <2>3. server' \in [ServerCloser -> {"idle", "called", "waiting", "writing", "returned", "raised"}]
    BY <1>4, <2>1
  <2>4. ProxyTypeOK' /\ ParentTypes'
    BY <1>1, <1>2, <2>1, <2>3, ShutdownTyped, ShutdownTypes
  <2>5. DrainInv'
    BY <1>0, <1>1, <1>2, <1>3, <2>1 DEF DrainInv
  <2>6. HandlerInv'
    BY <1>0, <1>1, <1>2, <1>4, <1>7, <2>1, CloserNames DEF HandlerInv
  <2> QED BY <1>2, <1>3, <1>5, <2>4, <2>5, <2>6 DEF ProxyInv
<1> QED BY <1>6, <1>7

LEMMA CloseWriterKeeps ==
  ASSUME TraceAssumption, ClosersAssumption, ProxyInv, NEW c \in ServerCloser, CloseWriter(c)
  PROVE  ProxyInv'
<1>0. TraceInv /\ DrainInv /\ RecordInv /\ HandlerInv /\ ResultInv /\ ActiveIsExact
  BY DEF ProxyInv
<1>1. /\ server[c] = "waiting" /\ active = 0
      /\ Close(c) \/ CloseAgain(c)
      /\ server' = [server EXCEPT ![c] = "writing"]
      /\ UNCHANGED <<accepting, closing, close_health, requestVars>>
      /\ UNCHANGED <<process, lifecycle, cancelled, result>>
  BY DEF CloseWriter, Quiescent, SetServer, parentVars
<1>a. server[c] = "waiting" /\ active = 0
  BY <1>1
<1>b. ~accepting
  BY <1>0, <1>a DEF DrainInv
<1>2. ~accepting /\ c \in Closer
  BY <1>b, CloserNames
<1>3. Busy = {}
  <2>1. IsFiniteSet(Busy) /\ Cardinality(Busy) = 0
    BY <1>0, <1>a, BusyCount, ActiveCounts
  <2> QED BY <2>1, FS_EmptySet
<1>4. /\ TraceInv' /\ accepted' = accepted /\ closed' = TRUE /\ RecordInv'
      /\ \A d \in Closer : closer[d].at = "returned" => closer'[d] = closer[d]
  BY <1>1, <1>2, <1>3, CloserStarts
<1>5. Busy' = Busy /\ ActiveIsExact' /\ CancelAfterCompletion'
  BY <1>1, RequestsStay
<1>6. server \in [ServerCloser -> {"idle", "called", "waiting", "writing", "returned", "raised"}]
  BY ShutdownTyped
<1>7. server' \in [ServerCloser -> {"idle", "called", "waiting", "writing", "returned", "raised"}]
  BY <1>1, <1>6
<1>8. ProxyTypeOK' /\ ParentTypes'
  BY <1>1, <1>4, <1>7, ShutdownTyped, ShutdownTypes
<1>9. DrainInv'
  BY <1>0, <1>1, <1>2, <1>3, <1>4, <1>5, <1>6 DEF DrainInv
<1>10. HandlerInv'
  <2>1. server'[c] = "writing" /\ \A d \in ServerCloser : d # c => server'[d] = server[d]
    BY <1>1, <1>6
  <2>2. server'[ExitProxy] = "idle" <=> server[ExitProxy] = "idle"
    BY <1>a, <2>1, CloserNames
  <2>3. /\ server'[ShutdownHandler] \in {"called", "waiting", "writing"} =>
             server[ShutdownHandler] \in {"called", "waiting", "writing"}
        /\ server'[ShutdownHandler] = "returned" <=> server[ShutdownHandler] = "returned"
    BY <1>a, <2>1, CloserNames
  <2>4. server[ShutdownHandler] = "returned" => closer'[ShutdownHandler] = closer[ShutdownHandler]
    BY <1>0, <1>4, CloserNames DEF HandlerInv
  <2>5. UNCHANGED <<close_health, process>>
    BY <1>1
  <2> QED BY <1>0, <2>2, <2>3, <2>4, <2>5 DEF HandlerInv
<1>11. ResultInv'
  BY <1>0, <1>1, <1>4, CloserNames DEF ResultInv
<1> QED BY <1>4, <1>5, <1>8, <1>9, <1>10, <1>11 DEF ProxyInv

LEMMA CloseLeavesKeeps ==
  ASSUME TraceAssumption, ClosersAssumption, ProxyInv, NEW c \in ServerCloser, CloseTimesOut(c) \/ CloseEnds(c)
  PROVE  ProxyInv'
<1>0. TraceInv /\ DrainInv /\ RecordInv /\ HandlerInv /\ ResultInv
  BY DEF ProxyInv
<1>1. /\ server[c] \in {"waiting", "writing"} /\ closing' = None
      /\ UNCHANGED <<accepting, traceVars, requestVars>>
      /\ UNCHANGED <<process, lifecycle, cancelled, result>>
  BY DEF CloseTimesOut, CloseEnds, parentVars
<1>2. TraceInv' /\ UNCHANGED <<closed, closer, failed, accepted>>
  BY <1>0, <1>1, TraceStutters DEF traceVars
<1>3. Busy' = Busy /\ ActiveIsExact' /\ CancelAfterCompletion' /\ UNCHANGED request
  BY <1>1, RequestsStay
<1>4. server \in [ServerCloser -> {"idle", "called", "waiting", "writing", "returned", "raised"}]
  BY ShutdownTyped
<1>5. RecordInv' /\ ResultInv'
  BY <1>0, <1>1, <1>2, <1>3 DEF RecordInv, ResultInv
<1>6. ~accepting
  BY <1>0, <1>1 DEF DrainInv
<1>7. CASE CloseTimesOut(c)
  <2>1. server' = [server EXCEPT ![c] = "raised"] /\ close_health' = close_health /\ server[c] = "waiting"
    BY <1>7 DEF CloseTimesOut, SetServer
  <2>2. server' \in [ServerCloser -> {"idle", "called", "waiting", "writing", "returned", "raised"}]
    BY <1>4, <2>1
  <2>3. ProxyTypeOK' /\ ParentTypes'
    BY <1>1, <1>2, <2>1, <2>2, ShutdownTyped, ShutdownTypes
  <2>4. DrainInv'
    BY <1>0, <1>1, <1>2, <1>3, <1>6, <2>1 DEF DrainInv
  <2>5. HandlerInv'
    BY <1>0, <1>1, <1>2, <1>4, <2>1, CloserNames DEF HandlerInv
  <2> QED BY <1>2, <1>3, <1>5, <2>3, <2>4, <2>5 DEF ProxyInv
<1>8. CASE CloseEnds(c)
  <2>1. /\ server' = [server EXCEPT ![c] = "returned"] /\ close_health' = TRUE
        /\ server[c] = "writing" /\ closer[c].at = "returned"
    BY <1>8 DEF CloseEnds, SetServer
  <2>2. server' \in [ServerCloser -> {"idle", "called", "waiting", "writing", "returned", "raised"}]
    BY <1>4, <2>1
  <2>3. ProxyTypeOK' /\ ParentTypes'
    BY <1>1, <1>2, <2>1, <2>2, ShutdownTyped, ShutdownTypes
  <2>4. DrainInv'
    BY <1>0, <1>1, <1>2, <1>3, <1>6, <2>1 DEF DrainInv
  <2>5. HandlerInv'
    BY <1>0, <1>1, <1>2, <1>4, <2>1, CloserNames DEF HandlerInv
  <2> QED BY <1>2, <1>3, <1>5, <2>3, <2>4, <2>5 DEF ProxyInv
<1> QED BY <1>7, <1>8

\* The steps of the process that neither touch the trace nor the server: the
\* callback, the start, a crash, and the signals of the parent.
LEMMA ProcessKeeps ==
  ASSUME TraceAssumption, ClosersAssumption, ProxyInv, UNCHANGED <<traceVars, requestVars>>,
         UNCHANGED <<accepting, closing, close_health, server, lifecycle, cancelled, result>>,
         process \notin {"exited"},
         process' \in {"serving", "draining", "exited", "crashed", "killed"},
         process' \in {"serving", "draining"} => process \in {"starting", "serving"},
         process' = "exited" => closed /\ process = "exiting"
  PROVE  ProxyInv'
<1>0. TraceInv /\ DrainInv /\ RecordInv /\ HandlerInv /\ ResultInv
  BY DEF ProxyInv
<1>1. TraceInv' /\ UNCHANGED <<closed, closer, failed, accepted>>
  BY <1>0, TraceStutters DEF traceVars
<1>2. Busy' = Busy /\ ActiveIsExact' /\ CancelAfterCompletion' /\ UNCHANGED request
  BY RequestsStay
<1>3. ProxyTypeOK' /\ ParentTypes'
  BY <1>1, ShutdownTyped, ShutdownTypes
<1>4. DrainInv'
  BY <1>0, <1>1, <1>2 DEF DrainInv
<1>5. RecordInv'
  BY <1>0, <1>1, <1>2 DEF RecordInv
<1>6. HandlerInv'
  BY <1>0, <1>1 DEF HandlerInv
<1>7. ResultInv'
  <2>1. result.clean => process = "exited"
    BY <1>0 DEF ResultInv
  <2> QED BY <1>0, <1>1, <2>1 DEF ResultInv
<1> QED BY <1>1, <1>2, <1>3, <1>4, <1>5, <1>6, <1>7 DEF ProxyInv

LEMMA SignalsKeep ==
  ASSUME TraceAssumption, ClosersAssumption, ProxyInv,
         ShutdownCallback \/ Exit \/ Started \/ Crash \/ Terminate \/ Kill
  PROVE  ProxyInv'
<1>1. CASE ShutdownCallback
  BY <1>1, ProcessKeeps DEF ShutdownCallback, Serving, serverVars
<1>2. CASE Exit
  <2>1. closed
    BY <1>2, CloserNames DEF Exit, ProxyInv, TraceInv, HealthInv
  <2>2. /\ process = "exiting" /\ process' \in {"crashed", "exited"}
        /\ UNCHANGED <<lifecycle, cancelled, result, traceVars, requestVars, serverVars>>
    BY <1>2 DEF Exit
  <2> QED BY <2>1, <2>2, ProcessKeeps DEF serverVars
<1>3. CASE Started
  BY <1>3, ProcessKeeps DEF Started, serverVars
<1>4. CASE Crash
  BY <1>4, ProcessKeeps DEF Crash, serverVars
<1>5. CASE Terminate
  <2>1. /\ process \in {"starting", "serving"} /\ process' \in {"draining", "crashed"}
        /\ UNCHANGED <<lifecycle, cancelled, result, traceVars, requestVars, serverVars>>
    BY <1>5 DEF Terminate, childVars
  <2> QED BY <2>1, ProcessKeeps DEF serverVars
<1>6. CASE Kill
  BY <1>6, ProcessKeeps DEF Kill, childVars, serverVars
<1> QED BY <1>1, <1>2, <1>3, <1>4, <1>5, <1>6

LEMMA ServeReturnsKeeps ==
  ASSUME TraceAssumption, ClosersAssumption, ProxyInv, ServeReturns
  PROVE  ProxyInv'
<1>0. TraceInv /\ DrainInv /\ RecordInv /\ HandlerInv /\ ResultInv
  BY DEF ProxyInv
<1>1. /\ process = "draining" /\ process' = "exiting" /\ Busy = {}
      /\ server[ShutdownHandler] \in {"idle", "returned", "raised"}
      /\ server' = [server EXCEPT ![ExitProxy] = "called"]
      /\ UNCHANGED <<accepting, closing, close_health, lifecycle, cancelled, result, traceVars, requestVars>>
  BY DEF ServeReturns, SetServer, Busy
<1>2. TraceInv' /\ UNCHANGED <<closed, closer, failed, accepted>>
  BY <1>0, <1>1, TraceStutters DEF traceVars
<1>3. Busy' = Busy /\ ActiveIsExact' /\ CancelAfterCompletion' /\ UNCHANGED request
  BY <1>1, RequestsStay
<1>4. server \in [ServerCloser -> {"idle", "called", "waiting", "writing", "returned", "raised"}]
  BY ShutdownTyped
<1>5. /\ server' \in [ServerCloser -> {"idle", "called", "waiting", "writing", "returned", "raised"}]
      /\ server'[ExitProxy] = "called" /\ server'[ShutdownHandler] = server[ShutdownHandler]
      /\ \A c \in ServerCloser : server'[c] = server[c] \/ server'[c] = "called"
  BY <1>1, <1>4, CloserNames
<1>6. ProxyTypeOK' /\ ParentTypes'
  BY <1>1, <1>2, <1>5, ShutdownTyped, ShutdownTypes
<1>7. DrainInv'
  BY <1>0, <1>1, <1>2, <1>3, <1>5 DEF DrainInv
<1>8. RecordInv'
  BY <1>0, <1>2, <1>3 DEF RecordInv
<1>9. HandlerInv'
  BY <1>0, <1>1, <1>2, <1>5 DEF HandlerInv
<1>10. ResultInv'
  BY <1>0, <1>1, <1>2 DEF ResultInv
<1> QED BY <1>2, <1>3, <1>6, <1>7, <1>8, <1>9, <1>10 DEF ProxyInv

LEMMA ExitCloseWriterKeeps ==
  ASSUME TraceAssumption, ClosersAssumption, ProxyInv, ExitCloseWriter
  PROVE  ProxyInv'
<1>0. TraceInv /\ DrainInv /\ RecordInv /\ HandlerInv /\ ResultInv
  BY DEF ProxyInv
<1>1. /\ process = "exiting" /\ server[ExitProxy] \in {"returned", "raised"}
      /\ Close(ExitWriter) \/ CloseAgain(ExitWriter)
      /\ UNCHANGED <<accepting, closing, close_health, server, process, lifecycle, cancelled, result>>
      /\ UNCHANGED requestVars
  BY DEF ExitCloseWriter, serverVars, parentVars
<1>2. ~accepting /\ Busy = {}
  BY <1>0, <1>1, CloserNames DEF DrainInv
<1>3. /\ TraceInv' /\ accepted' = accepted /\ closed' = TRUE /\ RecordInv'
      /\ \A d \in Closer : closer[d].at = "returned" => closer'[d] = closer[d]
  BY <1>1, <1>2, CloserNames, CloserStarts
<1>4. Busy' = Busy /\ ActiveIsExact' /\ CancelAfterCompletion'
  BY <1>1, RequestsStay
<1>5. ProxyTypeOK' /\ ParentTypes'
  BY <1>1, <1>3, ShutdownTyped, ShutdownTypes
<1>6. DrainInv'
  BY <1>0, <1>1, <1>2, <1>3, <1>4 DEF DrainInv
<1>7. HandlerInv'
  BY <1>0, <1>1, <1>3, CloserNames DEF HandlerInv
<1>8. ResultInv'
  BY <1>0, <1>1, <1>3, CloserNames DEF ResultInv
<1> QED BY <1>3, <1>4, <1>5, <1>6, <1>7, <1>8 DEF ProxyInv

\* The steps of the parent that only move its own close() on.
LEMMA ParentKeeps ==
  ASSUME TraceAssumption, ClosersAssumption, ProxyInv, UNCHANGED <<traceVars, requestVars>>,
         UNCHANGED <<accepting, closing, close_health, process>>,
         server' = server \/ (/\ process = "serving" /\ server[ShutdownHandler] = "idle"
                              /\ server' = [server EXCEPT ![ShutdownHandler] = "called"]),
         cancelled' \in BOOLEAN, result' \in [clean : BOOLEAN, health : HealthRecord],
         ResultInv'
  PROVE  ProxyInv'
<1>0. TraceInv /\ DrainInv /\ RecordInv /\ HandlerInv
  BY DEF ProxyInv
<1>1. TraceInv' /\ UNCHANGED <<closed, closer, failed, accepted>>
  BY <1>0, TraceStutters DEF traceVars
<1>2. Busy' = Busy /\ ActiveIsExact' /\ CancelAfterCompletion' /\ UNCHANGED request
  BY RequestsStay
<1>3. server \in [ServerCloser -> {"idle", "called", "waiting", "writing", "returned", "raised"}]
  BY ShutdownTyped
<1>4. /\ server' \in [ServerCloser -> {"idle", "called", "waiting", "writing", "returned", "raised"}]
      /\ \A c \in ServerCloser : server'[c] = server[c] \/ server'[c] = "called"
      /\ server'[ExitProxy] = server[ExitProxy]
      /\ server'[ShutdownHandler] = server[ShutdownHandler] \/
           (server'[ShutdownHandler] = "called" /\ process = "serving" /\ server[ShutdownHandler] = "idle")
  BY <1>3, CloserNames
<1>5. ProxyTypeOK' /\ ParentTypes'
  BY <1>1, <1>4, ShutdownTyped, ShutdownTypes
<1>6. DrainInv'
  BY <1>0, <1>1, <1>2, <1>4 DEF DrainInv
<1>7. RecordInv'
  BY <1>0, <1>1, <1>2 DEF RecordInv
<1>8. HandlerInv'
  BY <1>0, <1>1, <1>4 DEF HandlerInv
<1> QED BY <1>1, <1>2, <1>5, <1>6, <1>7, <1>8 DEF ProxyInv

LEMMA ParentStepKeeps ==
  ASSUME TraceAssumption, ClosersAssumption, ProxyInv, ParentStep \/ CancelClose
  PROVE  ProxyInv'
<1>0. /\ ResultInv /\ TraceInv /\ HandlerInv
      /\ cancelled \in BOOLEAN /\ result \in [clean : BOOLEAN, health : HealthRecord]
      /\ closer[ShutdownHandler].health \in HealthRecord
  BY CloserNames DEF ProxyInv, ParentTypes, TraceInv, HealthInv, CloserRecord, HealthRecord
<1>1. CASE WaitReady \/ ShutdownFails \/ WaitTimesOut \/ Terminated
  <2>1. /\ lifecycle' # "waiting" /\ UNCHANGED <<process, cancelled, result, childVars>>
    BY <1>1 DEF WaitReady, ShutdownFails, WaitTimesOut, Terminated, Parent
  <2>2. /\ UNCHANGED <<traceVars, requestVars>>
        /\ UNCHANGED <<accepting, closing, close_health, server, closer>>
    BY <2>1 DEF childVars, serverVars, traceVars
  <2>3. ResultInv'
    BY <1>0, <2>1, <2>2 DEF ResultInv
  <2> QED BY <1>0, <2>1, <2>2, <2>3, ParentKeeps
<1>2. CASE PostShutdown
  <2>1. /\ lifecycle' = "posting" /\ UNCHANGED <<process, cancelled, result>>
        /\ UNCHANGED <<accepting, closing, close_health, traceVars, requestVars>>
        /\ server' = server \/ (/\ process = "serving" /\ server[ShutdownHandler] = "idle"
                                /\ server' = [server EXCEPT ![ShutdownHandler] = "called"])
    BY <1>2 DEF PostShutdown, Serving, SetServer
  <2>2. UNCHANGED closer
    BY <2>1 DEF traceVars
  <2>3. ResultInv'
    BY <1>0, <2>1, <2>2 DEF ResultInv
  <2> QED BY <1>0, <2>1, <2>3, ParentKeeps
<1>3. CASE ShutdownAnswered
  <2>1. /\ process \in {"serving", "draining", "exiting"} /\ server[ShutdownHandler] = "returned"
        /\ result' = [result EXCEPT !.health = closer[ShutdownHandler].health]
        /\ UNCHANGED <<process, cancelled, childVars>>
    BY <1>3 DEF ShutdownAnswered, Alive
  <2>2. /\ UNCHANGED <<traceVars, requestVars>>
        /\ UNCHANGED <<accepting, closing, close_health, server, closer>>
    BY <2>1 DEF childVars, serverVars, traceVars
  <2>3. /\ result' \in [clean : BOOLEAN, health : HealthRecord]
        /\ result'.health = closer[ShutdownHandler].health
    BY <1>0, <2>1
  <2>4. result'.clean = result.clean
    BY <1>0, <2>1
  <2>5. closer[ShutdownHandler].at = "returned" /\ ~result.clean
    BY <1>0, <2>1 DEF HandlerInv, ResultInv
  <2>6. ResultInv'
    BY <2>1, <2>2, <2>3, <2>4, <2>5 DEF ResultInv
  <2> QED BY <1>0, <2>1, <2>2, <2>3, <2>6, ParentKeeps
<1>4. CASE ProcessWaited
  <2>1. /\ lifecycle = "waiting" /\ UNCHANGED <<process, cancelled, childVars>>
        /\ result' = [result EXCEPT !.clean = CleanExit]
    BY <1>4 DEF ProcessWaited, Parent
  <2>2. /\ UNCHANGED <<traceVars, requestVars>>
        /\ UNCHANGED <<accepting, closing, close_health, server, closer>>
    BY <2>1 DEF childVars, serverVars, traceVars
  <2>3. CleanExit \in BOOLEAN /\ (CleanExit => process = "exited")
    BY DEF CleanExit
  <2>4. /\ result' \in [clean : BOOLEAN, health : HealthRecord]
        /\ result'.health = result.health
    BY <1>0, <2>1, <2>3
  <2>5. result'.clean = CleanExit
    BY <1>0, <2>1
  <2>6. ResultInv'
    BY <1>0, <2>1, <2>2, <2>3, <2>4, <2>5 DEF ResultInv
  <2> QED BY <1>0, <2>1, <2>2, <2>4, <2>6, ParentKeeps
<1>5. CASE CancelClose
  <2>1. /\ lifecycle' = "terminating_cancelled" /\ cancelled' = TRUE /\ result' = NoResult
        /\ UNCHANGED <<process, childVars>>
    BY <1>5 DEF CancelClose
  <2>2. /\ UNCHANGED <<traceVars, requestVars>>
        /\ UNCHANGED <<accepting, closing, close_health, server, closer>>
    BY <2>1 DEF childVars, serverVars, traceVars
  <2>3. ~result'.clean /\ result' \in [clean : BOOLEAN, health : HealthRecord]
    BY <2>1, NoResultType
  <2>4. ResultInv'
    BY <2>1, <2>3 DEF ResultInv
  <2>5. cancelled' \in BOOLEAN
    BY <2>1
  <2> QED BY <2>1, <2>2, <2>3, <2>4, <2>5, ParentKeeps
<1>6. CASE Terminate \/ Kill
  BY <1>6, SignalsKeep
<1> QED BY <1>1, <1>2, <1>3, <1>4, <1>5, <1>6 DEF ParentStep

-----------------------------------------------------------------------------
LEMMA ProxyStutters == ASSUME ProxyInv, UNCHANGED vars PROVE ProxyInv'
<1>0. /\ TraceInv /\ ProxyTypeOK /\ ParentTypes /\ ActiveIsExact /\ CancelAfterCompletion
      /\ DrainInv /\ RecordInv /\ HandlerInv /\ ResultInv
  BY DEF ProxyInv
<1>1. UNCHANGED traceVars
      /\ UNCHANGED <<accepting, active, request, completed, outcome, closing, close_health,
                     server, process, lifecycle, cancelled, result>>
  BY DEF vars, proxyVars
<1>2. TraceInv' /\ UNCHANGED <<closed, closer, failed, accepted>>
  BY <1>0, <1>1, TraceStutters DEF traceVars
<1>3. ProxyTypeOK' /\ ParentTypes' /\ ActiveIsExact' /\ CancelAfterCompletion'
  BY <1>0, <1>1, <1>2 DEF ProxyTypeOK, ParentTypes, ActiveIsExact, CancelAfterCompletion, TraceInv
<1>4. DrainInv' /\ RecordInv' /\ HandlerInv' /\ ResultInv'
  BY <1>0, <1>1, <1>2 DEF DrainInv, RecordInv, HandlerInv, ResultInv, Busy
<1> QED BY <1>2, <1>3, <1>4 DEF ProxyInv

\* Every step of the proxy and of its parent keeps the inductive invariant.
LEMMA ProxyStep ==
  ASSUME TraceAssumption, ClosersAssumption, ProxyInv, [Next]_vars
  PROVE  ProxyInv'
<1>1. CASE \E r \in Forwarded : Admit(r) \/ StreamCompletes(r) \/ RequestStep(r)
  BY <1>1, AdmitKeeps, CompletesKeeps, ProgressKeeps, AnswerKeeps, ReleaseKeeps DEF RequestStep
<1>2. CASE ChildStep
  <2>1. CASE (WriterStep \/ \E c \in Closer : Joined(c) \/ CloseReturns(c)) /\ UNCHANGED proxyVars
    BY <2>1, TraceStepKeepsProxy
  <2>2. CASE \E c \in ServerCloser : ServerClose(c)
    BY <2>2, CloseStartsKeeps, CloseWriterKeeps, CloseLeavesKeeps DEF ServerClose
  <2>3. CASE ShutdownCallback \/ Exit \/ Started
    BY <2>3, SignalsKeep
  <2>4. CASE ServeReturns
    BY <2>4, ServeReturnsKeeps
  <2>5. CASE ExitCloseWriter
    BY <2>5, ExitCloseWriterKeeps
  <2> QED BY <1>2, <2>1, <2>2, <2>3, <2>4, <2>5 DEF ChildStep
<1>3. CASE ParentStep \/ CancelClose
  BY <1>3, ParentStepKeeps
<1>4. CASE Crash
  BY <1>4, SignalsKeep
<1>5. CASE Done \/ UNCHANGED vars
  BY <1>5, ProxyStutters DEF Done
<1> QED BY <1>1, <1>2, <1>3, <1>4, <1>5 DEF Next

\* The inductive invariant gives what the runs check.
LEMMA ProxyInvImplies ==
  ASSUME TraceAssumption, ClosersAssumption, ProxyInv
  PROVE  /\ ProxyTypeOK /\ ActiveIsExact /\ CancelAfterCompletion
         /\ CleanMeansDrained /\ CleanCloseHasEveryFact
<1>0. /\ TraceInv /\ ProxyTypeOK /\ ActiveIsExact /\ CancelAfterCompletion
      /\ DrainInv /\ RecordInv /\ HandlerInv /\ ResultInv
  BY DEF ProxyInv
<1>1. CleanMeansDrained
  <2>1. ASSUME result.clean PROVE process = "exited" /\ closed /\ \A r \in Forwarded : request[r] \in Idle
    <3>1. process = "exited" /\ closed /\ Busy = {}
      BY <1>0, <2>1 DEF ResultInv, DrainInv
    <3> QED BY <3>1 DEF Busy
  <2> QED BY <2>1 DEF CleanMeansDrained
<1>2. CleanCloseHasEveryFact
  <2> SUFFICES ASSUME result.clean, result.health.dropped = 0, ~result.health.error,
                      NEW r \in Forwarded, request[r] \in {"released", "gone"}
               PROVE  Contains(LoadFacts, r)
    BY DEF CleanCloseHasEveryFact
  <2>1. /\ closer[ShutdownHandler].at = "returned" /\ ShutdownHandler \in Closer
        /\ result.health = closer[ShutdownHandler].health
    BY <1>0, CloserNames DEF ResultInv
  <2>2. LoadFacts = SubSeq(accepted, 1, closer[ShutdownHandler].health.submitted)
    BY <1>0, <2>1, TraceInvImplies DEF CleanHealthIsComplete
  <2>3. closer[ShutdownHandler].health.submitted = Len(accepted) /\ accepted \in Seq(Fact)
    BY <1>0, <2>1 DEF TraceInv, HealthInv, TraceTypeOK
  <2>4. SubSeq(accepted, 1, Len(accepted)) = accepted
    BY <2>3
  <2>5. Contains(accepted, r)
    BY <1>0, <2>1 DEF RecordInv
  <2> QED BY <2>2, <2>3, <2>4, <2>5
<1> QED BY <1>0, <1>1, <1>2

\* The proxy, for every number of requests, with failing writers, cancelled
\* requests, timeouts on either side, crashes and kills: the counter that close()
\* waits on is exact, a shutdown reported clean drained the child and left every
\* answered request's fact in the file unless its health says otherwise, and a
\* client that leaves after the last event made a successful request
\* (request_proxy/server.py:121-265, lifecycle.py:105-133, request_trace.py).
THEOREM ProxyIsSound ==
  ASSUME TraceAssumption, ClosersAssumption
  PROVE  Spec => [](ProxyTypeOK /\ ActiveIsExact /\ CleanCloseHasEveryFact
                    /\ CleanMeansDrained /\ CancelAfterCompletion)
<1>1. Init => ProxyInv
  BY ProxyInitInv
<1>2. ProxyInv /\ [Next]_vars => ProxyInv'
  BY ProxyStep
<1>3. ProxyInv => ProxyTypeOK /\ ActiveIsExact /\ CleanCloseHasEveryFact
                    /\ CleanMeansDrained /\ CancelAfterCompletion
  BY ProxyInvImplies
<1> QED BY <1>1, <1>2, <1>3, PTL DEF Spec
=============================================================================
