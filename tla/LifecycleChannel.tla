--------------------------- MODULE LifecycleChannel ---------------------------
(***************************************************************************)
(* UnixLifecycleSender and UnixLifecycleReceiver of                        *)
(* agentinfer/agentcache/core/api_adapter.py: API workers send lifecycle   *)
(* facts as datagrams to the sockets of the EngineCores, one socket path   *)
(* for every data-parallel rank.  An EngineCore may be started, closed, or *)
(* die and leave its path behind; a kernel buffer holds Cap datagrams.     *)
(* A path that names a receiver is a file; a stale one names a dead one.   *)
(***************************************************************************)
EXTENDS Naturals, Sequences, FiniteSets, SequencesExt, FiniteSetsExt

CONSTANTS
  Engine,       \* the EngineCores, over all restarts
  RankOf,       \* Engine -> its dp_rank
  Worker,       \* the API workers
  Signal,       \* the lifecycle facts they send, each once
  Cap,          \* datagrams a socket holds
  Overlap,      \* whether an EngineCore may start before the last one of its rank has ended
  NoFile, Junk

Rank == {RankOf[e] : e \in Engine}

\* What the constants may be.
ChannelAssumption == RankOf \in [Engine -> Nat] /\ 0 \in Rank /\ Cap \in Nat \ {0}
                     /\ NoFile \notin Engine /\ Junk \notin Signal

VARIABLES
  file,         \* rank -> the receiver its socket path names, or NoFile
  sock,         \* engine -> what its receiver's socket is
  queue,        \* engine -> the datagrams in its socket
  got,          \* engine -> the signals receive() has returned
  worker,       \* worker -> the send() it is in
  sentBy,       \* worker -> the signals it sent, in order
  steady        \* worker -> the engines that could be reached ever since its send() began

chanVars == <<file, sock, queue, got, worker, sentBy, steady>>

Idle == [at |-> "idle", signal |-> Junk, targets |-> << >>, all |-> FALSE, delivered |-> FALSE]

Sent == {s \in Signal : \E w \in Worker : s \in Range(sentBy[w])}

\* A datagram to this rank's path arrives.
Accepts(r) == file[r] # NoFile /\ sock[file[r]] = "bound" /\ Len(queue[file[r]]) < Cap
Reachable == {file[r] : r \in {q \in Rank : Accepts(q)}}

ChanInit ==
  /\ file = [r \in Rank |-> NoFile]
  /\ sock = [e \in Engine |-> "new"]
  /\ queue = [e \in Engine |-> << >>]
  /\ got = [e \in Engine |-> << >>]
  /\ worker = [w \in Worker |-> Idle]
  /\ sentBy = [w \in Worker |-> << >>]
  /\ steady = [w \in Worker |-> {}]

\* Those of an earlier moment that can still be reached.
StillSteady == steady' = [w \in Worker |-> steady[w] \intersect Reachable']
-----------------------------------------------------------------------------
Alive(e) == sock[e] \in {"unlinked", "bound", "closed"}

\* UnixLifecycleReceiver.__init__: a path that exists is removed, then bound.
Open(e) ==
  /\ sock[e] = "new"
  /\ Overlap \/ \A d \in Engine : RankOf[d] = RankOf[e] => ~Alive(d)
  /\ file' = [file EXCEPT ![RankOf[e]] = NoFile]
  /\ sock' = [sock EXCEPT ![e] = "unlinked"]
  /\ UNCHANGED <<queue, got, worker, sentBy>>
  /\ StillSteady

\* Binding a path that is there again is an error, and the EngineCore does not start.
Bind(e) ==
  /\ sock[e] = "unlinked"
  /\ IF file[RankOf[e]] = NoFile
     THEN file' = [file EXCEPT ![RankOf[e]] = e] /\ sock' = [sock EXCEPT ![e] = "bound"]
     ELSE sock' = [sock EXCEPT ![e] = "dead"] /\ UNCHANGED file
  /\ UNCHANGED <<queue, got, worker, sentBy>>
  /\ StillSteady

\* close(): first the socket, with what it still held ...
CloseSocket(e) ==
  /\ sock[e] = "bound"
  /\ sock' = [sock EXCEPT ![e] = "closed"]
  /\ queue' = [queue EXCEPT ![e] = << >>]
  /\ UNCHANGED <<file, got, worker, sentBy>>
  /\ StillSteady

\* ... then the path, whatever it names by now.
Unlink(e) ==
  /\ sock[e] = "closed"
  /\ sock' = [sock EXCEPT ![e] = "dead"]
  /\ file' = [file EXCEPT ![RankOf[e]] = NoFile]
  /\ UNCHANGED <<queue, got, worker, sentBy>>
  /\ StillSteady

\* The process dies without its atexit handlers: the path stays.
Die(e) ==
  /\ Alive(e)
  /\ sock' = [sock EXCEPT ![e] = "dead"]
  /\ queue' = [queue EXCEPT ![e] = << >>]
  /\ UNCHANGED <<file, got, worker, sentBy>>
  /\ StillSteady

\* What receive() returns of the datagrams it drains.
Valid(q) == SelectSeq(q, LAMBDA s : s # Junk)

\* receive()
Poll(e) ==
  /\ sock[e] = "bound"
  /\ queue[e] # << >>
  /\ got' = [got EXCEPT ![e] = @ \o Valid(queue[e])]
  /\ queue' = [queue EXCEPT ![e] = << >>]
  /\ UNCHANGED <<file, sock, worker, sentBy>>
  /\ StillSteady

\* Some other process writes something else to the socket.
Stray(r) ==
  /\ Accepts(r)
  /\ Junk \notin Range(queue[file[r]])
  /\ queue' = [queue EXCEPT ![file[r]] = Append(@, Junk)]
  /\ UNCHANGED <<file, sock, got, worker, sentBy>>
  /\ StillSteady
-----------------------------------------------------------------------------
\* _discover_internal_rank_sockets
Discovered == SetToSortSeq({r \in Rank : file[r] # NoFile}, <)

\* The paths send() tries: the chosen rank's, or all that are there, or rank 0's.
Targets(choice) ==
  IF choice # {} THEN SetToSeq(choice)
  ELSE IF Discovered = << >> THEN <<0>> ELSE Discovered

\* send(), with the rank the router chose, if it did.
BeginSend(w, s, choice) ==
  /\ worker[w].at = "idle"
  /\ s \notin Sent
  /\ worker' = [worker EXCEPT ![w] = [at |-> "sending", signal |-> s, targets |-> Targets(choice),
                                      all |-> choice = {}, delivered |-> FALSE]]
  /\ sentBy' = [sentBy EXCEPT ![w] = Append(@, s)]
  /\ steady' = [steady EXCEPT ![w] = Reachable]
  /\ UNCHANGED <<file, sock, queue, got>>

\* Mutant of RestAfterFailure: the first failure ends the send.
AfterFailure(targets) == << >>

RestAfterFailure(targets) == Tail(targets)

\* One sendto of the loop; any OSError is logged and the loop goes on.
SendTo(w) ==
  /\ worker[w].at = "sending"
  /\ worker[w].targets # << >>
  /\ LET r == Head(worker[w].targets) IN
     IF Accepts(r)
     THEN /\ queue' = [queue EXCEPT ![file[r]] = Append(@, worker[w].signal)]
          /\ worker' = [worker EXCEPT ![w].delivered = TRUE, ![w].targets = Tail(@)]
     ELSE /\ worker' = [worker EXCEPT ![w].targets = RestAfterFailure(@)]
          /\ UNCHANGED queue
  /\ UNCHANGED <<file, sock, got, sentBy>>
  /\ steady' = [v \in Worker |-> IF v = w THEN steady[v] \intersect (Reachable' \union Reachable)
                                 ELSE steady[v] \intersect Reachable']

EndSend(w) ==
  /\ worker[w].at = "sending"
  /\ worker[w].targets = << >>
  /\ worker' = [worker EXCEPT ![w].at = "idle"]
  /\ UNCHANGED <<file, sock, queue, got, sentBy, steady>>

ChanNext ==
  \/ \E e \in Engine : Open(e) \/ Bind(e) \/ CloseSocket(e) \/ Unlink(e) \/ Die(e) \/ Poll(e)
  \/ \E r \in Rank : Stray(r)
  \/ \E w \in Worker : \/ SendTo(w) \/ EndSend(w)
                       \/ \E s \in Signal, choice \in {{}} \union {{r} : r \in Rank} : BeginSend(w, s, choice)

ChanSpec == ChanInit /\ [][ChanNext]_chanVars
-----------------------------------------------------------------------------
ChanTypeOK ==
  /\ file \in [Rank -> Engine \union {NoFile}]
  /\ sock \in [Engine -> {"new", "unlinked", "bound", "closed", "dead"}]
  /\ \A e \in Engine : Len(queue[e]) <= Cap /\ Range(queue[e]) \subseteq Signal \union {Junk}
  /\ \A e \in Engine : Range(got[e]) \subseteq Signal

\* A live EngineCore is named by the path of its rank, so that facts reach it; stale paths
\* left by dead ones do not get in its way.
BoundIsNamed == \A e \in Engine : sock[e] = "bound" => file[RankOf[e]] = e

Holds(e, s) == s \in Range(queue[e]) \union Range(got[e])

\* A fact sent to no rank in particular has, when send() returns, reached every EngineCore
\* that could be reached all the while, whatever became of the others it was tried on.
BroadcastReachesAll ==
  \A w \in Worker :
    (worker[w].at = "sending" /\ worker[w].targets = << >> /\ worker[w].all) =>
      \A e \in steady[w] : Holds(e, worker[w].signal)

\* A live EngineCore's facts are received once each and, from one worker, in the order
\* they were sent.
ReceivedInOrder ==
  \A e \in Engine :
    LET seen == got[e] \o Valid(queue[e]) IN
    /\ \A i, j \in DOMAIN seen : i # j => seen[i] # seen[j]
    /\ \A w \in Worker : \A i, j \in DOMAIN seen :
         (i < j /\ seen[i] \in Range(sentBy[w]) /\ seen[j] \in Range(sentBy[w])) =>
            SelectInSeq(sentBy[w], LAMBDA s : s = seen[i]) < SelectInSeq(sentBy[w], LAMBDA s : s = seen[j])
=============================================================================
