------------------------- MODULE TokenizerCacheProofs -------------------------
(***************************************************************************)
(* For every number of tasks, namespaces, nodes and workers: the shared    *)
(* tokenizer client never lets one coroutine's cancellation reach another, *)
(* leaves nothing of a released task behind, fetches a seed once and       *)
(* balances its permits.                                                   *)
(***************************************************************************)
EXTENDS TokenizerCache, FiniteSetTheorems, TLAPS

\* The keys a node may ask for; the preparation asks for KeysOf(PreparedNs).
NodeKeys(c) == {Count(c)} \cup KeysOf(SharedNs \cup {TaskOf(c)})

\* Who waits, waits for a key of its own kind.
WantInv ==
  /\ todo \subseteq KeysOf(PreparedNs)
  /\ want \in [Caller -> Key \cup {None}]
  /\ \A c \in Node : ~Stopped(c) => want[c] \in NodeKeys(c)
  /\ \A c \in Worker : ~Stopped(c) => want[c] \in KeysOf(PreparedNs)

\* Who may be under way in a phase: workers only while they prepare, nodes only
\* in a run, nobody after it.
PhaseInv ==
  /\ phase \in {"discover", "seeds", "texts"} =>
       \A c \in Node : at[c] = "idle"
  /\ phase \in {"discover", "seeds", "texts", "failed"} =>
       doomed = {} /\ \A t \in Task : release[t] = "live"
  /\ phase = "run" => \A c \in Worker : Stopped(c)
  /\ phase \in {"failed", "closing", "closed"} => \A c \in Caller : Stopped(c)

\* What is left of a task that is being released: its nodes have stopped for
\* good, and its operations are cancelled.
ReleaseInv ==
  \A t \in Task : release[t] # "live" =>
    /\ \A c \in Node : TaskOf(c) = t => Stopped(c) /\ at[c] # "idle"
    /\ \A k \in PrivateKeys(t) : op[k] # "none" => k \in doomed

\* What a cancelled operation can be: the count of a node that was cancelled
\* itself, an operation of a task that is being released, or anything while
\* the client closes.  A text is cancelled with its seed.
DoomedInv ==
  /\ \A k \in doomed : op[k] # "none"
  /\ \A c \in Node : Count(c) \in doomed => at[c] = "cancelled"
  /\ \A n \in SharedNs : doomed \cap PrivateKeys(n) # {} => phase \in {"closing", "closed"}
  /\ \A t \in Task : doomed \cap PrivateKeys(t) # {} =>
       release[t] # "live" \/ phase \in {"closing", "closed"}
  /\ \A n \in Namespace : Seed(n) \in doomed /\ op[Text(n)] # "none" => Text(n) \in doomed

\* Only the operation of a text awaits another one; and what an awaited
\* operation ended with, as the one who awaited it finds it.
AnswerInv ==
  /\ \A k \in Key : op[k] \in {"seedwait", "seedready"} => \E n \in Namespace : k = Text(n)
  /\ \A c \in Caller : at[c] = "ready" =>
       /\ answer[c] \in {"ok", "failed"}
       /\ \A n \in Namespace : answer[c] = "ok" /\ want[c] = Seed(n) => n \in seeds
  /\ \A n \in Namespace : op[Text(n)] = "seedready" /\ Text(n) \notin doomed =>
       /\ answer[Text(n)] \in {"ok", "failed"}
       /\ answer[Text(n)] = "ok" => n \in seeds

\* A seed in flight was not fetched before, and one that was fetched stays
\* until its task is released.
FetchInv ==
  \A n \in Namespace :
    /\ op[Seed(n)] # "none" => fetched[n] = 0 /\ n \notin seeds
    /\ fetched[n] # 0 => n \in seeds \/ (n \in Task /\ release[n] = "released")

Posts == {k \in Key : op[k] = "post"}

\* The permits, with the finiteness that counting needs.
PermitInv ==
  /\ IsFiniteSet(Posts)
  /\ PermitsBalance

TokenizerInv ==
  /\ TokenizerTypeOK /\ WantInv /\ PhaseInv /\ ReleaseInv /\ DoomedInv /\ AnswerInv
  /\ FetchInv /\ PermitInv
  /\ NoForeignCancellation /\ ReleasedLeavesNothing /\ FetchedOnce
-----------------------------------------------------------------------------
(***************************************************************************)
(* Keys and their parts.                                                   *)
(***************************************************************************)

\* Seeds, texts and counts are three kinds of key, told apart by their tag.
LEMMA KeyParts ==
  /\ \A n : Seed(n)[1] = "seed" /\ Seed(n)[2] = n
  /\ \A n : Text(n)[1] = "text" /\ Text(n)[2] = n
  /\ \A c : Count(c)[1] = "count" /\ Count(c)[2] = c
BY DEF Seed, Text, Count

LEMMA KeysDiffer ==
  /\ \A n, m : Seed(n) # Text(m) /\ Seed(n) # Count(m) /\ Text(n) # Count(m)
  /\ \A n, m : Seed(n) = Seed(m) => n = m
  /\ \A n, m : Text(n) = Text(m) => n = m
  /\ \A n, m : Count(n) = Count(m) => n = m
BY KeyParts

\* Every key is of one of the three kinds.
LEMMA KeyKinds ==
  /\ \A n \in Namespace : Seed(n) \in Key /\ Text(n) \in Key
  /\ \A n \in Namespace : Seed(n) \in SharedKey /\ Text(n) \in SharedKey
  /\ \A c \in Node : Count(c) \in Key
  /\ \A k \in Key : \/ \E n \in Namespace : k = Seed(n)
                    \/ \E n \in Namespace : k = Text(n)
                    \/ \E c \in Node : k = Count(c)
BY DEF Key, SharedKey, KeysOf

\* What the names of the constants imply.
LEMMA Names ==
  ASSUME TokenizerAssumption
  PROVE  /\ \A c \in Node : TaskOf(c) \in Task /\ TaskOf(c) \in Namespace /\ TaskOf(c) \notin SharedNs
         /\ \A n \in SharedNs : n \in Namespace /\ n \notin Task
         /\ \A t \in Task : t \in Namespace /\ t \notin SharedNs /\ t \notin PreparedNs
         /\ \A n \in PreparedNs : n \in SharedNs /\ n \in Namespace
         /\ \A n \in Namespace : n \in SharedNs \/ n \in Task
         /\ \A c \in Node : c \in Caller /\ c \notin Worker
         /\ \A c \in Worker : c \in Caller /\ c \notin Node
         /\ \A c \in Caller : c \in Node \/ c \in Worker
         /\ \A c \in Caller : c \notin Key
BY DEF TokenizerAssumption, Namespace, Caller

\* The keys of a set of namespaces.
LEMMA KeysOfMembers ==
  \A ns : \A k : k \in KeysOf(ns) <=> \E n \in ns : k = Seed(n) \/ k = Text(n)
BY DEF KeysOf

\* The preparation's keys, and a node's, are keys.
LEMMA OwnKeys ==
  ASSUME TokenizerAssumption
  PROVE  /\ KeysOf(PreparedNs) \subseteq Key
         /\ \A c \in Node : NodeKeys(c) \subseteq Key
         /\ \A c \in Node : \A n : (Seed(n) \in NodeKeys(c) \/ Text(n) \in NodeKeys(c)) => n \in SharedNs \cup {TaskOf(c)}
         /\ \A c, d \in Node : Count(d) \in NodeKeys(c) => c = d
         /\ \A n : Seed(n) \in KeysOf(PreparedNs) \/ Text(n) \in KeysOf(PreparedNs) => n \in PreparedNs
         /\ \A d : Count(d) \notin KeysOf(PreparedNs)
<1>1. KeysOf(PreparedNs) \subseteq Key
  BY KeysOfMembers, KeyKinds, Names
<1>2. \A c \in Node : NodeKeys(c) \subseteq Key
  BY KeysOfMembers, KeyKinds, Names DEF NodeKeys
<1>3. \A c \in Node : \A n : (Seed(n) \in NodeKeys(c) \/ Text(n) \in NodeKeys(c)) => n \in SharedNs \cup {TaskOf(c)}
  BY KeysOfMembers, KeysDiffer DEF NodeKeys
<1>4. \A c, d \in Node : Count(d) \in NodeKeys(c) => c = d
  BY KeysOfMembers, KeysDiffer DEF NodeKeys
<1>5. \A n : Seed(n) \in KeysOf(PreparedNs) \/ Text(n) \in KeysOf(PreparedNs) => n \in PreparedNs
  BY KeysOfMembers, KeysDiffer
<1>6. \A d : Count(d) \notin KeysOf(PreparedNs)
  BY KeysOfMembers, KeysDiffer
<1> QED BY <1>1, <1>2, <1>3, <1>4, <1>5, <1>6

\* The private keys of a namespace are its seed and its text.
LEMMA PrivateMembers ==
  \A t : \A k : k \in PrivateKeys(t) <=> k = Seed(t) \/ k = Text(t)
BY DEF PrivateKeys

\* The client starts with nothing.
LEMMA InitInv == ASSUME TokenizerAssumption, Init PROVE TokenizerInv
<1>1. TokenizerTypeOK
  <2>1. tries \in [Key -> 1..MaxAttempts] /\ permits \in 0..NumPermits /\ fetched \in [Namespace -> Nat]
    BY DEF TokenizerAssumption, Init
  <2>2. op \in [Key -> {"none", "seedwait", "seedready", "want", "post", "sleep"}]
    BY DEF Init
  <2>3. at \in [Caller -> {"idle", "wait", "ready", "ok", "failed", "cancelled", "broken"}]
    BY DEF Init
  <2>4. answer \in [Caller \cup Key -> {"none", "ok", "failed", "cancelled", "lost"}]
    BY DEF Init
  <2>5. release \in [Task -> {"live", "releasing", "released"}]
    BY DEF Init
  <2> QED BY <2>1, <2>2, <2>3, <2>4, <2>5 DEF Init, TokenizerTypeOK
<1>2. WantInv /\ PhaseInv /\ ReleaseInv /\ DoomedInv /\ NoForeignCancellation /\ ReleasedLeavesNothing
  BY Names, PrivateMembers DEF Init, WantInv, PhaseInv, ReleaseInv, DoomedInv, NoForeignCancellation,
    ReleasedLeavesNothing, Stopped
<1>3. AnswerInv /\ FetchInv /\ FetchedOnce
  BY KeyKinds DEF Init, AnswerInv, FetchInv, FetchedOnce
<1>4. PermitInv
  <2>1. Posts = {}
    BY DEF Init, Posts
  <2>2. IsFiniteSet(Posts) /\ Cardinality(Posts) = 0
    BY <2>1, FS_EmptySet
  <2> QED BY <2>2 DEF PermitInv, PermitsBalance, Posts, Init, TokenizerAssumption
<1> QED BY <1>1, <1>2, <1>3, <1>4 DEF TokenizerInv
-----------------------------------------------------------------------------
(***************************************************************************)
(* The end of an operation.                                                *)
(***************************************************************************)

\* What Ends() changes: the operation is popped, a text operation that awaits
\* this seed and the callers that await this key are woken with its result.
LEMMA EndsEffect ==
  ASSUME TokenizerAssumption, TokenizerTypeOK, NEW k \in Key,
         NEW result \in {"ok", "failed", "cancelled", "lost"}, Ends(k, result)
  PROVE  /\ op' \in [Key -> {"none", "seedwait", "seedready", "want", "post", "sleep"}]
         /\ at' \in [Caller -> {"idle", "wait", "ready", "ok", "failed", "cancelled", "broken"}]
         /\ answer' \in [Caller \cup Key -> {"none", "ok", "failed", "cancelled", "lost"}]
         /\ tries' \in [Key -> 1..MaxAttempts]
         /\ doomed' = doomed \ {k}
         /\ op'[k] = "none"
         /\ \A j \in Key : j # k =>
              \/ op'[j] = op[j] /\ answer'[j] = answer[j]
              \/ /\ op[j] = "seedwait" /\ op'[j] = "seedready" /\ answer'[j] = result
                 /\ \E n \in Namespace : j = Text(n) /\ k = Seed(n)
         /\ \A c \in Caller :
              \/ at'[c] = at[c] /\ answer'[c] = answer[c]
              \/ at[c] = "wait" /\ want[c] = k /\ at'[c] = "ready" /\ answer'[c] = result
<1> DEFINE waiters == {c \in Caller : at[c] = "wait" /\ want[c] = k}
           text == IF k[1] = "seed" /\ op[Text(k[2])] = "seedwait" THEN {Text(k[2])} ELSE {}
<1>1. /\ op' = [j \in Key |-> IF j = k THEN "none" ELSE IF j \in text THEN "seedready" ELSE op[j]]
      /\ at' = [c \in Caller |-> IF c \in waiters THEN "ready" ELSE at[c]]
      /\ answer' = [w \in Caller \cup Key |-> IF w \in waiters \cup text THEN result ELSE answer[w]]
      /\ doomed' = doomed \ {k}
      /\ tries' = [tries EXCEPT ![k] = 1]
  BY DEF Ends
<1>2. \A j \in text : j \in Key /\ op[j] = "seedwait" /\ \E n \in Namespace : j = Text(n) /\ k = Seed(n)
  <2> SUFFICES ASSUME NEW j \in text
               PROVE  j \in Key /\ op[j] = "seedwait" /\ \E n \in Namespace : j = Text(n) /\ k = Seed(n)
    OBVIOUS
  <2>1. k[1] = "seed" /\ j = Text(k[2]) /\ op[j] = "seedwait"
    OBVIOUS
  <2>2. PICK n \in Namespace : k = Seed(n)
    BY <2>1, KeyKinds, KeyParts
  <2>3. j = Text(n)
    BY <2>1, <2>2, KeyParts
  <2> QED BY <2>1, <2>2, <2>3, KeyKinds
<1>3. waiters \subseteq Caller /\ waiters \cap Key = {} /\ text \cap Caller = {} /\ text \subseteq Key
  BY <1>2, Names
<1> HIDE DEF text
<1>4. op' \in [Key -> {"none", "seedwait", "seedready", "want", "post", "sleep"}]
  BY <1>1 DEF TokenizerTypeOK
<1>5. at' \in [Caller -> {"idle", "wait", "ready", "ok", "failed", "cancelled", "broken"}]
  BY <1>1 DEF TokenizerTypeOK
<1>6. answer' \in [Caller \cup Key -> {"none", "ok", "failed", "cancelled", "lost"}]
  BY <1>1 DEF TokenizerTypeOK
<1>7. tries' \in [Key -> 1..MaxAttempts]
  BY <1>1 DEF TokenizerTypeOK, TokenizerAssumption
<1>8. \A j \in Key : j # k =>
        \/ op'[j] = op[j] /\ answer'[j] = answer[j]
        \/ /\ op[j] = "seedwait" /\ op'[j] = "seedready" /\ answer'[j] = result
           /\ \E n \in Namespace : j = Text(n) /\ k = Seed(n)
  <2> SUFFICES ASSUME NEW j \in Key, j # k
               PROVE  \/ op'[j] = op[j] /\ answer'[j] = answer[j]
                      \/ /\ op[j] = "seedwait" /\ op'[j] = "seedready" /\ answer'[j] = result
                         /\ \E n \in Namespace : j = Text(n) /\ k = Seed(n)
    OBVIOUS
  <2>1. CASE j \in text
    BY <2>1, <1>1, <1>2
  <2>2. CASE j \notin text
    BY <2>2, <1>1, <1>3
  <2> QED BY <2>1, <2>2
<1>9. \A c \in Caller :
        \/ at'[c] = at[c] /\ answer'[c] = answer[c]
        \/ at[c] = "wait" /\ want[c] = k /\ at'[c] = "ready" /\ answer'[c] = result
  <2> SUFFICES ASSUME NEW c \in Caller
               PROVE  \/ at'[c] = at[c] /\ answer'[c] = answer[c]
                      \/ at[c] = "wait" /\ want[c] = k /\ at'[c] = "ready" /\ answer'[c] = result
    OBVIOUS
  <2>1. c \notin text
    BY <1>3
  <2> QED BY <2>1, <1>1
<1> QED BY <1>1, <1>4, <1>5, <1>6, <1>7, <1>8, <1>9

\* The end of an operation keeps everybody's books, if its result may reach
\* those who await it.
LEMMA EndsKeeps ==
  ASSUME TokenizerAssumption, TokenizerInv, NEW k \in Key,
         NEW result \in {"ok", "failed", "cancelled", "lost"}, op[k] # "none", Ends(k, result),
         result \in {"cancelled", "lost"} =>
           /\ \A c \in Caller : ~(at[c] = "wait" /\ want[c] = k)
           /\ \A n \in Namespace : k = Seed(n) /\ op[Text(n)] = "seedwait" => Text(n) \in doomed,
         \A n \in Namespace : k = Seed(n) /\ result = "ok" => n \in seeds',
         seeds \subseteq seeds',
         UNCHANGED <<phase, todo, want, release>>
  PROVE  WantInv' /\ PhaseInv' /\ ReleaseInv' /\ DoomedInv' /\ AnswerInv' /\ NoForeignCancellation'
<1> USE EndsEffect
<1>0. /\ TokenizerTypeOK /\ WantInv /\ PhaseInv /\ ReleaseInv /\ DoomedInv /\ AnswerInv
      /\ NoForeignCancellation
  BY DEF TokenizerInv
<1>a. \A c \in Caller : Stopped(c) => at'[c] = at[c]
  BY <1>0 DEF Stopped
<1>b. \A c \in Caller : Stopped(c)' <=> Stopped(c)
  BY <1>0 DEF Stopped
<1>c. \A j \in Key : op'[j] # "none" => op[j] # "none" /\ j # k
  BY <1>0 DEF TokenizerTypeOK
<1>1. WantInv'
  BY <1>0, <1>b, Names DEF WantInv
<1>2. PhaseInv'
  BY <1>0, <1>a, <1>b, Names DEF PhaseInv, Stopped
<1>3. ReleaseInv'
  <2> SUFFICES ASSUME NEW t \in Task, release[t] # "live"
               PROVE  /\ \A c \in Node : TaskOf(c) = t => Stopped(c)' /\ at'[c] # "idle"
                      /\ \A j \in PrivateKeys(t) : op'[j] # "none" => j \in doomed'
    BY DEF ReleaseInv
  <2>1. \A c \in Node : TaskOf(c) = t => Stopped(c)' /\ at'[c] # "idle"
    BY <1>0, <1>a, <1>b, Names DEF ReleaseInv
  <2>2. \A j \in PrivateKeys(t) : op'[j] # "none" => j \in doomed'
    BY <1>0, <1>c, PrivateMembers, KeyKinds, Names DEF ReleaseInv
  <2> QED BY <2>1, <2>2
<1>4. DoomedInv'
  <2>1. \A j \in doomed' : op'[j] # "none"
    BY <1>0 DEF DoomedInv, TokenizerTypeOK
  <2>2. \A c \in Node : Count(c) \in doomed' => at'[c] = "cancelled"
    BY <1>0, <1>a, Names DEF DoomedInv, Stopped
  <2>3. \A n \in SharedNs : doomed' \cap PrivateKeys(n) # {} => phase' \in {"closing", "closed"}
    BY <1>0 DEF DoomedInv
  <2>4. \A t \in Task : doomed' \cap PrivateKeys(t) # {} =>
          release'[t] # "live" \/ phase' \in {"closing", "closed"}
    BY <1>0 DEF DoomedInv
  <2>5. \A n \in Namespace : Seed(n) \in doomed' /\ op'[Text(n)] # "none" => Text(n) \in doomed'
    BY <1>0, <1>c, KeyKinds DEF DoomedInv
  <2> QED BY <2>1, <2>2, <2>3, <2>4, <2>5, PrivateMembers DEF DoomedInv, PrivateKeys
<1>5. AnswerInv'
  <2>0. \A j \in Key : op'[j] \in {"seedwait", "seedready"} => \E n \in Namespace : j = Text(n)
    BY <1>0 DEF AnswerInv
  <2>1. \A c \in Caller : at'[c] = "ready" =>
          /\ answer'[c] \in {"ok", "failed"}
          /\ \A n \in Namespace : answer'[c] = "ok" /\ want'[c] = Seed(n) => n \in seeds'
    BY <1>0 DEF AnswerInv
  <2>2. \A n \in Namespace : op'[Text(n)] = "seedready" /\ Text(n) \notin doomed' =>
          /\ answer'[Text(n)] \in {"ok", "failed"}
          /\ answer'[Text(n)] = "ok" => n \in seeds'
    <3> SUFFICES ASSUME NEW n \in Namespace, op'[Text(n)] = "seedready", Text(n) \notin doomed'
                 PROVE  /\ answer'[Text(n)] \in {"ok", "failed"}
                        /\ answer'[Text(n)] = "ok" => n \in seeds'
      OBVIOUS
    <3>1. Text(n) \in Key /\ Text(n) # k /\ Text(n) \notin doomed
      BY <1>0, <1>c, KeyKinds
    <3>2. CASE op'[Text(n)] = op[Text(n)] /\ answer'[Text(n)] = answer[Text(n)]
      BY <3>1, <3>2, <1>0 DEF AnswerInv
    <3>3. CASE /\ op[Text(n)] = "seedwait" /\ answer'[Text(n)] = result
               /\ \E m \in Namespace : Text(n) = Text(m) /\ k = Seed(m)
      BY <3>1, <3>3, KeysDiffer
    <3> QED BY <3>1, <3>2, <3>3, <1>0
  <2> QED BY <2>0, <2>1, <2>2 DEF AnswerInv
<1>6. NoForeignCancellation'
  BY <1>0 DEF NoForeignCancellation
<1> QED BY <1>1, <1>2, <1>3, <1>4, <1>5, <1>6
-----------------------------------------------------------------------------
(***************************************************************************)
(* The permits.                                                            *)
(***************************************************************************)

\* The permits are a natural number of at most NumPermits.
LEMMA PermitBounds ==
  ASSUME TokenizerAssumption, PermitInv, permits \in Int PROVE permits <= NumPermits
<1>1. Cardinality(Posts) \in Nat
  BY FS_CardinalityType DEF PermitInv
<1> QED BY <1>1 DEF PermitInv, PermitsBalance, Posts, TokenizerAssumption

\* Who posts takes a permit, and gives it back afterwards.
LEMMA PermitKept ==
  ASSUME TokenizerInv, Posts' = Posts, permits' = permits
  PROVE  PermitInv' /\ permits' \in 0..NumPermits
BY DEF TokenizerInv, TokenizerTypeOK, PermitInv, PermitsBalance, Posts

LEMMA PermitTaken ==
  ASSUME TokenizerAssumption, TokenizerInv, NEW k, k \notin Posts, permits > 0,
         Posts' = Posts \cup {k}, permits' = permits - 1
  PROVE  PermitInv' /\ permits' \in 0..NumPermits
<1>1. IsFiniteSet(Posts) /\ permits + Cardinality(Posts) = NumPermits /\ permits \in 0..NumPermits
  BY DEF TokenizerInv, TokenizerTypeOK, PermitInv, PermitsBalance, Posts
<1>2. Cardinality(Posts) \in Nat
  BY <1>1, FS_CardinalityType
<1>3. IsFiniteSet(Posts') /\ Cardinality(Posts') = Cardinality(Posts) + 1
  BY <1>1, FS_AddElement
<1>4. permits' + Cardinality(Posts') = NumPermits /\ permits' \in 0..NumPermits
  BY <1>1, <1>2, <1>3 DEF TokenizerAssumption
<1> QED BY <1>3, <1>4 DEF PermitInv, PermitsBalance, Posts

LEMMA PermitReturned ==
  ASSUME TokenizerAssumption, TokenizerInv, NEW k \in Posts,
         Posts' = Posts \ {k}, permits' = permits + 1
  PROVE  PermitInv' /\ permits' \in 0..NumPermits
<1>1. IsFiniteSet(Posts) /\ permits + Cardinality(Posts) = NumPermits /\ permits \in 0..NumPermits
  BY DEF TokenizerInv, TokenizerTypeOK, PermitInv, PermitsBalance, Posts
<1>2. Cardinality(Posts) \in Nat
  BY <1>1, FS_CardinalityType
<1>3. IsFiniteSet(Posts') /\ Cardinality(Posts') = Cardinality(Posts) - 1
  BY <1>1, FS_RemoveElement
<1>4. Cardinality(Posts') \in Nat
  BY <1>3, FS_CardinalityType
<1>5. permits' + Cardinality(Posts') = NumPermits /\ permits' \in 0..NumPermits
  BY <1>1, <1>2, <1>3, <1>4 DEF TokenizerAssumption
<1> QED BY <1>3, <1>5 DEF PermitInv, PermitsBalance, Posts

\* The end of an operation gives back the permit that it held.
LEMMA PermitAtEnd ==
  ASSUME TokenizerAssumption, TokenizerInv, NEW k \in Key,
         NEW result \in {"ok", "failed", "cancelled", "lost"}, Ends(k, result),
         permits' = Returned(k)
  PROVE  PermitInv' /\ permits' \in 0..NumPermits
<1>0. TokenizerTypeOK
  BY DEF TokenizerInv
<1>1. Posts' = Posts \ {k}
  BY <1>0, EndsEffect DEF Posts
<1>2. CASE op[k] = "post"
  <2>1. k \in Posts /\ permits' = permits + 1
    BY <1>2 DEF Posts, Returned
  <2> QED BY <1>1, <2>1, PermitReturned
<1>3. CASE op[k] # "post"
  <2>1. Posts' = Posts /\ permits' = permits
    BY <1>1, <1>3 DEF Posts, Returned
  <2> QED BY <2>1, PermitKept
<1> QED BY <1>2, <1>3
-----------------------------------------------------------------------------
(***************************************************************************)
(* The steps of an operation.                                              *)
(***************************************************************************)

\* An operation that has not been cancelled belongs to no released task.
LEMMA RunningIsLive ==
  ASSUME TokenizerAssumption, TokenizerInv, NEW k \in Key, Running(k), NEW t \in Task, k \in PrivateKeys(t)
  PROVE  release[t] = "live"
BY DEF Running, TokenizerInv, ReleaseInv

\* An operation that ends without a new entry in the caches.
LEMMA EndsWithoutStore ==
  ASSUME TokenizerAssumption, TokenizerInv, NEW k \in Key,
         NEW result \in {"failed", "cancelled", "lost"}, op[k] # "none", Ends(k, result),
         result \in {"cancelled", "lost"} =>
           /\ \A c \in Caller : ~(at[c] = "wait" /\ want[c] = k)
           /\ \A n \in Namespace : k = Seed(n) /\ op[Text(n)] = "seedwait" => Text(n) \in doomed,
         permits' = Returned(k),
         UNCHANGED <<phase, local, todo, seeds, texts, want, release, fetched>>
  PROVE  TokenizerInv'
<1>0. TokenizerTypeOK /\ FetchInv /\ ReleasedLeavesNothing /\ FetchedOnce /\ ReleaseInv
  BY DEF TokenizerInv
<1>1. WantInv' /\ PhaseInv' /\ ReleaseInv' /\ DoomedInv' /\ AnswerInv' /\ NoForeignCancellation'
  <2>1. \A n \in Namespace : k = Seed(n) /\ result = "ok" => n \in seeds'
    OBVIOUS
  <2> QED BY <2>1, EndsKeeps
<1>2. PermitInv' /\ permits' \in 0..NumPermits
  BY PermitAtEnd
<1>3. TokenizerTypeOK'
  BY <1>0, <1>2, EndsEffect DEF TokenizerTypeOK
<1>4. \A j \in Key : op'[j] # "none" => op[j] # "none"
  BY <1>0, EndsEffect DEF TokenizerTypeOK
<1>5. FetchInv' /\ FetchedOnce'
  BY <1>0, <1>4, KeyKinds DEF FetchInv, FetchedOnce
<1>6. ReleasedLeavesNothing'
  BY <1>0, <1>4, KeyKinds, PrivateMembers, Names DEF ReleasedLeavesNothing
<1> QED BY <1>1, <1>2, <1>3, <1>5, <1>6 DEF TokenizerInv

\* Nobody awaits a cancelled operation any more, and a text is cancelled with
\* its seed.
LEMMA NobodyAwaitsDoomed ==
  ASSUME TokenizerAssumption, TokenizerInv, NEW k \in doomed
  PROVE  \A c \in Caller : ~(at[c] = "wait" /\ want[c] = k)
<1>0. TokenizerTypeOK /\ WantInv /\ PhaseInv /\ ReleaseInv /\ DoomedInv
  BY DEF TokenizerInv
<1> SUFFICES ASSUME NEW c \in Caller, at[c] = "wait", want[c] = k PROVE FALSE
  OBVIOUS
<1>1. ~Stopped(c)
  BY DEF Stopped
<1>2. phase \notin {"closing", "closed", "failed", "discover", "seeds", "texts"}
  BY <1>0, <1>1 DEF PhaseInv
<1>3. phase = "run"
  BY <1>0, <1>2 DEF TokenizerTypeOK
<1>4. c \in Node
  BY <1>0, <1>1, <1>3, Names DEF PhaseInv
<1>5. k \in NodeKeys(c)
  BY <1>0, <1>1, <1>4 DEF WantInv
<1>6. k \in Key
  BY <1>0 DEF TokenizerTypeOK
<1>7. CASE \E d \in Node : k = Count(d)
  BY <1>0, <1>4, <1>5, <1>7, OwnKeys DEF DoomedInv
<1>8. CASE \E n \in Namespace : k = Seed(n) \/ k = Text(n)
  <2>1. PICK n \in Namespace : k = Seed(n) \/ k = Text(n)
    BY <1>8
  <2>2. n \in SharedNs \cup {TaskOf(c)}
    BY <1>4, <1>5, <2>1, OwnKeys
  <2>3. doomed \cap PrivateKeys(n) # {}
    BY <2>1, PrivateMembers
  <2>4. n \notin SharedNs
    BY <1>0, <1>3, <2>3 DEF DoomedInv
  <2>5. n \in Task /\ n = TaskOf(c)
    BY <1>4, <2>2, <2>4, Names
  <2>6. release[n] # "live"
    BY <1>0, <1>3, <2>3, <2>5 DEF DoomedInv
  <2> QED BY <1>0, <1>1, <1>4, <2>5, <2>6 DEF ReleaseInv
<1> QED BY <1>6, <1>7, <1>8, KeyKinds

LEMMA OpCancelledKeeps ==
  ASSUME TokenizerAssumption, TokenizerInv, NEW k \in Key, OpCancelled(k) PROVE TokenizerInv'
<1>1. /\ k \in doomed /\ permits' = Returned(k) /\ Ends(k, "cancelled")
      /\ UNCHANGED <<phase, local, todo, seeds, texts, want, release, fetched>>
  BY DEF OpCancelled
<1>2. op[k] # "none"
  BY <1>1 DEF TokenizerInv, DoomedInv
<1>3. \A c \in Caller : ~(at[c] = "wait" /\ want[c] = k)
  BY <1>1, NobodyAwaitsDoomed
<1>4. \A n \in Namespace : k = Seed(n) /\ op[Text(n)] = "seedwait" => Text(n) \in doomed
  BY <1>1 DEF TokenizerInv, DoomedInv
<1> QED BY <1>1, <1>2, <1>3, <1>4, EndsWithoutStore

LEMMA RejectedKeeps ==
  ASSUME TokenizerAssumption, TokenizerInv, NEW k \in Key, Rejected(k) PROVE TokenizerInv'
<1>1. /\ op[k] # "none" /\ Ends(k, "failed")
      /\ UNCHANGED <<phase, local, todo, seeds, texts, want, release, fetched>>
  BY DEF Rejected, Running
<1>2. permits' = Returned(k)
  BY DEF Rejected, Answered, Returned
<1> QED BY <1>1, <1>2, EndsWithoutStore

\* An operation that goes on: the caches, the callers and the answers stay.
LEMMA OpMoves ==
  ASSUME TokenizerAssumption, TokenizerInv, NEW k \in Key, op[k] # "none",
         NEW where \in {"want", "post", "sleep"}, op' = [op EXCEPT ![k] = where],
         PermitInv', permits' \in 0..NumPermits, tries' \in [Key -> 1..MaxAttempts],
         UNCHANGED <<phase, local, todo, seeds, texts, doomed, at, want, answer, release, fetched>>
  PROVE  TokenizerInv'
<1>0. /\ TokenizerTypeOK /\ WantInv /\ PhaseInv /\ ReleaseInv /\ DoomedInv /\ AnswerInv
      /\ FetchInv /\ NoForeignCancellation /\ ReleasedLeavesNothing /\ FetchedOnce
  BY DEF TokenizerInv
<1>1. op' \in [Key -> {"none", "seedwait", "seedready", "want", "post", "sleep"}]
  BY <1>0 DEF TokenizerTypeOK
<1>2. TokenizerTypeOK'
  BY <1>0, <1>1 DEF TokenizerTypeOK
<1>3. /\ \A j \in Key : op'[j] # "none" <=> op[j] # "none"
      /\ \A j \in Key : op'[j] \in {"seedwait", "seedready"} => op'[j] = op[j]
  BY <1>0 DEF TokenizerTypeOK
<1>4. WantInv' /\ PhaseInv' /\ NoForeignCancellation' /\ FetchedOnce'
  BY <1>0 DEF WantInv, PhaseInv, NoForeignCancellation, FetchedOnce, Stopped
<1>5. ReleaseInv' /\ ReleasedLeavesNothing'
  BY <1>0, <1>3, PrivateMembers, KeyKinds, Names DEF ReleaseInv, ReleasedLeavesNothing, Stopped
<1>6. DoomedInv'
  BY <1>0, <1>3, KeyKinds DEF DoomedInv, TokenizerTypeOK
<1>7. AnswerInv' /\ FetchInv'
  BY <1>0, <1>3, KeyKinds DEF AnswerInv, FetchInv
<1> QED BY <1>2, <1>4, <1>5, <1>6, <1>7 DEF TokenizerInv

LEMMA AcquireKeeps ==
  ASSUME TokenizerAssumption, TokenizerInv, NEW k \in Key, Acquire(k) PROVE TokenizerInv'
<1>0. TokenizerTypeOK
  BY DEF TokenizerInv
<1>1. /\ op[k] = "want" /\ permits > 0 /\ permits' = permits - 1 /\ op' = [op EXCEPT ![k] = "post"]
      /\ UNCHANGED <<phase, local, todo, seeds, texts, tries, doomed, at, want, answer, release, fetched>>
  BY DEF Acquire
<1>2. k \notin Posts /\ Posts' = Posts \cup {k}
  BY <1>0, <1>1 DEF Posts, TokenizerTypeOK
<1>3. PermitInv' /\ permits' \in 0..NumPermits
  BY <1>1, <1>2, PermitTaken
<1>4. tries' \in [Key -> 1..MaxAttempts]
  BY <1>0, <1>1 DEF TokenizerTypeOK
<1> QED BY <1>1, <1>3, <1>4, OpMoves

LEMMA BackoffEndsKeeps ==
  ASSUME TokenizerAssumption, TokenizerInv, NEW k \in Key, BackoffEnds(k) PROVE TokenizerInv'
<1>0. TokenizerTypeOK
  BY DEF TokenizerInv
<1>1. /\ op[k] = "sleep" /\ op' = [op EXCEPT ![k] = "want"]
      /\ UNCHANGED <<phase, local, todo, seeds, texts, tries, doomed, permits, at, want, answer, release,
                     fetched>>
  BY DEF BackoffEnds
<1>2. Posts' = Posts
  BY <1>0, <1>1 DEF Posts, TokenizerTypeOK
<1>3. PermitInv' /\ permits' \in 0..NumPermits
  BY <1>1, <1>2, PermitKept
<1>4. tries' \in [Key -> 1..MaxAttempts]
  BY <1>0, <1>1 DEF TokenizerTypeOK
<1> QED BY <1>1, <1>3, <1>4, OpMoves

LEMMA TransportFailsKeeps ==
  ASSUME TokenizerAssumption, TokenizerInv, NEW k \in Key, TransportFails(k) PROVE TokenizerInv'
<1>0. TokenizerTypeOK
  BY DEF TokenizerInv
<1>1. /\ op[k] = "post" /\ permits' = permits + 1
      /\ UNCHANGED <<phase, local, todo, seeds, texts, want, release, fetched>>
  BY DEF TransportFails
<1>2. CASE tries[k] = MaxAttempts
  <2>1. Ends(k, "failed")
    BY <1>2 DEF TransportFails
  <2>2. permits' = Returned(k)
    BY <1>1 DEF Returned
  <2> QED BY <1>1, <2>1, <2>2, EndsWithoutStore
<1>3. CASE tries[k] # MaxAttempts
  <2>1. /\ op' = [op EXCEPT ![k] = "sleep"] /\ tries' = [tries EXCEPT ![k] = @ + 1]
        /\ UNCHANGED <<at, answer, doomed>>
    BY <1>3 DEF TransportFails
  <2>2. k \in Posts /\ Posts' = Posts \ {k}
    BY <1>0, <1>1, <2>1 DEF Posts, TokenizerTypeOK
  <2>3. PermitInv' /\ permits' \in 0..NumPermits
    BY <1>1, <2>2, PermitReturned
  <2>4. tries' \in [Key -> 1..MaxAttempts]
    BY <1>0, <1>3, <2>1 DEF TokenizerTypeOK, TokenizerAssumption
  <2> QED BY <1>1, <2>1, <2>3, <2>4, OpMoves
<1> QED BY <1>2, <1>3

\* The seed of a text operation that was not cancelled has ended with an answer,
\* and is still there when the text operation goes on: it is never lost.
LEMMA SeedArrivedKeeps ==
  ASSUME TokenizerAssumption, TokenizerInv, NEW k \in Key, SeedArrived(k) PROVE TokenizerInv'
<1>0. TokenizerTypeOK /\ WantInv /\ AnswerInv /\ DoomedInv
  BY DEF TokenizerInv
<1>1. /\ op[k] = "seedready" /\ k \notin doomed
      /\ UNCHANGED <<phase, local, todo, seeds, texts, permits, want, release, fetched>>
  BY DEF SeedArrived, Running
<1>2. permits' = Returned(k)
  BY <1>1 DEF Returned
<1>3. (\E n \in Namespace : k = Text(n)) => answer[k] \in {"ok", "failed"} /\ (answer[k] = "ok" => k[2] \in seeds)
  BY <1>0, <1>1, KeyParts DEF AnswerInv
<1>4. CASE \E n \in Namespace : k = Text(n)
  <2>1. CASE answer[k] = "failed"
    <3>1. Ends(k, "failed")
      BY <2>1 DEF SeedArrived
    <3> QED BY <1>1, <1>2, <3>1, EndsWithoutStore
  <2>2. CASE answer[k] = "ok" /\ k[2] \in seeds
    <3>1. op' = [op EXCEPT ![k] = "want"] /\ UNCHANGED <<at, answer, doomed, tries>>
      BY <2>2 DEF SeedArrived
    <3>2. Posts' = Posts
      BY <1>0, <1>1, <3>1 DEF Posts, TokenizerTypeOK
    <3>3. PermitInv' /\ permits' \in 0..NumPermits
      BY <1>1, <3>2, PermitKept
    <3>4. tries' \in [Key -> 1..MaxAttempts]
      BY <1>0, <3>1 DEF TokenizerTypeOK
    <3> QED BY <1>1, <3>1, <3>3, <3>4, OpMoves
  <2> QED BY <1>3, <1>4, <2>1, <2>2
<1> QED BY <1>0, <1>1, <1>4 DEF AnswerInv

\* A successful answer is stored before anyone is woken.  A released task never
\* gets here: its operations are cancelled.
LEMMA SucceedsKeeps ==
  ASSUME TokenizerAssumption, TokenizerInv, NEW k \in Key, Succeeds(k) PROVE TokenizerInv'
<1>0. TokenizerTypeOK /\ FetchInv /\ ReleasedLeavesNothing /\ FetchedOnce
  BY DEF TokenizerInv
<1>1. /\ op[k] # "none" /\ Running(k) /\ Store(k) /\ Ends(k, "ok")
      /\ UNCHANGED <<phase, local, todo, want, release>>
  BY DEF Succeeds, Running
<1>2. permits' = Returned(k)
  BY DEF Succeeds, Answered, Returned
<1>3. /\ \A n \in Namespace : k = Seed(n) =>
           /\ seeds' = seeds \cup {n} /\ texts' = texts
           /\ fetched' = [fetched EXCEPT ![n] = @ + 1]
      /\ \A n \in Namespace : k = Text(n) =>
           texts' = texts \cup {n} /\ UNCHANGED <<seeds, fetched>>
      /\ \A c \in Node : k = Count(c) => UNCHANGED <<seeds, texts, fetched>>
  BY <1>1, KeyParts DEF Store
<1>4. seeds \subseteq seeds' /\ \A n \in Namespace : k = Seed(n) => n \in seeds'
  BY <1>3, KeyKinds
<1>5. WantInv' /\ PhaseInv' /\ ReleaseInv' /\ DoomedInv' /\ AnswerInv' /\ NoForeignCancellation'
  BY <1>1, <1>4, EndsKeeps
<1>6. PermitInv' /\ permits' \in 0..NumPermits
  BY <1>1, <1>2, PermitAtEnd
<1>7. seeds' \subseteq Namespace /\ texts' \subseteq Namespace /\ fetched' \in [Namespace -> Nat]
  BY <1>0, <1>3, KeyKinds DEF TokenizerTypeOK
<1>8. TokenizerTypeOK'
  BY <1>0, <1>1, <1>6, <1>7, EndsEffect DEF TokenizerTypeOK
<1>9. \A j \in Key : op'[j] # "none" => op[j] # "none" /\ j # k
  BY <1>0, <1>1, EndsEffect DEF TokenizerTypeOK
<1>10. FetchInv' /\ FetchedOnce'
  <2> SUFFICES ASSUME NEW m \in Namespace
               PROVE  /\ op'[Seed(m)] # "none" => fetched'[m] = 0 /\ m \notin seeds'
                      /\ fetched'[m] # 0 => m \in seeds' \/ (m \in Task /\ release'[m] = "released")
                      /\ fetched'[m] <= 1
    BY DEF FetchInv, FetchedOnce
  <2>1. CASE k = Seed(m)
    <3>1. fetched[m] = 0 /\ m \notin seeds
      BY <1>0, <1>1, <2>1 DEF FetchInv
    <3>2. op'[Seed(m)] = "none" /\ fetched'[m] = 1 /\ m \in seeds'
      BY <1>0, <1>1, <1>3, <2>1, <3>1, EndsEffect DEF TokenizerTypeOK
    <3> QED BY <3>2
  <2>2. CASE k # Seed(m)
    <3>1. fetched'[m] = fetched[m] /\ (m \in seeds' <=> m \in seeds)
      BY <1>0, <1>3, <2>2, KeyKinds DEF TokenizerTypeOK
    <3>2. op'[Seed(m)] # "none" => op[Seed(m)] # "none"
      BY <1>9, KeyKinds
    <3> QED BY <1>0, <1>1, <3>1, <3>2 DEF FetchInv, FetchedOnce, TokenizerTypeOK
  <2> QED BY <2>1, <2>2
<1>11. ReleasedLeavesNothing'
  <2> SUFFICES ASSUME NEW t \in Task, release[t] = "released"
               PROVE  t \notin seeds' \cup texts' /\ \A j \in PrivateKeys(t) : op'[j] = "none"
    BY <1>1 DEF ReleasedLeavesNothing
  <2>1. k \notin PrivateKeys(t)
    BY <1>1, RunningIsLive
  <2>2. t \notin seeds \cup texts /\ \A j \in PrivateKeys(t) : op[j] = "none"
    BY <1>0 DEF ReleasedLeavesNothing
  <2>3. t \notin seeds' \cup texts'
    BY <1>3, <2>1, <2>2, KeyKinds, PrivateMembers
  <2> QED BY <1>9, <2>2, <2>3, PrivateMembers, KeyKinds, Names
<1> QED BY <1>5, <1>6, <1>8, <1>10, <1>11 DEF TokenizerInv

\* Every step of an operation.
LEMMA OpStepKeeps ==
  ASSUME TokenizerAssumption, TokenizerInv, NEW k \in Key, OpStep(k) PROVE TokenizerInv'
BY SeedArrivedKeeps, AcquireKeeps, SucceedsKeeps, RejectedKeeps, TransportFailsKeeps, BackoffEndsKeeps,
  OpCancelledKeeps DEF OpStep
-----------------------------------------------------------------------------
(***************************************************************************)
(* The steps of a caller.                                                  *)
(***************************************************************************)

\* A call of a coroutine that may ask for the key: whoever asks runs in a phase
\* in which the key is not cancelled, and for a task that is not released.
LEMMA CallKeeps ==
  ASSUME TokenizerAssumption, TokenizerInv, NEW c \in Caller, NEW k \in Key, Call(c, k),
         at[c] \in {"idle", "ok"}, todo' \subseteq KeysOf(PreparedNs),
         c \in Node => k \in NodeKeys(c) /\ phase = "run" /\ at[c] = "idle",
         c \in Worker => k \in KeysOf(PreparedNs) /\ phase \in {"seeds", "texts"}
  PROVE  TokenizerInv'
<1>0. /\ TokenizerTypeOK /\ WantInv /\ PhaseInv /\ ReleaseInv /\ DoomedInv /\ AnswerInv
      /\ FetchInv /\ PermitInv /\ NoForeignCancellation /\ ReleasedLeavesNothing /\ FetchedOnce
  BY DEF TokenizerInv
<1>1. UNCHANGED <<phase, local, seeds, texts, doomed, permits, answer, release, fetched>>
  BY DEF Call
<1>2. want' = [want EXCEPT ![c] = k]
  BY DEF Call
<1>3. at' = [at EXCEPT ![c] = IF Cached(k) THEN "ok" ELSE "wait"]
  BY DEF Call
<1>4. \A n \in Namespace : k = Seed(n) \/ k = Text(n) =>
        /\ n \in Task => release[n] = "live"
        /\ doomed \cap PrivateKeys(n) = {}
  <2> SUFFICES ASSUME NEW n \in Namespace, k = Seed(n) \/ k = Text(n)
               PROVE  (n \in Task => release[n] = "live") /\ doomed \cap PrivateKeys(n) = {}
    OBVIOUS
  <2>1. CASE c \in Worker
    BY <1>0, <2>1 DEF PhaseInv
  <2>2. CASE c \in Node
    <3>1. n \in SharedNs \/ n = TaskOf(c)
      BY <2>2, OwnKeys
    <3>2. TaskOf(c) \in Task /\ release[TaskOf(c)] = "live"
      BY <1>0, <2>2, Names DEF ReleaseInv
    <3>3. n \in Task => release[n] = "live"
      BY <3>1, <3>2, Names
    <3> QED BY <1>0, <2>2, <3>1, <3>2, <3>3 DEF DoomedInv
  <2> QED BY <2>1, <2>2, Names
<1>5. /\ op' \in [Key -> {"none", "seedwait", "seedready", "want", "post", "sleep"}]
      /\ tries' \in [Key -> 1..MaxAttempts]
      /\ \A j \in Key : op'[j] = op[j] \/ (op[j] = "none" /\ op'[j] \in {"seedwait", "want"})
      /\ \A j \in Key : op'[j] = "seedwait" /\ op[j] # "seedwait" => j[1] = "text"
      /\ \A j \in Key : op'[j] # op[j] =>
           \/ j = k /\ ~Cached(k)
           \/ \E n \in Namespace : k = Text(n) /\ j = Seed(n) /\ n \notin seeds
  <2>1. CASE Cached(k)
    <3>1. op' = op /\ tries' = tries
      BY <2>1 DEF Call
    <3> QED BY <1>0, <3>1 DEF TokenizerTypeOK
  <2>2. CASE ~Cached(k)
    <3> DEFINE new == {j \in {k} \cup (IF FirstStep(k) = "seedwait" THEN {Seed(k[2])} ELSE {}) :
                         op[k] = "none" /\ op[j] = "none"}
    <3>1. /\ op' = [j \in Key |-> IF j \in new THEN FirstStep(j) ELSE op[j]]
          /\ tries' = [j \in Key |-> IF j \in new THEN 1 ELSE tries[j]]
      BY <2>2 DEF Call, Shared
    <3>2. \A j : FirstStep(j) \in {"seedwait", "want"} /\ (FirstStep(j) = "seedwait" => j[1] = "text" /\ j[2] \notin seeds)
      BY DEF FirstStep
    <3>3. \A j \in new : op[j] = "none" /\ (j = k \/ \E n \in Namespace : k = Text(n) /\ j = Seed(n) /\ n \notin seeds)
      <4> SUFFICES ASSUME NEW j \in new, j # k
                   PROVE  \E n \in Namespace : k = Text(n) /\ j = Seed(n) /\ n \notin seeds
        OBVIOUS
      <4>1. FirstStep(k) = "seedwait" /\ j = Seed(k[2])
        OBVIOUS
      <4>2. k[1] = "text" /\ k[2] \notin seeds
        BY <4>1, <3>2
      <4>3. PICK n \in Namespace : k = Text(n)
        BY <4>2, KeyKinds, KeyParts
      <4> QED BY <4>1, <4>2, <4>3, KeyParts
    <3> HIDE DEF new
    <3>4. op' \in [Key -> {"none", "seedwait", "seedready", "want", "post", "sleep"}]
      BY <1>0, <3>1, <3>2 DEF TokenizerTypeOK
    <3>5. tries' \in [Key -> 1..MaxAttempts]
      BY <1>0, <3>1 DEF TokenizerTypeOK, TokenizerAssumption
    <3>6. \A j \in Key : op'[j] = op[j] \/ (op[j] = "none" /\ op'[j] \in {"seedwait", "want"})
      BY <3>1, <3>2, <3>3
    <3>7. \A j \in Key : op'[j] = "seedwait" /\ op[j] # "seedwait" => j[1] = "text"
      BY <3>1, <3>2
    <3>8. \A j \in Key : op'[j] # op[j] => j \in new
      BY <3>1
    <3> QED BY <2>2, <3>3, <3>4, <3>5, <3>6, <3>7, <3>8
  <2> QED BY <2>1, <2>2
<1>6. TokenizerTypeOK'
  <2>1. at' \in [Caller -> {"idle", "wait", "ready", "ok", "failed", "cancelled", "broken"}]
    BY <1>0, <1>3 DEF TokenizerTypeOK
  <2>2. todo' \subseteq Key
    BY OwnKeys
  <2> QED BY <1>0, <1>1, <1>5, <2>1, <2>2 DEF TokenizerTypeOK
<1>7. PermitInv'
  <2>1. Posts' = Posts
    BY <1>0, <1>5 DEF Posts
  <2> QED BY <1>1, <2>1, PermitKept
<1>8. \A d \in Caller : d # c => at'[d] = at[d] /\ want'[d] = want[d] /\ (Stopped(d)' <=> Stopped(d))
  BY <1>0, <1>2, <1>3 DEF TokenizerTypeOK, WantInv, Stopped
<1>9. at'[c] \in {"ok", "wait"} /\ want'[c] = k
  BY <1>0, <1>2, <1>3 DEF TokenizerTypeOK, WantInv
<1>10. WantInv'
  <2>1. want' \in [Caller -> Key \cup {None}]
    BY <1>0, <1>2 DEF WantInv
  <2>2. \A d \in Node : ~Stopped(d)' => want'[d] \in NodeKeys(d)
    BY <1>0, <1>8, <1>9, Names DEF WantInv
  <2>3. \A d \in Worker : ~Stopped(d)' => want'[d] \in KeysOf(PreparedNs)
    BY <1>0, <1>8, <1>9, Names DEF WantInv
  <2> QED BY <2>1, <2>2, <2>3 DEF WantInv
<1>11. PhaseInv'
  BY <1>0, <1>1, <1>8, <1>9, Names DEF PhaseInv
<1>12. ReleaseInv'
  <2> SUFFICES ASSUME NEW t \in Task, release[t] # "live"
               PROVE  /\ \A d \in Node : TaskOf(d) = t => Stopped(d)' /\ at'[d] # "idle"
                      /\ \A j \in PrivateKeys(t) : op'[j] # "none" => j \in doomed
    BY <1>1 DEF ReleaseInv
  <2>1. c \in Node => TaskOf(c) # t
    BY <1>0 DEF ReleaseInv
  <2>2. \A d \in Node : TaskOf(d) = t => Stopped(d)' /\ at'[d] # "idle"
    BY <1>0, <1>8, <2>1, Names DEF ReleaseInv
  <2>3. k # Seed(t) /\ k # Text(t)
    BY <1>4, Names
  <2>4. \A j \in PrivateKeys(t) : op'[j] = op[j]
    BY <1>5, <2>3, PrivateMembers, KeysDiffer, KeyKinds, Names
  <2> QED BY <1>0, <2>2, <2>4 DEF ReleaseInv
<1>13. DoomedInv'
  <2>1. \A j \in doomed' : op'[j] # "none"
    BY <1>0, <1>1, <1>5 DEF DoomedInv, TokenizerTypeOK
  <2>2. \A d \in Node : Count(d) \in doomed' => at'[d] = "cancelled"
    BY <1>0, <1>1, <1>8, Names DEF DoomedInv
  <2>3. \A n \in Namespace : Seed(n) \in doomed' /\ op'[Text(n)] # "none" => Text(n) \in doomed'
    <3> SUFFICES ASSUME NEW n \in Namespace, Seed(n) \in doomed, op'[Text(n)] # "none"
                 PROVE  Text(n) \in doomed
      BY <1>1
    <3>1. k # Text(n)
      BY <1>4, PrivateMembers
    <3>2. op'[Text(n)] = op[Text(n)]
      BY <1>5, <3>1, KeyKinds, KeysDiffer
    <3> QED BY <1>0, <3>2 DEF DoomedInv
  <2> QED BY <1>0, <1>1, <2>1, <2>2, <2>3 DEF DoomedInv
<1>14. AnswerInv'
  <2>1. \A j \in Key : op'[j] \in {"seedwait", "seedready"} => \E n \in Namespace : j = Text(n)
    BY <1>0, <1>5, KeyKinds, KeyParts DEF AnswerInv
  <2>2. \A d \in Caller : at'[d] = "ready" =>
          /\ answer'[d] \in {"ok", "failed"}
          /\ \A n \in Namespace : answer'[d] = "ok" /\ want'[d] = Seed(n) => n \in seeds'
    BY <1>0, <1>1, <1>8, <1>9 DEF AnswerInv
  <2>3. \A n \in Namespace : op'[Text(n)] = "seedready" => op[Text(n)] = "seedready"
    BY <1>5, KeyKinds
  <2>4. \A n \in Namespace : op'[Text(n)] = "seedready" /\ Text(n) \notin doomed' =>
          /\ answer'[Text(n)] \in {"ok", "failed"}
          /\ answer'[Text(n)] = "ok" => n \in seeds'
    BY <1>0, <1>1, <2>3 DEF AnswerInv
  <2> QED BY <2>1, <2>2, <2>4 DEF AnswerInv
<1>15. FetchInv' /\ FetchedOnce'
  <2>1. \A n \in Namespace : op'[Seed(n)] # "none" => fetched[n] = 0 /\ n \notin seeds
    <3> SUFFICES ASSUME NEW n \in Namespace, op'[Seed(n)] # "none", op[Seed(n)] = "none"
                 PROVE  fetched[n] = 0 /\ n \notin seeds
      BY <1>0 DEF FetchInv
    <3>1. (k = Seed(n) /\ ~Cached(k)) \/ (k = Text(n) /\ n \notin seeds)
      BY <1>5, KeyKinds, KeysDiffer
    <3>2. n \notin seeds
      BY <3>1, KeyParts DEF Cached
    <3> QED BY <1>0, <1>4, <3>1, <3>2 DEF FetchInv
  <2> QED BY <1>0, <1>1, <2>1 DEF FetchInv, FetchedOnce
<1>16. NoForeignCancellation'
  BY <1>0, <1>8, <1>9 DEF NoForeignCancellation
<1>17. ReleasedLeavesNothing'
  <2> SUFFICES ASSUME NEW t \in Task, release[t] = "released"
               PROVE  t \notin seeds \cup texts /\ \A j \in PrivateKeys(t) : op'[j] = "none"
    BY <1>1 DEF ReleasedLeavesNothing
  <2>1. k # Seed(t) /\ k # Text(t)
    BY <1>4, Names
  <2>2. \A j \in PrivateKeys(t) : op'[j] = op[j]
    BY <1>5, <2>1, PrivateMembers, KeysDiffer, KeyKinds, Names
  <2> QED BY <1>0, <2>2 DEF ReleasedLeavesNothing
<1> QED BY <1>6, <1>7, <1>10, <1>11, <1>12, <1>13, <1>14, <1>15, <1>16, <1>17 DEF TokenizerInv

LEMMA NodeCallsKeeps ==
  ASSUME TokenizerAssumption, TokenizerInv, NEW c \in Node, NodeCalls(c) PROVE TokenizerInv'
<1>1. PICK k \in NodeKeys(c) : Call(c, k)
  BY DEF NodeCalls, NodeKeys
<1>2. phase = "run" /\ at[c] = "idle" /\ todo' = todo
  BY DEF NodeCalls
<1>3. k \in Key /\ c \in Caller /\ c \notin Worker
  BY OwnKeys, Names
<1>4. todo' \subseteq KeysOf(PreparedNs)
  BY <1>2 DEF TokenizerInv, WantInv
<1> QED BY <1>1, <1>2, <1>3, <1>4, CallKeeps

LEMMA WorkerCallsKeeps ==
  ASSUME TokenizerAssumption, TokenizerInv, NEW w \in Worker, WorkerCalls(w) PROVE TokenizerInv'
<1>0. todo \subseteq KeysOf(PreparedNs)
  BY DEF TokenizerInv, WantInv
<1>1. PICK k \in todo : Call(w, k) /\ todo' = todo \ {k}
  BY DEF WorkerCalls
<1>2. phase \in {"seeds", "texts"} /\ at[w] \in {"idle", "ok"}
  BY DEF WorkerCalls
<1>3. k \in KeysOf(PreparedNs) /\ k \in Key /\ w \in Caller /\ w \notin Node
  BY <1>0, OwnKeys, Names
<1>4. todo' \subseteq KeysOf(PreparedNs)
  BY <1>0, <1>1
<1> QED BY <1>1, <1>2, <1>3, <1>4, CallKeeps

\* The coroutine that goes on finds an answer that was not cancelled, and its
\* seed where the operation put it.
LEMMA ResumeKeeps ==
  ASSUME TokenizerAssumption, TokenizerInv, NEW c \in Caller, Resume(c) PROVE TokenizerInv'
<1>0. /\ TokenizerTypeOK /\ WantInv /\ PhaseInv /\ ReleaseInv /\ DoomedInv /\ AnswerInv
      /\ FetchInv /\ PermitInv /\ NoForeignCancellation /\ ReleasedLeavesNothing /\ FetchedOnce
  BY DEF TokenizerInv
<1>1. /\ at[c] = "ready" /\ answer' = [answer EXCEPT ![c] = "none"]
      /\ UNCHANGED <<phase, local, todo, seeds, op, tries, doomed, permits, want, release, fetched>>
  BY DEF Resume
<1>2. answer[c] \in {"ok", "failed"}
  BY <1>0, <1>1 DEF AnswerInv
<1>3. ~Stopped(c)
  BY <1>1 DEF Stopped
<1>4. want[c] \in Key
  BY <1>0, <1>3, Names, OwnKeys DEF WantInv
<1>5. answer[c] = "ok" /\ want[c][1] = "seed" => want[c][2] \in seeds
  BY <1>0, <1>1, <1>4, KeyKinds, KeyParts DEF AnswerInv
<1>6. PICK end \in {"ok", "failed"} : at' = [at EXCEPT ![c] = end]
  <2>1. CASE answer[c] = "failed"
    BY <2>1 DEF Resume
  <2>2. CASE answer[c] = "ok"
    <3>1. at' = [at EXCEPT ![c] = IF want[c][1] = "seed" /\ want[c][2] \notin seeds THEN "broken" ELSE "ok"]
      BY <2>2 DEF Resume
    <3> QED BY <1>5, <2>2, <3>1
  <2> QED BY <1>2, <2>1, <2>2
<1>7. texts \subseteq texts' /\ \A n \in texts' \ texts : n \in Namespace /\ want[c] = Text(n)
  <2>1. texts' = IF answer[c] = "ok" /\ want[c][1] = "text" THEN texts \cup {want[c][2]} ELSE texts
    BY DEF Resume
  <2>2. want[c][1] = "text" => \E n \in Namespace : want[c] = Text(n) /\ n = want[c][2]
    BY <1>4, KeyKinds, KeyParts
  <2> QED BY <2>1, <2>2
<1>8. TokenizerTypeOK'
  <2>1. at' \in [Caller -> {"idle", "wait", "ready", "ok", "failed", "cancelled", "broken"}]
    BY <1>0, <1>6 DEF TokenizerTypeOK
  <2>2. answer' \in [Caller \cup Key -> {"none", "ok", "failed", "cancelled", "lost"}]
    BY <1>0, <1>1 DEF TokenizerTypeOK
  <2>3. texts' \subseteq Namespace
    BY <1>0, <1>7 DEF TokenizerTypeOK
  <2> QED BY <1>0, <1>1, <2>1, <2>2, <2>3 DEF TokenizerTypeOK
<1>9. /\ \A d \in Caller : d # c => at'[d] = at[d] /\ answer'[d] = answer[d]
      /\ at'[c] \in {"ok", "failed"}
      /\ \A k \in Key : answer'[k] = answer[k]
  BY <1>0, <1>1, <1>6, Names DEF TokenizerTypeOK
<1>10. \A d \in Caller : (Stopped(d) => Stopped(d)' /\ at'[d] = at[d]) /\ (at'[d] = "idle" => at[d] = "idle")
  BY <1>1, <1>9 DEF Stopped
<1>11. WantInv' /\ PhaseInv'
  BY <1>0, <1>1, <1>3, <1>10, Names DEF WantInv, PhaseInv, Stopped
<1>12. ReleaseInv'
  BY <1>0, <1>1, <1>10, Names DEF ReleaseInv
<1>13. DoomedInv'
  BY <1>0, <1>1, <1>3, <1>10, Names DEF DoomedInv, Stopped
<1>14. AnswerInv'
  BY <1>0, <1>1, <1>9, KeyKinds DEF AnswerInv
<1>15. FetchInv' /\ FetchedOnce'
  BY <1>0, <1>1 DEF FetchInv, FetchedOnce
<1>16. PermitInv'
  BY <1>1, PermitKept DEF Posts
<1>17. NoForeignCancellation'
  BY <1>0, <1>9 DEF NoForeignCancellation
<1>18. ReleasedLeavesNothing'
  <2> SUFFICES ASSUME NEW t \in Task, release[t] = "released"
               PROVE  t \notin seeds \cup texts' /\ \A j \in PrivateKeys(t) : op[j] = "none"
    BY <1>1 DEF ReleasedLeavesNothing
  <2>1. want[c] # Text(t)
    <3>1. CASE c \in Node
      BY <1>0, <1>3, <3>1, OwnKeys, Names DEF WantInv, ReleaseInv
    <3>2. CASE c \in Worker
      BY <1>0, <1>3, <3>2, OwnKeys, Names DEF WantInv
    <3> QED BY <3>1, <3>2, Names
  <2> QED BY <1>0, <1>7, <2>1 DEF ReleasedLeavesNothing
<1> QED BY <1>8, <1>11, <1>12, <1>13, <1>14, <1>15, <1>16, <1>17, <1>18 DEF TokenizerInv

\* Every step of a caller.
LEMMA CallStepKeeps ==
  ASSUME TokenizerAssumption, TokenizerInv, NEW c \in Caller, CallStep(c) PROVE TokenizerInv'
BY ResumeKeeps, NodeCallsKeeps, WorkerCallsKeeps DEF CallStep
-----------------------------------------------------------------------------
(***************************************************************************)
(* Cancellation, release, preparation and close.                           *)
(***************************************************************************)

\* The shield: only a count, which nobody else awaits, is cancelled with the
\* coroutine that asked for it.
LEMMA NodeCancelledKeeps ==
  ASSUME TokenizerAssumption, TokenizerInv, NEW c \in Node, NodeCancelled(c) PROVE TokenizerInv'
<1>0. /\ TokenizerTypeOK /\ WantInv /\ PhaseInv /\ ReleaseInv /\ DoomedInv /\ AnswerInv
      /\ FetchInv /\ PermitInv /\ NoForeignCancellation /\ ReleasedLeavesNothing /\ FetchedOnce
  BY DEF TokenizerInv
<1>1. /\ at[c] \in {"wait", "ready"} /\ at' = [at EXCEPT ![c] = "cancelled"]
      /\ doomed' = doomed \cup {k \in CancelledWith(c) : op[k] # "none"}
      /\ UNCHANGED <<phase, local, todo, seeds, texts, op, tries, permits, want, answer, release, fetched>>
  BY DEF NodeCancelled, Cancel
<1>2. doomed \subseteq doomed' /\ \A k \in doomed' \ doomed : k = Count(c) /\ op[k] # "none"
  BY <1>1 DEF CancelledWith
<1>3. c \in Caller /\ ~Stopped(c)
  BY <1>1, Names DEF Stopped
<1>4. /\ at'[c] = "cancelled" /\ Stopped(c)'
      /\ \A d \in Caller : d # c => at'[d] = at[d] /\ (Stopped(d)' <=> Stopped(d))
  BY <1>0, <1>1, <1>3 DEF TokenizerTypeOK, Stopped
<1>5. phase = "run"
  BY <1>0, <1>1, <1>3 DEF PhaseInv, TokenizerTypeOK
<1>6. TokenizerTypeOK'
  <2>1. at' \in [Caller -> {"idle", "wait", "ready", "ok", "failed", "cancelled", "broken"}]
    BY <1>0, <1>1 DEF TokenizerTypeOK
  <2>2. doomed' \subseteq Key
    BY <1>0, <1>2, KeyKinds DEF TokenizerTypeOK
  <2> QED BY <1>0, <1>1, <2>1, <2>2 DEF TokenizerTypeOK
<1>7. WantInv'
  BY <1>0, <1>1, <1>4, Names DEF WantInv
<1>8. PhaseInv'
  BY <1>0, <1>1, <1>4, <1>5, Names DEF PhaseInv
<1>9. ReleaseInv'
  BY <1>0, <1>1, <1>2, <1>4, Names DEF ReleaseInv
<1>10. \A n : doomed' \cap PrivateKeys(n) = doomed \cap PrivateKeys(n)
  BY <1>2, PrivateMembers, KeysDiffer
<1>11. DoomedInv'
  <2>1. \A k \in doomed' : op'[k] # "none"
    BY <1>0, <1>1, <1>2 DEF DoomedInv
  <2>2. \A d \in Node : Count(d) \in doomed' => at'[d] = "cancelled"
    BY <1>0, <1>2, <1>4, KeysDiffer, Names DEF DoomedInv
  <2>3. \A n \in Namespace : Seed(n) \in doomed' /\ op'[Text(n)] # "none" => Text(n) \in doomed'
    BY <1>0, <1>1, <1>2, KeysDiffer DEF DoomedInv
  <2> QED BY <1>0, <1>1, <1>10, <2>1, <2>2, <2>3 DEF DoomedInv
<1>12. AnswerInv'
  BY <1>0, <1>1, <1>2, <1>4 DEF AnswerInv
<1>13. FetchInv' /\ FetchedOnce'
  BY <1>0, <1>1 DEF FetchInv, FetchedOnce
<1>14. PermitInv'
  BY <1>1, PermitKept DEF Posts
<1>15. NoForeignCancellation' /\ ReleasedLeavesNothing'
  BY <1>0, <1>1, <1>4 DEF NoForeignCancellation, ReleasedLeavesNothing
<1> QED BY <1>6, <1>7, <1>8, <1>9, <1>11, <1>12, <1>13, <1>14, <1>15 DEF TokenizerInv

\* A stage of the preparation begins or ends, or the client has closed: nobody
\* moves and nothing is cancelled.
LEMMA PhaseMoves ==
  ASSUME TokenizerAssumption, TokenizerInv,
         phase' \in {"discover", "seeds", "texts", "run", "failed", "closing", "closed"},
         local' \in BOOLEAN, todo' \subseteq KeysOf(PreparedNs), PhaseInv',
         doomed = {} \/ (phase \in {"closing", "closed"} /\ phase' \in {"closing", "closed"}),
         UNCHANGED <<seeds, texts, op, tries, doomed, permits, at, want, answer, release, fetched>>
  PROVE  TokenizerInv'
<1>0. /\ TokenizerTypeOK /\ WantInv /\ PhaseInv /\ ReleaseInv /\ DoomedInv /\ AnswerInv
      /\ FetchInv /\ PermitInv /\ NoForeignCancellation /\ ReleasedLeavesNothing /\ FetchedOnce
  BY DEF TokenizerInv
<1>1. TokenizerTypeOK'
  BY <1>0, OwnKeys DEF TokenizerTypeOK
<1>2. WantInv' /\ ReleaseInv'
  BY <1>0 DEF WantInv, ReleaseInv, Stopped
<1>3. DoomedInv'
  BY <1>0 DEF DoomedInv
<1>4. AnswerInv' /\ FetchInv' /\ FetchedOnce' /\ NoForeignCancellation' /\ ReleasedLeavesNothing'
  BY <1>0 DEF AnswerInv, FetchInv, FetchedOnce, NoForeignCancellation, ReleasedLeavesNothing
<1>5. PermitInv'
  BY PermitKept DEF Posts
<1> QED BY <1>1, <1>2, <1>3, <1>4, <1>5 DEF TokenizerInv

LEMMA DiscoverKeeps == ASSUME TokenizerAssumption, TokenizerInv, Discover PROVE TokenizerInv'
<1>0. PhaseInv
  BY DEF TokenizerInv
<1>1. /\ phase = "discover" /\ phase' = "seeds" /\ local' \in BOOLEAN
      /\ UNCHANGED <<seeds, texts, op, tries, doomed, permits, at, want, answer, release, fetched>>
  BY DEF Discover
<1>2. todo' \subseteq KeysOf(PreparedNs)
  BY DEF Discover, KeysOf
<1>3. PhaseInv' /\ doomed = {}
  BY <1>0, <1>1 DEF PhaseInv
<1> QED BY <1>1, <1>2, <1>3, PhaseMoves

LEMMA PreparedKeeps == ASSUME TokenizerAssumption, TokenizerInv, Prepared PROVE TokenizerInv'
<1>0. PhaseInv /\ TokenizerTypeOK /\ WantInv
  BY DEF TokenizerInv
<1>1. /\ phase \in {"seeds", "texts"} /\ phase' \in {"texts", "run"}
      /\ \A w \in Worker : at[w] \in {"idle", "ok"}
      /\ UNCHANGED <<local, seeds, texts, op, tries, doomed, permits, at, want, answer, release, fetched>>
  BY DEF Prepared
<1>2. todo' \subseteq KeysOf(PreparedNs)
  BY <1>0 DEF Prepared, KeysOf, WantInv
<1>3. PhaseInv' /\ doomed = {}
  BY <1>0, <1>1 DEF PhaseInv, Stopped
<1>4. local' \in BOOLEAN
  BY <1>0, <1>1 DEF TokenizerTypeOK
<1> QED BY <1>1, <1>2, <1>3, <1>4, PhaseMoves

LEMMA ClosedKeeps == ASSUME TokenizerAssumption, TokenizerInv, Closed PROVE TokenizerInv'
<1>0. PhaseInv /\ TokenizerTypeOK /\ WantInv
  BY DEF TokenizerInv
<1>1. /\ phase = "closing" /\ phase' = "closed"
      /\ UNCHANGED <<local, todo, seeds, texts, op, tries, doomed, permits, at, want, answer, release, fetched>>
  BY DEF Closed
<1>2. todo' \subseteq KeysOf(PreparedNs) /\ local' \in BOOLEAN
  BY <1>0, <1>1 DEF WantInv, TokenizerTypeOK
<1>3. PhaseInv'
  BY <1>0, <1>1 DEF PhaseInv, Stopped
<1> QED BY <1>1, <1>2, <1>3, PhaseMoves

\* When the preparation fails, every worker is stopped.
LEMMA PreparationFailsKeeps ==
  ASSUME TokenizerAssumption, TokenizerInv, PreparationFails PROVE TokenizerInv'
<1>0. /\ TokenizerTypeOK /\ WantInv /\ PhaseInv /\ ReleaseInv /\ DoomedInv /\ AnswerInv
      /\ FetchInv /\ PermitInv /\ NoForeignCancellation /\ ReleasedLeavesNothing /\ FetchedOnce
  BY DEF TokenizerInv
<1>1. /\ phase \in {"seeds", "texts"} /\ phase' = "failed"
      /\ at' = [c \in Caller |-> IF Stopped(c) THEN at[c] ELSE "cancelled"]
      /\ UNCHANGED <<local, todo, seeds, texts, op, tries, doomed, permits, want, answer, release, fetched>>
  BY DEF PreparationFails
<1>2. \A c \in Caller : Stopped(c)' /\ at'[c] # "ready" /\ at'[c] # "broken"
  BY <1>0, <1>1 DEF Stopped, NoForeignCancellation
<1>3. doomed = {} /\ \A t \in Task : release[t] = "live"
  BY <1>0, <1>1 DEF PhaseInv
<1>4. TokenizerTypeOK'
  <2>1. at' \in [Caller -> {"idle", "wait", "ready", "ok", "failed", "cancelled", "broken"}]
    BY <1>0, <1>1 DEF TokenizerTypeOK
  <2> QED BY <1>0, <1>1, <2>1 DEF TokenizerTypeOK
<1>5. WantInv' /\ PhaseInv' /\ ReleaseInv'
  BY <1>0, <1>1, <1>2, <1>3, Names DEF WantInv, PhaseInv, ReleaseInv
<1>6. DoomedInv'
  BY <1>0, <1>1, <1>3 DEF DoomedInv
<1>7. AnswerInv' /\ FetchInv' /\ FetchedOnce'
  BY <1>0, <1>1, <1>2 DEF AnswerInv, FetchInv, FetchedOnce
<1>8. PermitInv'
  BY <1>1, PermitKept DEF Posts
<1>9. NoForeignCancellation' /\ ReleasedLeavesNothing'
  BY <1>0, <1>1, <1>2 DEF NoForeignCancellation, ReleasedLeavesNothing
<1> QED BY <1>4, <1>5, <1>6, <1>7, <1>8, <1>9 DEF TokenizerInv

\* Operations are cancelled: those of a task whose graph has stopped, or all
\* that are shared when the client closes.
LEMMA ReleaseStartsKeeps ==
  ASSUME TokenizerAssumption, TokenizerInv, NEW t \in Task, ReleaseStarts(t) PROVE TokenizerInv'
<1>0. /\ TokenizerTypeOK /\ WantInv /\ PhaseInv /\ ReleaseInv /\ DoomedInv /\ AnswerInv
      /\ FetchInv /\ PermitInv /\ NoForeignCancellation /\ ReleasedLeavesNothing /\ FetchedOnce
  BY DEF TokenizerInv
<1>1. /\ phase = "run" /\ release[t] = "live"
      /\ \A c \in Node : TaskOf(c) = t => Stopped(c) /\ at[c] # "idle"
      /\ release' = [release EXCEPT ![t] = "releasing"]
      /\ UNCHANGED <<phase, local, todo, seeds, texts, op, tries, permits, at, want, answer, fetched>>
  BY DEF ReleaseStarts
<1>2. /\ doomed \subseteq doomed'
      /\ \A k \in doomed' \ doomed : k \in PrivateKeys(t) /\ op[k] # "none"
      /\ \A k \in PrivateKeys(t) : op[k] # "none" => k \in doomed'
  BY DEF ReleaseStarts, Pending
<1>3. /\ release'[t] = "releasing"
      /\ \A u \in Task : u # t => release'[u] = release[u]
  BY <1>0, <1>1 DEF TokenizerTypeOK
<1>4. TokenizerTypeOK'
  <2>1. release' \in [Task -> {"live", "releasing", "released"}]
    BY <1>0, <1>1 DEF TokenizerTypeOK
  <2>2. doomed' \subseteq Key
    BY <1>0, <1>2, PrivateMembers, KeyKinds, Names DEF TokenizerTypeOK
  <2> QED BY <1>0, <1>1, <2>1, <2>2 DEF TokenizerTypeOK
<1>5. WantInv' /\ PhaseInv'
  BY <1>0, <1>1 DEF WantInv, PhaseInv, Stopped
<1>6. ReleaseInv'
  <2> SUFFICES ASSUME NEW u \in Task, release'[u] # "live"
               PROVE  /\ \A c \in Node : TaskOf(c) = u => Stopped(c)' /\ at'[c] # "idle"
                      /\ \A k \in PrivateKeys(u) : op'[k] # "none" => k \in doomed'
    BY DEF ReleaseInv
  <2>1. \A c \in Node : TaskOf(c) = u => Stopped(c) /\ at[c] # "idle"
    BY <1>0, <1>1, <1>3 DEF ReleaseInv
  <2>2. \A k \in PrivateKeys(u) : op[k] # "none" => k \in doomed'
    BY <1>0, <1>2, <1>3 DEF ReleaseInv
  <2> QED BY <1>1, <2>1, <2>2 DEF Stopped
<1>7. \A n : n # t => doomed' \cap PrivateKeys(n) = doomed \cap PrivateKeys(n)
  BY <1>2, PrivateMembers, KeysDiffer
<1>8. DoomedInv'
  <2>1. \A k \in doomed' : op'[k] # "none"
    BY <1>0, <1>1, <1>2 DEF DoomedInv
  <2>a. \A c \in Node : Count(c) \in doomed' => Count(c) \in doomed
    BY <1>2, PrivateMembers, KeysDiffer
  <2>2. \A c \in Node : Count(c) \in doomed' => at'[c] = "cancelled"
    BY <1>0, <1>1, <2>a DEF DoomedInv
  <2>3. \A n \in SharedNs : doomed' \cap PrivateKeys(n) # {} => phase' \in {"closing", "closed"}
    BY <1>0, <1>1, <1>7, Names DEF DoomedInv
  <2>4. \A u \in Task : doomed' \cap PrivateKeys(u) # {} =>
          release'[u] # "live" \/ phase' \in {"closing", "closed"}
    BY <1>0, <1>1, <1>3, <1>7 DEF DoomedInv
  <2>5. \A n \in Namespace : Seed(n) \in doomed' /\ op'[Text(n)] # "none" => Text(n) \in doomed'
    BY <1>0, <1>1, <1>2, PrivateMembers, KeysDiffer DEF DoomedInv
  <2> QED BY <2>1, <2>2, <2>3, <2>4, <2>5 DEF DoomedInv, PrivateKeys
<1>9. AnswerInv'
  BY <1>0, <1>1, <1>2 DEF AnswerInv
<1>10. FetchInv' /\ FetchedOnce'
  BY <1>0, <1>1, <1>3 DEF FetchInv, FetchedOnce
<1>11. PermitInv'
  BY <1>1, PermitKept DEF Posts
<1>12. NoForeignCancellation' /\ ReleasedLeavesNothing'
  BY <1>0, <1>1, <1>3 DEF NoForeignCancellation, ReleasedLeavesNothing
<1> QED BY <1>4, <1>5, <1>6, <1>8, <1>9, <1>10, <1>11, <1>12 DEF TokenizerInv

\* The caches of a task are deleted once its cancelled operations have ended:
\* none of them comes back to store anything.
LEMMA ReleasedKeeps ==
  ASSUME TokenizerAssumption, TokenizerInv, NEW t \in Task, Released(t) PROVE TokenizerInv'
<1>0. /\ TokenizerTypeOK /\ WantInv /\ PhaseInv /\ ReleaseInv /\ DoomedInv /\ AnswerInv
      /\ FetchInv /\ PermitInv /\ NoForeignCancellation /\ ReleasedLeavesNothing /\ FetchedOnce
  BY DEF TokenizerInv
<1>1. /\ release[t] = "releasing" /\ doomed \cap PrivateKeys(t) = {}
      /\ release' = [release EXCEPT ![t] = "released"]
      /\ seeds' = seeds \ {t} /\ texts' = texts \ {t}
      /\ UNCHANGED <<phase, local, todo, op, tries, doomed, permits, at, want, answer, fetched>>
  BY DEF Released
<1>2. \A k \in PrivateKeys(t) : op[k] = "none"
  BY <1>0, <1>1 DEF ReleaseInv
<1>3. /\ release'[t] = "released"
      /\ \A u \in Task : u # t => release'[u] = release[u]
  BY <1>0, <1>1 DEF TokenizerTypeOK
<1>4. TokenizerTypeOK'
  <2>1. release' \in [Task -> {"live", "releasing", "released"}]
    BY <1>0, <1>1 DEF TokenizerTypeOK
  <2> QED BY <1>0, <1>1, <2>1 DEF TokenizerTypeOK
<1>5. WantInv'
  BY <1>0, <1>1 DEF WantInv, Stopped
<1>6. PhaseInv'
  BY <1>0, <1>1, <1>3 DEF PhaseInv, Stopped
<1>7. ReleaseInv'
  BY <1>0, <1>1, <1>3 DEF ReleaseInv, Stopped
<1>8. DoomedInv'
  BY <1>0, <1>1, <1>3 DEF DoomedInv
<1>9. AnswerInv'
  <2>1. \A c \in Caller : at[c] = "ready" => want[c] # Seed(t)
    <3> SUFFICES ASSUME NEW c \in Caller, at[c] = "ready", want[c] = Seed(t) PROVE FALSE
      OBVIOUS
    <3>1. ~Stopped(c)
      BY DEF Stopped
    <3>2. CASE c \in Node
      BY <1>0, <1>1, <3>1, <3>2, OwnKeys, Names DEF WantInv, ReleaseInv
    <3>3. CASE c \in Worker
      BY <1>0, <3>1, <3>3, OwnKeys, Names DEF WantInv
    <3> QED BY <3>2, <3>3, Names
  <2>2. op[Text(t)] = "none"
    BY <1>2, PrivateMembers
  <2> QED BY <1>0, <1>1, <2>1, <2>2 DEF AnswerInv
<1>10. FetchInv' /\ FetchedOnce'
  BY <1>0, <1>1, <1>3 DEF FetchInv, FetchedOnce
<1>11. PermitInv'
  BY <1>1, PermitKept DEF Posts
<1>12. NoForeignCancellation'
  BY <1>0, <1>1 DEF NoForeignCancellation
<1>13. ReleasedLeavesNothing'
  BY <1>0, <1>1, <1>2, <1>3 DEF ReleasedLeavesNothing
<1> QED BY <1>4, <1>5, <1>6, <1>7, <1>8, <1>9, <1>10, <1>11, <1>12, <1>13 DEF TokenizerInv

LEMMA CloseKeeps == ASSUME TokenizerAssumption, TokenizerInv, Close PROVE TokenizerInv'
<1>0. /\ TokenizerTypeOK /\ WantInv /\ PhaseInv /\ ReleaseInv /\ DoomedInv /\ AnswerInv
      /\ FetchInv /\ PermitInv /\ NoForeignCancellation /\ ReleasedLeavesNothing /\ FetchedOnce
  BY DEF TokenizerInv
<1>1. /\ phase' = "closing"
      /\ phase = "failed" \/ (phase = "run" /\ \A t \in Task : release[t] = "released")
      /\ doomed' = doomed \cup {k \in SharedKey : op[k] # "none"}
      /\ UNCHANGED <<local, todo, seeds, texts, op, tries, permits, at, want, answer, release, fetched>>
  BY DEF Close
<1>2. \A c \in Caller : Stopped(c)
  <2>1. CASE phase = "failed"
    BY <1>0, <2>1 DEF PhaseInv
  <2>2. CASE phase = "run" /\ \A t \in Task : release[t] = "released"
    <3>1. \A c \in Node : Stopped(c)
      BY <1>0, <2>2, Names DEF ReleaseInv
    <3>2. \A c \in Worker : Stopped(c)
      BY <1>0, <2>2 DEF PhaseInv
    <3> QED BY <3>1, <3>2, Names
  <2> QED BY <1>1, <2>1, <2>2
<1>3. TokenizerTypeOK'
  <2>1. doomed' \subseteq Key
    BY <1>0, <1>1 DEF TokenizerTypeOK, Key
  <2> QED BY <1>0, <1>1, <2>1 DEF TokenizerTypeOK
<1>4. WantInv' /\ PhaseInv' /\ ReleaseInv'
  BY <1>0, <1>1, <1>2 DEF WantInv, PhaseInv, ReleaseInv, Stopped
<1>5. DoomedInv'
  <2>1. \A k \in doomed' : op'[k] # "none"
    BY <1>0, <1>1 DEF DoomedInv
  <2>2. \A c \in Node : Count(c) \notin SharedKey
    BY KeysOfMembers, KeysDiffer DEF SharedKey
  <2>a. \A c \in Node : Count(c) \in doomed' => Count(c) \in doomed
    BY <1>1, <2>2
  <2>3. \A c \in Node : Count(c) \in doomed' => at'[c] = "cancelled"
    BY <1>0, <1>1, <2>a DEF DoomedInv
  <2>4. \A n \in Namespace : Seed(n) \in doomed' /\ op'[Text(n)] # "none" => Text(n) \in doomed'
    BY <1>1, KeyKinds
  <2> QED BY <1>1, <2>1, <2>3, <2>4 DEF DoomedInv
<1>6. AnswerInv'
  BY <1>0, <1>1, <1>2 DEF AnswerInv, Stopped
<1>7. FetchInv' /\ FetchedOnce' /\ NoForeignCancellation' /\ ReleasedLeavesNothing'
  BY <1>0, <1>1 DEF FetchInv, FetchedOnce, NoForeignCancellation, ReleasedLeavesNothing
<1>8. PermitInv'
  BY <1>1, PermitKept DEF Posts
<1> QED BY <1>3, <1>4, <1>5, <1>6, <1>7, <1>8 DEF TokenizerInv

\* Every step of the client keeps its inductive invariant.
LEMMA TokenizerStep ==
  ASSUME TokenizerAssumption, TokenizerInv, [Next]_vars PROVE TokenizerInv'
<1>1. CASE \E k \in Key : OpStep(k)
  BY <1>1, OpStepKeeps
<1>2. CASE \E c \in Caller : CallStep(c)
  BY <1>2, CallStepKeeps
<1>3. CASE \E c \in Node : NodeCancelled(c)
  BY <1>3, NodeCancelledKeeps
<1>4. CASE RunStep
  BY <1>4, DiscoverKeeps, PreparedKeeps, PreparationFailsKeeps, CloseKeeps, ClosedKeeps,
    ReleaseStartsKeeps, ReleasedKeeps DEF RunStep
<1>5. CASE UNCHANGED vars
  <2>1. UNCHANGED <<phase, local, todo, seeds, texts, op, tries, doomed, permits, at, want, answer,
                    release, fetched>>
    BY <1>5 DEF vars
  <2>2. TokenizerTypeOK' /\ WantInv' /\ PhaseInv' /\ ReleaseInv' /\ DoomedInv' /\ AnswerInv'
    BY <2>1 DEF TokenizerInv, TokenizerTypeOK, WantInv, PhaseInv, ReleaseInv, DoomedInv, AnswerInv,
      Stopped
  <2>3. FetchInv' /\ PermitInv' /\ NoForeignCancellation' /\ ReleasedLeavesNothing' /\ FetchedOnce'
    BY <2>1 DEF TokenizerInv, FetchInv, PermitInv, PermitsBalance, Posts, NoForeignCancellation,
      ReleasedLeavesNothing, FetchedOnce
  <2> QED BY <2>2, <2>3 DEF TokenizerInv
<1> QED BY <1>1, <1>2, <1>3, <1>4, <1>5 DEF Next, Done
-----------------------------------------------------------------------------
\* The inductive invariant holds in every reachable state.
THEOREM TokenizerInvariant ==
  ASSUME TokenizerAssumption PROVE Spec => []TokenizerInv
<1>1. Init => TokenizerInv
  BY InitInv
<1>2. TokenizerInv /\ [Next]_vars => TokenizerInv'
  BY TokenizerStep
<1> QED BY <1>1, <1>2, PTL DEF Spec

\* The inductive invariant gives what the runs check.
LEMMA TokenizerInvImplies ==
  ASSUME TokenizerInv
  PROVE  /\ TokenizerTypeOK /\ NoForeignCancellation /\ ReleasedLeavesNothing
         /\ FetchedOnce /\ PermitsBalance
BY DEF TokenizerInv, PermitInv


\* _shared(): whoever is cancelled, whichever tasks are released and however the
\* operations end, no coroutine that was not cancelled itself sees a
\* CancelledError of an operation it shares, or misses the seed it awaited
\* (prompt.py TokenizerClient._shared, token_sequence).
THEOREM CancellationStaysPrivate ==
  ASSUME TokenizerAssumption PROVE Spec => []NoForeignCancellation
<1>1. TokenizerInv => NoForeignCancellation
  BY DEF TokenizerInv
<1> QED BY <1>1, TokenizerInvariant, PTL

\* release_task(): nothing of a released task is left in the caches or in
\* _inflight, and no operation of its brings it back.
THEOREM ReleaseIsFinal ==
  ASSUME TokenizerAssumption PROVE Spec => []ReleasedLeavesNothing
<1>1. TokenizerInv => ReleasedLeavesNothing
  BY DEF TokenizerInv
<1> QED BY <1>1, TokenizerInvariant, PTL

\* A namespace's seed is fetched at most once, and the permits of the semaphore
\* are those that are free and those that a post holds.
THEOREM FetchesAndPermitsExact ==
  ASSUME TokenizerAssumption PROVE Spec => [](FetchedOnce /\ PermitsBalance)
<1>1. TokenizerInv => FetchedOnce /\ PermitsBalance
  BY DEF TokenizerInv, PermitInv
<1> QED BY <1>1, TokenizerInvariant, PTL
=============================================================================
