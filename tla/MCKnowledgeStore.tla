--------------------------- MODULE MCKnowledgeStore ---------------------------
(***************************************************************************)
(* A small knowledge store, and a small collection of knowledge, for TLC,  *)
(* with the theorems about both.  A behaviour runs one of the two, as part *)
(* says.                                                                   *)
(***************************************************************************)
EXTENDS KnowledgeStore, KnowledgeCollect, FiniteSetTheorems, TLC, TLAPS

CONSTANTS
  Parts,   \* the components a run explores
  w1, w2, x1, i1, i2, r1, r2, r3, r4, r5, p1, p2, k1, k2

VARIABLE part

vars == <<part, storeVars, collectVars>>
-----------------------------------------------------------------------------
\* Two writers and a reader; r1 to r4 are revisions of i1, of which r4 would be
\* active, and r5 is one of the reserved identity i2.
MCWriter == {w1, w2}
MCReader == {x1}
MCIdentity == {i1, i2}
MCRevision == {r1, r2, r3, r4, r5}
MCPath == {p1, p2}
MCRoot == {k1, k2}
MCIdOf == [r \in MCRevision |-> IF r = r5 THEN i2 ELSE i1]
MCStateOf == [r \in MCRevision |-> IF r = r4 THEN "active" ELSE "candidate"]
MCContent == [r \in MCRevision |-> IF r = r2 THEN {p1} ELSE {p1, p2}]
MCReserved == {i2}

\* The bundles r1 and r3 are alike.
MCSymmetry == Permutations({r1, r3})

\* What is asked of a collection: nothing, one owner each, one owner twice.
MCRef(authority, id) == [authority |-> authority, id |-> id]
MCSorted ==
  <<MCRef("checkout", "a"), MCRef("checkout", "b"), MCRef("package", "a"), MCRef("package", "b"),
    MCRef("store", "a"), MCRef("store", "b")>>
MCReference == {MCRef("any", "a"), MCRef("any", "b"), MCRef("store", "a"), MCRef("checkout", "b")}
MCRequests == {<< >>, <<MCRef("any", "a"), MCRef("any", "b")>>, <<MCRef("store", "a"), MCRef("any", "a")>>,
               <<MCRef("any", "b"), MCRef("checkout", "b")>>}
MCSizeOf == [r \in Rev |-> r]

\* No revision is asked for; one of either reference of a list, or two of them; one that identities()
\* may return.  A pin of something that is not requested refuses the call.
MCPins(asked) == [g \in Named |-> IF g \in DOMAIN asked THEN asked[g] ELSE NoRevision]
MCPinChoices ==
  {MCPins(<< >>), MCPins(MCRef("any", "a") :> 2), MCPins(MCRef("any", "a") :> 1 @@ MCRef("any", "b") :> 2),
   MCPins(MCRef("store", "a") :> 2), MCPins(MCRef("any", "b") :> 1 @@ MCRef("checkout", "b") :> 2),
   MCPins(MCRef("checkout", "a") :> 1 @@ MCRef("store", "b") :> 2)}
MCFilters == {<<{}, {}>>} \cup {<<{q}, {}>> : q \in Qualified} \cup {<<{}, {q}>> : q \in Qualified}

\* No collection: the sources are empty and nothing is asked.
NoCollect ==
  /\ content = 0 /\ retained = 0 /\ broken = 0 /\ changes = 0 /\ stage = "none" /\ byId = 0 /\ requested = 0
  /\ pins = 0 /\ filtered = 0 /\ unmatched = 0 /\ owners = 0 /\ at = 0 /\ seen = 0 /\ items = 0
  /\ omissions = 0 /\ used = 0

Init ==
  /\ part \in Parts
  /\ StoreInit
  /\ \/ part = "store" /\ NoCollect
     \/ part = "collect" /\ root = [w \in Writer |-> k1] /\ CollectInit

Next ==
  \/ part = "store" /\ StoreNext /\ UNCHANGED <<part, collectVars>>
  \/ part = "collect" /\ CollectNext /\ UNCHANGED <<part, storeVars>>

Spec == Init /\ [][Next]_vars
-----------------------------------------------------------------------------
\* A collection answers every request, takes no authority before another one,
\* reads every item at the revision it was pinned at, and omits an item only
\* for want of room (knowledge_operations.py).
CollectSound ==
  part = "collect" =>
    /\ CollectTypeOK
    /\ EveryRequestAnswered /\ NoPrecedence /\ PinnedRevision /\ OmittedForRoom
-----------------------------------------------------------------------------
(***************************************************************************)
(* Proofs.  For every number of processes, identities and bundles: the     *)
(* knowledge store keeps its bundles whole and its histories lines, serves *)
(* one checkout, and implements the log of revisions.                      *)
(***************************************************************************)

\* What a writer has established, and the lock keeps true, until its COMMIT: its
\* comparison with the current revision still holds, and its INSERTs are a prefix
\* of the three.
TransactionOK ==
  \A w \in Writer :
    /\ pc[w] \in {"begin", "check", "insert"} =>
         /\ bundle[w] \in Revision
         /\ expected[w] = NoRev => StateOf[bundle[w]] = "candidate"
    /\ pc[w] = "insert" => Acceptable(w)
    /\ "resources" \in staged[w] => "row" \in staged[w]
    /\ "current" \in staged[w] => "resources" \in staged[w]

\* What a reader has found so far is what the store will always answer.
ReadingOK ==
  \A x \in Reader :
    /\ rpc[x] \in {"resources", "verify", "read"} => wanted[x] \in revisions
    /\ rpc[x] \in {"verify", "read"} => found[x] = Content[wanted[x]]
    /\ rpc[x] # "mismatch"

StoreInv ==
  /\ StoreTypeOK /\ OneCheckout /\ TransactionOK
  /\ BundlesWhole /\ HistoryIsALine /\ CandidatesStay /\ ReadingOK

\* The steps that touch no table: all but the COMMIT.
QuietWriter(w) ==
  \/ OpenSelect(w) \/ OpenInsert(w) \/ OpenBusy(w)
  \/ \E r \in Revision, e \in Revision \union {NoRev} : Request(w, r, e)
  \/ Begin(w) \/ BeginBusy(w) \/ CheckPasses(w) \/ CheckFails(w) \/ Insert(w) \/ Crash(w)

\* They leave the tables and the readers alone.
LEMMA QuietTables ==
  ASSUME NEW w \in Writer, QuietWriter(w) PROVE UNCHANGED <<tables, readers>>
BY DEF QuietWriter, OpenSelect, OpenInsert, OpenBusy, Request, Begin, BeginBusy, CheckPasses,
  CheckFails, Insert, Crash

\* A reader changes nothing but its own state.
LEMMA ReaderTables ==
  ASSUME NEW x \in Reader, ReaderStep(x) PROVE UNCHANGED <<tables, meta, writers>>
BY DEF ReaderStep, ReadCurrent, ReadRevision, ReadRow, ReadResources, ReadVerify, ReadReturns

\* The next piece is the next of the three INSERTs.
LEMMA FollowingParts ==
  ASSUME NEW w \in Writer, StoreTypeOK, TransactionOK, "current" \notin staged[w]
  PROVE  LET piece == Following(LastStaged(w)) IN
         /\ piece \in {"row", "resources", "current"}
         /\ piece = "resources" => "row" \in staged[w]
         /\ piece = "current" => "resources" \in staged[w]
<1>1. CASE "resources" \in staged[w]
  <2>1. LastStaged(w) = "resources"
    BY <1>1 DEF LastStaged
  <2> QED BY <1>1, <2>1 DEF Following
<1>2. CASE "resources" \notin staged[w] /\ "row" \in staged[w]
  <2>1. LastStaged(w) = "row"
    BY <1>2 DEF LastStaged
  <2> QED BY <1>2, <2>1 DEF Following
<1>3. CASE "resources" \notin staged[w] /\ "row" \notin staged[w]
  <2>1. LastStaged(w) = "none"
    BY <1>3 DEF LastStaged
  <2> QED BY <1>3, <2>1 DEF Following
<1> QED BY <1>1, <1>2, <1>3

\* The store starts empty.
LEMMA InitStoreInv == StoreInit => StoreInv
<1> SUFFICES ASSUME StoreInit PROVE StoreInv
  OBVIOUS
<1>1. StoreTypeOK
  BY NullsAssumption DEF StoreInit, StoreTypeOK
<1>2. OneCheckout /\ TransactionOK /\ ReadingOK /\ BundlesWhole
  BY DEF StoreInit, OneCheckout, TransactionOK, ReadingOK, BundlesWhole
<1>3. HistoryIsALine /\ CandidatesStay
  BY DEF StoreInit, HistoryIsALine, CandidatesStay
<1> QED BY <1>1, <1>2, <1>3 DEF StoreInv

\* Types and the lock, through every step of a writer but the COMMIT.
LEMMA QuietTypes ==
  ASSUME NEW w \in Writer, StoreTypeOK, TransactionOK, QuietWriter(w) PROVE StoreTypeOK'
<1> USE DEF StoreTypeOK, tables, readers, Goto, Leave
<1>1. CASE OpenSelect(w)
  BY <1>1 DEF OpenSelect
<1>2. CASE OpenInsert(w)
  BY <1>2 DEF OpenInsert, InsertRoot
<1>3. CASE OpenBusy(w)
  BY <1>3 DEF OpenBusy
<1>4. ASSUME NEW r \in Revision, NEW e \in Revision \union {NoRev}, Request(w, r, e) PROVE StoreTypeOK'
  BY <1>4 DEF Request
<1>5. CASE Begin(w)
  BY <1>5, NullsAssumption DEF Begin, MayBegin
<1>6. CASE BeginBusy(w)
  BY <1>6 DEF BeginBusy
<1>7. CASE CheckPasses(w)
  BY <1>7 DEF CheckPasses
<1>8. CASE CheckFails(w)
  BY <1>8, NullsAssumption DEF CheckFails
<1>9. CASE Insert(w)
  BY <1>9, FollowingParts DEF Insert
<1>10. CASE Crash(w)
  BY <1>10, NullsAssumption DEF Crash, Release
<1> QED BY <1>1, <1>2, <1>3, <1>4, <1>5, <1>6, <1>7, <1>8, <1>9, <1>10 DEF QuietWriter

\* An open store is bound to the checkout of whoever opened it.
LEMMA QuietCheckout ==
  ASSUME NEW w \in Writer, StoreTypeOK, OneCheckout, QuietWriter(w) PROVE OneCheckout'
<1> USE DEF StoreTypeOK, OneCheckout, Goto, Leave
<1>1. CASE OpenSelect(w)
  BY <1>1, NullsAssumption DEF OpenSelect
<1>2. CASE OpenInsert(w)
  BY <1>2, NullsAssumption DEF OpenInsert, InsertRoot
<1>3. CASE OpenBusy(w) \/ BeginBusy(w)
  BY <1>3 DEF OpenBusy, BeginBusy
<1>4. ASSUME NEW r \in Revision, NEW e \in Revision \union {NoRev}, Request(w, r, e) PROVE OneCheckout'
  BY <1>4 DEF Request
<1>5. CASE Begin(w) \/ CheckPasses(w) \/ CheckFails(w)
  BY <1>5 DEF Begin, CheckPasses, CheckFails
<1>6. CASE Insert(w) \/ Crash(w)
  BY <1>6 DEF Insert, Crash
<1> QED BY <1>1, <1>2, <1>3, <1>4, <1>5, <1>6 DEF QuietWriter

\* The comparison of a writer outlives every step of the others but a COMMIT.
LEMMA QuietTransaction ==
  ASSUME NEW w \in Writer, StoreTypeOK, TransactionOK, QuietWriter(w) PROVE TransactionOK'
<1> USE DEF StoreTypeOK, TransactionOK, Acceptable, ExpectedIsCurrent, KeepsState, tables, Goto, Leave
<1>1. CASE OpenSelect(w) \/ OpenBusy(w)
  BY <1>1 DEF OpenSelect, OpenBusy
<1>2. CASE OpenInsert(w)
  BY <1>2 DEF OpenInsert, InsertRoot
<1>4. ASSUME NEW r \in Revision, NEW e \in Revision \union {NoRev}, Request(w, r, e) PROVE TransactionOK'
  BY <1>4 DEF Request
<1>5. CASE Begin(w)
  BY <1>5 DEF Begin
<1>6. CASE BeginBusy(w) \/ CheckFails(w)
  BY <1>6 DEF BeginBusy, CheckFails
<1>7. CASE CheckPasses(w)
  BY <1>7 DEF CheckPasses
<1>9. CASE Insert(w)
  <2> DEFINE piece == Following(LastStaged(w))
  <2>1. /\ staged' = [staged EXCEPT ![w] = @ \union {piece}]
        /\ piece = "resources" => "row" \in staged[w]
        /\ piece = "current" => "resources" \in staged[w]
    BY <1>9, FollowingParts DEF Insert
  <2> HIDE DEF piece
  <2>2. \A v \in Writer : staged'[v] = IF v = w THEN staged[w] \union {piece} ELSE staged[v]
    BY <2>1
  <2>3. \A v \in Writer : ("resources" \in staged'[v] => "row" \in staged'[v])
                         /\ ("current" \in staged'[v] => "resources" \in staged'[v])
    BY <2>1, <2>2
  <2>4. UNCHANGED <<revisions, current, pc, bundle, expected>>
    BY <1>9 DEF Insert
  <2>5. \A v \in Writer : pc'[v] = "insert" => Acceptable(v)'
    BY <2>4
  <2>6. \A v \in Writer : pc[v] \in {"begin", "check", "insert"} =>
          /\ bundle[v] \in Revision
          /\ expected[v] = NoRev => StateOf[bundle[v]] = "candidate"
    OBVIOUS
  <2>7. ASSUME NEW v \in Writer
        PROVE  /\ pc'[v] \in {"begin", "check", "insert"} =>
                    /\ bundle'[v] \in Revision
                    /\ expected'[v] = NoRev => StateOf[bundle'[v]] = "candidate"
               /\ "resources" \in staged'[v] => "row" \in staged'[v]
               /\ "current" \in staged'[v] => "resources" \in staged'[v]
    BY <2>3, <2>4, <2>6
  <2> QED BY ONLY <2>5, <2>7 DEF TransactionOK
<1>10. CASE Crash(w)
  BY <1>10 DEF Crash
<1> QED BY <1>1, <1>2, <1>4, <1>5, <1>6, <1>7, <1>9, <1>10 DEF QuietWriter

\* The tables are as they were, and so is what only the tables decide.
LEMMA QuietStore ==
  ASSUME BundlesWhole, HistoryIsALine, CandidatesStay, UNCHANGED tables
  PROVE  BundlesWhole' /\ HistoryIsALine' /\ CandidatesStay'
BY DEF BundlesWhole, HistoryIsALine, CandidatesStay, tables

\* Nor does a reader notice them.
LEMMA QuietReading ==
  ASSUME ReadingOK, UNCHANGED <<tables, readers>> PROVE ReadingOK'
BY DEF ReadingOK, tables, readers
-----------------------------------------------------------------------------
\* What a COMMIT does to the tables: the bundle is new, and what its writer expected is current.
LEMMA CommitTables ==
  ASSUME NEW w \in Writer, StoreInv, Commit(w)
  PROVE  /\ bundle[w] \in Revision /\ IdOf[bundle[w]] \in Identity
         /\ bundle[w] \notin revisions
         /\ expected[w] = current[IdOf[bundle[w]]]
         /\ IF expected[w] = NoRev THEN StateOf[bundle[w]] = "candidate"
            ELSE StateOf[bundle[w]] = StateOf[expected[w]]
         /\ revisions' = revisions \union {bundle[w]}
         /\ parent' = [parent EXCEPT ![bundle[w]] = expected[w]]
         /\ order' = [order EXCEPT ![IdOf[bundle[w]]] = Append(@, bundle[w])]
         /\ resources' = resources \union {<<bundle[w], p>> : p \in Content[bundle[w]]}
         /\ current' = [current EXCEPT ![IdOf[bundle[w]]] = bundle[w]]
<1>1. pc[w] = "insert" /\ "current" \in staged[w] /\ "resources" \in staged[w] /\ "row" \in staged[w]
  BY DEF Commit, StoreInv, TransactionOK
<1>2. bundle[w] \in Revision /\ Acceptable(w) /\ (expected[w] = NoRev => StateOf[bundle[w]] = "candidate")
  BY <1>1 DEF StoreInv, TransactionOK
<1>3. IdOf[bundle[w]] \in Identity
  BY <1>2, BundlesAssumption
<1>4. Apply(w, staged[w])
  BY DEF Commit
<1> QED BY <1>1, <1>2, <1>3, <1>4 DEF Apply, Acceptable, ExpectedIsCurrent, KeepsState

\* A COMMIT keeps the types, and gives the lock back.
LEMMA CommitTypes ==
  ASSUME NEW w \in Writer, StoreInv, Commit(w) PROVE StoreTypeOK'
<1> DEFINE r == bundle[w]
<1> DEFINE i == IdOf[r]
<1>1. StoreTypeOK
  BY DEF StoreInv
<1>2. r \in Revision /\ i \in Identity /\ Content[r] \subseteq Path
  BY CommitTables, BundlesAssumption
<1> DEFINE e == expected[w]
<1>3. /\ revisions' = revisions \union {r}
      /\ parent' = [parent EXCEPT ![r] = e]
      /\ order' = [order EXCEPT ![i] = Append(@, r)]
      /\ resources' = resources \union {<<r, p>> : p \in Content[r]}
      /\ current' = [current EXCEPT ![i] = r]
  BY CommitTables
<1>4. e \in Revision \union {NoRev} /\ order[i] \in Seq(Revision)
  BY <1>1, <1>2 DEF StoreTypeOK
<1>5. /\ revisions' \subseteq Revision
      /\ parent' \in [Revision -> Revision \union {NoRev}]
      /\ order' \in [Identity -> Seq(Revision)]
      /\ resources' \subseteq Revision \X Path
      /\ current' \in [Identity -> Revision \union {NoRev}]
  <2> HIDE DEF r, i, e
  <2>1. revisions' \subseteq Revision /\ parent' \in [Revision -> Revision \union {NoRev}]
    BY <1>1, <1>2, <1>3, <1>4 DEF StoreTypeOK
  <2>2. order' \in [Identity -> Seq(Revision)]
    <3>1. Append(order[i], r) \in Seq(Revision)
      BY <1>2, <1>4
    <3> QED BY <1>1, <1>2, <1>3, <3>1 DEF StoreTypeOK
  <2>3. resources' \subseteq Revision \X Path
    BY <1>1, <1>2, <1>3 DEF StoreTypeOK
  <2>4. current' \in [Identity -> Revision \union {NoRev}]
    BY <1>1, <1>2, <1>3 DEF StoreTypeOK
  <2> QED BY <2>1, <2>2, <2>3, <2>4
<1>6. \A v \in Writer : pc'[v] \in {"check", "insert"} <=> lock' = v
  BY <1>1, NullsAssumption DEF StoreTypeOK, Commit, Leave, Goto
<1>7. /\ pc' \in [Writer -> {"closed", "unreserved", "refused", "idle", "begin", "check", "insert"}]
      /\ bundle' \in [Writer -> Revision \union {NoRev}]
      /\ expected' \in [Writer -> Revision \union {NoRev}]
      /\ staged' \in [Writer -> SUBSET {"row", "resources", "current"}]
      /\ lock' \in Writer \union {NoWriter}
  BY <1>1 DEF StoreTypeOK, Commit, Leave, Goto
<1>8. UNCHANGED <<meta, root, rpc, wanted, found>>
  BY DEF Commit, readers
<1> QED BY <1>1, <1>5, <1>6, <1>7, <1>8 DEF StoreTypeOK

\* The lock: no other writer is inside a transaction that the COMMIT could invalidate.
LEMMA CommitTransaction ==
  ASSUME NEW w \in Writer, StoreInv, Commit(w) PROVE OneCheckout' /\ TransactionOK'
<1>1. StoreTypeOK /\ OneCheckout /\ TransactionOK
  BY DEF StoreInv
<1>2. /\ pc' = [pc EXCEPT ![w] = "idle"] /\ bundle' = [bundle EXCEPT ![w] = NoRev]
      /\ expected' = [expected EXCEPT ![w] = NoRev] /\ staged' = [staged EXCEPT ![w] = {}]
      /\ UNCHANGED <<meta, root>> /\ pc[w] = "insert"
  BY DEF Commit, Leave, Goto
<1>3. OneCheckout'
  BY <1>1, <1>2 DEF StoreTypeOK, OneCheckout
<1>4. \A v \in Writer : v # w => pc[v] # "insert"
  BY <1>1, <1>2 DEF StoreTypeOK
<1>5. ASSUME NEW v \in Writer
      PROVE  /\ pc'[v] \in {"begin", "check", "insert"} =>
                  /\ bundle'[v] \in Revision
                  /\ expected'[v] = NoRev => StateOf[bundle'[v]] = "candidate"
             /\ pc'[v] # "insert"
             /\ "resources" \in staged'[v] => "row" \in staged'[v]
             /\ "current" \in staged'[v] => "resources" \in staged'[v]
  BY <1>1, <1>2, <1>4 DEF StoreTypeOK, TransactionOK
<1> QED BY <1>3, <1>5 DEF TransactionOK

\* The bundle is inserted whole.
LEMMA CommitBundles ==
  ASSUME NEW w \in Writer, StoreInv, Commit(w) PROVE BundlesWhole'
<1>1. BundlesWhole /\ resources \subseteq Revision \X Path
  BY DEF StoreInv, StoreTypeOK
<1> QED BY <1>1, CommitTables DEF BundlesWhole

\* The line of the bundle's identity grows by its successor; the other lines stay.
LEMMA CommitHistory ==
  ASSUME NEW w \in Writer, StoreInv, Commit(w) PROVE HistoryIsALine' /\ CandidatesStay'
<1> DEFINE r == bundle[w]
<1> DEFINE i == IdOf[r]
<1> DEFINE line == order[i]
<1>1. StoreTypeOK /\ HistoryIsALine /\ CandidatesStay
  BY DEF StoreInv
<1>2. r \in Revision /\ i \in Identity /\ r \notin revisions /\ expected[w] = current[i]
  BY CommitTables
<1>3. line \in Seq(Revision) /\ Len(line) \in Nat
  BY <1>1, <1>2 DEF StoreTypeOK
<1>4. /\ order'[i] = Append(line, r)
      /\ Len(order'[i]) = Len(line) + 1
      /\ DOMAIN order'[i] = 1..(Len(line) + 1) /\ DOMAIN line = 1..Len(line)
      /\ order'[i][Len(line) + 1] = r
      /\ \A k \in DOMAIN line : order'[i][k] = line[k]
  <2>1. order'[i] = Append(line, r)
    BY <1>1, <1>2, CommitTables DEF StoreTypeOK
  <2> QED BY <1>2, <1>3, <2>1
<1>5. \A k \in DOMAIN line : line[k] \in revisions /\ line[k] # r /\ line[k] \in Revision
  BY <1>1, <1>2, <1>3 DEF HistoryIsALine
<1>6. /\ \A q \in Revision : parent'[q] = IF q = r THEN current[i] ELSE parent[q]
      /\ current'[i] = r
      /\ revisions' = revisions \union {r}
  BY <1>1, <1>2, CommitTables DEF StoreTypeOK
<1>7. current[i] = IF Len(line) = 0 THEN NoRev ELSE line[Len(line)]
  BY <1>1, <1>2, <1>3 DEF HistoryIsALine
<1> HIDE DEF r, i, line
<1>8. ASSUME NEW j \in Identity, j # i
      PROVE  /\ order'[j] = order[j] /\ current'[j] = current[j]
             /\ \A k \in DOMAIN order[j] : order[j][k] # r /\ parent'[order[j][k]] = parent[order[j][k]]
  <2>1. order'[j] = order[j] /\ current'[j] = current[j]
    BY <1>1, <1>8, CommitTables DEF StoreTypeOK, i, r
  <2>2. ASSUME NEW k \in DOMAIN order[j] PROVE order[j][k] # r /\ order[j][k] \in Revision
    BY <1>1, <1>2 DEF HistoryIsALine, StoreTypeOK
  <2> QED BY <1>6, <2>1, <2>2
<1>9. ASSUME NEW k \in DOMAIN order'[i]
      PROVE  /\ order'[i][k] \in revisions' /\ IdOf[order'[i][k]] = i
             /\ parent'[order'[i][k]] = IF k = 1 THEN NoRev ELSE order'[i][k - 1]
             /\ \A j \in DOMAIN order'[i] : order'[i][j] = order'[i][k] => j = k
             /\ StateOf[order'[i][k]] = "candidate"
  <2>1. CASE k = Len(line) + 1
    <3>1. order'[i][k] = r /\ parent'[r] = current[i] /\ IdOf[r] = i
      BY <1>2, <1>4, <1>6, <2>1 DEF i, r
    <3>2. current[i] = IF k = 1 THEN NoRev ELSE order'[i][k - 1]
      <4>1. CASE Len(line) = 0
        BY <1>7, <2>1, <4>1
      <4>2. CASE Len(line) # 0
        <5>1. Len(line) \in DOMAIN line /\ k - 1 = Len(line) /\ k # 1
          BY <1>3, <1>4, <2>1, <4>2
        <5> QED BY <1>4, <1>7, <4>2, <5>1
      <4> QED BY <4>1, <4>2
    <3>3. \A j \in DOMAIN order'[i] : order'[i][j] = r => j = k
      BY <1>3, <1>4, <1>5, <2>1
    <3>4. StateOf[r] = "candidate"
      <4>1. CASE current[i] = NoRev
        BY <4>1, <1>2, CommitTables DEF i, r
      <4>2. CASE current[i] # NoRev
        <5>1. Len(line) \in DOMAIN line /\ current[i] = line[Len(line)]
          BY <1>3, <1>4, <1>7, <4>2
        <5>2. StateOf[line[Len(line)]] = "candidate"
          BY <1>1, <1>2, <5>1 DEF CandidatesStay, line
        <5> QED BY <1>2, <4>2, <5>1, <5>2, CommitTables DEF i, r
      <4> QED BY <4>1, <4>2
    <3> QED BY <1>6, <3>1, <3>2, <3>3, <3>4
  <2>2. CASE k # Len(line) + 1
    <3>1. k \in DOMAIN line /\ order'[i][k] = line[k] /\ (k # 1 => k - 1 \in DOMAIN line)
      BY <1>3, <1>4, <2>2
    <3>2. /\ line[k] \in revisions /\ IdOf[line[k]] = i /\ StateOf[line[k]] = "candidate"
          /\ parent[line[k]] = IF k = 1 THEN NoRev ELSE line[k - 1]
          /\ \A j \in DOMAIN line : line[j] = line[k] => j = k
      BY <1>1, <1>2, <3>1 DEF HistoryIsALine, CandidatesStay, line
    <3>3. parent'[line[k]] = parent[line[k]]
      BY <1>5, <1>6, <3>1
    <3>4. \A j \in DOMAIN order'[i] : order'[i][j] = line[k] => j = k
      BY <1>3, <1>4, <1>5, <3>1, <3>2
    <3> QED BY <1>4, <1>6, <3>1, <3>2, <3>3, <3>4
  <2> QED BY <2>1, <2>2
<1>10. HistoryIsALine'
  <2>1. ASSUME NEW j \in Identity
        PROVE  /\ current'[j] = IF order'[j] = << >> THEN NoRev ELSE order'[j][Len(order'[j])]
               /\ \A k \in DOMAIN order'[j] :
                    /\ order'[j][k] \in revisions' /\ IdOf[order'[j][k]] = j
                    /\ parent'[order'[j][k]] = IF k = 1 THEN NoRev ELSE order'[j][k - 1]
                    /\ \A n \in DOMAIN order'[j] : order'[j][n] = order'[j][k] => n = k
    <3>1. CASE j = i
      <4>1. order'[i] # << >>
        BY <1>3, <1>4
      <4> QED BY <1>4, <1>6, <1>9, <3>1, <4>1
    <3>2. CASE j # i
      BY <1>1, <1>6, <1>8, <3>2 DEF HistoryIsALine
    <3> QED BY <3>1, <3>2
  <2> QED BY <2>1 DEF HistoryIsALine
<1>11. CandidatesStay'
  <2>1. ASSUME NEW j \in Identity, NEW k \in DOMAIN order'[j] PROVE StateOf[order'[j][k]] = "candidate"
    BY <1>1, <1>8, <1>9, <2>1 DEF CandidatesStay
  <2> QED BY <2>1 DEF CandidatesStay
<1> QED BY <1>10, <1>11

\* Rows and resources are only ever added: what a reader has found stays.
LEMMA CommitReading ==
  ASSUME NEW w \in Writer, StoreInv, Commit(w) PROVE ReadingOK'
<1>1. ReadingOK /\ revisions \subseteq revisions' /\ UNCHANGED <<rpc, wanted, found>>
  BY CommitTables DEF StoreInv, Commit, readers
<1> QED BY <1>1 DEF ReadingOK
-----------------------------------------------------------------------------
\* A reader that found the row finds every resource of the bundle and no other.
LEMMA ResourcesWhole ==
  ASSUME StoreTypeOK, BundlesWhole, NEW x \in Reader, wanted[x] \in revisions
  PROVE  ResourcesOf(x) = Content[wanted[x]]
<1>1. wanted[x] \in Revision /\ Content[wanted[x]] \subseteq Path
  BY BundlesAssumption DEF StoreTypeOK
<1>2. ASSUME NEW p \in Path, <<wanted[x], p>> \in resources PROVE p \in Content[wanted[x]]
  BY <1>2 DEF BundlesWhole
<1>3. ASSUME NEW p \in Content[wanted[x]] PROVE <<wanted[x], p>> \in resources
  BY DEF BundlesWhole
<1> QED BY <1>1, <1>2, <1>3 DEF ResourcesOf

\* A reader's own steps.
LEMMA ReaderKeeps ==
  ASSUME NEW x \in Reader, StoreInv, ReaderStep(x) PROVE StoreTypeOK' /\ ReadingOK'
<1> USE DEF StoreInv, StoreTypeOK, ReadingOK
<1>1. UNCHANGED <<tables, meta, writers>>
  BY ReaderTables
<1>2. ASSUME NEW i \in Identity, ReadCurrent(x, i) PROVE StoreTypeOK' /\ ReadingOK'
  BY <1>1, <1>2 DEF ReadCurrent, tables, writers
<1>3. ASSUME NEW r \in Revision, ReadRevision(x, r) PROVE StoreTypeOK' /\ ReadingOK'
  BY <1>1, <1>3 DEF ReadRevision, tables, writers
<1>4. CASE ReadRow(x)
  BY <1>1, <1>4 DEF ReadRow, tables, writers
<1>5. CASE ReadResources(x)
  <2>1. ResourcesOf(x) = Content[wanted[x]] /\ ResourcesOf(x) \in SUBSET Path
    BY <1>5, ResourcesWhole DEF ReadResources, ResourcesOf
  <2> QED BY <1>1, <1>5, <2>1 DEF ReadResources, tables, writers
<1>6. CASE ReadVerify(x)
  BY <1>1, <1>6 DEF ReadVerify, tables, writers
<1>7. CASE ReadReturns(x)
  BY <1>1, <1>7 DEF ReadReturns, tables, writers
<1> QED BY <1>2, <1>3, <1>4, <1>5, <1>6, <1>7 DEF ReaderStep

\* What concerns the writers alone does not change with a reader's step.
LEMMA WritersUnchanged ==
  ASSUME OneCheckout, TransactionOK, UNCHANGED <<tables, meta, writers>> PROVE OneCheckout' /\ TransactionOK'
BY DEF OneCheckout, TransactionOK, Acceptable, ExpectedIsCurrent, KeepsState, tables, writers

\* Every step of a writer is quiet or a COMMIT.
LEMMA WriterCases ==
  ASSUME NEW w \in Writer, WriterStep(w) PROVE QuietWriter(w) \/ Commit(w)
BY DEF WriterStep, QuietWriter

\* Every step of every process preserves the invariant.
LEMMA NextStoreInv == StoreInv /\ [StoreNext]_storeVars => StoreInv'
<1> SUFFICES ASSUME StoreInv, [StoreNext]_storeVars PROVE StoreInv'
  OBVIOUS
<1>1. ASSUME NEW w \in Writer, QuietWriter(w) PROVE StoreInv'
  BY <1>1, QuietTables, QuietTypes, QuietCheckout, QuietTransaction, QuietStore, QuietReading DEF StoreInv
<1>2. ASSUME NEW w \in Writer, Commit(w) PROVE StoreInv'
  BY <1>2, CommitTypes, CommitTransaction, CommitBundles, CommitHistory, CommitReading DEF StoreInv
<1>3. ASSUME NEW x \in Reader, ReaderStep(x) PROVE StoreInv'
  BY <1>3, ReaderTables, ReaderKeeps, QuietStore, WritersUnchanged DEF StoreInv
<1>4. CASE UNCHANGED storeVars
  <2>1. StoreTypeOK'
    BY <1>4 DEF StoreInv, StoreTypeOK, storeVars, tables, writers, readers
  <2> QED BY <1>4, <2>1, QuietStore, QuietReading, WritersUnchanged DEF StoreInv, storeVars
<1> QED BY <1>1, <1>2, <1>3, <1>4, WriterCases DEF StoreNext

\* The invariant is what the runs check, strengthened.
LEMMA StoreInvConsistent == StoreInv => StoreConsistent
BY DEF StoreInv, StoreConsistent, ReadingOK, ReadsAreWhole
-----------------------------------------------------------------------------
\* Whoever dies between two statements, and however many processes write and read at once
\* (KnowledgeStore._publish, read): the database holds whole bundles in one line per
\* identity, of one checkout, and a reader gets a whole bundle.
THEOREM StoreStaysConsistent == StoreSpec => []StoreConsistent
<1>1. StoreSpec => []StoreInv
  BY InitStoreInv, NextStoreInv, PTL DEF StoreSpec
<1> QED BY <1>1, StoreInvConsistent, PTL

\* update() compares the revision its caller started from inside the IMMEDIATE transaction:
\* a current revision is replaced only by a writer that expected exactly it.
THEOREM UpdatesNeverLost == StoreSpec => NoLostUpdate
<1> DEFINE Replaced == \A i \in Identity : current'[i] # current[i] =>
             \E w \in Writer : current'[i] = bundle[w] /\ current[i] = expected[w]
<1>1. ASSUME StoreInv, [StoreNext]_storeVars PROVE [Replaced]_storeVars
  <2>1. ASSUME NEW w \in Writer, Commit(w) PROVE Replaced
    <3>1. current \in [Identity -> Revision \union {NoRev}]
      BY <1>1 DEF StoreInv, StoreTypeOK
    <3> QED BY <1>1, <2>1, <3>1, CommitTables
  <2>2. ASSUME NEW w \in Writer, QuietWriter(w) PROVE Replaced
    BY <2>2, QuietTables DEF tables
  <2>3. ASSUME NEW x \in Reader, ReaderStep(x) PROVE Replaced
    BY <2>3, ReaderTables DEF tables
  <2>4. CASE UNCHANGED storeVars
    BY <2>4
  <2> QED BY <1>1, <2>1, <2>2, <2>3, <2>4, WriterCases DEF StoreNext
<1>2. StoreSpec => []StoreInv
  BY InitStoreInv, NextStoreInv, PTL DEF StoreSpec
<1> QED BY <1>1, <1>2, PTL DEF StoreSpec, NoLostUpdate

\* The tables, the transactions, the crashes and the separate queries of a reader come down
\* to publishing whole revisions one after the other.
THEOREM StoreImplementsLog == StoreSpec => ImplementsLog
<1> DEFINE readable == [r \in Revision |-> {p \in Path : <<r, p>> \in resources}]
<1>1. StoreInit => Log!LogInit
  BY DEF StoreInit, Log!LogInit
<1>2. ASSUME StoreInv, [StoreNext]_storeVars PROVE [Log!LogNext]_<<order, readable>>
  <2>1. ASSUME UNCHANGED tables PROVE UNCHANGED <<order, readable>>
    BY <2>1 DEF tables
  <2>2. ASSUME NEW w \in Writer, Commit(w) PROVE Log!LogNext
    <3> DEFINE r == bundle[w]
    <3>1. r \in Revision /\ IdOf[r] \in Identity /\ r \notin revisions /\ Content[r] \subseteq Path
      BY <1>2, <2>2, CommitTables, BundlesAssumption
    <3>2. \A k \in DOMAIN order[IdOf[r]] : order[IdOf[r]][k] # r
      BY <1>2, <3>1 DEF StoreInv, HistoryIsALine
    <3>3. order' = [order EXCEPT ![IdOf[r]] = Append(@, r)]
      BY <1>2, <2>2, CommitTables
    <3>4. resources' = resources \union {<<r, p>> : p \in Content[r]}
      BY <1>2, <2>2, CommitTables
    <3>5. \A p \in Path : <<r, p>> \notin resources
      BY <1>2, <3>1 DEF StoreInv, BundlesWhole
    <3> HIDE DEF r
    <3>6. {p \in Path : <<r, p>> \in resources'} = Content[r]
      BY <3>1, <3>4, <3>5
    <3>7. \A q \in Revision \ {r} : {p \in Path : <<q, p>> \in resources'} = {p \in Path : <<q, p>> \in resources}
      BY <3>4
    <3>8. readable' = [readable EXCEPT ![r] = Content[r]]
      BY <3>1, <3>6, <3>7
    <3> QED BY <3>1, <3>2, <3>3, <3>8 DEF Log!LogNext, Log!Publish
  <2> QED BY <1>2, <2>1, <2>2, WriterCases, QuietTables, ReaderTables DEF StoreNext, storeVars
<1>3. StoreSpec => []StoreInv
  BY InitStoreInv, NextStoreInv, PTL DEF StoreSpec
<1> QED BY <1>1, <1>2, <1>3, PTL DEF StoreSpec, ImplementsLog, Log!LogSpec
-----------------------------------------------------------------------------
(***************************************************************************)
(* For every list of references and all limits: a collection is sound,     *)
(* whatever is published while it reads.                                   *)
(***************************************************************************)

\* What an item and an omission are.
Reason == {"unknown_identity", "ambiguous_identity", "duplicate_identity", "unavailable_revision", "invalid",
           "filters", "query", "output_limit"}
Item == [ref : Named, id : Qualified, revision : Rev]
Omission == [ref : Named, reason : Reason, revision : Rev \cup {NoRevision}]

\* The types of the call; nothing is answered before its loop.
CallTypes ==
  /\ content \in [Qualified -> Rev \cup {NoRevision}]
  /\ owners \in [Id -> SUBSET Authority]
  /\ requested \in Seq(Named)
  /\ pins \in [Named -> Rev \cup {NoRevision}]
  /\ stage \in {"call", "identities", "loop", "refused", "done"} /\ byId \in BOOLEAN
  /\ at \in Nat /\ at <= Len(requested) /\ used \in Nat
  /\ seen \subseteq Qualified
  /\ items \in Seq(Item) /\ omissions \in Seq(Omission)
  /\ stage \in {"call", "identities"} => at = 0 /\ items = << >> /\ omissions = << >> /\ used = 0
  /\ stage = "done" => at = Len(requested)
  /\ byId => stage \in {"loop", "refused", "done"}

\* An item is the one identity its reference could stand for, and at the pinned revision.
ItemBooks ==
  /\ \A i \in DOMAIN items :
       /\ items[i].id \in seen /\ Candidates(items[i].ref) = {items[i].id}
       /\ pins[items[i].ref] # NoRevision =>
            items[i].revision = pins[items[i].ref]
  /\ \A i, j \in DOMAIN items : items[i].id = items[j].id => i = j

\* What was left out for want of room does not fit.
RoomBooks ==
  /\ used <= MaxBytesLimit /\ Len(items) <= Limit
  /\ \A k \in DOMAIN omissions : omissions[k].reason = "output_limit" =>
       /\ omissions[k].revision \in Rev
       /\ Len(items) = Limit \/ used + SizeOf[omissions[k].revision] > MaxBytesLimit

\* The references before at, and no others, are answered, each by one item or one omission.
AnswerBooks ==
  byId =>
    /\ \A k, l \in DOMAIN requested : requested[k] = requested[l] => k = l
    /\ \A k \in 1 .. at : \/ \E i \in DOMAIN items : items[i].ref = requested[k]
                          \/ \E i \in DOMAIN omissions : omissions[i].ref = requested[k]
    /\ \A i \in DOMAIN items : \E k \in 1 .. at : items[i].ref = requested[k]
    /\ \A i \in DOMAIN omissions : \E k \in 1 .. at : omissions[i].ref = requested[k]
    /\ \A i, j \in DOMAIN items : items[i].ref = items[j].ref => i = j
    /\ \A i, j \in DOMAIN omissions : omissions[i].ref = omissions[j].ref => i = j
    /\ \A i \in DOMAIN items, j \in DOMAIN omissions : items[i].ref # omissions[j].ref

CollectInv == CallTypes /\ ItemBooks /\ RoomBooks /\ AnswerBooks

\* Before the call nothing is answered.
LEMMA CollectInitInv ==
  ASSUME CollectInit
  PROVE  CollectInv
<1>1. (CHOOSE r \in Rev : TRUE) \in Rev
  BY CollectAssumption
<1>2. CallTypes
  <2>1. content \in [Qualified -> Rev \cup {NoRevision}]
    BY <1>1 DEF CollectInit
  <2>2. /\ owners \in [Id -> SUBSET Authority] /\ requested \in Seq(Named) /\ items \in Seq(Item)
        /\ omissions \in Seq(Omission) /\ pins \in [Named -> Rev \cup {NoRevision}]
    BY DEF CollectInit
  <2>3. at <= Len(requested) /\ at \in Nat /\ used \in Nat
    BY DEF CollectInit
  <2>4. seen \subseteq Qualified /\ byId \in BOOLEAN /\ ~byId /\ stage = "call"
    BY DEF CollectInit
  <2>5. at = 0 /\ items = << >> /\ omissions = << >> /\ used = 0
    BY DEF CollectInit
  <2> QED BY <2>1, <2>2, <2>3, <2>4, <2>5 DEF CallTypes
<1>3. ItemBooks /\ RoomBooks /\ AnswerBooks
  BY CollectAssumption DEF CollectInit, ItemBooks, RoomBooks, AnswerBooks
<1> QED BY <1>2, <1>3 DEF CollectInv

\* resolve() finds identities of the reference's id.
LEMMA RefTypes ==
  ASSUME CallTypes, NEW f \in Named
  PROVE  f.id \in Id /\ Candidates(f) \subseteq Qualified
<1>1. f.id \in Id
  BY CollectAssumption DEF Named, Qualified
<1>2. owners[f.id] \subseteq Authority
  BY <1>1 DEF CallTypes
<1>3. \A a \in owners[f.id] : [authority |-> a, id |-> f.id] \in Qualified
  BY <1>1, <1>2 DEF Qualified
<1> QED BY <1>1, <1>3 DEF Candidates

\* resolve() finds one identity: the target.
LEMMA TargetOne ==
  ASSUME CallTypes, NEW f \in Named, Cardinality(Candidates(f)) = 1
  PROVE  \E q \in Qualified : Candidates(f) = {q} /\ q.id = f.id /\ q = CHOOSE p \in Candidates(f) : TRUE
<1> DEFINE Q(a) == [authority |-> a, id |-> f.id]
           All == ({Q("package")} \cup {Q("checkout")}) \cup {Q("store")}
<1>1. IsFiniteSet({Q("package")})
  BY FS_Singleton
<1>2. IsFiniteSet({Q("package")} \cup {Q("checkout")})
  BY <1>1, FS_AddElement
<1>3. IsFiniteSet(All)
  BY <1>2, FS_AddElement
<1>4. owners[f.id] \subseteq Authority
  BY RefTypes DEF CallTypes
<1>5. \A a \in owners[f.id] : Q(a) \in All
  BY <1>4 DEF Authority
<1>6. Candidates(f) \subseteq All /\ \A q \in Candidates(f) : q.id = f.id
  BY <1>5 DEF Candidates
<1> HIDE DEF All
<1>7. IsFiniteSet(Candidates(f))
  BY <1>3, <1>6, FS_Subset
<1>8. PICK q : Candidates(f) = {q}
  BY <1>7, FS_Singleton
<1> QED BY <1>6, <1>8, RefTypes

\* What a visit reads and which reference it answers.
LEMMA VisitTypes ==
  ASSUME CallTypes, stage = "loop", at < Len(requested)
  PROVE  Ref \in Named /\ at + 1 \in DOMAIN requested /\ Ref = requested[at + 1]
BY DEF CallTypes, Ref

\* What is read is a revision, and the pinned one if there is one.
LEMMA ReadTypes ==
  ASSUME CallTypes, stage = "loop", at < Len(requested), Resolved, Readable
  PROVE  RevisionRead \in Rev /\ (pins[Ref] # NoRevision => RevisionRead = pins[Ref])
<1>1. Target \in Qualified
  BY VisitTypes, TargetOne DEF Resolved, Target
<1>2. content[Target] \in Rev
  BY <1>1 DEF CallTypes, Readable
<1>3. Pinned \in Rev \cup {NoRevision}
  BY VisitTypes DEF Pinned, CallTypes
<1>4. Target.authority # "store" /\ Pinned # NoRevision => content[Target] = Pinned
  BY DEF Readable, Serves
<1> QED BY <1>2, <1>3, <1>4 DEF RevisionRead, Pinned

\* What stays as it is while a reference is visited.
Context == <<content, stage, arguments, owners>>

\* The owners are looked up once: what a reference may stand for does not change.
LEMMA SameCandidates ==
  ASSUME UNCHANGED owners
  PROVE  \A f : Candidates(f)' = Candidates(f)
BY DEF Candidates

\* A reference is omitted: that is its one answer, and if it is for want of room, there is none.
LEMMA OmitKeeps ==
  ASSUME CollectInv, stage = "loop", at < Len(requested), UNCHANGED Context,
         seen \subseteq seen', seen' \subseteq Qualified,
         NEW reason \in Reason, NEW r \in Rev \cup {NoRevision}, Omit(reason, r),
         reason = "output_limit" => r \in Rev /\ ~Fits(r)
  PROVE  CollectInv'
<1> DEFINE o == [ref |-> Ref, reason |-> reason, revision |-> r]
<1>0. CallTypes /\ ItemBooks /\ RoomBooks /\ AnswerBooks
  BY DEF CollectInv
<1>1. o \in Omission /\ omissions' = Append(omissions, o) /\ at' = at + 1 /\ items' = items /\ used' = used
  BY <1>0, VisitTypes DEF Omit, Advance, Omission
<1>2. /\ o.ref = requested[at + 1] /\ o.reason = reason /\ o.revision = r /\ at + 1 \in DOMAIN requested
  BY <1>0, VisitTypes
<1> HIDE DEF o
<1>3. UNCHANGED <<content, stage, byId, requested, pins, owners>>
  BY DEF Context, arguments
<1>4. /\ omissions' \in Seq(Omission) /\ Len(omissions') = Len(omissions) + 1
      /\ \A k \in DOMAIN omissions : omissions'[k] = omissions[k]
      /\ omissions'[Len(omissions) + 1] = o
      /\ DOMAIN omissions' = DOMAIN omissions \cup {Len(omissions) + 1}
  BY <1>0, <1>1 DEF CallTypes
<1>5. CallTypes'
  BY <1>0, <1>1, <1>3, <1>4 DEF CallTypes
<1>6. ItemBooks'
  BY <1>0, <1>1, <1>3, SameCandidates DEF ItemBooks
<1>7. RoomBooks'
  <2>1. reason = "output_limit" => r \in Rev /\ (Len(items) = Limit \/ used + SizeOf[r] > MaxBytesLimit)
    BY <1>0, CollectAssumption DEF Fits, CallTypes, RoomBooks
  <2> QED BY <1>0, <1>1, <1>2, <1>4, <2>1 DEF RoomBooks
<1>8. AnswerBooks'
  <2> SUFFICES ASSUME byId
               PROVE  AnswerBooks'
    BY <1>3 DEF AnswerBooks
  <2>1. 1 .. at' = 1 .. at \cup {at + 1} /\ at + 1 \notin 1 .. at /\ 1 .. at \subseteq DOMAIN requested
    BY <1>0, <1>1 DEF CallTypes
  <2>0. \A k \in 1 .. at : requested[k] # o.ref
    BY <1>0, <1>2, <2>1 DEF AnswerBooks
  <2>2. \A i \in DOMAIN items : items[i].ref # o.ref
    BY <1>0, <2>0 DEF AnswerBooks
  <2>3. \A i \in DOMAIN omissions : omissions[i].ref # o.ref
    BY <1>0, <2>0 DEF AnswerBooks
  <2>4. \A k, l \in DOMAIN requested' : requested'[k] = requested'[l] => k = l
    BY <1>0, <1>3 DEF AnswerBooks
  <2>5. \A k \in 1 .. at' : \/ \E i \in DOMAIN items' : items'[i].ref = requested'[k]
                            \/ \E i \in DOMAIN omissions' : omissions'[i].ref = requested'[k]
    <3>1. \E i \in DOMAIN omissions' : omissions'[i].ref = requested'[at + 1]
      BY <1>2, <1>3, <1>4
    <3>2. ASSUME NEW k \in 1 .. at
          PROVE  \/ \E i \in DOMAIN items' : items'[i].ref = requested'[k]
                 \/ \E i \in DOMAIN omissions' : omissions'[i].ref = requested'[k]
      <4>1. \/ \E i \in DOMAIN items : items[i].ref = requested[k]
            \/ \E i \in DOMAIN omissions : omissions[i].ref = requested[k]
        BY <1>0 DEF AnswerBooks
      <4> QED BY <1>1, <1>3, <1>4, <4>1
    <3> QED BY <2>1, <3>1, <3>2
  <2>6. \A i \in DOMAIN items' : \E k \in 1 .. at' : items'[i].ref = requested'[k]
    BY <1>0, <1>1, <1>3, <2>1 DEF AnswerBooks
  <2>7. \A i \in DOMAIN omissions' : \E k \in 1 .. at' : omissions'[i].ref = requested'[k]
    <3>1. \A i \in DOMAIN omissions : \E k \in 1 .. at : omissions[i].ref = requested[k]
      BY <1>0 DEF AnswerBooks
    <3>2. ASSUME NEW i \in DOMAIN omissions
          PROVE  \E k \in 1 .. at' : omissions'[i].ref = requested'[k]
      BY <1>3, <1>4, <2>1, <3>1
    <3>3. omissions'[Len(omissions) + 1].ref = requested'[at + 1] /\ at + 1 \in 1 .. at'
      BY <1>2, <1>3, <1>4, <2>1
    <3> QED BY <1>4, <3>2, <3>3
  <2>8. \A i, j \in DOMAIN items' : items'[i].ref = items'[j].ref => i = j
    BY <1>0, <1>1 DEF AnswerBooks
  <2>9. \A i, j \in DOMAIN omissions' : omissions'[i].ref = omissions'[j].ref => i = j
    BY <1>0, <1>4, <2>3 DEF AnswerBooks
  <2>10. \A i \in DOMAIN items', j \in DOMAIN omissions' : items'[i].ref # omissions'[j].ref
    BY <1>0, <1>1, <1>4, <2>2 DEF AnswerBooks
  <2> QED BY <2>4, <2>5, <2>6, <2>7, <2>8, <2>9, <2>10 DEF AnswerBooks
<1> QED BY <1>5, <1>6, <1>7, <1>8 DEF CollectInv

\* A reference nobody asked for by name is left out without a word.
LEMMA SkipKeeps ==
  ASSUME CollectInv, stage = "loop", at < Len(requested), UNCHANGED Context,
         seen \subseteq seen', seen' \subseteq Qualified, ~byId, Advance, UNCHANGED <<items, omissions, used>>
  PROVE  CollectInv'
<1>1. UNCHANGED <<content, stage, byId, requested, pins, owners>> /\ at' = at + 1
  BY DEF Context, arguments, Advance
<1>2. CallTypes'
  BY <1>1 DEF CollectInv, CallTypes
<1>3. ItemBooks'
  BY <1>1, SameCandidates DEF CollectInv, ItemBooks
<1>4. RoomBooks' /\ AnswerBooks'
  BY <1>1 DEF CollectInv, RoomBooks, AnswerBooks
<1> QED BY <1>2, <1>3, <1>4 DEF CollectInv

\* A reference is read: its item is its one answer, and what did not fit before fits even less.
LEMMA SelectKeeps ==
  ASSUME CollectInv, stage = "loop", at < Len(requested), UNCHANGED Context, Select
  PROVE  CollectInv'
<1> DEFINE t == [ref |-> Ref, id |-> Target, revision |-> RevisionRead]
<1>0. CallTypes /\ ItemBooks /\ RoomBooks /\ AnswerBooks
  BY DEF CollectInv
<1>a. /\ Target \in Qualified /\ Candidates(Ref) = {Target} /\ Target \notin seen
      /\ seen' = seen \cup {Target}
  BY <1>0, VisitTypes, TargetOne DEF Select, Fresh, Resolved, Target
<1>b. RevisionRead \in Rev /\ (pins[Ref] # NoRevision => RevisionRead = pins[Ref])
  BY <1>0, ReadTypes DEF Select, Fresh
<1>1. /\ t \in Item /\ items' = Append(items, t) /\ at' = at + 1 /\ omissions' = omissions
      /\ used' = used + SizeOf[RevisionRead]
  BY <1>0, <1>a, <1>b, VisitTypes DEF Select, Advance, Item
<1>2. /\ t.ref = requested[at + 1] /\ t.id = Target /\ t.revision = RevisionRead
      /\ at + 1 \in DOMAIN requested /\ t.ref = Ref
  BY <1>0, VisitTypes
<1> HIDE DEF t
<1>3. UNCHANGED <<content, stage, byId, requested, pins, owners>>
  BY DEF Context, arguments
<1>4. /\ items' \in Seq(Item) /\ Len(items') = Len(items) + 1
      /\ \A k \in DOMAIN items : items'[k] = items[k]
      /\ items'[Len(items) + 1] = t
      /\ DOMAIN items' = DOMAIN items \cup {Len(items) + 1}
  BY <1>0, <1>1 DEF CallTypes
<1>r. /\ SizeOf[RevisionRead] \in Nat /\ used + SizeOf[RevisionRead] <= MaxBytesLimit /\ Len(items) < Limit
      /\ used \in Nat /\ Len(items) \in Nat /\ Limit \in Nat /\ MaxBytesLimit \in Nat
  BY <1>0, <1>b, CollectAssumption DEF Select, Fits, CallTypes
<1>5. CallTypes'
  BY <1>0, <1>a, <1>1, <1>3, <1>4, <1>r DEF CallTypes
<1>6. ItemBooks'
  <2>1. ASSUME NEW i \in DOMAIN items
        PROVE  /\ items'[i].id \in seen' /\ Candidates(items'[i].ref) = {items'[i].id}
               /\ pins'[items'[i].ref] # NoRevision =>
                    items'[i].revision = pins'[items'[i].ref]
               /\ items'[i].id # t.id
    BY <1>0, <1>a, <1>2, <1>3, <1>4 DEF ItemBooks
  <2>2. /\ t.id \in seen' /\ Candidates(t.ref) = {t.id}
        /\ pins'[t.ref] # NoRevision => t.revision = pins'[t.ref]
    BY <1>a, <1>b, <1>2, <1>3
  <2>3. \A i \in DOMAIN items' :
          /\ items'[i].id \in seen' /\ Candidates(items'[i].ref) = {items'[i].id}
          /\ pins'[items'[i].ref] # NoRevision =>
               items'[i].revision = pins'[items'[i].ref]
    BY <1>4, <2>1, <2>2
  <2>4. \A i, j \in DOMAIN items' : items'[i].id = items'[j].id => i = j
    BY <1>0, <1>4, <2>1 DEF ItemBooks
  <2> QED BY <1>3, <2>3, <2>4 DEF ItemBooks, Candidates
<1>7. RoomBooks'
  <2>1. used' <= MaxBytesLimit /\ Len(items') <= Limit
    BY <1>1, <1>4, <1>r
  <2>2. ASSUME NEW k \in DOMAIN omissions, omissions[k].reason = "output_limit"
        PROVE  omissions[k].revision \in Rev /\ used' + SizeOf[omissions[k].revision] > MaxBytesLimit
    <3>1. omissions[k].revision \in Rev /\ used + SizeOf[omissions[k].revision] > MaxBytesLimit
      BY <1>0, <1>r, <2>2 DEF RoomBooks
    <3>2. SizeOf[omissions[k].revision] \in Nat
      BY <3>1, CollectAssumption
    <3>3. used' \in Nat /\ used' >= used
      BY <1>1, <1>r
    <3> QED BY <1>r, <3>1, <3>2, <3>3
  <2> QED BY <1>1, <2>1, <2>2 DEF RoomBooks
<1>8. AnswerBooks'
  <2> SUFFICES ASSUME byId
               PROVE  AnswerBooks'
    BY <1>3 DEF AnswerBooks
  <2>1. 1 .. at' = 1 .. at \cup {at + 1} /\ at + 1 \notin 1 .. at /\ 1 .. at \subseteq DOMAIN requested
    BY <1>0, <1>1 DEF CallTypes
  <2>0. \A k \in 1 .. at : requested[k] # t.ref
    BY <1>0, <1>2, <2>1 DEF AnswerBooks
  <2>2. \A i \in DOMAIN items : items[i].ref # t.ref
    BY <1>0, <2>0 DEF AnswerBooks
  <2>3. \A i \in DOMAIN omissions : omissions[i].ref # t.ref
    BY <1>0, <2>0 DEF AnswerBooks
  <2>4. \A k, l \in DOMAIN requested' : requested'[k] = requested'[l] => k = l
    BY <1>0, <1>3 DEF AnswerBooks
  <2>5. \A k \in 1 .. at' : \/ \E i \in DOMAIN items' : items'[i].ref = requested'[k]
                            \/ \E i \in DOMAIN omissions' : omissions'[i].ref = requested'[k]
    <3>1. \E i \in DOMAIN items' : items'[i].ref = requested'[at + 1]
      BY <1>2, <1>3, <1>4
    <3>2. ASSUME NEW k \in 1 .. at
          PROVE  \/ \E i \in DOMAIN items' : items'[i].ref = requested'[k]
                 \/ \E i \in DOMAIN omissions' : omissions'[i].ref = requested'[k]
      <4>1. \/ \E i \in DOMAIN items : items[i].ref = requested[k]
            \/ \E i \in DOMAIN omissions : omissions[i].ref = requested[k]
        BY <1>0 DEF AnswerBooks
      <4> QED BY <1>1, <1>3, <1>4, <4>1
    <3> QED BY <2>1, <3>1, <3>2
  <2>6. \A i \in DOMAIN items' : \E k \in 1 .. at' : items'[i].ref = requested'[k]
    <3>1. \A i \in DOMAIN items : \E k \in 1 .. at : items[i].ref = requested[k]
      BY <1>0 DEF AnswerBooks
    <3>2. ASSUME NEW i \in DOMAIN items
          PROVE  \E k \in 1 .. at' : items'[i].ref = requested'[k]
      BY <1>3, <1>4, <2>1, <3>1
    <3>3. items'[Len(items) + 1].ref = requested'[at + 1] /\ at + 1 \in 1 .. at'
      BY <1>2, <1>3, <1>4, <2>1
    <3> QED BY <1>4, <3>2, <3>3
  <2>7. \A i \in DOMAIN omissions' : \E k \in 1 .. at' : omissions'[i].ref = requested'[k]
    BY <1>0, <1>1, <1>3, <2>1 DEF AnswerBooks
  <2>8. \A i, j \in DOMAIN items' : items'[i].ref = items'[j].ref => i = j
    BY <1>0, <1>4, <2>2 DEF AnswerBooks
  <2>9. \A i, j \in DOMAIN omissions' : omissions'[i].ref = omissions'[j].ref => i = j
    BY <1>0, <1>1 DEF AnswerBooks
  <2>10. \A i \in DOMAIN items', j \in DOMAIN omissions' : items'[i].ref # omissions'[j].ref
    BY <1>0, <1>1, <1>4, <2>3 DEF AnswerBooks
  <2> QED BY <2>4, <2>5, <2>6, <2>7, <2>8, <2>9, <2>10 DEF AnswerBooks
<1> QED BY <1>5, <1>6, <1>7, <1>8 DEF CollectInv

\* One reference of the list is answered, or passed over.
LEMMA VisitKeeps ==
  ASSUME CollectInv, Visit
  PROVE  CollectInv'
<1>0. stage = "loop" /\ at < Len(requested) /\ UNCHANGED Context /\ CallTypes
  BY DEF Visit, Context, sources, CollectInv
<1>1. seen \subseteq Qualified
  BY <1>0 DEF CallTypes
<1>2. Resolved => Target \in Qualified
  BY <1>0, VisitTypes, TargetOne DEF Resolved, Target
<1>3. Fresh => seen \subseteq seen' /\ seen' \subseteq Qualified
  BY <1>1, <1>2 DEF Fresh
<1> DEFINE Others == Reason \ {"output_limit"}
<1>p. ASSUME NEW reason \in Others, Omit(reason, NoRevision), seen \subseteq seen', seen' \subseteq Qualified
      PROVE  CollectInv'
  BY <1>0, <1>p, OmitKeeps
<1>4. ASSUME NEW reason \in Others, Filter(reason), Fresh
      PROVE  CollectInv'
  <2>1. CASE byId
    BY <1>p, <1>3, <1>4, <2>1 DEF Filter
  <2>2. CASE ~byId
    BY <1>0, <1>3, <1>4, <2>2, SkipKeeps DEF Filter
  <2> QED BY <2>1, <2>2
<1>5. CASE Unresolved
  <2>1. seen \subseteq seen' /\ seen' \subseteq Qualified
    BY <1>1, <1>5 DEF Unresolved
  <2>2. PICK reason \in {"unknown_identity", "ambiguous_identity"} : Omit(reason, NoRevision)
    BY <1>5 DEF Unresolved
  <2> QED BY <1>p, <2>1, <2>2 DEF Reason
<1>6. CASE Duplicate
  <2>1. Omit("duplicate_identity", NoRevision) /\ seen' = seen
    BY <1>6 DEF Duplicate
  <2>2. seen \subseteq seen' /\ seen' \subseteq Qualified
    BY <1>1, <2>1
  <2>3. "duplicate_identity" \in Others
    BY DEF Reason
  <2> QED BY <1>p, <2>1, <2>2, <2>3
<1>7. CASE Unreadable
  <2>1. PICK reason \in {"unavailable_revision", "invalid"} : Omit(reason, NoRevision)
    BY <1>7 DEF Unreadable
  <2>2. Fresh
    BY <1>7 DEF Unreadable
  <2> QED BY <1>p, <1>3, <2>1, <2>2 DEF Reason
<1>8. CASE FilteredOut \/ QueryMisses
  <2>1. PICK reason \in {"filters", "query"} : Filter(reason)
    BY <1>8 DEF FilteredOut, QueryMisses
  <2>2. Fresh
    BY <1>8 DEF FilteredOut, QueryMisses
  <2> QED BY <1>4, <2>1, <2>2 DEF Reason
<1>9. CASE TooMuch
  <2>1. RevisionRead \in Rev
    BY <1>0, <1>9, ReadTypes DEF TooMuch, Fresh
  <2>2. Fresh /\ ~Fits(RevisionRead) /\ Omit("output_limit", RevisionRead)
    BY <1>9 DEF TooMuch
  <2>3. "output_limit" \in Reason /\ RevisionRead \in Rev \cup {NoRevision}
    BY <2>1 DEF Reason
  <2> QED BY <1>0, <1>3, <2>1, <2>2, <2>3, OmitKeeps
<1>10. CASE Select
  BY <1>0, <1>10, SelectKeeps
<1> QED BY <1>5, <1>6, <1>7, <1>8, <1>9, <1>10 DEF Visit

\* Without ids, every present identity is requested.
LEMMA IdentitiesKeeps ==
  ASSUME CollectInv, Identities
  PROVE  CollectInv'
<1> DEFINE present == {k \in DOMAIN Sorted : content[Sorted[k]] # NoRevision}
<1>1. PICK index \in [1 .. Cardinality(present) -> present] : requested' = [i \in DOMAIN index |-> Sorted[index[i]]]
  BY DEF Identities
<1>2. Cardinality(present) \in Nat
  <2>1. Len(Sorted) \in Nat /\ present \subseteq 1 .. Len(Sorted)
    BY CollectAssumption
  <2> HIDE DEF present
  <2>2. IsFiniteSet(1 .. Len(Sorted))
    BY <2>1, FS_Interval
  <2> QED BY <2>1, <2>2, FS_Subset, FS_CardinalityType
<1>3. \A i \in 1 .. Cardinality(present) : Sorted[index[i]] \in Named
  <2>1. \A k \in DOMAIN Sorted : Sorted[k] \in Qualified
    BY CollectAssumption
  <2>2. \A i \in 1 .. Cardinality(present) : index[i] \in DOMAIN Sorted
    BY <1>1
  <2> QED BY <2>1, <2>2 DEF Named
<1> HIDE DEF present
<1>4. requested' \in Seq(Named) /\ Len(requested') = Cardinality(present)
  BY <1>1, <1>2, <1>3
<1>5. ~byId /\ at = 0 /\ items = << >> /\ omissions = << >> /\ used = 0
  BY DEF Identities, CollectInv, CallTypes
<1>6. stage' \in {"loop", "refused"} /\ UNCHANGED <<content, byId, pins, owners, at, seen, items, omissions, used>>
  BY DEF Identities, Accepted, sources
<1>7. CallTypes'
  BY <1>2, <1>4, <1>5, <1>6 DEF CollectInv, CallTypes
<1>8. ItemBooks' /\ RoomBooks' /\ AnswerBooks'
  BY <1>5, <1>6 DEF CollectInv, ItemBooks, RoomBooks, AnswerBooks
<1> QED BY <1>7, <1>8 DEF CollectInv

\* The call takes a list without duplicates.
LEMMA CallKeeps ==
  ASSUME CollectInv,
         NEW ids \in Requests, NEW p \in PinChoices, NEW f, NEW u, Call(ids, p, f, u)
  PROVE  CollectInv'
<1>1. ids \in Seq(Named) /\ \A i, j \in DOMAIN ids : ids[i] = ids[j] => i = j
  BY CollectAssumption DEF Named
<1>2. ~byId /\ at = 0 /\ items = << >> /\ omissions = << >> /\ used = 0
  BY DEF Call, CollectInv, CallTypes
<1>3. /\ byId' = (ids # << >>) /\ requested' = ids /\ UNCHANGED <<content, at, seen, items, omissions, used>>
      /\ IF ids = << >> THEN stage' = "identities" ELSE stage' \in {"loop", "refused"}
  BY DEF Call, Accepted, sources
<1>4. owners' \in [Id -> SUBSET Authority] /\ pins' \in [Named -> Rev \cup {NoRevision}]
  BY CollectAssumption DEF Call, OwnersNow
<1>5. CallTypes'
  BY <1>1, <1>2, <1>3, <1>4 DEF CollectInv, CallTypes
<1>6. ItemBooks' /\ RoomBooks'
  BY <1>2, <1>3 DEF CollectInv, ItemBooks, RoomBooks
<1>7. AnswerBooks'
  BY <1>1, <1>2, <1>3 DEF AnswerBooks
<1> QED BY <1>5, <1>6, <1>7 DEF CollectInv

\* What is published or changed meanwhile touches no answer.
LEMMA ChangeKeeps ==
  ASSUME CollectInv,
         NEW q \in Qualified, NEW r \in Rev \cup {NoRevision}, Change(q, r)
  PROVE  CollectInv'
<1>1. content' \in [Qualified -> Rev \cup {NoRevision}]
  BY DEF Change, CollectInv, CallTypes
<1>2. UNCHANGED <<stage, byId, requested, pins, owners, at, seen, items, omissions, used>>
  BY DEF Change, arguments
<1>3. CallTypes'
  BY <1>1, <1>2 DEF CollectInv, CallTypes
<1>4. ItemBooks'
  BY <1>2, SameCandidates DEF CollectInv, ItemBooks
<1>5. RoomBooks' /\ AnswerBooks'
  BY <1>2 DEF CollectInv, RoomBooks, AnswerBooks
<1> QED BY <1>3, <1>4, <1>5 DEF CollectInv

\* Every step keeps the books.
LEMMA CollectStep ==
  ASSUME CollectInv, [CollectNext]_collectVars
  PROVE  CollectInv'
<1>1. ASSUME NEW q \in Qualified, NEW r \in Rev \union {NoRevision}, Change(q, r)
      PROVE  CollectInv'
  BY <1>1, ChangeKeeps
<1>2. ASSUME NEW ids \in Requests, NEW p \in PinChoices, NEW f, NEW u, Call(ids, p, f, u)
      PROVE  CollectInv'
  BY <1>2, CallKeeps
<1>3. ASSUME Return \/ UNCHANGED collectVars
      PROVE  CollectInv'
  <2>1. /\ UNCHANGED <<content, byId, requested, pins, owners, at, seen, items, omissions, used>>
        /\ stage' = stage \/ (stage = "loop" /\ stage' = "done" /\ at = Len(requested))
    BY <1>3 DEF Return, sources, arguments, collectVars
  <2>2. CallTypes'
    BY <2>1 DEF CollectInv, CallTypes
  <2>3. ItemBooks'
    BY <2>1, SameCandidates DEF CollectInv, ItemBooks
  <2>4. RoomBooks' /\ AnswerBooks'
    BY <2>1 DEF CollectInv, RoomBooks, AnswerBooks
  <2> QED BY <2>2, <2>3, <2>4 DEF CollectInv
<1> QED BY <1>1, <1>2, <1>3, IdentitiesKeeps, VisitKeeps DEF CollectNext, Returned

\* The books yield the properties.
LEMMA CollectInvImplies ==
  ASSUME CollectInv
  PROVE  /\ CollectTypeOK
         /\ EveryRequestAnswered /\ NoPrecedence /\ PinnedRevision /\ OmittedForRoom
<1>1. CollectTypeOK /\ PinnedRevision /\ OmittedForRoom
  BY DEF CollectInv, CallTypes, ItemBooks, RoomBooks, CollectTypeOK, PinnedRevision, OmittedForRoom
<1>2. NoPrecedence
  <2>1. ASSUME NEW i \in DOMAIN items, items[i].ref.authority = "any"
        PROVE  owners[items[i].ref.id] = {items[i].id.authority}
    <3> DEFINE f == items[i].ref
    <3>1. {[authority |-> a, id |-> f.id] : a \in owners[f.id]} = {items[i].id}
      BY <2>1 DEF CollectInv, ItemBooks, Candidates
    <3>2. \A a \in owners[f.id] : a = items[i].id.authority
      <4> TAKE a \in owners[f.id]
      <4>1. [authority |-> a, id |-> f.id] = items[i].id
        BY <3>1
      <4> QED BY <4>1
    <3>3. \E a \in owners[f.id] : TRUE
      BY <3>1
    <3> QED BY <3>2, <3>3
  <2> QED BY <2>1 DEF CollectInv, ItemBooks, NoPrecedence
<1>3. EveryRequestAnswered
  <2> SUFFICES ASSUME stage = "done", byId, NEW k \in DOMAIN requested
               PROVE  Cardinality({i \in DOMAIN items : items[i].ref = requested[k]})
                        + Cardinality({i \in DOMAIN omissions : omissions[i].ref = requested[k]}) = 1
    BY DEF EveryRequestAnswered
  <2> DEFINE I == {i \in DOMAIN items : items[i].ref = requested[k]}
             O == {i \in DOMAIN omissions : omissions[i].ref = requested[k]}
  <2>1. k \in 1 .. at
    BY DEF CollectInv, CallTypes
  <2>2. I = {} \/ O = {}
    BY DEF CollectInv, AnswerBooks
  <2>3. I # {} \/ O # {}
    BY <2>1 DEF CollectInv, AnswerBooks
  <2>4. \A i, j \in I : i = j
    BY DEF CollectInv, AnswerBooks
  <2>5. \A i, j \in O : i = j
    BY DEF CollectInv, AnswerBooks
  <2> HIDE DEF I, O
  <2>6. (\E i : I = {i} /\ O = {}) \/ (\E i : O = {i} /\ I = {})
    <3>1. I # {} => \E i : I = {i}
      <4> SUFFICES ASSUME NEW i \in I
                   PROVE  I = {i}
        OBVIOUS
      <4> QED BY <2>4
    <3>2. O # {} => \E i : O = {i}
      <4> SUFFICES ASSUME NEW i \in O
                   PROVE  O = {i}
        OBVIOUS
      <4> QED BY <2>5
    <3> QED BY <2>2, <2>3, <3>1, <3>2
  <2>7. Cardinality({}) = 0 /\ \A i : Cardinality({i}) = 1
    <3>1. Cardinality({}) = 0
      BY FS_EmptySet
    <3>2. ASSUME NEW i PROVE Cardinality({i}) = 1
      BY FS_Singleton
    <3> QED BY <3>1, <3>2
  <2>8. Cardinality(I) + Cardinality(O) = 1
    <3>1. \/ Cardinality(I) = 1 /\ Cardinality(O) = 0
          \/ Cardinality(O) = 1 /\ Cardinality(I) = 0
      BY <2>6, <2>7, Zenon
    <3> QED BY <3>1
  <2> QED BY <2>8 DEF I, O
<1> QED BY <1>1, <1>2, <1>3

\* Every state of a collection is sound: each reference asked for is answered once, by
\* the only identity it can stand for and at the revision asked for, and nothing is
\* left out that still fits (KnowledgeReader.collect), though the store and the checkout
\* change between any two reads.
THEOREM CollectAlwaysSound == Spec => []CollectSound
<1> DEFINE Inv == part = "collect" => CollectInv
<1>1. Init => Inv
  BY CollectInitInv DEF Init
<1>2. Inv /\ [Next]_vars => Inv'
  <2> SUFFICES ASSUME Inv, [Next]_vars, part' = "collect"
               PROVE  CollectInv'
    OBVIOUS
  <2>1. part = "collect" /\ [CollectNext]_collectVars
    BY DEF Next, vars
  <2> QED BY <2>1, CollectStep
<1>3. Inv => CollectSound
  BY CollectInvImplies DEF CollectSound
<1> QED BY <1>1, <1>2, <1>3, PTL DEF Spec
=============================================================================
