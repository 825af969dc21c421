---------------------------- MODULE KnowledgeStore ----------------------------
(***************************************************************************)
(* The writable knowledge store of InferRSI: revisions of bundles in an    *)
(* SQLite file that several processes open at once                         *)
(* (inferrsi/knowledge_store.py).  A writer validates its bundle, then     *)
(* compares and inserts inside one IMMEDIATE transaction; a reader uses    *)
(* one query after the other, each its own transaction.  A process may die *)
(* anywhere: SQLite then rolls its transaction back.                       *)
(*                                                                         *)
(* A revision is the hash of the whole bundle, so it determines the        *)
(* identity, the state and the resources of the bundle.                    *)
(***************************************************************************)
EXTENDS Naturals, Sequences

CONSTANTS
  Writer, Reader, Identity, Revision, Path, Root,
  IdOf,        \* revision -> its identity
  StateOf,     \* revision -> the state in its metadata
  Content,     \* revision -> the paths of its resources
  Reserved,    \* the identities of the package and the checkout
  NoRev, NoRoot, NoWriter

ASSUME BundlesAssumption ==
  /\ IdOf \in [Revision -> Identity]
  /\ Content \in [Revision -> SUBSET Path]
  /\ \A r \in Revision : Content[r] # {}
ASSUME NullsAssumption == NoRev \notin Revision /\ NoRoot \notin Root /\ NoWriter \notin Writer

VARIABLES
  revisions,   \* table: the rows, by revision
  parent,      \* their parent column
  order,       \* identity -> its rows by rowid
  resources,   \* table: the rows <<revision, path>>
  current,     \* table: identity -> revision
  meta,        \* table: the reserved skill root
  lock,        \* who holds the write lock of the database
  pc, root, bundle, expected, staged,   \* of each writer; staged: its uncommitted inserts
  rpc, wanted, found                    \* of each reader

tables == <<revisions, parent, order, resources, current>>
writers == <<lock, pc, root, bundle, expected, staged>>
readers == <<rpc, wanted, found>>
storeVars == <<tables, meta, writers, readers>>

StoreInit ==
  /\ revisions = {} /\ parent = [r \in Revision |-> NoRev]
  /\ order = [i \in Identity |-> << >>]
  /\ resources = {}
  /\ current = [i \in Identity |-> NoRev]
  /\ meta = NoRoot
  /\ lock = NoWriter
  /\ pc = [w \in Writer |-> "closed"]
  /\ root \in [Writer -> Root]
  /\ bundle = [w \in Writer |-> NoRev]
  /\ expected = [w \in Writer |-> NoRev]
  /\ staged = [w \in Writer |-> {}]
  /\ rpc = [x \in Reader |-> "idle"]
  /\ wanted = [x \in Reader |-> NoRev]
  /\ found = [x \in Reader |-> {}]

Goto(w, where) == pc' = [pc EXCEPT ![w] = where]

\* The call of a writer is over, and with it its arguments.
Leave(w, where) ==
  /\ Goto(w, where)
  /\ bundle' = [bundle EXCEPT ![w] = NoRev]
  /\ expected' = [expected EXCEPT ![w] = NoRev]
  /\ staged' = [staged EXCEPT ![w] = {}]
-----------------------------------------------------------------------------
(* KnowledgeStore.__init__: the store is bound to one skills checkout *)

\* The tables exist; SELECT of the reserved root: another one is refused.
OpenSelect(w) ==
  /\ pc[w] = "closed"
  /\ Goto(w, CASE meta = NoRoot -> "unreserved"
               [] meta # NoRoot /\ meta = root[w] -> "idle"
               [] OTHER -> "refused")
  /\ UNCHANGED <<tables, meta, lock, root, bundle, expected, staged, readers>>

\* Mutant of InsertRoot: the reservation is replaced if it is there already.
InsertOrReplace(w) == meta' = root[w] /\ Goto(w, "idle")

\* INSERT INTO meta: the key is primary, so the second of two INSERTs fails.
InsertRoot(w) ==
  IF meta = NoRoot THEN meta' = root[w] /\ Goto(w, "idle")
  ELSE UNCHANGED meta /\ Goto(w, "refused")

OpenInsert(w) ==
  /\ pc[w] = "unreserved"
  /\ lock = NoWriter
  /\ InsertRoot(w)
  /\ UNCHANGED <<tables, lock, root, bundle, expected, staged, readers>>
\* The write lock is taken for longer than five seconds.
OpenBusy(w) ==
  /\ pc[w] = "unreserved" /\ lock # NoWriter
  /\ Goto(w, "closed")
  /\ UNCHANGED <<tables, meta, lock, root, bundle, expected, staged, readers>>
-----------------------------------------------------------------------------
(* create, update, _publish *)

\* create(bundle), or update(bundle, expected): the checks before the transaction.
Request(w, r, e) ==
  /\ pc[w] = "idle"
  /\ IdOf[r] \notin Reserved
  /\ e = NoRev => StateOf[r] = "candidate"
  /\ bundle' = [bundle EXCEPT ![w] = r]
  /\ expected' = [expected EXCEPT ![w] = e]
  /\ Goto(w, "begin")
  /\ UNCHANGED <<tables, meta, lock, root, staged, readers>>

MayBegin(w) == lock = NoWriter

\* BEGIN IMMEDIATE takes the write lock ...
Begin(w) ==
  /\ pc[w] = "begin" /\ MayBegin(w)
  /\ lock' = w
  /\ Goto(w, "check")
  /\ UNCHANGED <<tables, meta, root, bundle, expected, staged, readers>>

\* ... or gives up after five seconds.
BeginBusy(w) ==
  /\ pc[w] = "begin" /\ lock # NoWriter
  /\ Leave(w, "idle")
  /\ UNCHANGED <<tables, meta, lock, root, readers>>

\* Mutant of ExpectedIsCurrent: an update is compared with nothing.
UpdatesAnything(w) ==
  IF expected[w] = NoRev THEN current[IdOf[bundle[w]]] = NoRev ELSE current[IdOf[bundle[w]]] # NoRev

\* The revision the caller started from is still the current one.
ExpectedIsCurrent(w) == current[IdOf[bundle[w]]] = expected[w]

KeepsState(w) == expected[w] # NoRev => StateOf[bundle[w]] = StateOf[expected[w]]

\* The checks inside the transaction.
Acceptable(w) ==
  /\ ExpectedIsCurrent(w)
  /\ KeepsState(w)
  /\ bundle[w] # expected[w]
  /\ bundle[w] \notin revisions

CheckPasses(w) ==
  /\ pc[w] = "check" /\ Acceptable(w)
  /\ Goto(w, "insert")
  /\ UNCHANGED <<tables, meta, lock, root, bundle, expected, staged, readers>>

\* A conflict: the transaction is rolled back.
CheckFails(w) ==
  /\ pc[w] = "check" /\ ~Acceptable(w)
  /\ lock' = NoWriter
  /\ Leave(w, "idle")
  /\ UNCHANGED <<tables, meta, root, readers>>

\* The three INSERTs, in the code's order.
Following(part) == [none |-> "row", row |-> "resources", resources |-> "current"][part]
LastStaged(w) ==
  CASE "resources" \in staged[w] -> "resources" [] "row" \in staged[w] /\ "resources" \notin staged[w] -> "row"
    [] OTHER -> "none"

Insert(w) ==
  /\ pc[w] = "insert" /\ "current" \notin staged[w]
  /\ staged' = [staged EXCEPT ![w] = @ \union {Following(LastStaged(w))}]
  /\ UNCHANGED <<tables, meta, lock, pc, root, bundle, expected, readers>>

\* What a transaction that holds these parts makes of the tables.
Apply(w, parts) ==
  LET r == bundle[w] i == IdOf[bundle[w]] IN
  /\ revisions' = IF "row" \in parts THEN revisions \union {r} ELSE revisions
  /\ parent' = IF "row" \in parts THEN [parent EXCEPT ![r] = expected[w]] ELSE parent
  /\ order' = IF "row" \in parts THEN [order EXCEPT ![i] = Append(@, r)] ELSE order
  /\ resources' = IF "resources" \in parts THEN resources \union {<<r, p>> : p \in Content[r]} ELSE resources
  /\ current' = IF "current" \in parts THEN [current EXCEPT ![i] = r] ELSE current

\* COMMIT, when the with block ends; the caller learns the revision.
Commit(w) ==
  /\ pc[w] = "insert" /\ "current" \in staged[w]
  /\ Apply(w, staged[w])
  /\ lock' = NoWriter
  /\ Leave(w, "idle")
  /\ UNCHANGED <<meta, root, readers>>

Release(w) == lock' = IF lock = w THEN NoWriter ELSE lock

\* Mutant of Crash: every INSERT is committed on its own, so a crash keeps those before it.
CrashKeeps(w) ==
  /\ pc[w] \notin {"closed", "refused"}
  /\ Apply(w, staged[w])
  /\ Release(w)
  /\ Leave(w, "closed")
  /\ UNCHANGED <<meta, root, readers>>

\* The process dies, or an INSERT fails: SQLite rolls back; it may open the store again.
Crash(w) ==
  /\ pc[w] \notin {"closed", "refused"}
  /\ Release(w)
  /\ Leave(w, "closed")
  /\ UNCHANGED <<tables, meta, root, readers>>
-----------------------------------------------------------------------------
(* read: three queries, with nothing to hold them together *)
ReadCurrent(x, i) ==
  /\ rpc[x] = "idle" /\ current[i] # NoRev
  /\ wanted' = [wanted EXCEPT ![x] = current[i]]
  /\ rpc' = [rpc EXCEPT ![x] = "row"]
  /\ UNCHANGED <<tables, meta, writers, found>>

ReadRevision(x, r) ==
  /\ rpc[x] = "idle"
  /\ wanted' = [wanted EXCEPT ![x] = r]
  /\ rpc' = [rpc EXCEPT ![x] = "row"]
  /\ UNCHANGED <<tables, meta, writers, found>>

ReadRow(x) ==
  /\ rpc[x] = "row"
  /\ rpc' = [rpc EXCEPT ![x] = IF wanted[x] \in revisions THEN "resources" ELSE "unknown"]
  /\ UNCHANGED <<tables, meta, writers, wanted, found>>

ResourcesOf(x) == {p \in Path : <<wanted[x], p>> \in resources}

ReadResources(x) ==
  /\ rpc[x] = "resources"
  /\ found' = [found EXCEPT ![x] = ResourcesOf(x)]
  /\ rpc' = [rpc EXCEPT ![x] = "verify"]
  /\ UNCHANGED <<tables, meta, writers, wanted>>

\* The hash over what was read.
ReadVerify(x) ==
  /\ rpc[x] = "verify"
  /\ rpc' = [rpc EXCEPT ![x] = IF found[x] = Content[wanted[x]] THEN "read" ELSE "mismatch"]
  /\ UNCHANGED <<tables, meta, writers, wanted, found>>

ReadReturns(x) ==
  /\ rpc[x] \in {"read", "unknown", "mismatch"}
  /\ rpc' = [rpc EXCEPT ![x] = "idle"]
  /\ wanted' = [wanted EXCEPT ![x] = NoRev]
  /\ found' = [found EXCEPT ![x] = {}]
  /\ UNCHANGED <<tables, meta, writers>>
-----------------------------------------------------------------------------
WriterStep(w) ==
  \/ OpenSelect(w) \/ OpenInsert(w) \/ OpenBusy(w)
  \/ \E r \in Revision, e \in Revision \union {NoRev} : Request(w, r, e)
  \/ Begin(w) \/ BeginBusy(w) \/ CheckPasses(w) \/ CheckFails(w) \/ Insert(w) \/ Commit(w) \/ Crash(w)

ReaderStep(x) ==
  \/ \E i \in Identity : ReadCurrent(x, i)
  \/ \E r \in Revision : ReadRevision(x, r)
  \/ ReadRow(x) \/ ReadResources(x) \/ ReadVerify(x) \/ ReadReturns(x)

StoreNext == (\E w \in Writer : WriterStep(w)) \/ (\E x \in Reader : ReaderStep(x))
StoreSpec == StoreInit /\ [][StoreNext]_storeVars
-----------------------------------------------------------------------------
\* Types, and the lock: a writer inside its transaction holds it, and nobody else is inside one.
StoreTypeOK ==
  /\ revisions \subseteq Revision
  /\ parent \in [Revision -> Revision \union {NoRev}]
  /\ order \in [Identity -> Seq(Revision)]
  /\ resources \subseteq Revision \X Path
  /\ current \in [Identity -> Revision \union {NoRev}]
  /\ meta \in Root \union {NoRoot}
  /\ lock \in Writer \union {NoWriter}
  /\ pc \in [Writer -> {"closed", "unreserved", "refused", "idle", "begin", "check", "insert"}]
  /\ root \in [Writer -> Root]
  /\ bundle \in [Writer -> Revision \union {NoRev}]
  /\ expected \in [Writer -> Revision \union {NoRev}]
  /\ staged \in [Writer -> SUBSET {"row", "resources", "current"}]
  /\ rpc \in [Reader -> {"idle", "row", "resources", "verify", "read", "unknown", "mismatch"}]
  /\ wanted \in [Reader -> Revision \union {NoRev}]
  /\ found \in [Reader -> SUBSET Path]
  /\ \A w \in Writer : pc[w] \in {"check", "insert"} <=> lock = w

\* Whatever dies and wherever, a revision is in the store with all its resources or not at all.
BundlesWhole ==
  /\ \A r \in revisions : \A p \in Content[r] : <<r, p>> \in resources
  /\ \A q \in resources : q[1] \in revisions /\ q[2] \in Content[q[1]]

\* The history of an identity is one line: its newest row is the current one, every row
\* names the row before it as its parent, and none occurs twice.
HistoryIsALine ==
  \A i \in Identity :
    /\ current[i] = IF order[i] = << >> THEN NoRev ELSE order[i][Len(order[i])]
    /\ \A k \in DOMAIN order[i] :
         /\ order[i][k] \in revisions /\ IdOf[order[i][k]] = i
         /\ parent[order[i][k]] = IF k = 1 THEN NoRev ELSE order[i][k - 1]
         /\ \A j \in DOMAIN order[i] : order[i][j] = order[i][k] => j = k

\* Of two writers that started from the same revision one is told of the conflict: a current
\* revision is only ever replaced by a writer that expected exactly it.
NoLostUpdate ==
  [][\A i \in Identity : current'[i] # current[i] =>
       \E w \in Writer : current'[i] = bundle[w] /\ current[i] = expected[w]]_storeVars

\* A store serves one skills checkout, however many processes open it at once: every open
\* writer checks identities against the checkout the store has reserved.
OneCheckout ==
  \A w \in Writer : pc[w] \in {"idle", "begin", "check", "insert"} => meta = root[w]

\* A reader that found the row gets the whole bundle, although its queries are not one transaction.
ReadsAreWhole ==
  \A x \in Reader : rpc[x] # "mismatch" /\ (rpc[x] = "read" => found[x] = Content[wanted[x]])

\* An identity never changes state in the store: what was created a candidate stays one.
CandidatesStay == \A i \in Identity : \A k \in DOMAIN order[i] : StateOf[order[i][k]] = "candidate"

\* The store at every moment, between any two steps of any process and after any crash: types
\* and the exclusive lock, one checkout, whole bundles, one line of history per identity,
\* candidates only, and readers that return what a publisher wrote.
StoreConsistent ==
  /\ StoreTypeOK /\ OneCheckout
  /\ BundlesWhole /\ HistoryIsALine /\ CandidatesStay
  /\ ReadsAreWhole

Log == INSTANCE KnowledgeLog WITH
  history <- order,
  readable <- [r \in Revision |-> {p \in Path : <<r, p>> \in resources}]

\* The store implements the log of revisions: its transactions, crashes and concurrent
\* queries come down to publishing whole revisions one after the other.
ImplementsLog == Log!LogSpec
=============================================================================
