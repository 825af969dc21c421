--------------------------- MODULE KnowledgeCollect ---------------------------
(***************************************************************************)
(* KnowledgeReader.collect (inferrsi/knowledge_operations.py): references  *)
(* are resolved against one look at the owners of every identity, then     *)
(* read one after the other under limits, while the store and the checkout *)
(* they are read from go on changing.                                      *)
(***************************************************************************)
EXTENDS Naturals, Sequences, FiniteSets

CONSTANTS
  Id, Rev,
  PackageIds,    \* the identities of the installed package
  SizeOf,        \* revision -> the bytes of its view
  Reference,     \* the references a caller may use: [authority, id], "any" when unqualified
  Requests,      \* the lists of references a caller may ask for
  PinChoices,    \* the revisions it may ask them at, a revision or NoRevision for each
  Filters,       \* what its filters and its query may leave out, as pairs of sets
  Sorted,        \* every qualified identity, in the order of their names
  Limit, MaxBytesLimit,
  MaxChanges     \* bound: changes of the sources during the call

Authority == {"package", "checkout", "store"}
Qualified == [authority : Authority, id : Id]
Named == Reference \cup Qualified
NoRevision == 0

\* What the constants may be; a reference occurs once in a list, or the call is refused.
ASSUME CollectAssumption ==
  /\ Rev # {} /\ NoRevision \notin Rev
  /\ SizeOf \in [Rev -> Nat \ {0}]
  /\ Reference \subseteq [authority : Authority \cup {"any"}, id : Id]
  /\ \A ids \in Requests : ids \in Seq(Reference) /\ \A i, j \in DOMAIN ids : ids[i] = ids[j] => i = j
  /\ PinChoices \subseteq [Named -> Rev \cup {NoRevision}]
  /\ Sorted \in Seq(Qualified)
  /\ {Limit, MaxBytesLimit, MaxChanges} \subseteq Nat

VARIABLES
  content,    \* qualified identity -> its current revision, or NoRevision
  retained,   \* the revisions the store keeps, by identity
  broken,     \* the qualified identities that cannot be read
  changes,
  stage,      \* where the call is
  byId,       \* the caller gave ids
  requested, pins, filtered, unmatched,   \* the other arguments; pins: name -> revision
  owners, at, seen, items, omissions, used

sources == <<content, retained, broken, changes>>
arguments == <<byId, requested, pins, filtered, unmatched>>
collectVars == <<sources, stage, arguments, owners, at, seen, items, omissions, used>>

\* owners(): every authority that has the identity now.
OwnersNow == [i \in Id |-> {a \in Authority : content[[authority |-> a, id |-> i]] # NoRevision}]

CollectInit ==
  /\ content \in [Qualified -> {NoRevision, CHOOSE r \in Rev : TRUE}]
  /\ \A q \in Qualified : q.authority = "package" => (content[q] # NoRevision <=> q.id \in PackageIds)
  /\ retained = [i \in Id |-> {content[[authority |-> "store", id |-> i]]} \ {NoRevision}]
  /\ broken \in {{}, {q \in Qualified : q.authority = "checkout"}}
  /\ changes = 0
  /\ stage = "call"
  /\ byId = FALSE /\ requested = << >> /\ pins = [f \in Named |-> NoRevision]
  /\ filtered = {} /\ unmatched = {}
  /\ owners = [i \in Id |-> {}]
  /\ at = 0 /\ seen = {} /\ items = << >> /\ omissions = << >> /\ used = 0

\* A revision is published in the store, or the checkout changes, between two steps of the call.
Change(q, r) ==
  /\ stage \notin {"done", "refused"} /\ changes < MaxChanges
  /\ q.authority # "package" /\ (q.authority = "store" => r # NoRevision) /\ content[q] # r
  /\ content' = [content EXCEPT ![q] = r]
  /\ retained' = IF q.authority = "store" THEN [retained EXCEPT ![q.id] = @ \union {r}] ELSE retained
  /\ changes' = changes + 1
  /\ UNCHANGED <<broken, stage, arguments, owners, at, seen, items, omissions, used>>

\* A revision asked of anything that is not requested refuses the call (ValueError).
Accepted(list, p) ==
  IF \A g \in Named : p[g] # NoRevision => \E k \in DOMAIN list : list[k] = g THEN "loop" ELSE "refused"

\* The call: the owners are looked up once, for all references.
Call(ids, p, f, u) ==
  /\ stage = "call"
  /\ byId' = (ids # << >>)
  /\ requested' = ids
  /\ pins' = p
  /\ filtered' = f /\ unmatched' = u
  /\ owners' = OwnersNow
  /\ stage' = IF ids = << >> THEN "identities" ELSE Accepted(ids, p)
  /\ UNCHANGED <<sources, at, seen, items, omissions, used>>

\* Without ids: identities(), a second look at the owners, in the order of the names.
Identities ==
  /\ stage = "identities"
  /\ LET present == {k \in DOMAIN Sorted : content[Sorted[k]] # NoRevision} IN
     \E index \in [1 .. Cardinality(present) -> present] :
       /\ \A i, j \in DOMAIN index : i < j => index[i] < index[j]
       /\ requested' = [i \in DOMAIN index |-> Sorted[index[i]]]
  /\ stage' = Accepted(requested', pins)
  /\ UNCHANGED <<sources, byId, pins, filtered, unmatched, owners, at, seen, items, omissions, used>>
-----------------------------------------------------------------------------
Ref == requested[at + 1]
Pinned == pins[Ref]

\* resolve(): the identities a reference may stand for; it names one only if there is one.
Candidates(f) ==
  LET found == {[authority |-> a, id |-> f.id] : a \in owners[f.id]} IN
  IF f.authority = "any" THEN found ELSE {f} \intersect found

Target == CHOOSE q \in Candidates(Ref) : TRUE

Advance == at' = at + 1

\* The reference is answered with the reason it was left out (and, for the properties, what was).
Omit(reason, r) ==
  /\ omissions' = Append(omissions, [ref |-> Ref, reason |-> reason, revision |-> r])
  /\ Advance
  /\ UNCHANGED <<items, used>>

\* Left out by the caller's own filters: only worth a word if it asked for the identity.
Filter(reason) == IF byId THEN Omit(reason, NoRevision) ELSE Advance /\ UNCHANGED <<items, omissions, used>>

Unresolved ==
  /\ Cardinality(Candidates(Ref)) # 1
  /\ Omit(IF Candidates(Ref) = {} THEN "unknown_identity" ELSE "ambiguous_identity", NoRevision)
  /\ UNCHANGED seen

Resolved == Cardinality(Candidates(Ref)) = 1

Duplicate == Resolved /\ Target \in seen /\ Omit("duplicate_identity", NoRevision) /\ UNCHANGED seen

Fresh == Resolved /\ Target \notin seen /\ seen' = seen \union {Target}

\* Mutant of Serves: a pinned revision is only looked for in the store.
ServesAny(q, r) == IF q.authority = "store" THEN r \in retained[q.id] ELSE content[q] # NoRevision

\* _read: the store keeps old revisions, a snapshot has only its own.
Serves(q, r) == IF q.authority = "store" THEN r \in retained[q.id] ELSE content[q] = r

RevisionRead == IF Target.authority = "store" /\ Pinned # NoRevision THEN Pinned ELSE content[Target]

Unreadable ==
  /\ Fresh /\ (Target \notin filtered \/ Target.authority = "store")
  /\ \/ Target \notin broken /\ content[Target] # NoRevision /\ Pinned # NoRevision /\ ~Serves(Target, Pinned)
        /\ Omit("unavailable_revision", NoRevision)
     \/ (Target \in broken \/ content[Target] = NoRevision) /\ Omit("invalid", NoRevision)

Readable ==
  /\ Target \notin broken /\ content[Target] # NoRevision
  /\ Pinned # NoRevision => Serves(Target, Pinned)

\* Filters are checked on the metadata before reading where there is any, and after reading in the store.
FilteredOut ==
  /\ Fresh /\ Target \in filtered
  /\ Target.authority = "store" => Readable
  /\ Filter("filters")

QueryMisses == Fresh /\ Target \notin filtered /\ Readable /\ Target \in unmatched /\ Filter("query")

Fits(r) == Len(items) < Limit /\ used + SizeOf[r] <= MaxBytesLimit

TooMuch ==
  /\ Fresh /\ Target \notin filtered \union unmatched /\ Readable
  /\ ~Fits(RevisionRead)
  /\ Omit("output_limit", RevisionRead)

Select ==
  /\ Fresh /\ Target \notin filtered \union unmatched /\ Readable
  /\ Fits(RevisionRead)
  /\ items' = Append(items, [ref |-> Ref, id |-> Target, revision |-> RevisionRead])
  /\ used' = used + SizeOf[RevisionRead]
  /\ Advance
  /\ UNCHANGED omissions

Visit ==
  /\ stage = "loop" /\ at < Len(requested)
  /\ Unresolved \/ Duplicate \/ Unreadable \/ FilteredOut \/ QueryMisses \/ TooMuch \/ Select
  /\ UNCHANGED <<sources, stage, arguments, owners>>

Return ==
  /\ stage = "loop" /\ at = Len(requested)
  /\ stage' = "done"
  /\ UNCHANGED <<sources, arguments, owners, at, seen, items, omissions, used>>

Returned == stage \in {"done", "refused"} /\ UNCHANGED collectVars

CollectNext ==
  \/ \E q \in Qualified, r \in Rev \union {NoRevision} : Change(q, r)
  \/ \E ids \in Requests, p \in PinChoices, c \in Filters : Call(ids, p, c[1], c[2])
  \/ Identities \/ Visit \/ Return \/ Returned

CollectSpec == CollectInit /\ [][CollectNext]_collectVars
-----------------------------------------------------------------------------
CollectTypeOK ==
  /\ at <= Len(requested)
  /\ used <= MaxBytesLimit /\ Len(items) <= Limit
  /\ seen \subseteq Qualified

\* Whoever asks for identities is told about each of them once: it is an item or it is
\* omitted with a reason, whatever happened to it during the call.
EveryRequestAnswered ==
  (stage = "done" /\ byId) =>
    \A k \in DOMAIN requested :
      Cardinality({i \in DOMAIN items : items[i].ref = requested[k]})
        + Cardinality({i \in DOMAIN omissions : omissions[i].ref = requested[k]}) = 1

\* Ambiguity is an error, never precedence: no item stands for a reference that two
\* authorities owned, and no identity is selected twice under two names.
NoPrecedence ==
  /\ \A i \in DOMAIN items : items[i].ref.authority = "any" => owners[items[i].ref.id] = {items[i].id.authority}
  /\ \A i, j \in DOMAIN items : items[i].id = items[j].id => i = j

\* A reference with a revision gets that revision or none, though its owner may have moved on.
PinnedRevision ==
  \A i \in DOMAIN items :
    pins[items[i].ref] # NoRevision => items[i].revision = pins[items[i].ref]

\* An item is left out for want of room only if there was none: it does not fit at the end either.
OmittedForRoom ==
  \A k \in DOMAIN omissions : omissions[k].reason = "output_limit" =>
    Len(items) = Limit \/ used + SizeOf[omissions[k].revision] > MaxBytesLimit
=============================================================================
