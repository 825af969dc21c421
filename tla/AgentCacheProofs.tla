-------------------------- MODULE AgentCacheProofs --------------------------
(***************************************************************************)
(* Proofs about AgentCache's scheduling.                                   *)
(*                                                                         *)
(* First, for every set of Programs, tasks and requests, any number of     *)
(* generations and every strategy: the registry's incremental indexes agree *)
(* with the Program records, the runtime's safety properties hold, and the *)
(* vLLM bridge keeps them.                                                 *)
(*                                                                         *)
(* Then the Progress-TTL strategy, for any timeouts, limits and mode.      *)
(* A hook decides on a list of transitions and privilege updates and then  *)
(* applies them one by one, so between the decision and its last           *)
(* application the factors are half way.  The inductive invariant TTLInv   *)
(* speaks of the state the pending list leads to: every pending request is *)
(* valid and none undoes what a later one needs (RequestsValid), the       *)
(* admission outcome is the one its list produces (OutcomeFacts), and the  *)
(* privileges that will be held once the list is applied are within the    *)
(* limit (PrivilegeInv).  MoveKeeps is the argument that applying the head *)
(* of the list keeps all of this; each kind of request is an instance.     *)
(***************************************************************************)
EXTENDS VllmBridge, ProgressTTL, FiniteSetTheorems, WellFoundedInduction, TLAPS


(***************************************************************************)
(* The registry.                                                           *)
(***************************************************************************)

(***************************************************************************)
(* The inductive invariant.  The two edge facts need each other: a refresh *)
(* reads the index, and a parent that is not refreshed must already agree  *)
(* with it.                                                                *)
(***************************************************************************)
RegistryInv ==
  /\ RegistryTypeOK
  /\ EdgeIndexExact
  /\ BlockedExactlyOnLiveChildren
  /\ TaskIndexExact
  /\ EdgesHaveParents

\* The references of the live Programs that declare themselves blocking
\* children of p.
BlockingRefs(p) ==
  {Ref(c) : c \in {x \in programs : blocks_parent[x] /\ parent_program_id[x] = p}}

RefreshExact == \A p \in ProgramId : LiveChildren(p) = BlockingRefs(p)

\* With an exact index, a refresh computes exactly the blocking children.
LEMMA RefreshIsExact == RegistryTypeOK /\ EdgeIndexExact => RefreshExact
<1> SUFFICES ASSUME RegistryTypeOK, EdgeIndexExact, NEW p \in ProgramId
    PROVE LiveChildren(p) = BlockingRefs(p)
  BY DEF RefreshExact
<1>1. children_by_parent_id[p] = BlockingRefs(p)
  BY DEF EdgeIndexExact, BlockingRefs
<1>2. \A c \in programs :
        blocks_parent[c] /\ parent_program_id[c] = p => IsLiveChildOf(Ref(c), p)
  BY DEF IsLiveChildOf, Get, Ref
<1> QED BY <1>1, <1>2 DEF LiveChildren, BlockingRefs

\* The empty registry satisfies the invariant.
LEMMA InitRegistryInv == RegistryInit => RegistryInv
<1> SUFFICES ASSUME RegistryInit PROVE RegistryInv
  OBVIOUS
<1>1. RegistryTypeOK
  BY DEF RegistryInit, RegistryTypeOK, Refs
<1>2. EdgeIndexExact /\ BlockedExactlyOnLiveChildren /\ TaskIndexExact /\ EdgesHaveParents
  BY DEF RegistryInit, EdgeIndexExact, BlockedExactlyOnLiveChildren, TaskIndexExact, EdgesHaveParents
<1> QED BY <1>1, <1>2 DEF RegistryInv

\* A new generation is indexed under its task and parent, and collects the
\* blocking children that came before it (materialize).
LEMMA CreateKeepsRegistryInv ==
  ASSUME RegistryInv, NEW m \in Identity, Create(m)
  PROVE  RegistryInv'
<1> DEFINE p == m.program
           ref == <<p, last_generations[p] + 1>>
           To == IF m.blocks THEN {m.parent} ELSE {}
<1>1. /\ p \in ProgramId /\ m.task \in Task \cup {None} /\ m.parent \in ProgramId \cup {None}
      /\ m.blocks \in BOOLEAN /\ m.parent # p /\ (m.blocks => m.parent # None)
  BY DEF Identity
<1>2. RegistryTypeOK
  BY DEF RegistryInv
<1>3. last_generations[p] + 1 \in Nat
  BY <1>1, <1>2 DEF RegistryTypeOK
<1>4. /\ p \notin programs
      /\ programs' = programs \cup {p}
      /\ last_generations' = [last_generations EXCEPT ![p] = @ + 1]
      /\ task_id' = [task_id EXCEPT ![p] = m.task]
      /\ parent_program_id' = [parent_program_id EXCEPT ![p] = m.parent]
      /\ blocks_parent' = [blocks_parent EXCEPT ![p] = m.blocks]
  BY DEF Create, NextGeneration
<1>5. \A c \in programs : c # p /\ Ref(c)' = Ref(c)
  BY <1>1, <1>2, <1>4 DEF RegistryTypeOK, Ref
<1>6. Ref(p)' = ref
  BY <1>1, <1>2, <1>4 DEF RegistryTypeOK, Ref
<1>7. children_by_parent_id' = MoveEdge(ref, {}, To)
  BY DEF Create, NextGeneration
<1>10. RegistryTypeOK'
  <2>1. ref \in Refs
    BY <1>1, <1>3 DEF Refs
  <2>2. children_by_parent_id' \in [ProgramId -> SUBSET Refs]
    BY <1>2, <1>7, <2>1 DEF RegistryTypeOK, MoveEdge
  <2>3. task_programs' \in [Task -> SUBSET Refs]
    BY <1>2, <2>1 DEF RegistryTypeOK, Create, NextGeneration, AttachTask
  <2>4. \A q \in ProgramId : LiveChildren(q)' \subseteq Refs
    BY <2>2 DEF LiveChildren
  <2>5. blocking_children' \in [ProgramId -> SUBSET Refs]
    BY <1>2, <2>4 DEF RegistryTypeOK, Create, NextGeneration, RefreshParents
  <2> QED BY <1>1, <1>2, <1>3, <1>4, <2>2, <2>3, <2>5 DEF RegistryTypeOK
<1>11. TaskIndexExact'
  <2> SUFFICES ASSUME NEW t \in Task
      PROVE task_programs'[t] = {Ref(c)' : c \in {x \in programs' : task_id'[x] = t}}
    BY DEF TaskIndexExact
  <2>1. task_programs'[t] = IF t = m.task THEN task_programs[t] \cup {ref} ELSE task_programs[t]
    BY DEF Create, NextGeneration, AttachTask
  <2>2. task_programs[t] = {Ref(c) : c \in {x \in programs : task_id[x] = t}}
    BY DEF RegistryInv, TaskIndexExact
  <2>3. /\ \A x \in programs : task_id'[x] = task_id[x]
        /\ task_id'[p] = m.task
    BY <1>1, <1>2, <1>4, <1>5 DEF RegistryTypeOK
  <2> QED BY <2>1, <2>2, <2>3, <1>4, <1>5, <1>6
<1>12. EdgesHaveParents'
  BY <1>1, <1>2, <1>4 DEF RegistryInv, EdgesHaveParents, RegistryTypeOK
<1>8. EdgeIndexExact'
  <2> SUFFICES ASSUME NEW q \in ProgramId
      PROVE children_by_parent_id'[q] =
         {Ref(c)' : c \in {x \in programs' : blocks_parent'[x] /\ parent_program_id'[x] = q}}
    BY DEF EdgeIndexExact
  <2>1. children_by_parent_id'[q] = children_by_parent_id[q] \cup (IF q \in To THEN {ref} ELSE {})
    BY <1>7 DEF MoveEdge
  <2>2. children_by_parent_id[q] =
         {Ref(c) : c \in {x \in programs : blocks_parent[x] /\ parent_program_id[x] = q}}
    BY DEF RegistryInv, EdgeIndexExact
  <2>3. \A x \in programs : blocks_parent'[x] = blocks_parent[x] /\ parent_program_id'[x] = parent_program_id[x]
    BY <1>2, <1>4, <1>5 DEF RegistryTypeOK
  <2>4. (q \in To) <=> (blocks_parent'[p] /\ parent_program_id'[p] = q)
    BY <1>1, <1>2, <1>4 DEF RegistryTypeOK
  <2> QED BY <2>1, <2>2, <2>3, <2>4, <1>4, <1>5, <1>6
<1>9. BlockedExactlyOnLiveChildren'
  <2> SUFFICES ASSUME NEW q \in programs'
      PROVE blocking_children'[q] = BlockingRefs(q)'
    BY DEF BlockedExactlyOnLiveChildren, BlockingRefs
  <2>1. q \in ProgramId
    BY <1>1, <1>2, <1>4 DEF RegistryTypeOK
  <2>2. CASE q \in To \cup {p}
    <3>1. blocking_children'[q] = LiveChildren(q)'
      BY <2>1, <2>2, <1>4 DEF Create, NextGeneration, RefreshParents
    <3>2. RefreshExact'
      BY RefreshIsExact, <1>8, <1>10, PTL
    <3> QED BY <2>1, <3>1, <3>2 DEF RefreshExact
  <2>3. CASE q \notin To \cup {p}
    <3>1. q \in programs
      BY <2>3, <1>4
    <3>2. blocking_children'[q] = blocking_children[q]
      BY <2>1, <2>3, <1>4 DEF Create, NextGeneration, RefreshParents
    <3>3. blocking_children[q] = BlockingRefs(q)
      BY <3>1 DEF RegistryInv, BlockedExactlyOnLiveChildren, BlockingRefs
    <3>4. BlockingRefs(q)' = BlockingRefs(q)
      <4>1. ~(blocks_parent'[p] /\ parent_program_id'[p] = q)
        BY <1>1, <1>2, <1>4, <2>3 DEF RegistryTypeOK
      <4>2. \A x \in programs : blocks_parent'[x] = blocks_parent[x]
                                /\ parent_program_id'[x] = parent_program_id[x]
        BY <1>2, <1>4, <1>5 DEF RegistryTypeOK
      <4> QED BY <1>4, <1>5, <4>1, <4>2 DEF BlockingRefs
    <3> QED BY <3>2, <3>3, <3>4
  <2> QED BY <2>2, <2>3
<1> QED BY <1>8, <1>9, <1>10, <1>11, <1>12 DEF RegistryInv

\* Changing the task, parent or blocking hint of a live Program moves its
\* index entries with it (_apply_metadata).
LEMMA ApplyMetadataKeepsRegistryInv ==
  ASSUME RegistryInv, NEW m \in Identity, ApplyMetadata(m)
  PROVE  RegistryInv'
<1> DEFINE p == m.program
           parentChanged == m.parent # parent_program_id[p]
           blocksChanged == m.blocks # blocks_parent[p]
           From == (IF parentChanged THEN {parent_program_id[p]} ELSE {})
                     \cup (IF blocksChanged /\ ~m.blocks THEN {m.parent} ELSE {})
           To == IF (parentChanged \/ blocksChanged) /\ m.blocks THEN {m.parent} ELSE {}
<1>1. /\ p \in ProgramId /\ m.task \in Task \cup {None} /\ m.parent \in ProgramId \cup {None}
      /\ m.blocks \in BOOLEAN /\ m.parent # p /\ (m.blocks => m.parent # None)
  BY DEF Identity
<1>2. RegistryTypeOK
  BY DEF RegistryInv
<1>3. /\ p \in programs
      /\ programs' = programs
      /\ last_generations' = last_generations
      /\ task_id' = [task_id EXCEPT ![p] = IF @ = None THEN m.task ELSE @]
      /\ parent_program_id' = [parent_program_id EXCEPT ![p] = m.parent]
      /\ blocks_parent' = [blocks_parent EXCEPT ![p] = m.blocks]
      /\ children_by_parent_id' = MoveEdge(Ref(p), From, To)
      /\ RefreshParents(From \cup To)
  BY DEF ApplyMetadata
<1>4. /\ \A c : Ref(c)' = Ref(c)
      /\ \A c, d : Ref(c) = Ref(d) => c = d
  BY <1>3 DEF Ref
<1>5. \A c \in programs : c # p => blocks_parent'[c] = blocks_parent[c]
                                   /\ parent_program_id'[c] = parent_program_id[c]
  BY <1>1, <1>2, <1>3 DEF RegistryTypeOK
<1>6. blocks_parent'[p] = m.blocks /\ parent_program_id'[p] = m.parent
  BY <1>1, <1>2, <1>3 DEF RegistryTypeOK
<1>7. RegistryTypeOK'
  <2>1. Ref(p) \in Refs
    BY <1>1, <1>2, <1>3 DEF Ref, Refs, RegistryTypeOK
  <2>2. children_by_parent_id' \in [ProgramId -> SUBSET Refs]
    BY <1>2, <1>3, <2>1 DEF RegistryTypeOK, MoveEdge
  <2>3. task_programs' \in [Task -> SUBSET Refs]
    BY <1>2, <2>1 DEF RegistryTypeOK, ApplyMetadata, AttachTask
  <2>4. \A q \in ProgramId : LiveChildren(q)' \subseteq Refs
    BY <2>2 DEF LiveChildren
  <2>5. blocking_children' \in [ProgramId -> SUBSET Refs]
    BY <1>2, <1>3, <2>4 DEF RegistryTypeOK, RefreshParents
  <2> QED BY <1>1, <1>2, <1>3, <2>2, <2>3, <2>5 DEF RegistryTypeOK
<1>8. EdgeIndexExact'
  <2> SUFFICES ASSUME NEW q \in ProgramId
      PROVE children_by_parent_id'[q] = BlockingRefs(q)'
    BY DEF EdgeIndexExact, BlockingRefs
  <2>1. children_by_parent_id'[q] =
          (children_by_parent_id[q] \ (IF q \in From THEN {Ref(p)} ELSE {}))
            \cup (IF q \in To THEN {Ref(p)} ELSE {})
    BY <1>3 DEF MoveEdge
  <2>2. children_by_parent_id[q] = BlockingRefs(q)
    BY DEF RegistryInv, EdgeIndexExact, BlockingRefs
  <2>3. Ref(p) \in children_by_parent_id'[q] <=> (m.blocks /\ m.parent = q)
    <3>1. Ref(p) \in BlockingRefs(q) <=> (blocks_parent[p] /\ parent_program_id[p] = q)
      BY <1>3, <1>4 DEF BlockingRefs
    <3> QED BY <1>1, <1>2, <1>3, <2>1, <2>2, <3>1 DEF RegistryTypeOK
  <2>4. \A c \in programs :
          c # p => (Ref(c) \in children_by_parent_id'[q]
                      <=> blocks_parent[c] /\ parent_program_id[c] = q)
    BY <1>4, <2>1, <2>2 DEF BlockingRefs
  <2>5. \A r \in children_by_parent_id'[q] : \E c \in programs : r = Ref(c)
    BY <1>3, <2>1, <2>2 DEF BlockingRefs
  <2>6. BlockingRefs(q)' =
          {Ref(c) : c \in {x \in programs : blocks_parent'[x] /\ parent_program_id'[x] = q}}
    BY <1>3, <1>4 DEF BlockingRefs
  <2> QED BY <1>5, <1>6, <2>3, <2>4, <2>5, <2>6
<1>9. BlockedExactlyOnLiveChildren'
  <2> SUFFICES ASSUME NEW q \in programs
      PROVE blocking_children'[q] = BlockingRefs(q)'
    BY <1>3 DEF BlockedExactlyOnLiveChildren, BlockingRefs
  <2>1. q \in ProgramId
    BY <1>2 DEF RegistryTypeOK
  <2>2. CASE q \in From \cup To
    <3>1. blocking_children'[q] = LiveChildren(q)'
      BY <2>1, <2>2, <1>3 DEF RefreshParents
    <3>2. RefreshExact'
      BY RefreshIsExact, <1>7, <1>8, PTL
    <3> QED BY <2>1, <3>1, <3>2 DEF RefreshExact
  <2>3. CASE q \notin From \cup To
    <3>1. blocking_children'[q] = blocking_children[q]
      BY <2>1, <2>3, <1>3 DEF RefreshParents
    <3>2. blocking_children[q] = BlockingRefs(q)
      BY DEF RegistryInv, BlockedExactlyOnLiveChildren, BlockingRefs
    <3>3. (blocks_parent[p] /\ parent_program_id[p] = q) <=> (m.blocks /\ m.parent = q)
      BY <1>1, <1>2, <1>3, <2>3 DEF RegistryTypeOK
    <3> QED BY <1>3, <1>4, <1>5, <1>6, <3>1, <3>2, <3>3 DEF BlockingRefs
  <2> QED BY <2>2, <2>3
<1>10. TaskIndexExact'
  <2> SUFFICES ASSUME NEW t \in Task
      PROVE task_programs'[t] = {Ref(c)' : c \in {x \in programs' : task_id'[x] = t}}
    BY DEF TaskIndexExact
  <2>1. task_programs[t] = {Ref(c) : c \in {x \in programs : task_id[x] = t}}
    BY DEF RegistryInv, TaskIndexExact
  <2>2. \A x \in programs : x # p => task_id'[x] = task_id[x]
    BY <1>1, <1>2, <1>3 DEF RegistryTypeOK
  <2>3. CASE task_id[p] = None
    <3>1. /\ task_id'[p] = m.task
          /\ task_programs'[t] = IF t = m.task THEN task_programs[t] \cup {Ref(p)}
                                                ELSE task_programs[t]
      BY <1>1, <1>2, <1>3, <2>3 DEF RegistryTypeOK, ApplyMetadata, AttachTask
    <3>2. t # None
      BY RegistryAssumption
    <3> QED BY <1>3, <1>4, <2>1, <2>2, <2>3, <3>1, <3>2
  <2>4. CASE task_id[p] # None
    <3>1. task_id'[p] = task_id[p] /\ task_programs' = task_programs
      BY <1>1, <1>2, <1>3, <2>4 DEF RegistryTypeOK, ApplyMetadata
    <3> QED BY <1>3, <1>4, <2>1, <2>2, <3>1
  <2> QED BY <2>3, <2>4
<1>11. EdgesHaveParents'
  BY <1>1, <1>3, <1>5, <1>6 DEF RegistryInv, EdgesHaveParents
<1> QED BY <1>7, <1>8, <1>9, <1>10, <1>11 DEF RegistryInv

\* A release leaves no reference to the generation behind, and unblocks its
\* parent and its children (release).
LEMMA ReleaseKeepsRegistryInv ==
  ASSUME RegistryInv, NEW p \in ProgramId, Release(Ref(p))
  PROVE  RegistryInv'
<1> DEFINE orphans == {c \in ProgramId : /\ Get(Ref(c))
                                         /\ Ref(c) \in children_by_parent_id[p]
                                         /\ parent_program_id[c] = p}
<1>1. RegistryTypeOK
  BY DEF RegistryInv
<1>2. /\ p \in programs
      /\ programs' = programs \ {p}
      /\ last_generations' = last_generations
      /\ task_id' = [task_id EXCEPT ![p] = None]
      /\ parent_program_id' = [c \in ProgramId |-> IF c \in orphans \cup {p} THEN None
                                                    ELSE parent_program_id[c]]
      /\ blocks_parent' = [c \in ProgramId |-> IF c \in orphans \cup {p} THEN FALSE
                                                ELSE blocks_parent[c]]
      /\ DetachTask(p)
      /\ children_by_parent_id' =
           [MoveEdge(Ref(p), {parent_program_id[p]}, {}) EXCEPT ![p] = {}]
      /\ RefreshParents({parent_program_id[p]})
  BY DEF Release, Get, Ref
<1>3. /\ \A c : Ref(c)' = Ref(c)
      /\ \A c, d : Ref(c) = Ref(d) => c = d
  BY <1>2 DEF Ref
<1>4. \A c \in programs : c \in orphans <=> (blocks_parent[c] /\ parent_program_id[c] = p)
  <2>1. children_by_parent_id[p] = BlockingRefs(p)
    BY DEF RegistryInv, EdgeIndexExact, BlockingRefs
  <2>2. \A c \in programs : Get(Ref(c)) /\ c \in ProgramId
    BY <1>1 DEF Get, Ref, RegistryTypeOK
  <2> QED BY <1>3, <2>1, <2>2 DEF BlockingRefs
<1>5. \A c \in programs' :
        /\ c \in orphans => ~blocks_parent'[c] /\ parent_program_id'[c] = None
        /\ c \notin orphans => /\ blocks_parent'[c] = blocks_parent[c]
                               /\ parent_program_id'[c] = parent_program_id[c]
  BY <1>1, <1>2 DEF RegistryTypeOK
<1>6. \A q \in ProgramId :
        children_by_parent_id'[q] =
          IF q = p THEN {}
          ELSE children_by_parent_id[q] \ (IF q = parent_program_id[p] THEN {Ref(p)} ELSE {})
  BY <1>2 DEF MoveEdge
<1>7. RegistryTypeOK'
  <2>1. children_by_parent_id' \in [ProgramId -> SUBSET Refs]
    BY <1>1, <1>2 DEF RegistryTypeOK, MoveEdge
  <2>2. task_programs' \in [Task -> SUBSET Refs]
    BY <1>1, <1>2 DEF RegistryTypeOK, DetachTask
  <2>3. \A q \in ProgramId : LiveChildren(q)' \subseteq Refs
    BY <2>1 DEF LiveChildren
  <2>4. blocking_children' \in [ProgramId -> SUBSET Refs]
    BY <1>1, <1>2, <2>3 DEF RegistryTypeOK, RefreshParents
  <2> QED BY <1>1, <1>2, <2>1, <2>2, <2>4 DEF RegistryTypeOK
<1>8. EdgeIndexExact'
  <2> SUFFICES ASSUME NEW q \in ProgramId
      PROVE children_by_parent_id'[q] = BlockingRefs(q)'
    BY DEF EdgeIndexExact, BlockingRefs
  <2>1. children_by_parent_id[q] = BlockingRefs(q)
    BY DEF RegistryInv, EdgeIndexExact, BlockingRefs
  <2>2. CASE q = p
    <3>1. \A c \in programs' : ~(blocks_parent'[c] /\ parent_program_id'[c] = p)
      BY <1>2, <1>4, <1>5
    <3>2. BlockingRefs(p)' = {}
      BY <3>1 DEF BlockingRefs
    <3> QED BY <1>6, <2>2, <3>2
  <2>3. CASE q # p
    <3>1. \A c \in programs' : (blocks_parent'[c] /\ parent_program_id'[c] = q)
                                 <=> (blocks_parent[c] /\ parent_program_id[c] = q)
      BY <1>2, <1>4, <1>5, <2>3
    <3>2. Ref(p) \in BlockingRefs(q) => parent_program_id[p] = q
      BY <1>3 DEF BlockingRefs
    <3>3. BlockingRefs(q)' =
            {Ref(c) : c \in {x \in programs' : blocks_parent[x] /\ parent_program_id[x] = q}}
      BY <1>3, <3>1 DEF BlockingRefs
    <3>4. programs' = programs \ {p}
      BY <1>2
    <3>5. \A c \in programs : c # p => Ref(c) # Ref(p)
      BY <1>3
    <3>6. BlockingRefs(q)' = BlockingRefs(q) \ {Ref(p)}
      BY <3>3, <3>4, <3>5 DEF BlockingRefs
    <3> QED BY <1>6, <2>1, <2>3, <3>2, <3>6
  <2> QED BY <2>2, <2>3
<1>9. BlockedExactlyOnLiveChildren'
  <2> SUFFICES ASSUME NEW q \in programs'
      PROVE blocking_children'[q] = BlockingRefs(q)'
    BY DEF BlockedExactlyOnLiveChildren, BlockingRefs
  <2>1. q \in ProgramId /\ q \in programs /\ q # p
    BY <1>1, <1>2 DEF RegistryTypeOK
  <2>2. CASE q = parent_program_id[p]
    <3>1. blocking_children'[q] = LiveChildren(q)'
      BY <2>1, <2>2, <1>2 DEF RefreshParents
    <3>2. RefreshExact'
      BY RefreshIsExact, <1>7, <1>8, PTL
    <3> QED BY <2>1, <3>1, <3>2 DEF RefreshExact
  <2>3. CASE q # parent_program_id[p]
    <3>1. blocking_children'[q] = blocking_children[q]
      BY <2>1, <2>3, <1>2 DEF RefreshParents
    <3>2. blocking_children[q] = BlockingRefs(q)
      BY <2>1 DEF RegistryInv, BlockedExactlyOnLiveChildren, BlockingRefs
    <3>3. \A c \in programs' : (blocks_parent'[c] /\ parent_program_id'[c] = q)
                                 <=> (blocks_parent[c] /\ parent_program_id[c] = q)
      BY <1>2, <1>4, <1>5, <2>1
    <3>4. BlockingRefs(q)' =
            {Ref(c) : c \in {x \in programs' : blocks_parent[x] /\ parent_program_id[x] = q}}
      BY <1>3, <3>3 DEF BlockingRefs
    <3>5. programs' = programs \ {p}
      BY <1>2
    <3>6. BlockingRefs(q)' = BlockingRefs(q)
      BY <2>3, <3>4, <3>5 DEF BlockingRefs
    <3> QED BY <3>1, <3>2, <3>6
  <2> QED BY <2>2, <2>3
<1>10. TaskIndexExact'
  <2> SUFFICES ASSUME NEW t \in Task
      PROVE task_programs'[t] = {Ref(c)' : c \in {x \in programs' : task_id'[x] = t}}
    BY DEF TaskIndexExact
  <2>1. task_programs[t] = {Ref(c) : c \in {x \in programs : task_id[x] = t}}
    BY DEF RegistryInv, TaskIndexExact
  <2>2. task_programs'[t] = IF t = task_id[p] THEN task_programs[t] \ {Ref(p)}
                                              ELSE task_programs[t]
    BY <1>2 DEF DetachTask
  <2>3. \A x \in programs' : task_id'[x] = task_id[x]
    BY <1>1, <1>2 DEF RegistryTypeOK
  <2> QED BY <1>2, <1>3, <2>1, <2>2, <2>3
<1>11. EdgesHaveParents'
  BY <1>2, <1>5 DEF RegistryInv, EdgesHaveParents
<1> QED BY <1>7, <1>8, <1>9, <1>10, <1>11 DEF RegistryInv

\* Nothing changes when every registry variable is left alone.
LEMMA StutterKeepsRegistryInv ==
  ASSUME RegistryInv, UNCHANGED registryVars
  PROVE  RegistryInv'
BY DEF RegistryInv, registryVars, RegistryTypeOK, EdgeIndexExact, TaskIndexExact,
       BlockedExactlyOnLiveChildren, EdgesHaveParents, Ref

\* The inductive invariant holds in every reachable state.
LEMMA RegistryInvariant == RegistrySpec => []RegistryInv
<1>1. RegistryInv /\ [RegistryNext]_registryVars => RegistryInv'
  <2> SUFFICES ASSUME RegistryInv, [RegistryNext]_registryVars
      PROVE RegistryInv'
    OBVIOUS
  <2>1. CASE \E m \in Identity : Create(m)
    BY <2>1, CreateKeepsRegistryInv
  <2>2. CASE \E m \in Identity : ApplyMetadata(m)
    BY <2>2, ApplyMetadataKeepsRegistryInv
  <2>3. CASE \E p \in ProgramId : Release(Ref(p))
    BY <2>3, ReleaseKeepsRegistryInv
  <2>4. CASE UNCHANGED registryVars
    BY <2>4, StutterKeepsRegistryInv
  <2> QED BY <2>1, <2>2, <2>3, <2>4 DEF RegistryNext
<1> QED BY InitRegistryInv, <1>1, PTL DEF RegistrySpec

\* For all sets of Programs and tasks, the cached blocking children of every
\* live parent, and the edge and task indexes behind them, agree with the live
\* records after any sequence of materialize and release calls
\* (program_registry.py).
THEOREM RegistryIndexesExact == RegistrySpec => []RegistryExact
<1>1. RegistryInv => RegistryExact
  BY DEF RegistryInv, RegistryExact
<1> QED BY RegistryInvariant, <1>1, PTL

\* For all sets of Programs and tasks, no registry call moves the generation
\* counter of a live incarnation or reuses a generation for a new one
\* (program_registry.py materialize).
THEOREM RegistryGenerationsFresh == RegistrySpec => GenerationsNeverReused
<1>1. RegistryInv /\ [RegistryNext]_registryVars =>
        [\A p \in ProgramId :
           IF p \in programs' \ programs
           THEN last_generations'[p] > last_generations[p]
           ELSE last_generations'[p] = last_generations[p]]_registryVars
  <2> SUFFICES ASSUME RegistryInv, RegistryNext, NEW p \in ProgramId
      PROVE IF p \in programs' \ programs
            THEN last_generations'[p] > last_generations[p]
            ELSE last_generations'[p] = last_generations[p]
    OBVIOUS
  <2>1. CASE \E m \in Identity : Create(m)
    BY <2>1 DEF Create, NextGeneration, Identity, RegistryInv, RegistryTypeOK
  <2>2. CASE \E m \in Identity : ApplyMetadata(m)
    BY <2>2 DEF ApplyMetadata
  <2>3. CASE \E q \in ProgramId : Release(Ref(q))
    BY <2>3 DEF Release
  <2> QED BY <2>1, <2>2, <2>3 DEF RegistryNext
<1> QED BY RegistryInvariant, <1>1, PTL DEF RegistrySpec, GenerationsNeverReused
-----------------------------------------------------------------------------
(***************************************************************************)
(* The runtime.                                                            *)
(***************************************************************************)

\* A record is live exactly while its state is not TERMINATED.
LiveStates == \A p \in ProgramId : p \in programs <=> state[p] # "terminated"

\* An open admission hook has its request in the pool; no other hook has one.
HookConsistent ==
  /\ hook.kind # "admission" => hook.request = None
  /\ hook.kind = "admission" =>
       hook.request \in Request /\ pool_status[hook.request] # "absent"

(***************************************************************************)
(* The inductive invariant.  Its parts lean on each other: a pause needs   *)
(* StatusTracksRequests to know that nothing is in flight, the status needs *)
(* BindingsExact to find the requests that remain, and a resume needs      *)
(* OneOwner and BindingsExact to admit every retained request of the       *)
(* generation it activates.                                                *)
(***************************************************************************)
SchedulerInv ==
  /\ RegistryInv
  /\ SchedulerTypeOK
  /\ BindingsExact
  /\ StatusTracksRequests
  /\ OneOwner
  /\ NoStrandedRequest
  /\ ServedOnlyWhileActive
  /\ RecentAdmitExact
  /\ SideTablesLive
  /\ MarkedOnlyActive
  /\ LiveStates
  /\ HookConsistent

\* A runtime without Programs and requests satisfies the invariant.
LEMMA InitSchedulerInv == Init => SchedulerInv
<1> SUFFICES ASSUME Init PROVE SchedulerInv
  OBVIOUS
<1>1. RegistryInv
  BY InitRegistryInv DEF Init
<1>2. SchedulerTypeOK
  BY DEF Init, SchedulerTypeOK, Idle
<1>3. programs = {}
  BY DEF Init, RegistryInit
<1>4. BindingsExact /\ StatusTracksRequests /\ OneOwner /\ NoStrandedRequest
      /\ ServedOnlyWhileActive /\ RecentAdmitExact
  BY <1>3 DEF Init, BindingsExact, StatusTracksRequests, OneOwner, NoStrandedRequest,
              ServedOnlyWhileActive, RecentAdmitExact
<1>5. SideTablesLive /\ MarkedOnlyActive /\ LiveStates /\ HookConsistent
  BY <1>3 DEF Init, SideTablesLive, MarkedOnlyActive, LiveStates, HookConsistent, Idle
<1> QED BY <1>1, <1>2, <1>4, <1>5 DEF SchedulerInv

\* Marking a REASONING Program for a delayed pause touches no request.
LEMMA MarkForPauseKeepsInv ==
  ASSUME SchedulerInv, NEW p \in ProgramId, MarkForPause(p)
  PROVE  SchedulerInv'
<1>1. RegistryInv'
  BY StutterKeepsRegistryInv DEF SchedulerInv, MarkForPause
<1>2. /\ UNCHANGED <<programs, last_generations>>
      /\ UNCHANGED <<state, status, served, requestVars, sideVars, cycle_dirty, hook>>
  BY DEF MarkForPause, registryVars
<1>3. (SchedulerTypeOK /\ MarkedOnlyActive)'
  BY <1>2 DEF SchedulerInv, SchedulerTypeOK, MarkedOnlyActive, MarkForPause, requestVars, sideVars
<1>4. (BindingsExact /\ StatusTracksRequests /\ OneOwner /\ NoStrandedRequest
       /\ ServedOnlyWhileActive /\ RecentAdmitExact /\ SideTablesLive /\ LiveStates
       /\ HookConsistent)'
  BY <1>2 DEF SchedulerInv, BindingsExact, StatusTracksRequests, OneOwner, NoStrandedRequest,
      ServedOnlyWhileActive, RecentAdmitExact, SideTablesLive, LiveStates, HookConsistent,
      Get, Ref, requestVars, sideVars
<1> QED BY <1>1, <1>3, <1>4 DEF SchedulerInv

\* A bound request's Program is live, and is named by its current reference.
LEMMA BoundToCurrent ==
  ASSUME SchedulerInv, NEW r \in Request, request_bindings[r] # None
  PROVE  /\ request_bindings[r] \in Refs
         /\ request_bindings[r][1] \in ProgramId
         /\ request_bindings[r][1] \in programs
         /\ request_bindings[r] = Ref(request_bindings[r][1])
<1>1. request_bindings[r] \in Refs /\ Get(request_bindings[r])
  BY DEF SchedulerInv, SchedulerTypeOK, BindingsExact
<1> QED BY <1>1 DEF Get, Refs

\* A Program that is not REASONING has no request bound to its id.
LEMMA ActingHasNoRequest ==
  ASSUME SchedulerInv, NEW p \in programs, status[p] # "reasoning",
         NEW r \in Request, request_bindings[r] # None
  PROVE  request_bindings[r][1] # p
<1>1. request_bindings[r] # Ref(p)
  BY DEF SchedulerInv, StatusTracksRequests
<1> QED BY <1>1, BoundToCurrent

\* Pausing an ACTING Program touches no request.
LEMMA PauseKeepsInv ==
  ASSUME SchedulerInv, NEW p \in ProgramId, Pause(p)
  PROVE  SchedulerInv'
<1>1. RegistryInv'
  BY StutterKeepsRegistryInv DEF SchedulerInv, Pause
<1>2. /\ UNCHANGED <<programs, last_generations>>
      /\ UNCHANGED <<status, served, requestVars, finished_at, cycle_dirty, hook>>
      /\ p \in programs /\ state[p] = "active" /\ status[p] = "acting"
      /\ state' = [state EXCEPT ![p] = "paused"]
      /\ marked_for_pause' = [marked_for_pause EXCEPT ![p] = FALSE]
      /\ freshness_anchor' = freshness_anchor \cup {Ref(p)}
  BY DEF Pause, CanPause, ToPaused, registryVars
<1>3. (SchedulerTypeOK /\ MarkedOnlyActive /\ LiveStates)'
  BY <1>2 DEF SchedulerInv, SchedulerTypeOK, MarkedOnlyActive, LiveStates, requestVars, Ref, Refs,
      RegistryInv, RegistryTypeOK
<1>4. (BindingsExact /\ StatusTracksRequests /\ OneOwner /\ RecentAdmitExact /\ HookConsistent)'
  BY <1>2 DEF SchedulerInv, BindingsExact, StatusTracksRequests, OneOwner,
      RecentAdmitExact, HookConsistent, Get, Ref, requestVars
<1>5. SideTablesLive'
  <2>1. Get(Ref(p))'
    BY <1>2 DEF Get, Ref
  <2>2. \A ref : Get(ref) => Get(ref)'
    BY <1>2 DEF Get, Ref
  <2>3. Ref(p) = Ref(p)'
    BY <1>2 DEF Ref
  <2> QED BY <1>2, <2>1, <2>2, <2>3 DEF SchedulerInv, SideTablesLive
<1>6. ServedOnlyWhileActive'
  <2> SUFFICES ASSUME NEW r \in Request, r \in native \/ pool_status[r] = "admitted"
               PROVE  state'[request_bindings[r][1]] = "active"
    BY <1>2 DEF ServedOnlyWhileActive, requestVars
  <2>1. request_bindings[r] # None /\ state[request_bindings[r][1]] = "active"
    BY DEF SchedulerInv, OneOwner, ServedOnlyWhileActive
  <2>2. request_bindings[r][1] # p /\ request_bindings[r][1] \in ProgramId
    BY <1>2, <2>1, BoundToCurrent, ActingHasNoRequest
  <2> QED BY <1>2, <2>1, <2>2 DEF SchedulerInv, SchedulerTypeOK
<1>7. NoStrandedRequest'
  BY <1>2 DEF SchedulerInv, NoStrandedRequest, requestVars, SchedulerTypeOK
<1> QED BY <1>1, <1>3, <1>4, <1>5, <1>6, <1>7 DEF SchedulerInv

\* Activating a Program admits every request it retains, and only those.
LEMMA AdmitOrResumeKeepsInv ==
  ASSUME SchedulerInv, NEW p \in ProgramId, AdmitOrResume(p)
  PROVE  SchedulerInv'
<1> DEFINE waiting == {r \in Request : pool_status[r] = "waiting" /\ pool_program[r] = Ref(p)}
<1>1. RegistryInv'
  BY StutterKeepsRegistryInv DEF SchedulerInv, AdmitOrResume
<1>2. /\ UNCHANGED <<programs, last_generations>>
      /\ UNCHANGED <<status, served, request_bindings, program_requests,
                     pool_program, native, sideVars, cycle_dirty, hook>>
      /\ p \in programs /\ state[p] = "paused"
      /\ state' = [state EXCEPT ![p] = "active"]
      /\ marked_for_pause' = [marked_for_pause EXCEPT ![p] = FALSE]
      /\ pool_status' = [r \in Request |-> IF r \in waiting THEN "admitted" ELSE pool_status[r]]
      /\ recent_admit' = recent_admit \cup waiting
  BY DEF AdmitOrResume, WaitingOf, registryVars
<1>3. \A r \in Request : /\ r \in waiting => pool_status[r] = "waiting" /\ pool_program[r] = Ref(p)
                         /\ pool_status'[r] = IF r \in waiting THEN "admitted" ELSE pool_status[r]
  BY <1>2
<1> HIDE DEF waiting
<1>4. (SchedulerTypeOK /\ MarkedOnlyActive /\ LiveStates)'
  <2>1. waiting \subseteq Request
    BY DEF waiting
  <2> QED BY <1>2, <2>1 DEF SchedulerInv, SchedulerTypeOK, MarkedOnlyActive, LiveStates, sideVars
<1>5. (BindingsExact /\ StatusTracksRequests /\ SideTablesLive)'
  BY <1>2 DEF SchedulerInv, BindingsExact, StatusTracksRequests, SideTablesLive, Get, Ref, sideVars
<1>6. OneOwner' /\ HookConsistent'
  BY <1>2, <1>3 DEF SchedulerInv, OneOwner, HookConsistent
<1>7. RecentAdmitExact'
  <2>1. waiting \subseteq Request
    BY DEF waiting
  <2> QED BY <1>2, <1>3, <2>1 DEF SchedulerInv, RecentAdmitExact
<1>8. ServedOnlyWhileActive'
  <2> SUFFICES ASSUME NEW r \in Request, r \in native \/ pool_status'[r] = "admitted"
               PROVE  state'[request_bindings[r][1]] = "active"
    BY <1>2 DEF ServedOnlyWhileActive
  <2>1. CASE r \in waiting
    <3>1. request_bindings[r] = Ref(p)
      BY <2>1, <1>3 DEF SchedulerInv, OneOwner
    <3> QED BY <3>1, <1>2 DEF Ref, SchedulerInv, SchedulerTypeOK
  <2>2. CASE r \notin waiting
    <3>1. request_bindings[r] # None /\ state[request_bindings[r][1]] = "active"
      BY <2>2, <1>3 DEF SchedulerInv, OneOwner, ServedOnlyWhileActive
    <3>2. request_bindings[r][1] \in ProgramId
      BY <3>1, BoundToCurrent
    <3> QED BY <3>1, <3>2, <1>2 DEF SchedulerInv, SchedulerTypeOK
  <2> QED BY <2>1, <2>2
<1>9. NoStrandedRequest'
  <2> SUFFICES ASSUME NEW r \in Request, pool_status'[r] = "waiting",
                      hook # [kind |-> "admission", request |-> r]
               PROVE  state'[pool_program[r][1]] = "paused"
    BY <1>2 DEF NoStrandedRequest
  <2>1. r \notin waiting /\ pool_status[r] = "waiting"
    BY <1>3
  <2>2. pool_program[r] # Ref(p)
    BY <2>1 DEF waiting
  <2>3. /\ state[pool_program[r][1]] = "paused"
        /\ request_bindings[r] # None /\ pool_program[r] = request_bindings[r]
    BY <2>1 DEF SchedulerInv, NoStrandedRequest, OneOwner
  <2>4. pool_program[r][1] # p /\ pool_program[r][1] \in ProgramId
    BY <2>2, <2>3, BoundToCurrent
  <2> QED BY <2>3, <2>4, <1>2 DEF SchedulerInv, SchedulerTypeOK
<1> QED BY <1>1, <1>4, <1>5, <1>6, <1>7, <1>8, <1>9 DEF SchedulerInv

\* Steps that only open or close a hook, or mark the cycle dirty.
LEMMA HookStepKeepsInv ==
  ASSUME SchedulerInv,
         \/ \E r \in Request, m \in Identity : OnRequestArrivalRefused(r, m)
         \/ ScheduleCycle
         \/ EndHook
         \/ AdmissionQueued
  PROVE  SchedulerInv'
<1>1. /\ UNCHANGED <<registryVars, recordVars, requestVars, sideVars>>
      /\ cycle_dirty' \in BOOLEAN
  BY DEF OnRequestArrivalRefused, Unused, RefuseArrival, ScheduleCycle, OpenCycle, EndHook,
      AdmissionQueued, SchedulerInv, SchedulerTypeOK
<1>2. /\ UNCHANGED <<programs, last_generations, state, status, marked_for_pause, served>>
      /\ UNCHANGED <<request_bindings, program_requests, pool_status, pool_program,
                     recent_admit, native, finished_at, freshness_anchor>>
  BY <1>1 DEF registryVars, recordVars, requestVars, sideVars
<1>3. RegistryInv'
  BY <1>1, StutterKeepsRegistryInv DEF SchedulerInv
<1>4. \/ hook' = hook
      \/ hook' = Idle
      \/ hook' = [kind |-> "cycle", request |-> None]
  BY DEF OnRequestArrivalRefused, Unused, RefuseArrival, ScheduleCycle, OpenCycle, EndHook,
      AdmissionQueued
<1>5. SchedulerTypeOK'
  BY <1>1, <1>2, <1>4 DEF SchedulerInv, SchedulerTypeOK, Idle
<1>6. (BindingsExact /\ StatusTracksRequests /\ OneOwner /\ ServedOnlyWhileActive
       /\ RecentAdmitExact /\ SideTablesLive /\ MarkedOnlyActive /\ LiveStates)'
  BY <1>2 DEF SchedulerInv, BindingsExact, StatusTracksRequests, OneOwner,
      ServedOnlyWhileActive, RecentAdmitExact, SideTablesLive, MarkedOnlyActive, LiveStates,
      Get, Ref
<1>7. HookConsistent'
  BY <1>2, <1>4 DEF SchedulerInv, HookConsistent, Idle
<1>8. NoStrandedRequest'
  <2> SUFFICES ASSUME NEW r \in Request, pool_status[r] = "waiting",
                      ~(hook' = [kind |-> "admission", request |-> r])
               PROVE  state[pool_program[r][1]] = "paused"
    BY <1>2 DEF NoStrandedRequest
  <2>1. CASE hook = [kind |-> "admission", request |-> r]
    <3>1. AdmissionQueued
      BY <2>1 DEF OnRequestArrivalRefused, Unused, RefuseArrival, ScheduleCycle, OpenCycle,
          EndHook, Idle
    <3>2. state[pool_program[r][1]] # "active"
      BY <2>1, <3>1 DEF AdmissionQueued, CandidateProgram
    <3>3. request_bindings[r] # None /\ pool_program[r] = request_bindings[r]
      BY DEF SchedulerInv, OneOwner
    <3>4. pool_program[r][1] \in ProgramId /\ pool_program[r][1] \in programs
      BY <3>3, BoundToCurrent
    <3> QED BY <3>2, <3>4 DEF SchedulerInv, LiveStates, SchedulerTypeOK
  <2>2. CASE hook # [kind |-> "admission", request |-> r]
    BY <2>2 DEF SchedulerInv, NoStrandedRequest
  <2> QED BY <2>1, <2>2
<1> QED BY <1>3, <1>5, <1>6, <1>7, <1>8 DEF SchedulerInv

\* Handing over the candidate of an admission.
LEMMA AdmissionAdmittedKeepsInv ==
  ASSUME SchedulerInv, AdmissionAdmitted
  PROVE  SchedulerInv'
<1> DEFINE c == hook.request
<1>1. /\ UNCHANGED <<registryVars, recordVars, sideVars>>
      /\ UNCHANGED <<programs, last_generations, state, status, marked_for_pause, served>>
      /\ UNCHANGED <<request_bindings, program_requests, finished_at, freshness_anchor, cycle_dirty>>
  BY DEF AdmissionAdmitted, registryVars, recordVars, sideVars
<1>2. /\ pool_status' = [r \in Request |-> IF r = c THEN "absent" ELSE pool_status[r]]
      /\ pool_program' = [r \in Request |-> IF r = c THEN None ELSE pool_program[r]]
      /\ recent_admit' = recent_admit \ {c}
      /\ native' = native \cup {c}
      /\ hook' = Idle
      /\ hook.kind = "admission"
      /\ state[pool_program[c][1]] = "active"
  BY DEF AdmissionAdmitted, RemoveEntries, CandidateProgram
<1>3. c \in Request /\ pool_status[c] # "absent"
  BY <1>2 DEF SchedulerInv, HookConsistent
<1>4. request_bindings[c] # None /\ pool_program[c] = request_bindings[c]
  BY <1>3 DEF SchedulerInv, OneOwner
<1> HIDE DEF c
<1>5. RegistryInv'
  BY <1>1, StutterKeepsRegistryInv DEF SchedulerInv
<1>6. SchedulerTypeOK'
  BY <1>1, <1>2, <1>3 DEF SchedulerInv, SchedulerTypeOK, Idle
<1>7. (BindingsExact /\ StatusTracksRequests /\ SideTablesLive /\ MarkedOnlyActive /\ LiveStates)'
  BY <1>1 DEF SchedulerInv, BindingsExact, StatusTracksRequests, SideTablesLive,
      MarkedOnlyActive, LiveStates, Get, Ref
<1>8. (OneOwner /\ RecentAdmitExact /\ HookConsistent)'
  BY <1>1, <1>2, <1>3, <1>4 DEF SchedulerInv, SchedulerTypeOK, OneOwner, RecentAdmitExact,
      HookConsistent, Idle
<1>9. ServedOnlyWhileActive'
  BY <1>1, <1>2, <1>3, <1>4 DEF SchedulerInv, SchedulerTypeOK, ServedOnlyWhileActive
<1>10. NoStrandedRequest'
  BY <1>1, <1>2, <1>3 DEF SchedulerInv, SchedulerTypeOK, NoStrandedRequest, c
<1> QED BY <1>5, <1>6, <1>7, <1>8, <1>9, <1>10 DEF SchedulerInv

\* Handing over everything in recent_admit.
LEMMA ConsumeAdmittedKeepsInv ==
  ASSUME SchedulerInv, ConsumeAdmitted
  PROVE  SchedulerInv'
<1>1. /\ UNCHANGED <<registryVars, recordVars, sideVars>>
      /\ UNCHANGED <<programs, last_generations, state, status, marked_for_pause, served>>
      /\ UNCHANGED <<request_bindings, program_requests, finished_at, freshness_anchor,
                     cycle_dirty, hook>>
      /\ hook = Idle
  BY DEF ConsumeAdmitted, TakeAdmitted, registryVars, recordVars, sideVars
<1>2. \A r \in Request : r \in recent_admit <=> pool_status[r] = "admitted"
  BY DEF SchedulerInv, RecentAdmitExact
<1>3. recent_admit \subseteq Request
  BY DEF SchedulerInv, SchedulerTypeOK
<1>4. /\ native' = native \cup recent_admit
      /\ recent_admit' = {}
      /\ pool_status' \in [Request -> {"absent", "waiting", "admitted"}]
      /\ pool_program' \in [Request -> Refs \cup {None}]
      /\ \A r \in Request :
           /\ pool_status'[r] = IF pool_status[r] = "admitted" THEN "absent" ELSE pool_status[r]
           /\ pool_program'[r] = IF pool_status[r] = "admitted" THEN None ELSE pool_program[r]
  BY <1>2, <1>3 DEF ConsumeAdmitted, TakeAdmitted, RemoveEntries, SchedulerInv, SchedulerTypeOK
<1>5. RegistryInv'
  BY <1>1, StutterKeepsRegistryInv DEF SchedulerInv
<1>6. SchedulerTypeOK'
  BY <1>1, <1>3, <1>4 DEF SchedulerInv, SchedulerTypeOK
<1>7. (BindingsExact /\ StatusTracksRequests /\ SideTablesLive /\ MarkedOnlyActive /\ LiveStates)'
  BY <1>1 DEF SchedulerInv, BindingsExact, StatusTracksRequests, SideTablesLive,
      MarkedOnlyActive, LiveStates, Get, Ref
<1>8. OneOwner'
  BY <1>1, <1>2, <1>4 DEF SchedulerInv, OneOwner
<1>9. (RecentAdmitExact /\ HookConsistent /\ NoStrandedRequest)'
  BY <1>1, <1>4 DEF SchedulerInv, RecentAdmitExact, HookConsistent, NoStrandedRequest, Idle
<1>10. ServedOnlyWhileActive'
  BY <1>1, <1>2, <1>4 DEF SchedulerInv, ServedOnlyWhileActive
<1> QED BY <1>5, <1>6, <1>7, <1>8, <1>9, <1>10 DEF SchedulerInv

\* What releasing a Program does to the records and side tables.
LEMMA ReleaseEffect ==
  ASSUME SchedulerInv, NEW p \in ProgramId, ReleaseProgram(Ref(p))
  PROVE  /\ RegistryInv'
         /\ p \in programs
         /\ programs' = programs \ {p}
         /\ UNCHANGED last_generations
         /\ \A q \in ProgramId \ {p} : state'[q] = state[q] /\ status'[q] = status[q]
         /\ state' \in [ProgramId -> {"active", "paused", "terminated"}]
         /\ status' \in [ProgramId -> {"reasoning", "acting"}]
         /\ marked_for_pause' \in [ProgramId -> BOOLEAN]
         /\ served' \in [ProgramId -> BOOLEAN]
         /\ finished_at' \subseteq Refs /\ freshness_anchor' \subseteq Refs
         /\ LiveStates' /\ MarkedOnlyActive' /\ SideTablesLive'
<1>1. Ref(p)[1] = p
  BY DEF Ref
<1>2. RegistryInv'
  BY ReleaseKeepsRegistryInv DEF SchedulerInv, ReleaseProgram
<1>3. /\ p \in programs /\ programs' = programs \ {p} /\ UNCHANGED last_generations
  BY <1>1 DEF ReleaseProgram, Release, Get
<1>4. /\ state' = [state EXCEPT ![p] = "terminated"]
      /\ status' = [status EXCEPT ![p] = "acting"]
      /\ marked_for_pause' = [marked_for_pause EXCEPT ![p] = FALSE]
      /\ served' = [served EXCEPT ![p] = FALSE]
      /\ finished_at' = finished_at \ {Ref(p)}
      /\ freshness_anchor' = freshness_anchor \ {Ref(p)}
  BY <1>1 DEF ReleaseProgram, DropSideTables
<1>5. LiveStates' /\ MarkedOnlyActive'
  BY <1>3, <1>4 DEF SchedulerInv, SchedulerTypeOK, LiveStates, MarkedOnlyActive
<1>6. SideTablesLive'
  <2> SUFFICES ASSUME NEW ref \in finished_at' \cup freshness_anchor' PROVE Get(ref)'
    BY DEF SideTablesLive
  <2>1. Get(ref) /\ ref # Ref(p)
    BY <1>4 DEF SchedulerInv, SideTablesLive
  <2>2. ref[1] # p
    BY <2>1 DEF Get
  <2> QED BY <1>3, <2>1, <2>2 DEF Get, Ref
<1> QED BY <1>2, <1>3, <1>4, <1>5, <1>6 DEF SchedulerInv, SchedulerTypeOK

\* Releasing a Program that has no request left.
LEMMA ReleaseIdleKeepsInv ==
  ASSUME SchedulerInv, NEW p \in ProgramId,
         RequestsOf(Ref(p)) = {}, ReleaseProgram(Ref(p)),
         UNCHANGED <<requestVars, hook>>, cycle_dirty' \in BOOLEAN
  PROVE  SchedulerInv'
<1>1. /\ RegistryInv'
      /\ p \in programs
      /\ programs' = programs \ {p}
      /\ UNCHANGED last_generations
      /\ \A q \in ProgramId \ {p} : state'[q] = state[q] /\ status'[q] = status[q]
      /\ state' \in [ProgramId -> {"active", "paused", "terminated"}]
      /\ status' \in [ProgramId -> {"reasoning", "acting"}]
      /\ marked_for_pause' \in [ProgramId -> BOOLEAN]
      /\ served' \in [ProgramId -> BOOLEAN]
      /\ finished_at' \subseteq Refs /\ freshness_anchor' \subseteq Refs
      /\ LiveStates' /\ MarkedOnlyActive' /\ SideTablesLive'
  BY ReleaseEffect
<1>2. UNCHANGED <<request_bindings, program_requests, pool_status, pool_program,
                  recent_admit, native, hook>>
  BY DEF requestVars
<1>3. \A r \in Request : request_bindings[r] # None =>
        request_bindings[r][1] \in ProgramId \ {p}
  <2> SUFFICES ASSUME NEW r \in Request, request_bindings[r] # None
               PROVE  request_bindings[r][1] \in ProgramId \ {p}
    OBVIOUS
  <2>1. request_bindings[r] # Ref(p)
    BY DEF RequestsOf, SchedulerInv, BindingsExact
  <2> QED BY <2>1, BoundToCurrent
<1>4. SchedulerTypeOK'
  BY <1>1, <1>2 DEF SchedulerInv, SchedulerTypeOK
<1>5. BindingsExact'
  BY <1>1, <1>2, <1>3 DEF SchedulerInv, BindingsExact, Get, Ref
<1>6. StatusTracksRequests'
  BY <1>1, <1>2 DEF SchedulerInv, StatusTracksRequests, Ref, RegistryInv, RegistryTypeOK
<1>7. (OneOwner /\ RecentAdmitExact /\ HookConsistent)'
  BY <1>2 DEF SchedulerInv, OneOwner, RecentAdmitExact, HookConsistent
<1>8. NoStrandedRequest' /\ ServedOnlyWhileActive'
  BY <1>1, <1>2, <1>3 DEF SchedulerInv, NoStrandedRequest, ServedOnlyWhileActive, OneOwner
<1> QED BY <1>1, <1>4, <1>5, <1>6, <1>7, <1>8 DEF SchedulerInv

\* What removing a binding leaves of the two request indexes.
LEMMA PopBindingEffect ==
  ASSUME SchedulerInv, NEW r \in Request, request_bindings[r] # None, PopBinding(r)
  PROVE  /\ request_bindings' \in [Request -> Refs \cup {None}]
         /\ program_requests' \subseteq Refs \X Request
         /\ request_bindings'[r] = None
         /\ \A x \in Request \ {r} : request_bindings'[x] = request_bindings[x]
         /\ \A x \in Request \ {r} : request_bindings[x] # None =>
              <<request_bindings[x], x>> \in program_requests'
         /\ \A e \in program_requests' : request_bindings'[e[2]] = e[1]
         /\ RequestsLeft(request_bindings[r], r) = {} <=>
              \A x \in Request : request_bindings'[x] # request_bindings[r]
<1>1. /\ request_bindings' = [request_bindings EXCEPT ![r] = None]
      /\ program_requests' = program_requests \ {<<request_bindings[r], r>>}
  BY DEF PopBinding
<1>2. /\ request_bindings \in [Request -> Refs \cup {None}]
      /\ program_requests \subseteq Refs \X Request
      /\ \A x \in Request : request_bindings[x] # None =>
           <<request_bindings[x], x>> \in program_requests
      /\ \A e \in program_requests : request_bindings[e[2]] = e[1]
  BY DEF SchedulerInv, SchedulerTypeOK, BindingsExact
<1>3. \A x \in Request \ {r} : request_bindings[x] # None =>
        <<request_bindings[x], x>> \in program_requests'
  BY <1>1, <1>2
<1>4. ASSUME NEW e \in program_requests' PROVE request_bindings'[e[2]] = e[1]
  <2>1. e \in Refs \X Request /\ e # <<request_bindings[r], r>> /\ request_bindings[e[2]] = e[1]
    BY <1>1, <1>2
  <2>2. e = <<e[1], e[2]>> /\ e[2] \in Request
    BY <2>1
  <2> QED BY <1>1, <1>2, <2>1, <2>2
<1>5. RequestsLeft(request_bindings[r], r) = {} <=>
        \A x \in Request : request_bindings'[x] # request_bindings[r]
  <2>1. \A x \in Request : <<request_bindings[r], x>> \in program_requests
                             <=> request_bindings[x] = request_bindings[r]
    BY <1>2
  <2>2. RequestsLeft(request_bindings[r], r) =
          {x \in Request : request_bindings[x] = request_bindings[r] /\ x # r}
    BY <2>1 DEF RequestsLeft, RequestsOf
  <2>3. \A x \in Request : request_bindings'[x] = request_bindings[r]
                             <=> request_bindings[x] = request_bindings[r] /\ x # r
    BY <1>1, <1>2
  <2> QED BY <2>2, <2>3
<1> QED BY <1>1, <1>2, <1>3, <1>4, <1>5

\* Cancelling a request, whoever owns it.
LEMMA CancelRequestKeepsInv ==
  ASSUME SchedulerInv, NEW r \in Request, CancelRequest(r)
  PROVE  SchedulerInv'
<1> DEFINE ref == request_bindings[r]
           p == ref[1]
           last == RequestsLeft(ref, r) = {}
           discard == Get(ref) /\ last /\ state[p] = "paused" /\ ~served[p]
<1>1. /\ hook = Idle
      /\ ref # None
      /\ pool_status' = [x \in Request |-> IF x = r THEN "absent" ELSE pool_status[x]]
      /\ pool_program' = [x \in Request |-> IF x = r THEN None ELSE pool_program[x]]
      /\ recent_admit' = recent_admit \ {r}
      /\ native' = native \ {r}
      /\ PopBinding(r)
      /\ cycle_dirty' = TRUE
      /\ UNCHANGED hook
  BY DEF CancelRequest, DropBound, RemoveEntries
<1>2. /\ request_bindings' \in [Request -> Refs \cup {None}]
      /\ program_requests' \subseteq Refs \X Request
      /\ request_bindings'[r] = None
      /\ \A x \in Request \ {r} : request_bindings'[x] = request_bindings[x]
      /\ \A x \in Request \ {r} : request_bindings[x] # None =>
           <<request_bindings[x], x>> \in program_requests'
      /\ \A e \in program_requests' : request_bindings'[e[2]] = e[1]
      /\ last <=> \A x \in Request : request_bindings'[x] # ref
  BY <1>1, PopBindingEffect
<1>3. ref \in Refs /\ p \in ProgramId /\ p \in programs /\ ref = Ref(p) /\ Get(ref)
  BY <1>1, BoundToCurrent DEF Get
<1>4. OneOwner' /\ HookConsistent'
  BY <1>1, <1>2 DEF SchedulerInv, SchedulerTypeOK, OneOwner, HookConsistent, Idle
<1>5. RecentAdmitExact'
  BY <1>1 DEF SchedulerInv, SchedulerTypeOK, RecentAdmitExact
<1>6. CASE discard
  <2>0. ReleaseProgram(Ref(p))
    BY <1>6, <1>3 DEF CancelRequest, DropBound
  <2>1. /\ RegistryInv'
        /\ programs' = programs \ {p}
        /\ UNCHANGED last_generations
        /\ \A q \in ProgramId \ {p} : state'[q] = state[q] /\ status'[q] = status[q]
        /\ state' \in [ProgramId -> {"active", "paused", "terminated"}]
        /\ status' \in [ProgramId -> {"reasoning", "acting"}]
        /\ marked_for_pause' \in [ProgramId -> BOOLEAN]
        /\ served' \in [ProgramId -> BOOLEAN]
        /\ finished_at' \subseteq Refs /\ freshness_anchor' \subseteq Refs
        /\ LiveStates' /\ MarkedOnlyActive' /\ SideTablesLive'
    BY <2>0, <1>3, ReleaseEffect
  <2>2. \A x \in Request : request_bindings'[x] # None =>
          x # r /\ request_bindings'[x] = request_bindings[x]
          /\ request_bindings[x] = Ref(request_bindings[x][1])
          /\ request_bindings[x][1] \in ProgramId \ {p}
          /\ request_bindings[x][1] \in programs
    <3> SUFFICES ASSUME NEW x \in Request, request_bindings'[x] # None
                 PROVE  x # r /\ request_bindings'[x] = request_bindings[x]
                        /\ request_bindings[x] = Ref(request_bindings[x][1])
                        /\ request_bindings[x][1] \in ProgramId \ {p}
                        /\ request_bindings[x][1] \in programs
      OBVIOUS
    <3>1. x # r /\ request_bindings'[x] = request_bindings[x]
      BY <1>2
    <3>2. request_bindings[x] # ref
      BY <1>2, <1>6, <3>1
    <3> QED BY <3>1, <3>2, <1>3, BoundToCurrent
  <2>3. SchedulerTypeOK'
    BY <1>1, <1>2, <2>1 DEF SchedulerInv, SchedulerTypeOK
  <2>4. BindingsExact'
    BY <1>2, <2>1, <2>2 DEF BindingsExact, Get, Ref
  <2>5. StatusTracksRequests'
    <3> SUFFICES ASSUME NEW q \in programs'
                 PROVE  (status[q] = "reasoning")' <=>
                          \E x \in Request : request_bindings'[x] = Ref(q)
      BY <2>1 DEF StatusTracksRequests, Ref
    <3>1. q \in programs /\ q \in ProgramId \ {p} /\ Ref(q) # ref /\ Ref(q) \in Refs
      BY <2>1, <1>3 DEF SchedulerInv, RegistryInv, RegistryTypeOK, Ref, Refs
    <3>2. \A x \in Request : request_bindings'[x] = Ref(q) <=> request_bindings[x] = Ref(q)
      BY <3>1, <1>2, SchedulerAssumption
    <3> QED BY <3>1, <3>2, <2>1 DEF SchedulerInv, StatusTracksRequests
  <2>6. NoStrandedRequest'
    <3> SUFFICES ASSUME NEW x \in Request, pool_status'[x] = "waiting"
                 PROVE  state'[pool_program'[x][1]] = "paused"
      BY DEF NoStrandedRequest
    <3>1. x # r /\ pool_status[x] = "waiting" /\ pool_program'[x] = pool_program[x]
      BY <1>1 DEF SchedulerInv, SchedulerTypeOK
    <3>2. state[pool_program[x][1]] = "paused" /\ pool_program[x] = request_bindings[x]
          /\ request_bindings[x] # None
      BY <3>1, <1>1 DEF SchedulerInv, NoStrandedRequest, OneOwner, Idle
    <3> QED BY <3>1, <3>2, <2>1, <2>2, <1>2
  <2>7. ServedOnlyWhileActive'
    <3> SUFFICES ASSUME NEW x \in Request, x \in native' \/ pool_status'[x] = "admitted"
                 PROVE  state'[request_bindings'[x][1]] = "active"
      BY DEF ServedOnlyWhileActive
    <3>1. x # r /\ (x \in native \/ pool_status[x] = "admitted")
      BY <1>1 DEF SchedulerInv, SchedulerTypeOK
    <3>2. state[request_bindings[x][1]] = "active" /\ request_bindings[x] # None
      BY <3>1 DEF SchedulerInv, ServedOnlyWhileActive, OneOwner
    <3> QED BY <3>1, <3>2, <2>1, <2>2, <1>2
  <2> QED BY <1>4, <1>5, <2>1, <2>3, <2>4, <2>5, <2>6, <2>7 DEF SchedulerInv
<1>7. CASE ~discard
  <2>1. /\ status' = [status EXCEPT ![p] = IF last THEN "acting" ELSE "reasoning"]
        /\ UNCHANGED registryVars
        /\ UNCHANGED <<state, marked_for_pause, served, sideVars>>
        /\ UNCHANGED <<programs, last_generations, finished_at, freshness_anchor>>
    BY <1>7, <1>3 DEF CancelRequest, DropBound, registryVars, sideVars
  <2>2. RegistryInv'
    BY <2>1, StutterKeepsRegistryInv DEF SchedulerInv
  <2>3. SchedulerTypeOK'
    BY <1>1, <1>2, <2>1 DEF SchedulerInv, SchedulerTypeOK
  <2>4. BindingsExact' /\ SideTablesLive' /\ MarkedOnlyActive' /\ LiveStates'
    <3>1. \A e : Get(e)' <=> Get(e)
      BY <2>1 DEF Get, Ref
    <3> QED BY <1>2, <2>1, <3>1 DEF SchedulerInv, BindingsExact, SideTablesLive,
                                    MarkedOnlyActive, LiveStates
  <2>5. StatusTracksRequests'
    <3> SUFFICES ASSUME NEW q \in programs
                 PROVE  status'[q] = "reasoning" <=>
                          \E x \in Request : request_bindings'[x] = Ref(q)
      BY <2>1 DEF StatusTracksRequests, Ref
    <3>1. q \in ProgramId /\ Ref(q) \in Refs
      BY DEF SchedulerInv, RegistryInv, RegistryTypeOK, Ref, Refs
    <3>2. CASE q = p
      BY <3>2, <2>1, <1>2, <1>3 DEF SchedulerInv, SchedulerTypeOK
    <3>3. CASE q # p
      <4>1. Ref(q) # ref
        BY <3>3, <1>3 DEF Ref
      <4>2. \A x \in Request : request_bindings'[x] = Ref(q) <=> request_bindings[x] = Ref(q)
        BY <3>1, <4>1, <1>2, SchedulerAssumption
      <4> QED BY <3>3, <4>2, <2>1 DEF SchedulerInv, SchedulerTypeOK, StatusTracksRequests
    <3> QED BY <3>2, <3>3
  <2>6. NoStrandedRequest' /\ ServedOnlyWhileActive'
    BY <1>1, <1>2, <2>1 DEF SchedulerInv, SchedulerTypeOK, NoStrandedRequest, ServedOnlyWhileActive
  <2> QED BY <1>4, <1>5, <2>2, <2>3, <2>4, <2>5, <2>6 DEF SchedulerInv
<1> QED BY <1>6, <1>7

\* Completing a request that the host executed.
LEMMA OnRequestCompletionKeepsInv ==
  ASSUME SchedulerInv, NEW r \in Request, OnRequestCompletion(r)
  PROVE  SchedulerInv'
<1> DEFINE ref == request_bindings[r]
           p == ref[1]
           last == RequestsLeft(ref, r) = {}
           pauseNow == last /\ marked_for_pause[p] /\ state[p] = "active"
<1>1. /\ hook = Idle
      /\ r \in native
      /\ ref # None
      /\ native' = native \ {r}
      /\ PopBinding(r)
      /\ cycle_dirty' = TRUE
      /\ finished_at' = finished_at \cup {ref}
      /\ served' = [served EXCEPT ![p] = TRUE]
      /\ status' = [status EXCEPT ![p] = IF last THEN "acting" ELSE "reasoning"]
      /\ state' = IF pauseNow THEN [state EXCEPT ![p] = "paused"] ELSE state
      /\ marked_for_pause' = IF pauseNow THEN [marked_for_pause EXCEPT ![p] = FALSE]
                             ELSE marked_for_pause
      /\ freshness_anchor' = IF pauseNow THEN freshness_anchor \cup {Ref(p)} ELSE freshness_anchor
      /\ hook' = IF last /\ marked_for_pause[p] THEN Idle
                 ELSE [kind |-> "completion", request |-> None]
      /\ UNCHANGED <<registryVars, pool_status, pool_program, recent_admit>>
      /\ UNCHANGED registryVars
      /\ UNCHANGED <<programs, last_generations>>
  BY DEF OnRequestCompletion, FinishBound, ToPaused, registryVars
<1>2. /\ request_bindings' \in [Request -> Refs \cup {None}]
      /\ program_requests' \subseteq Refs \X Request
      /\ request_bindings'[r] = None
      /\ \A x \in Request \ {r} : request_bindings'[x] = request_bindings[x]
      /\ \A x \in Request \ {r} : request_bindings[x] # None =>
           <<request_bindings[x], x>> \in program_requests'
      /\ \A e \in program_requests' : request_bindings'[e[2]] = e[1]
      /\ last <=> \A x \in Request : request_bindings'[x] # ref
  BY <1>1, PopBindingEffect
<1>3. ref \in Refs /\ p \in ProgramId /\ p \in programs /\ ref = Ref(p) /\ Get(ref)
  BY <1>1, BoundToCurrent DEF Get
<1>4. pool_status[r] = "absent"
  BY <1>1 DEF SchedulerInv, OneOwner
<1>5. RegistryInv'
  BY <1>1, StutterKeepsRegistryInv DEF SchedulerInv
<1> HIDE DEF last
<1>6. SchedulerTypeOK'
  <2>1. /\ state' \in [ProgramId -> {"active", "paused", "terminated"}]
        /\ status' \in [ProgramId -> {"reasoning", "acting"}]
        /\ marked_for_pause' \in [ProgramId -> BOOLEAN]
        /\ served' \in [ProgramId -> BOOLEAN]
    BY <1>1, <1>3 DEF SchedulerInv, SchedulerTypeOK
  <2>2. finished_at' \subseteq Refs /\ freshness_anchor' \subseteq Refs
    BY <1>1, <1>3 DEF SchedulerInv, SchedulerTypeOK
  <2> QED BY <1>1, <1>2, <2>1, <2>2 DEF SchedulerInv, SchedulerTypeOK, Idle
<1>7. \A e : Get(e)' <=> Get(e)
  BY <1>1 DEF Get, Ref
<1>8. BindingsExact' /\ SideTablesLive'
  BY <1>1, <1>2, <1>3, <1>7 DEF SchedulerInv, BindingsExact, SideTablesLive
<1>9. MarkedOnlyActive' /\ LiveStates'
  BY <1>1, <1>3 DEF SchedulerInv, SchedulerTypeOK, MarkedOnlyActive, LiveStates
<1>10. OneOwner' /\ RecentAdmitExact' /\ HookConsistent'
  BY <1>1, <1>2, <1>4 DEF SchedulerInv, OneOwner, RecentAdmitExact, HookConsistent, Idle
<1>11. StatusTracksRequests'
  <2> SUFFICES ASSUME NEW q \in programs
               PROVE  status'[q] = "reasoning" <=>
                        \E x \in Request : request_bindings'[x] = Ref(q)
    BY <1>1 DEF StatusTracksRequests, Ref
  <2>1. q \in ProgramId /\ Ref(q) \in Refs
    BY DEF SchedulerInv, RegistryInv, RegistryTypeOK, Ref, Refs
  <2>2. CASE q = p
    BY <2>2, <1>1, <1>2, <1>3 DEF SchedulerInv, SchedulerTypeOK
  <2>3. CASE q # p
    <3>1. Ref(q) # ref
      BY <2>3, <1>3 DEF Ref
    <3>2. \A x \in Request : request_bindings'[x] = Ref(q) <=> request_bindings[x] = Ref(q)
      BY <2>1, <3>1, <1>2, SchedulerAssumption
    <3> QED BY <2>3, <3>2, <1>1 DEF SchedulerInv, SchedulerTypeOK, StatusTracksRequests
  <2> QED BY <2>2, <2>3
<1>12. NoStrandedRequest'
  <2> SUFFICES ASSUME NEW x \in Request, pool_status[x] = "waiting"
               PROVE  state'[pool_program[x][1]] = "paused"
    BY <1>1 DEF NoStrandedRequest
  <2>1. state[pool_program[x][1]] = "paused" /\ pool_program[x] = request_bindings[x]
        /\ request_bindings[x] # None
    BY <1>1 DEF SchedulerInv, NoStrandedRequest, OneOwner, Idle
  <2>2. pool_program[x][1] \in ProgramId
    BY <2>1, BoundToCurrent
  <2> QED BY <2>1, <2>2, <1>1 DEF SchedulerInv, SchedulerTypeOK
<1>13. ServedOnlyWhileActive'
  <2> SUFFICES ASSUME NEW x \in Request, x \in native' \/ pool_status'[x] = "admitted"
               PROVE  state'[request_bindings'[x][1]] = "active"
    BY DEF ServedOnlyWhileActive
  <2>1. x # r /\ (x \in native \/ pool_status[x] = "admitted")
    BY <1>1, <1>4
  <2>2. state[request_bindings[x][1]] = "active" /\ request_bindings[x] # None
        /\ request_bindings'[x] = request_bindings[x]
    BY <2>1, <1>2 DEF SchedulerInv, ServedOnlyWhileActive, OneOwner
  <2>3. request_bindings[x][1] \in ProgramId
        /\ request_bindings[x] = Ref(request_bindings[x][1])
    BY <2>2, BoundToCurrent
  <2>4. pauseNow => request_bindings[x][1] # p
    BY <2>2, <2>3, <1>2, <1>3
  <2> QED BY <2>2, <2>3, <2>4, <1>1 DEF SchedulerInv, SchedulerTypeOK
<1> QED BY <1>5, <1>6, <1>8, <1>9, <1>10, <1>11, <1>12, <1>13 DEF SchedulerInv

\* Retaining a new request under the current or the next generation.
LEMMA OnRequestArrivalKeepsInv ==
  ASSUME SchedulerInv, NEW r \in Request, NEW m \in Identity, OnRequestArrival(r, m)
  PROVE  SchedulerInv'
<1> DEFINE p == m.program
           ref == <<p, last_generations'[p]>>
           created == p \notin programs
<1>1. /\ hook = Idle
      /\ request_bindings[r] = None
      /\ r \notin native
      /\ Materialize(m)
      /\ state' = [state EXCEPT ![p] = IF created THEN "paused" ELSE @]
      /\ status' = [status EXCEPT ![p] = "reasoning"]
      /\ marked_for_pause' = [marked_for_pause EXCEPT ![p] = IF created THEN FALSE ELSE @]
      /\ served' = [served EXCEPT ![p] = IF created THEN FALSE ELSE @]
      /\ request_bindings' = [request_bindings EXCEPT ![r] = ref]
      /\ program_requests' = program_requests \cup {<<ref, r>>}
      /\ pool_status' = [pool_status EXCEPT ![r] = "waiting"]
      /\ pool_program' = [pool_program EXCEPT ![r] = ref]
      /\ freshness_anchor' = IF created THEN freshness_anchor \cup {ref} ELSE freshness_anchor
      /\ cycle_dirty' = TRUE
      /\ hook' = [kind |-> "admission", request |-> r]
      /\ UNCHANGED <<recent_admit, native, finished_at>>
  BY DEF OnRequestArrival, Unused, BindArrival, MaterializedRef
<1>2. p \in ProgramId
  BY DEF Identity
<1>3. RegistryInv'
  BY <1>1, CreateKeepsRegistryInv, ApplyMetadataKeepsRegistryInv DEF Materialize, SchedulerInv
<1>4. /\ programs' = programs \cup {p}
      /\ \A q \in ProgramId : q # p \/ ~created => last_generations'[q] = last_generations[q]
  BY <1>1, <1>2 DEF Materialize, Create, NextGeneration, ApplyMetadata, SchedulerInv, RegistryInv, RegistryTypeOK
<1>5. /\ p \in programs' /\ ref \in Refs /\ ref[1] = p /\ ref # None
      /\ ref = <<ref[1], last_generations'[ref[1]]>>
  BY <1>2, <1>3, <1>4, SchedulerAssumption DEF RegistryInv, RegistryTypeOK, Refs
<1>6. \A q \in programs : last_generations'[q] = last_generations[q]
  BY <1>4 DEF SchedulerInv, RegistryInv, RegistryTypeOK
<1>7. \A x \in Request : request_bindings[x] # None =>
        /\ x # r
        /\ request_bindings'[x] = request_bindings[x]
        /\ request_bindings[x] \in Refs
        /\ request_bindings[x][1] \in ProgramId
        /\ request_bindings[x][1] \in programs
        /\ request_bindings[x] = Ref(request_bindings[x][1])
  BY <1>1, BoundToCurrent DEF SchedulerInv, SchedulerTypeOK
<1>8. pool_status[r] = "absent" /\ r \notin recent_admit
  BY <1>1 DEF SchedulerInv, OneOwner, RecentAdmitExact
<1> HIDE DEF ref, p
<1>9. SchedulerTypeOK'
  <2>1. /\ state' \in [ProgramId -> {"active", "paused", "terminated"}]
        /\ status' \in [ProgramId -> {"reasoning", "acting"}]
        /\ marked_for_pause' \in [ProgramId -> BOOLEAN]
        /\ served' \in [ProgramId -> BOOLEAN]
    BY <1>1, <1>2 DEF SchedulerInv, SchedulerTypeOK
  <2>2. /\ request_bindings' \in [Request -> Refs \cup {None}]
        /\ program_requests' \subseteq Refs \X Request
        /\ pool_status' \in [Request -> {"absent", "waiting", "admitted"}]
        /\ pool_program' \in [Request -> Refs \cup {None}]
        /\ finished_at' \subseteq Refs /\ freshness_anchor' \subseteq Refs
    BY <1>1, <1>5 DEF SchedulerInv, SchedulerTypeOK
  <2> QED BY <1>1, <2>1, <2>2 DEF SchedulerInv, SchedulerTypeOK
<1>10. BindingsExact'
  <2>1. /\ request_bindings \in [Request -> Refs \cup {None}]
        /\ program_requests \subseteq Refs \X Request
        /\ \A x \in Request : request_bindings[x] # None =>
             <<request_bindings[x], x>> \in program_requests
        /\ \A e \in program_requests : request_bindings[e[2]] = e[1]
    BY DEF SchedulerInv, SchedulerTypeOK, BindingsExact
  <2>2. ASSUME NEW x \in Request, request_bindings'[x] # None
        PROVE  /\ request_bindings'[x][1] \in programs'
               /\ request_bindings'[x] = <<request_bindings'[x][1],
                                           last_generations'[request_bindings'[x][1]]>>
               /\ <<request_bindings'[x], x>> \in program_requests'
    <3>1. CASE x = r
      BY <3>1, <1>1, <1>5, <2>1
    <3>2. CASE x # r
      BY <2>2, <3>2, <1>1, <1>4, <1>6, <1>7, <2>1 DEF Ref
    <3> QED BY <3>1, <3>2
  <2>3. ASSUME NEW e \in program_requests' PROVE request_bindings'[e[2]] = e[1]
    <3>1. CASE e = <<ref, r>>
      BY <3>1, <1>1, <2>1
    <3>2. CASE e \in program_requests
      <4>1. e[2] \in Request /\ e[1] \in Refs /\ request_bindings[e[2]] = e[1]
        BY <3>2, <2>1
      <4> QED BY <4>1, <1>7, SchedulerAssumption
    <3> QED BY <3>1, <3>2, <1>1
  <2> QED BY <2>2, <2>3 DEF BindingsExact, Get, Ref
<1>11. StatusTracksRequests'
  <2> SUFFICES ASSUME NEW q \in programs'
               PROVE  (status[q] = "reasoning" <=>
                        \E x \in Request : request_bindings[x] = Ref(q))'
    BY DEF StatusTracksRequests
  <2>1. CASE q = p
    <3>1. request_bindings'[r] = Ref(q)'
      BY <2>1, <1>1 DEF Ref, ref, SchedulerInv, SchedulerTypeOK
    <3> QED BY <2>1, <3>1, <1>1, <1>2 DEF SchedulerInv, SchedulerTypeOK
  <2>2. CASE q # p
    <3>1. q \in programs /\ q \in ProgramId /\ Ref(q)' = Ref(q) /\ Ref(q) \in Refs
      BY <2>2, <1>4, <1>6 DEF SchedulerInv, RegistryInv, RegistryTypeOK, Ref, Refs
    <3>2. ref # Ref(q)
      BY <2>2, <1>5 DEF Ref
    <3>3. \A x \in Request : request_bindings'[x] = Ref(q) <=> request_bindings[x] = Ref(q)
      BY <3>1, <3>2, <1>1, <1>7, SchedulerAssumption DEF SchedulerInv, SchedulerTypeOK
    <3> QED BY <2>2, <3>1, <3>3, <1>1 DEF SchedulerInv, SchedulerTypeOK, StatusTracksRequests
  <2> QED BY <2>1, <2>2
<1>12. OneOwner'
  BY <1>1, <1>5, <1>7, <1>8 DEF SchedulerInv, SchedulerTypeOK, OneOwner
<1>13. RecentAdmitExact' /\ HookConsistent'
  BY <1>1, <1>8 DEF SchedulerInv, SchedulerTypeOK, RecentAdmitExact, HookConsistent
<1>14. SideTablesLive'
  <2> SUFFICES ASSUME NEW e \in finished_at' \cup freshness_anchor'
               PROVE  e[1] \in programs' /\ e = <<e[1], last_generations'[e[1]]>>
    BY DEF SideTablesLive, Get, Ref
  <2>1. CASE e = ref
    BY <2>1, <1>5
  <2>2. CASE e \in finished_at \cup freshness_anchor
    <3>1. e[1] \in programs /\ e = Ref(e[1])
      BY <2>2 DEF SchedulerInv, SideTablesLive, Get
    <3> QED BY <3>1, <1>4, <1>6 DEF Ref
  <2> QED BY <2>1, <2>2, <1>1
<1>15. MarkedOnlyActive' /\ LiveStates'
  BY <1>1, <1>2, <1>4 DEF SchedulerInv, SchedulerTypeOK, MarkedOnlyActive, LiveStates
<1>16. \A q \in ProgramId : q \in programs => state'[q] = state[q]
  BY <1>1, <1>2 DEF SchedulerInv, SchedulerTypeOK
<1>17. NoStrandedRequest'
  <2> SUFFICES ASSUME NEW x \in Request, pool_status'[x] = "waiting", x # r
               PROVE  state'[pool_program'[x][1]] = "paused"
    BY <1>1 DEF NoStrandedRequest
  <2>1. pool_status[x] = "waiting" /\ pool_program'[x] = pool_program[x]
    BY <1>1 DEF SchedulerInv, SchedulerTypeOK
  <2>2. state[pool_program[x][1]] = "paused" /\ pool_program[x] = request_bindings[x]
        /\ request_bindings[x] # None
    BY <2>1, <1>1 DEF SchedulerInv, NoStrandedRequest, OneOwner, Idle
  <2> QED BY <2>1, <2>2, <1>7, <1>16
<1>18. ServedOnlyWhileActive'
  <2> SUFFICES ASSUME NEW x \in Request, x \in native' \/ pool_status'[x] = "admitted"
               PROVE  state'[request_bindings'[x][1]] = "active"
    BY DEF ServedOnlyWhileActive
  <2>1. x # r /\ (x \in native \/ pool_status[x] = "admitted")
    BY <1>1 DEF SchedulerInv, SchedulerTypeOK
  <2>2. state[request_bindings[x][1]] = "active" /\ request_bindings[x] # None
    BY <2>1 DEF SchedulerInv, ServedOnlyWhileActive, OneOwner
  <2> QED BY <2>2, <1>7, <1>16
<1> QED BY <1>3, <1>9, <1>10, <1>11, <1>12, <1>13, <1>14, <1>15, <1>17, <1>18 DEF SchedulerInv

\* A step that leaves every variable alone.
LEMMA StutterKeepsSchedulerInv ==
  ASSUME SchedulerInv, UNCHANGED schedulerVars
  PROVE  SchedulerInv'
<1>1. /\ UNCHANGED registryVars
      /\ UNCHANGED <<programs, last_generations, state, status, marked_for_pause, served>>
      /\ UNCHANGED <<request_bindings, program_requests, pool_status, pool_program,
                     recent_admit, native, finished_at, freshness_anchor, cycle_dirty, hook>>
  BY DEF schedulerVars, registryVars, recordVars, requestVars, sideVars
<1>2. RegistryInv'
  BY <1>1, StutterKeepsRegistryInv DEF SchedulerInv
<1>3. SchedulerTypeOK'
  BY <1>1 DEF SchedulerInv, SchedulerTypeOK
<1>4. (BindingsExact /\ StatusTracksRequests /\ OneOwner /\ NoStrandedRequest
       /\ ServedOnlyWhileActive /\ RecentAdmitExact)'
  BY <1>1 DEF SchedulerInv, BindingsExact, StatusTracksRequests, OneOwner,
      NoStrandedRequest, ServedOnlyWhileActive, RecentAdmitExact, Get, Ref
<1>5. (SideTablesLive /\ MarkedOnlyActive /\ LiveStates /\ HookConsistent)'
  BY <1>1 DEF SchedulerInv, SideTablesLive, MarkedOnlyActive, LiveStates, HookConsistent, Get, Ref
<1> QED BY <1>2, <1>3, <1>4, <1>5 DEF SchedulerInv

\* Every entry point and every transition preserves the invariant.
LEMMA NextKeepsInv == SchedulerInv /\ [Next]_schedulerVars => SchedulerInv'
<1> SUFFICES ASSUME SchedulerInv, [Next]_schedulerVars PROVE SchedulerInv'
  OBVIOUS
<1>1. CASE \E r \in Request, m \in Identity : OnRequestArrival(r, m)
  BY <1>1, OnRequestArrivalKeepsInv
<1>2. CASE (\E r \in Request, m \in Identity : OnRequestArrivalRefused(r, m))
           \/ ScheduleCycle \/ EndHook \/ AdmissionQueued
  BY <1>2, HookStepKeepsInv
<1>3. CASE AdmissionAdmitted
  BY <1>3, AdmissionAdmittedKeepsInv
<1>4. ASSUME NEW p \in ProgramId, Transition(p) PROVE SchedulerInv'
  <2>1. CASE AdmitOrResume(p)
    BY <2>1, AdmitOrResumeKeepsInv
  <2>2. CASE Pause(p)
    BY <2>2, PauseKeepsInv
  <2>3. CASE MarkForPause(p)
    BY <2>3, MarkForPauseKeepsInv
  <2>4. CASE ReleaseIdle(p)
    <3>1. /\ RequestsOf(Ref(p)) = {} /\ ReleaseProgram(Ref(p))
          /\ UNCHANGED <<requestVars, hook>> /\ cycle_dirty' \in BOOLEAN
      BY <2>4 DEF ReleaseIdle, SchedulerInv, SchedulerTypeOK
    <3> QED BY <3>1, ReleaseIdleKeepsInv
  <2> QED BY <1>4, <2>1, <2>2, <2>3, <2>4 DEF Transition
<1>5. CASE \E r \in Request : OnRequestCompletion(r)
  BY <1>5, OnRequestCompletionKeepsInv
<1>6. ASSUME NEW p \in ProgramId, OnResponseTerminal(p) PROVE SchedulerInv'
  <2>1. /\ RequestsOf(Ref(p)) = {} /\ ReleaseProgram(Ref(p))
        /\ UNCHANGED <<requestVars, hook>> /\ cycle_dirty' \in BOOLEAN
    BY <1>6 DEF OnResponseTerminal, ReleaseTerminal, TerminalApplies
  <2> QED BY <2>1, ReleaseIdleKeepsInv
<1>7. CASE \E r \in Request : CancelRequest(r)
  BY <1>7, CancelRequestKeepsInv
<1>8. CASE ConsumeAdmitted
  BY <1>8, ConsumeAdmittedKeepsInv
<1>9. CASE UNCHANGED schedulerVars
  BY <1>9, StutterKeepsSchedulerInv
<1> QED BY <1>1, <1>2, <1>3, <1>4, <1>5, <1>6, <1>7, <1>8, <1>9 DEF Next

\* The inductive invariant holds in every reachable state.
LEMMA SchedulerInvariant == Spec => []SchedulerInv
BY InitSchedulerInv, NextKeepsInv, PTL DEF Spec

\* Whatever the strategy decides, the indexes agree and name live generations,
\* the status follows the unfinished requests, a delayed pause is pending only
\* on an active Program, and no side table outlives the generation it describes
\* (runtime.py on_request_arrival, on_request_completion, _apply_transition).
THEOREM RuntimeStaysConsistent == Spec => []RuntimeConsistent
<1>1. SchedulerInv => RuntimeConsistent
  BY DEF SchedulerInv, RuntimeConsistent
<1> QED BY <1>1, SchedulerInvariant, PTL

\* Every unfinished request has one owner, retained ones wait under paused
\* Programs and served ones belong to active Programs (request_pool.py,
\* runtime.py).
THEOREM RequestsAccounted == Spec => []RequestsOwned
<1>1. SchedulerInv => RequestsOwned
  BY DEF SchedulerInv, RequestsOwned
<1> QED BY <1>1, SchedulerInvariant, PTL

\* Every step of the runtime is a step of the registry, or leaves it alone.
LEMMA RuntimeStepIsRegistryStep ==
  ASSUME SchedulerInv, [Next]_schedulerVars PROVE [RegistryNext]_registryVars
<1>1. ASSUME NEW r \in Request, NEW m \in Identity, OnRequestArrival(r, m)
      PROVE [RegistryNext]_registryVars
  BY <1>1 DEF OnRequestArrival, Unused, BindArrival, Materialize, RegistryNext
<1>2. ASSUME NEW p \in ProgramId, ReleaseIdle(p) \/ OnResponseTerminal(p)
      PROVE [RegistryNext]_registryVars
  BY <1>2 DEF ReleaseIdle, OnResponseTerminal, ReleaseTerminal, ReleaseProgram, RegistryNext
<1>3. ASSUME NEW r \in Request, CancelRequest(r) PROVE [RegistryNext]_registryVars
  <2>1. CASE ReleaseProgram(request_bindings[r])
    <3>1. PICK p \in ProgramId : request_bindings[r] = Ref(p)
      BY <1>3 DEF CancelRequest, DropBound, SchedulerInv, BindingsExact, SchedulerTypeOK, Get,
          Ref, Refs
    <3> QED BY <2>1, <3>1 DEF ReleaseProgram, RegistryNext
  <2>2. CASE UNCHANGED registryVars
    BY <2>2
  <2> QED BY <1>3, <2>1, <2>2 DEF CancelRequest, DropBound
<1>4. CASE UNCHANGED registryVars
  BY <1>4
<1>5. ASSUME NEW p \in ProgramId, Transition(p) PROVE [RegistryNext]_registryVars
  BY <1>2, <1>4, <1>5 DEF Transition, AdmitOrResume, Pause, MarkForPause
<1>6. CASE \/ \E r \in Request, m \in Identity : OnRequestArrivalRefused(r, m)
           \/ AdmissionAdmitted \/ AdmissionQueued \/ ScheduleCycle \/ EndHook \/ ConsumeAdmitted
           \/ \E r \in Request : OnRequestCompletion(r)
           \/ UNCHANGED schedulerVars
  BY <1>4, <1>6 DEF OnRequestArrivalRefused, Unused, RefuseArrival, AdmissionAdmitted,
      AdmissionQueued, ScheduleCycle, OpenCycle, EndHook, ConsumeAdmitted, TakeAdmitted,
      OnRequestCompletion, FinishBound, schedulerVars
<1> QED BY <1>1, <1>2, <1>3, <1>5, <1>6 DEF Next

\* The runtime uses the registry as its specification allows: for every strategy
\* the runtime implements the registry, so that what is proved of the registry
\* holds inside the runtime (runtime.py materialize, release).
THEOREM RuntimeImplementsRegistry == Spec => RegistrySpec
<1>1. Init => RegistryInit
  BY DEF Init
<1>2. SchedulerInv /\ [Next]_schedulerVars => [RegistryNext]_registryVars
  BY RuntimeStepIsRegistryStep
<1> QED BY <1>1, <1>2, SchedulerInvariant, PTL DEF Spec, RegistrySpec

\* The registry's indexes stay exact under the runtime's calls.
THEOREM SchedulerKeepsRegistry == Spec => []RegistryExact
BY RuntimeImplementsRegistry, RegistryIndexesExact, PTL

\* No reference that stopped resolving ever resolves again, in the runtime too.
THEOREM SchedulerGenerationsFresh == Spec => GenerationsNeverReused
BY RuntimeImplementsRegistry, RegistryGenerationsFresh, PTL

\* A release leaves the state of every other Program alone.
LEMMA ReleaseTerminatesOne ==
  ASSUME SchedulerInv, NEW q \in ProgramId, ReleaseProgram(Ref(q)),
         NEW p \in ProgramId, state[p] = "active", state'[p] # "active"
  PROVE  p = q
BY ReleaseEffect DEF SchedulerInv

\* The step lemma of NeverInterrupted: the actions that can end ACTIVE are a
\* pause, a release, and the completion that consumes a delayed pause.
LEMMA StepNeverInterrupts ==
  ASSUME SchedulerInv, [Next]_schedulerVars, NEW p \in ProgramId,
         state[p] = "active", state'[p] # "active", NEW r \in Request
  PROVE  request_bindings'[r] # Ref(p)
<1>0. /\ p \in programs
      /\ state \in [ProgramId -> {"active", "paused", "terminated"}]
      /\ Ref(p) \in Refs
      /\ Ref(p)[1] = p
  BY DEF SchedulerInv, LiveStates, SchedulerTypeOK, RegistryInv, RegistryTypeOK, Ref, Refs
<1>1. ASSUME NEW x \in Request, NEW m \in Identity, OnRequestArrival(x, m) PROVE FALSE
  <2>1. m.program \in ProgramId
    BY DEF Identity
  <2> QED BY <1>0, <1>1, <2>1 DEF OnRequestArrival, Unused, BindArrival
<1>2. CASE state' = state
  BY <1>2
<1>3. ASSUME NEW q \in ProgramId, AdmitOrResume(q) PROVE FALSE
  BY <1>0, <1>3 DEF AdmitOrResume
<1>4. ASSUME NEW q \in ProgramId, Pause(q) PROVE request_bindings'[r] # Ref(p)
  <2>1. q = p /\ status[p] # "reasoning" /\ request_bindings' = request_bindings
    BY <1>0, <1>4 DEF Pause, CanPause, ToPaused, requestVars
  <2> QED BY <1>0, <2>1 DEF SchedulerInv, StatusTracksRequests
<1>5. ASSUME NEW q \in ProgramId, ReleaseProgram(Ref(q)), RequestsOf(Ref(q)) = {},
             UNCHANGED requestVars
      PROVE  request_bindings'[r] # Ref(p)
  <2>1. q = p /\ request_bindings' = request_bindings
    BY <1>5, ReleaseTerminatesOne DEF requestVars
  <2> QED BY <1>0, <1>5, <2>1, SchedulerAssumption DEF RequestsOf, SchedulerInv, BindingsExact
<1>6. ASSUME NEW x \in Request, OnRequestCompletion(x) PROVE request_bindings'[r] # Ref(p)
  <2>1. /\ request_bindings[x] # None /\ PopBinding(x)
        /\ state' # state => RequestsLeft(request_bindings[x], x) = {}
        /\ \A q \in ProgramId : q # request_bindings[x][1] => state'[q] = state[q]
    BY <1>0, <1>6 DEF OnRequestCompletion, FinishBound, ToPaused
  <2>2. p = request_bindings[x][1] /\ RequestsLeft(request_bindings[x], x) = {}
    BY <2>1
  <2>3. request_bindings[x] = Ref(p)
    BY <2>1, <2>2, BoundToCurrent
  <2> QED BY <2>1, <2>2, <2>3, PopBindingEffect
<1>7. ASSUME NEW x \in Request, CancelRequest(x) PROVE FALSE
  <2>1. request_bindings[x] # None
    BY <1>7 DEF CancelRequest, DropBound
  <2>2. request_bindings[x] = Ref(request_bindings[x][1]) /\ request_bindings[x][1] \in ProgramId
    BY <2>1, BoundToCurrent
  <2>3. CASE ReleaseProgram(request_bindings[x]) /\ state[request_bindings[x][1]] = "paused"
    <3>1. ReleaseProgram(Ref(request_bindings[x][1]))
      BY <2>2, <2>3
    <3>2. p = request_bindings[x][1]
      BY <3>1, <2>2, ReleaseTerminatesOne
    <3> QED BY <2>3, <3>2
  <2>4. CASE UNCHANGED state
    BY <2>4
  <2> QED BY <1>7, <2>3, <2>4 DEF CancelRequest, DropBound
<1>8. CASE \/ \E x \in Request, m \in Identity : OnRequestArrivalRefused(x, m)
           \/ AdmissionAdmitted \/ AdmissionQueued \/ ScheduleCycle \/ EndHook
           \/ ConsumeAdmitted \/ UNCHANGED schedulerVars
           \/ \E q \in ProgramId : MarkForPause(q)
  BY <1>8 DEF OnRequestArrivalRefused, Unused, RefuseArrival, AdmissionAdmitted, AdmissionQueued,
      ScheduleCycle, OpenCycle, EndHook, ConsumeAdmitted, TakeAdmitted, MarkForPause, recordVars,
      schedulerVars
<1>9. CASE \E q \in ProgramId : ReleaseIdle(q) \/ OnResponseTerminal(q)
  BY <1>9, <1>5 DEF ReleaseIdle, OnResponseTerminal, ReleaseTerminal, TerminalApplies
<1> QED BY <1>1, <1>3, <1>4, <1>6, <1>7, <1>8, <1>9 DEF Next, Transition

\* A Program leaves ACTIVE only when it has no unfinished request, whatever
\* the strategy asks for (runtime.py _apply_transition, on_request_completion).
THEOREM ServiceNeverInterrupted == Spec => NeverInterrupted
<1>1. SchedulerInv /\ [Next]_schedulerVars =>
        [\A p \in ProgramId :
           state[p] = "active" /\ state'[p] # "active" =>
             \A r \in Request : request_bindings'[r] # Ref(p)]_schedulerVars
  BY StepNeverInterrupts
<1> QED BY <1>1, SchedulerInvariant, PTL DEF Spec, NeverInterrupted

\* The step lemma of HandedOverOnce.
LEMMA StepHandsOverOnce ==
  ASSUME SchedulerInv, [Next]_schedulerVars, NEW r \in native' \ native
  PROVE  /\ pool_status[r] # "absent" /\ pool_status'[r] = "absent"
         /\ request_bindings'[r] = request_bindings[r]
<1>0. pool_status \in [Request -> {"absent", "waiting", "admitted"}]
  BY DEF SchedulerInv, SchedulerTypeOK
<1>1. CASE AdmissionAdmitted
  BY <1>0, <1>1 DEF AdmissionAdmitted, RemoveEntries, SchedulerInv, HookConsistent
<1>2. CASE ConsumeAdmitted
  BY <1>0, <1>2 DEF ConsumeAdmitted, TakeAdmitted, RemoveEntries, SchedulerInv, RecentAdmitExact
<1>3. CASE native' \subseteq native
  BY <1>3
<1>4. ASSUME NEW p \in ProgramId, Transition(p) PROVE native' = native
  BY <1>4 DEF Transition, AdmitOrResume, Pause, MarkForPause, ReleaseIdle, requestVars
<1>5. CASE \/ \E x \in Request, m \in Identity :
                OnRequestArrival(x, m) \/ OnRequestArrivalRefused(x, m)
           \/ \E x \in Request : OnRequestCompletion(x) \/ CancelRequest(x)
           \/ \E p \in ProgramId : OnResponseTerminal(p)
           \/ AdmissionQueued \/ ScheduleCycle \/ EndHook \/ UNCHANGED schedulerVars
  BY <1>5 DEF OnRequestArrival, Unused, BindArrival, OnRequestArrivalRefused, RefuseArrival,
      OnRequestCompletion, FinishBound, CancelRequest, DropBound, OnResponseTerminal,
      ReleaseTerminal, AdmissionQueued, ScheduleCycle, OpenCycle, EndHook, schedulerVars,
      requestVars
<1> QED BY <1>1, <1>2, <1>4, <1>5 DEF Next

\* A request reaches the host once, out of the pool, and keeps its binding
\* (runtime.py on_request_arrival, consume_admitted_requests).
THEOREM RequestsHandedOverOnce == Spec => HandedOverOnce
<1>1. SchedulerInv /\ [Next]_schedulerVars =>
        [\A r \in native' \ native :
           /\ pool_status[r] # "absent" /\ pool_status'[r] = "absent"
           /\ request_bindings'[r] = request_bindings[r]]_schedulerVars
  BY StepHandsOverOnce
<1> QED BY <1>1, SchedulerInvariant, PTL DEF Spec, HandedOverOnce
-----------------------------------------------------------------------------
(***************************************************************************)
(* The bridge.  For every set of Programs, tasks and requests, it keeps    *)
(* its own account of request owners in agreement with the runtime's, and  *)
(* so calls the runtime only as ProgramScheduler expects.                  *)
(***************************************************************************)

\* Tracked requests whose binding an abort has already removed, while vLLM's
\* own finish or the report of it is still to come.
Aborted == IF call.op = "cancel" THEN call.finishing \ call.left
           ELSE IF call.op = "finish" THEN call.left ELSE {}

\* Requests that vLLM has finished and the bridge has still to report.
Unreported == IF call.op \in {"output", "finish"} THEN call.left ELSE {}

(***************************************************************************)
(* OwnersAgree speaks of the moments between entry points; the inductive   *)
(* invariant says how far the three accounts may differ inside one.        *)
(***************************************************************************)
OwnersInv ==
  /\ native \subseteq tracked_native
  /\ tracked_native \ native \subseteq Aborted
  /\ tracked_native \subseteq engine \cup Unreported
  /\ (engine \cup Unreported) \cap Retained = {}
  /\ call.op = "cancel" => call.left \subseteq call.finishing

(***************************************************************************)
(* Which call into the runtime is open during an entry point: the bridge   *)
(* never reads it, and it decides whether another call may come.           *)
(***************************************************************************)
CallInv ==
  /\ call.op = "admit" <=> hook.kind = "admission"
  /\ call.op = "cycle" <=> hook.kind = "cycle"
  /\ hook.kind = "completion" => call.op \in {"output", "finish"}
  /\ call.signals # {} => call.op \in {"add", "schedule"}

BridgeInv == SchedulerInv /\ BridgeTypeOK /\ OwnersInv /\ CallInv

\* Nothing is owned at the start.
LEMMA InitBridgeInv == BridgeInit => BridgeInv
<1> SUFFICES ASSUME BridgeInit PROVE BridgeInv
  OBVIOUS
<1>1. SchedulerInv
  BY InitSchedulerInv DEF BridgeInit
<1>2. BridgeTypeOK
  BY DEF BridgeInit, BridgeTypeOK, Calls, NoCall
<1>3. OwnersInv
  BY DEF BridgeInit, Init, OwnersInv, NoCall, Aborted, Unreported, Retained
<1>4. CallInv
  BY DEF BridgeInit, Init, CallInv, NoCall, Idle
<1> QED BY <1>1, <1>2, <1>3, <1>4 DEF BridgeInv

\* The steps of the runtime that move no request between owners.
LEMMA OwnersUnmoved ==
  ASSUME SchedulerInv,
         \/ UNCHANGED schedulerVars
         \/ \E r \in Request, m \in Identity : OnRequestArrivalRefused(r, m)
         \/ \E p \in ProgramId : OnResponseTerminal(p) \/ Transition(p)
         \/ AdmissionQueued \/ ScheduleCycle \/ EndHook
  PROVE  native' = native /\ Retained' = Retained
<1>1. ASSUME NEW p \in ProgramId, AdmitOrResume(p) PROVE native' = native /\ Retained' = Retained
  BY <1>1 DEF AdmitOrResume, WaitingOf, Retained, SchedulerInv, SchedulerTypeOK
<1>2. ASSUME NEW p \in ProgramId, Pause(p) \/ MarkForPause(p) \/ ReleaseIdle(p) \/ OnResponseTerminal(p)
      PROVE  UNCHANGED <<native, pool_status>>
  BY <1>2 DEF Pause, MarkForPause, ReleaseIdle, OnResponseTerminal, ReleaseTerminal, requestVars
<1>3. CASE \/ UNCHANGED schedulerVars
           \/ \E r \in Request, m \in Identity : OnRequestArrivalRefused(r, m)
           \/ AdmissionQueued \/ ScheduleCycle \/ EndHook
  <2>1. UNCHANGED <<native, pool_status>>
    BY <1>3 DEF schedulerVars, OnRequestArrivalRefused, Unused, RefuseArrival, AdmissionQueued,
        ScheduleCycle, OpenCycle, EndHook, requestVars
  <2> QED BY <2>1 DEF Retained
<1>4. ASSUME UNCHANGED <<native, pool_status>> PROVE native' = native /\ Retained' = Retained
  BY <1>4 DEF Retained
<1> QED BY <1>1, <1>2, <1>3, <1>4 DEF Transition

\* The steps of the runtime that move requests between owners.
LEMMA OwnersMoved ==
  ASSUME SchedulerInv
  PROVE  /\ \A r \in Request, m \in Identity : OnRequestArrival(r, m) =>
              native' = native /\ Retained' = Retained \cup {r}
         /\ AdmissionAdmitted => /\ hook.request \in Retained
                                 /\ native' = native \cup {hook.request}
                                 /\ Retained' = Retained \ {hook.request}
         /\ ConsumeAdmitted => /\ recent_admit \subseteq Retained
                               /\ native' = native \cup recent_admit
                               /\ Retained' = Retained \ recent_admit
         /\ \A r \in Request : OnRequestCompletion(r) =>
              r \in native /\ native' = native \ {r} /\ Retained' = Retained
         /\ \A r \in Request : CancelRequest(r) =>
              native' = native \ {r} /\ Retained' = Retained \ {r}
<1>0. pool_status \in [Request -> {"absent", "waiting", "admitted"}] /\ recent_admit \subseteq Request
  BY DEF SchedulerInv, SchedulerTypeOK
<1>1. ASSUME NEW r \in Request, NEW m \in Identity, OnRequestArrival(r, m)
      PROVE  native' = native /\ Retained' = Retained \cup {r}
  BY <1>0, <1>1 DEF OnRequestArrival, Unused, BindArrival, Retained
<1>2. ASSUME AdmissionAdmitted
      PROVE  /\ hook.request \in Retained
             /\ native' = native \cup {hook.request}
             /\ Retained' = Retained \ {hook.request}
  BY <1>0, <1>2 DEF AdmissionAdmitted, RemoveEntries, Retained, SchedulerInv, HookConsistent
<1>3. ASSUME ConsumeAdmitted
      PROVE  /\ recent_admit \subseteq Retained
             /\ native' = native \cup recent_admit
             /\ Retained' = Retained \ recent_admit
  BY <1>0, <1>3 DEF ConsumeAdmitted, TakeAdmitted, RemoveEntries, Retained, SchedulerInv,
      RecentAdmitExact
<1>4. ASSUME NEW r \in Request, OnRequestCompletion(r)
      PROVE  r \in native /\ native' = native \ {r} /\ Retained' = Retained
  BY <1>4 DEF OnRequestCompletion, FinishBound, Retained
<1>5. ASSUME NEW r \in Request, CancelRequest(r)
      PROVE  native' = native \ {r} /\ Retained' = Retained \ {r}
  BY <1>0, <1>5 DEF CancelRequest, DropBound, RemoveEntries, Retained
<1> QED BY <1>1, <1>2, <1>3, <1>4, <1>5

\* A request id that the host gives is unknown to the bridge and the runtime:
\* while nothing is being reported, what is tracked is in vLLM.
LEMMA FreshHasNoOwner ==
  ASSUME BridgeInv, NEW r \in Request, Drained("add"), Fresh(r)
  PROVE  /\ r \notin native /\ r \notin Retained /\ r \notin engine
         /\ request_bindings[r] = None
<1>1. r \notin Retained /\ r \notin engine
  BY DEF Fresh, Unfinished
<1>2. r \notin native
  BY <1>1 DEF BridgeInv, OwnersInv, Unreported, Drained
<1> QED BY <1>1, <1>2 DEF BridgeInv, SchedulerInv, OneOwner, Retained

\* No call into the runtime is open between two calls of the bridge.
LEMMA RuntimeIsIdle ==
  ASSUME BridgeInv,
         \/ Drained("add") \/ Drained("schedule") \/ call.signals # {}
         \/ call.op \in {"consume", "cancel"}
         \/ call.op \in {"output", "finish"} /\ hook.kind # "completion"
  PROVE  hook = Idle
<1>1. hook.kind = "idle"
  BY DEF BridgeInv, CallInv, Drained, SchedulerInv, SchedulerTypeOK
<1> QED BY <1>1 DEF BridgeInv, SchedulerInv, SchedulerTypeOK, HookConsistent, Idle

(***************************************************************************)
(* Every call of the bridge keeps the promise of the entry point it calls. *)
(***************************************************************************)
LEMMA ArrivalsKeepPromise ==
  ASSUME BridgeInv, NEW r \in Request, NEW m \in OwnIdentity
  PROVE  /\ AddAgentic(r, m) => OnRequestArrival(r, m)
         /\ AddRefused(r, m) => OnRequestArrivalRefused(r, m)
<1>1. ASSUME Drained("add"), Fresh(r) PROVE Unused(r)
  BY <1>1, FreshHasNoOwner, RuntimeIsIdle DEF Unused
<1> QED BY <1>1 DEF AddAgentic, AddRefused, OnRequestArrival, OnRequestArrivalRefused

\* A fact is drained, a cycle opened and the admitted requests taken while
\* nothing else runs.
LEMMA PollsKeepPromise ==
  ASSUME BridgeInv
  PROVE  /\ \A p \in ProgramId : DrainSignal(p) => OnResponseTerminal(p) \/ UNCHANGED schedulerVars
         /\ CycleDue => ScheduleCycle
         /\ TransferAdmitted =>
              \/ ConsumeAdmitted /\ Transfer
              \/ UNCHANGED <<schedulerVars, tracked_native, engine>>
<1>1. ASSUME NEW p \in ProgramId, DrainSignal(p)
      PROVE  OnResponseTerminal(p) \/ UNCHANGED schedulerVars
  <2>1. call.signals # {}
    BY <1>1 DEF DrainSignal
  <2> QED BY <1>1, <2>1, RuntimeIsIdle DEF DrainSignal, OnResponseTerminal
<1>2. ASSUME CycleDue PROVE ScheduleCycle
  BY <1>2, RuntimeIsIdle DEF CycleDue, ScheduleCycle
<1>3. ASSUME TransferAdmitted
      PROVE  \/ ConsumeAdmitted /\ Transfer
             \/ UNCHANGED <<schedulerVars, tracked_native, engine>>
  <2>1. call.op = "consume"
    BY <1>3 DEF TransferAdmitted
  <2> QED BY <1>3, <2>1, RuntimeIsIdle DEF TransferAdmitted, Transfer, ConsumeAdmitted
<1> QED BY <1>1, <1>2, <1>3

\* What the bridge tracks and reports, the runtime handed over, unless an abort
\* has taken its binding.
LEMMA ReportsKeepPromise ==
  ASSUME BridgeInv, NEW r \in Request
  PROVE  /\ AfterOutput(r) => OnRequestCompletion(r)
         /\ FinishRequest(r) => \/ r \in tracked_native /\ OnRequestCompletion(r)
                                \/ /\ r \in tracked_native => request_bindings[r] = None
                                   /\ UNCHANGED schedulerVars
         /\ CancelRetained(r) => CancelRequest(r) \/ UNCHANGED schedulerVars
<1>0. SchedulerInv /\ OwnersInv
  BY DEF BridgeInv
<1>1. ASSUME AfterOutput(r) PROVE OnRequestCompletion(r)
  <2>1. call.op = "output" /\ r \in tracked_native /\ hook.kind # "completion" /\ ReportCompletion(r)
    BY <1>1 DEF AfterOutput, Report
  <2>2. r \in native
    BY <1>0, <2>1 DEF OwnersInv, Aborted
  <2>3. request_bindings[r] # None
    BY <1>0, <2>2 DEF SchedulerInv, OneOwner
  <2> QED BY <2>1, <2>2, <2>3, RuntimeIsIdle DEF ReportCompletion, OnRequestCompletion
<1>2. ASSUME FinishRequest(r)
      PROVE  \/ r \in tracked_native /\ OnRequestCompletion(r)
             \/ /\ r \in tracked_native => request_bindings[r] = None
                /\ UNCHANGED schedulerVars
  <2>1. call.op = "finish" /\ r \in call.left /\ hook = Idle
    BY <1>2, RuntimeIsIdle DEF FinishRequest, Report
  <2>2. r \notin Retained
    BY <1>0, <2>1 DEF OwnersInv, Unreported
  <2>3. request_bindings[r] # None => r \in native
    BY <1>0, <2>2 DEF SchedulerInv, OneOwner, Retained
  <2> QED BY <1>2, <2>1, <2>3 DEF FinishRequest, ReportCompletion, OnRequestCompletion
<1>3. ASSUME CancelRetained(r) PROVE CancelRequest(r) \/ UNCHANGED schedulerVars
  <2>1. call.op = "cancel"
    BY <1>3 DEF CancelRetained
  <2> QED BY <1>3, <2>1, RuntimeIsIdle DEF CancelRetained, CancelRequest
<1> QED BY <1>1, <1>2, <1>3

\* Every step of the bridge is a step of the runtime, or leaves it alone.
LEMMA BridgeStepIsRuntimeStep ==
  ASSUME BridgeInv, [BridgeNext]_vars
  PROVE  [Next]_schedulerVars
<1>1. CASE UNCHANGED vars
  BY <1>1 DEF vars
<1>2. CASE EnterAdd \/ EnterSchedule \/ CycleNotDue \/ NativeFinish \/ LeaveLoop \/ EnterFinishAll
  BY <1>2 DEF EnterAdd, EnterSchedule, Enter, CycleNotDue, NativeFinish, LeaveLoop, EnterFinishAll
<1>3. ASSUME NEW p \in ProgramId, DrainSignal(p) \/ StrategyStep(p) PROVE [Next]_schedulerVars
  BY <1>3, PollsKeepPromise DEF StrategyStep, Next
<1>4. ASSUME NEW r \in Request, NEW m \in OwnIdentity, AddAgentic(r, m) \/ AddRefused(r, m)
      PROVE  [Next]_schedulerVars
  <2>1. m \in Identity
    BY OwnIdentityAssumption
  <2> QED BY <1>4, <2>1, ArrivalsKeepPromise DEF Next
<1>5. CASE CycleDue \/ TransferAdmitted
  BY <1>5, PollsKeepPromise DEF Next
<1>6. CASE DispatchNow \/ AddRetained \/ CycleEnd \/ CompletionHookEnd
  BY <1>6 DEF DispatchNow, AddRetained, CycleEnd, CompletionHookEnd, Next
<1>7. ASSUME NEW r \in Request, AfterOutput(r) \/ CancelRetained(r) \/ FinishRequest(r)
      PROVE  [Next]_schedulerVars
  BY <1>7, ReportsKeepPromise DEF Next
<1>8. ASSUME NEW r \in Request,
             \/ AddCompatible(r) \/ AfterCompatibleOutput(r) \/ SendTerminal(r) \/ NothingSent(r)
      PROVE  [Next]_schedulerVars
  BY <1>8 DEF AddCompatible, AfterCompatibleOutput, SendTerminal, NothingSent
<1>9. CASE \/ \E finished \in SUBSET engine : NativeOutput(finished)
           \/ \E ids \in SUBSET Request : EnterFinish(ids)
  BY <1>9 DEF NativeOutput, EnterFinish
<1> QED BY <1>1, <1>2, <1>3, <1>4, <1>5, <1>6, <1>7, <1>8, <1>9 DEF BridgeNext

\* The bridge's own variables stay well typed.
LEMMA StepKeepsBridgeTypes ==
  ASSUME SchedulerInv, BridgeTypeOK, [BridgeNext]_vars
  PROVE  BridgeTypeOK'
<1> USE DEF BridgeTypeOK, Calls, NoCall
<1>1. CASE UNCHANGED vars
  BY <1>1 DEF vars, bridgeVars
<1>2. CASE EnterAdd \/ EnterSchedule
  BY <1>2 DEF EnterAdd, EnterSchedule, Enter
<1>3. CASE CycleNotDue \/ NativeFinish \/ LeaveLoop \/ AddRetained \/ CycleDue \/ CycleEnd
  <2>1. CASE CycleNotDue \/ LeaveLoop \/ AddRetained
    BY <2>1 DEF CycleNotDue, LeaveLoop, AddRetained
  <2>2. CASE CycleDue \/ CycleEnd
    BY <2>2 DEF CycleDue, CycleEnd
  <2>3. CASE NativeFinish
    BY <2>3 DEF NativeFinish
  <2> QED BY <1>3, <2>1, <2>2, <2>3
<1>4. CASE EnterFinishAll
  BY <1>4 DEF EnterFinishAll, Retained
<1>5. CASE CompletionHookEnd \/ \E p \in ProgramId : StrategyStep(p)
  BY <1>5 DEF CompletionHookEnd, StrategyStep, bridgeVars
<1>6. ASSUME NEW p \in ProgramId, DrainSignal(p) PROVE BridgeTypeOK'
  BY <1>6 DEF DrainSignal
<1>7. ASSUME NEW r \in Request, NEW m \in OwnIdentity, AddAgentic(r, m) \/ AddRefused(r, m)
      PROVE  BridgeTypeOK'
  <2>1. m.program \in ProgramId
    BY OwnIdentityAssumption DEF Identity
  <2> QED BY <1>7, <2>1 DEF AddAgentic, AddRefused
<1>8. CASE DispatchNow
  <2>1. hook.request \in Request
    BY <1>8, OwnersMoved DEF DispatchNow, Retained
  <2> QED BY <1>8, <2>1 DEF DispatchNow
<1>9. CASE TransferAdmitted
  <2>1. recent_admit \subseteq Request
    BY DEF SchedulerInv, SchedulerTypeOK
  <2> QED BY <1>9, <2>1 DEF TransferAdmitted, Transfer
<1>10. ASSUME NEW r \in Request,
              \/ AddCompatible(r) \/ AfterOutput(r) \/ AfterCompatibleOutput(r)
              \/ CancelRetained(r) \/ FinishRequest(r)
       PROVE  BridgeTypeOK'
  <2>1. CASE AddCompatible(r)
    BY <2>1 DEF AddCompatible
  <2>2. CASE AfterOutput(r) \/ AfterCompatibleOutput(r)
    BY <2>2 DEF AfterOutput, AfterCompatibleOutput, Report, Untrack
  <2>3. CASE CancelRetained(r)
    BY <2>3 DEF CancelRetained, Report
  <2>4. CASE FinishRequest(r)
    BY <2>4 DEF FinishRequest, Report, Untrack
  <2> QED BY <1>10, <2>1, <2>2, <2>3, <2>4
<1>11. ASSUME NEW r \in Request, SendTerminal(r) \/ NothingSent(r) PROVE BridgeTypeOK'
  BY <1>11 DEF SendTerminal, NothingSent
<1>12. CASE \/ \E finished \in SUBSET engine : NativeOutput(finished)
            \/ \E ids \in SUBSET Request : EnterFinish(ids)
  BY <1>12 DEF NativeOutput, EnterFinish
<1> QED BY <1>1, <1>2, <1>3, <1>4, <1>5, <1>6, <1>7, <1>8, <1>9, <1>10, <1>11, <1>12
        DEF BridgeNext

\* The accounts of the owners move together.
LEMMA StepKeepsOwners ==
  ASSUME BridgeInv, [BridgeNext]_vars
  PROVE  OwnersInv'
<1>0. BridgeInv /\ SchedulerInv /\ BridgeTypeOK /\ OwnersInv
  BY DEF BridgeInv
<1> USE DEF OwnersInv, Aborted, Unreported, NoCall
<1>1. ASSUME native' = native, Retained' = Retained, UNCHANGED <<tracked_native, engine, call>>
      PROVE  OwnersInv'
  BY <1>0, <1>1
<1>2. CASE \/ UNCHANGED vars
           \/ \E r \in Request : SendTerminal(r) \/ NothingSent(r)
           \/ \E p \in ProgramId : StrategyStep(p)
           \/ CompletionHookEnd
  <2>1. UNCHANGED <<tracked_native, engine, call>>
    BY <1>2 DEF vars, bridgeVars, SendTerminal, NothingSent, StrategyStep, CompletionHookEnd
  <2>2. native' = native /\ Retained' = Retained
    BY <1>0, <1>2, OwnersUnmoved DEF vars, SendTerminal, NothingSent, StrategyStep, CompletionHookEnd
  <2> QED BY <1>1, <2>1, <2>2
<1>3. CASE \/ EnterAdd \/ EnterSchedule \/ CycleNotDue \/ CycleDue \/ CycleEnd \/ AddRetained
           \/ \E r \in Request, m \in OwnIdentity : AddRefused(r, m)
           \/ \E p \in ProgramId : DrainSignal(p)
  <2> DEFINE Quiet == {"none", "add", "admit", "schedule", "cycle", "consume"}
  <2>1. /\ UNCHANGED <<tracked_native, engine>>
        /\ \/ call.op \in Quiet /\ call'.op \in Quiet
           \/ UNCHANGED <<call.op, call.left, call.finishing>>
    <3>1. CASE EnterAdd \/ EnterSchedule
      <4>1. CASE EnterAdd
        BY <4>1 DEF EnterAdd, Enter
      <4>2. CASE EnterSchedule
        BY <4>2 DEF EnterSchedule, Enter
      <4> QED BY <3>1, <4>1, <4>2
    <3>2. CASE CycleNotDue \/ CycleDue \/ CycleEnd \/ AddRetained
      <4>1. CASE CycleNotDue \/ AddRetained
        BY <4>1 DEF CycleNotDue, AddRetained, Drained
      <4>2. CASE CycleDue
        BY <4>2 DEF CycleDue, Drained
      <4>3. CASE CycleEnd
        BY <4>3 DEF CycleEnd
      <4> QED BY <3>2, <4>1, <4>2, <4>3
    <3>3. ASSUME NEW r \in Request, NEW m \in OwnIdentity, AddRefused(r, m)
          PROVE  UNCHANGED <<tracked_native, engine>> /\ call.op \in Quiet /\ call'.op \in Quiet
      BY <3>3 DEF AddRefused, Drained
    <3>4. ASSUME NEW p \in ProgramId, DrainSignal(p)
          PROVE  /\ UNCHANGED <<tracked_native, engine>>
                 /\ UNCHANGED <<call.op, call.left, call.finishing>>
      BY <1>0, <3>4 DEF DrainSignal, BridgeTypeOK, Calls
    <3> QED BY <1>3, <3>1, <3>2, <3>3, <3>4
  <2>2. native' = native /\ Retained' = Retained
    <3>1. CASE EnterAdd \/ EnterSchedule \/ CycleNotDue \/ CycleEnd \/ AddRetained
      BY <1>0, <3>1, OwnersUnmoved DEF EnterAdd, EnterSchedule, Enter, CycleNotDue, CycleEnd, AddRetained
    <3>2. CASE CycleDue \/ \E p \in ProgramId : DrainSignal(p)
      BY <1>0, <3>2, OwnersUnmoved, PollsKeepPromise
    <3>3. CASE \E r \in Request, m \in OwnIdentity : AddRefused(r, m)
      BY <1>0, <3>3, OwnersUnmoved, ArrivalsKeepPromise, OwnIdentityAssumption
    <3> QED BY <1>3, <3>1, <3>2, <3>3
  <2> QED BY <1>0, <2>1, <2>2
<1>4. ASSUME NEW r \in Request, AddCompatible(r) PROVE OwnersInv'
  <2>1. native' = native /\ Retained' = Retained
    BY <1>0, <1>4, OwnersUnmoved DEF AddCompatible
  <2> QED BY <1>0, <1>4, <2>1, FreshHasNoOwner DEF AddCompatible, Drained
<1>5. ASSUME NEW r \in Request, NEW m \in OwnIdentity, AddAgentic(r, m) PROVE OwnersInv'
  <2>1. native' = native /\ Retained' = Retained \cup {r}
    BY <1>0, <1>5, OwnersMoved, ArrivalsKeepPromise, OwnIdentityAssumption
  <2> QED BY <1>0, <1>5, <2>1, FreshHasNoOwner DEF AddAgentic, Drained
<1>6. CASE DispatchNow
  BY <1>0, <1>6, OwnersMoved DEF DispatchNow
<1>7. CASE TransferAdmitted
  <2>1. CASE ConsumeAdmitted /\ Transfer
    BY <1>0, <1>7, <2>1, OwnersMoved DEF TransferAdmitted, Transfer
  <2>2. CASE UNCHANGED <<schedulerVars, tracked_native, engine>>
    BY <1>0, <1>7, <2>2, OwnersUnmoved DEF TransferAdmitted
  <2> QED BY <1>0, <1>7, <2>1, <2>2, PollsKeepPromise
<1>8. ASSUME NEW finished \in SUBSET engine, NativeOutput(finished) PROVE OwnersInv'
  <2>1. native' = native /\ Retained' = Retained
    BY <1>0, <1>8, OwnersUnmoved DEF NativeOutput
  <2> QED BY <1>0, <1>8, <2>1 DEF NativeOutput
<1>9. ASSUME NEW r \in Request, AfterOutput(r) PROVE OwnersInv'
  BY <1>0, <1>9, OwnersMoved, ReportsKeepPromise DEF AfterOutput, Report, Untrack, BridgeTypeOK, Calls
<1>10. ASSUME NEW r \in Request, AfterCompatibleOutput(r) PROVE OwnersInv'
  <2>1. native' = native /\ Retained' = Retained
    BY <1>0, <1>10, OwnersUnmoved DEF AfterCompatibleOutput
  <2> QED BY <1>0, <1>10, <2>1 DEF AfterCompatibleOutput, Report, BridgeTypeOK, Calls
<1>11. CASE LeaveLoop \/ NativeFinish \/ EnterFinishAll
            \/ \E ids \in SUBSET Request : EnterFinish(ids)
  <2>1. native' = native /\ Retained' = Retained
    BY <1>0, <1>11, OwnersUnmoved DEF LeaveLoop, NativeFinish, EnterFinishAll, EnterFinish
  <2>2. CASE LeaveLoop
    BY <1>0, <2>1, <2>2 DEF LeaveLoop
  <2>3. CASE NativeFinish
    BY <1>0, <2>1, <2>3 DEF NativeFinish
  <2>4. CASE EnterFinishAll
    BY <1>0, <2>1, <2>4 DEF EnterFinishAll, Retained
  <2>5. ASSUME NEW ids \in SUBSET Request, EnterFinish(ids) PROVE OwnersInv'
    BY <1>0, <2>1, <2>5 DEF EnterFinish
  <2> QED BY <1>11, <2>2, <2>3, <2>4, <2>5
<1>12. ASSUME NEW r \in Request, CancelRetained(r) PROVE OwnersInv'
  <2>1. /\ native' = native \/ native' = native \ {r}
        /\ Retained' = Retained \/ Retained' = Retained \ {r}
    BY <1>0, <1>12, OwnersMoved, OwnersUnmoved, ReportsKeepPromise
  <2> QED BY <1>0, <1>12, <2>1 DEF CancelRetained, Report, BridgeTypeOK, Calls
<1>13. ASSUME NEW r \in Request, FinishRequest(r) PROVE OwnersInv'
  <2>1. CASE r \in tracked_native /\ OnRequestCompletion(r)
    BY <1>0, <1>13, <2>1, OwnersMoved DEF FinishRequest, Report, Untrack, BridgeTypeOK, Calls
  <2>2. CASE (r \in tracked_native => request_bindings[r] = None) /\ UNCHANGED schedulerVars
    <3>1. native' = native /\ Retained' = Retained
      BY <1>0, <2>2, OwnersUnmoved
    <3>2. r \in tracked_native => r \notin native
      BY <1>0, <2>2 DEF SchedulerInv, OneOwner
    <3> QED BY <1>0, <1>13, <3>1, <3>2 DEF FinishRequest, Report, Untrack, BridgeTypeOK, Calls
  <2> QED BY <1>0, <1>13, <2>1, <2>2, ReportsKeepPromise
<1> QED BY <1>2, <1>3, <1>4, <1>5, <1>6, <1>7, <1>8, <1>9, <1>10, <1>11, <1>12, <1>13
        DEF BridgeNext

\* Each call into the runtime opens and closes where the bridge's control says.
LEMMA StepKeepsCalls ==
  ASSUME BridgeInv, [BridgeNext]_vars
  PROVE  CallInv'
<1>0. BridgeTypeOK /\ CallInv
  BY DEF BridgeInv
<1> USE DEF CallInv, NoCall, Idle
<1>1. CASE UNCHANGED vars \/ \E r \in Request : SendTerminal(r) \/ NothingSent(r)
  BY <1>0, <1>1 DEF vars, bridgeVars, schedulerVars, SendTerminal, NothingSent
<1>2. CASE CompletionHookEnd \/ \E p \in ProgramId : StrategyStep(p)
  BY <1>0, <1>2 DEF CompletionHookEnd, StrategyStep, bridgeVars, EndHook, Transition,
      AdmitOrResume, Pause, MarkForPause, ReleaseIdle
<1>3. CASE EnterAdd \/ EnterSchedule
  <2>1. UNCHANGED hook /\ call.op = "none" /\ call'.op \in {"add", "schedule"}
    <3>1. CASE EnterAdd
      BY <3>1 DEF EnterAdd, Enter, schedulerVars
    <3>2. CASE EnterSchedule
      BY <3>2 DEF EnterSchedule, Enter, schedulerVars
    <3> QED BY <1>3, <3>1, <3>2
  <2> QED BY <1>0, <2>1
<1>4. ASSUME NEW p \in ProgramId, DrainSignal(p) PROVE CallInv'
  <2>1. UNCHANGED <<hook, call.op>> /\ call'.signals \subseteq call.signals
    BY <1>0, <1>4 DEF DrainSignal, ReleaseTerminal, schedulerVars, BridgeTypeOK, Calls
  <2> QED BY <1>0, <2>1
<1>5. ASSUME NEW r \in Request, AddCompatible(r) PROVE CallInv'
  BY <1>0, <1>5 DEF AddCompatible, Drained, schedulerVars
<1>6. ASSUME NEW r \in Request, NEW m \in OwnIdentity, AddAgentic(r, m) \/ AddRefused(r, m)
      PROVE  CallInv'
  <2>1. CASE AddAgentic(r, m)
    BY <2>1 DEF AddAgentic, BindArrival
  <2>2. CASE AddRefused(r, m)
    BY <1>0, <2>2 DEF AddRefused, RefuseArrival, Drained
  <2> QED BY <1>6, <2>1, <2>2
<1>7. CASE DispatchNow \/ AddRetained
  BY <1>7 DEF DispatchNow, AddRetained, AdmissionAdmitted, AdmissionQueued
<1>8. CASE CycleNotDue \/ CycleDue \/ CycleEnd
  BY <1>0, <1>8 DEF CycleNotDue, CycleDue, CycleEnd, Drained, OpenCycle, EndHook, schedulerVars
<1>9. CASE TransferAdmitted
  BY <1>0, <1>9 DEF TransferAdmitted, Transfer, TakeAdmitted, schedulerVars
<1>10. CASE \/ LeaveLoop \/ NativeFinish \/ EnterFinishAll
            \/ \E finished \in SUBSET engine : NativeOutput(finished)
            \/ \E ids \in SUBSET Request : EnterFinish(ids)
  <2>1. /\ UNCHANGED hook
        /\ \/ call.op = "none"
           \/ call.op = "cancel"
           \/ call.op \in {"output", "finish"} /\ hook.kind # "completion"
        /\ call'.op \in {"none", "output", "cancel", "finish"} /\ call'.signals = {}
    <3>1. CASE LeaveLoop
      BY <3>1 DEF LeaveLoop, schedulerVars
    <3>2. CASE NativeFinish
      BY <3>2 DEF NativeFinish, schedulerVars
    <3>3. CASE EnterFinishAll
      BY <3>3 DEF EnterFinishAll, schedulerVars
    <3>4. ASSUME NEW finished \in SUBSET engine, NativeOutput(finished)
          PROVE  /\ UNCHANGED hook /\ call.op = "none"
                 /\ call'.op = "output" /\ call'.signals = {}
      BY <3>4 DEF NativeOutput, schedulerVars
    <3>5. ASSUME NEW ids \in SUBSET Request, EnterFinish(ids)
          PROVE  /\ UNCHANGED hook /\ call.op = "none"
                 /\ call'.op = "cancel" /\ call'.signals = {}
      BY <3>5 DEF EnterFinish, schedulerVars
    <3> QED BY <1>10, <3>1, <3>2, <3>3, <3>4, <3>5
  <2> QED BY <1>0, <2>1
<1>11. ASSUME NEW r \in Request,
              \/ AfterOutput(r) \/ AfterCompatibleOutput(r)
              \/ CancelRetained(r) \/ FinishRequest(r)
       PROVE  CallInv'
  <2>1. /\ call.op \in {"output", "cancel", "finish"} /\ hook.kind # "completion"
        /\ UNCHANGED <<call.op, call.signals>>
    BY <1>0, <1>11 DEF AfterOutput, AfterCompatibleOutput, CancelRetained, FinishRequest, Report,
        BridgeTypeOK, Calls
  <2>2. CASE CancelRetained(r)
    BY <1>0, <2>1, <2>2 DEF CancelRetained, DropBound, schedulerVars
  <2>3. CASE AfterCompatibleOutput(r)
    BY <1>0, <2>1, <2>3 DEF AfterCompatibleOutput, schedulerVars
  <2>4. CASE AfterOutput(r) \/ FinishRequest(r)
    <3>1. /\ call.op \in {"output", "finish"}
          /\ \/ UNCHANGED hook
             \/ hook'.kind \in {"idle", "completion"}
      BY <2>4 DEF AfterOutput, FinishRequest, ReportCompletion, FinishBound, schedulerVars
    <3> QED BY <1>0, <2>1, <3>1
  <2> QED BY <1>11, <2>2, <2>3, <2>4
<1> QED BY <1>1, <1>2, <1>3, <1>4, <1>5, <1>6, <1>7, <1>8, <1>9, <1>10, <1>11 DEF BridgeNext

\* The inductive invariant holds in every reachable state.
LEMMA BridgeInvariant == BridgeSpec => []BridgeInv
<1>1. BridgeInv /\ [BridgeNext]_vars => BridgeInv'
  BY BridgeStepIsRuntimeStep, NextKeepsInv, StepKeepsBridgeTypes, StepKeepsOwners, StepKeepsCalls
     DEF BridgeInv
<1> QED BY <1>1, InitBridgeInv, PTL DEF BridgeSpec

\* Whatever EngineCore, vLLM and the API workers do, the bridge calls the
\* runtime as ProgramScheduler says it may be called: while no call is open,
\* with an id that is not in use, about a request that was handed over
\* (scheduler.py _VllmAdmissionHooks).  All that is proved of the runtime holds
\* of the integration.
THEOREM BridgeImplementsRuntime == BridgeSpec => RuntimeContract
<1>1. BridgeInit => Init
  BY DEF BridgeInit
<1>2. BridgeInv /\ [BridgeNext]_vars => [Next]_schedulerVars
  BY BridgeStepIsRuntimeStep
<1> QED BY <1>1, <1>2, BridgeInvariant, PTL DEF BridgeSpec, RuntimeContract, Spec

\* A late, lost or reordered TERMINAL datagram, or an abort, never makes a
\* Program leave ACTIVE while one of its requests is unfinished
\* (scheduler.py _drain_lifecycle_signals, finish_requests).
THEOREM BridgeNeverInterrupts == BridgeSpec => NeverInterrupted
BY BridgeImplementsRuntime, ServiceNeverInterrupted, PTL DEF RuntimeContract

\* Between entry points the bridge, vLLM and the RequestPool agree on the
\* owner of every request, so EngineCore keeps polling while a request is
\* unfinished (scheduler.py tracked_native, unfinished_count).
THEOREM BridgeOwnersAgree == BridgeSpec => []BridgeConsistent
<1>1. BridgeInv => OwnersAgree
  BY DEF BridgeInv, OwnersInv, OwnersAgree, Aborted, Unreported, NoCall, Unfinished, Retained,
     SchedulerInv, OneOwner, BridgeTypeOK
<1>2. BridgeInv => BridgeConsistent
  BY <1>1 DEF BridgeInv, BridgeConsistent
<1> QED BY <1>2, BridgeInvariant, PTL

-----------------------------------------------------------------------------
(***************************************************************************)
(* The Progress-TTL strategy.                                              *)
(***************************************************************************)


(***************************************************************************)
(* Numbers, sequences and finite sets.                                     *)
(***************************************************************************)

\* Every nonempty set of deadlines has an earliest one.
LEMMA LeastExists ==
  ASSUME NEW S \in SUBSET Nat, S # {}
  PROVE  \E n \in S : \A m \in S : n <= m
<1> DEFINE R == OpToRel(<, Nat)
<1>1. IsWellFoundedOn(R, Nat)
  BY NatLessThanWellFounded
<1>2. PICK n \in S : \A m \in S : <<m, n>> \notin R
  BY <1>1, WFMin
<1>3. \A m \in S : m < n => <<m, n>> \in R
  BY DEF OpToRel
<1> HIDE DEF R
<1>4. \A m \in S : ~(m < n)
  BY <1>2, <1>3
<1> QED BY <1>4

\* Min of a nonempty set of naturals is its least member.
LEMMA MinIsLeast ==
  ASSUME NEW S \in SUBSET Nat, S # {}
  PROVE  Min(S) \in S /\ \A m \in S : Min(S) <= m
BY LeastExists DEF Min

\* Max and Min of two numbers, as the clocks use them.
LEMMA MaxOfTwo ==
  ASSUME NEW a \in Int, NEW b \in Int
  PROVE  Max({a, b}) = IF a >= b THEN a ELSE b
<1>1. \E x \in {a, b} : \A y \in {a, b} : x >= y
  OBVIOUS
<1>2. Max({a, b}) \in {a, b} /\ \A y \in {a, b} : Max({a, b}) >= y
  BY <1>1 DEF Max
<1> QED BY <1>2

\* The lesser of two numbers.
LEMMA MinOfTwo ==
  ASSUME NEW a \in Int, NEW b \in Int
  PROVE  Min({a, b}) = IF a <= b THEN a ELSE b
<1>1. \E x \in {a, b} : \A y \in {a, b} : x <= y
  OBVIOUS
<1>2. Min({a, b}) \in {a, b} /\ \A y \in {a, b} : Min({a, b}) <= y
  BY <1>1 DEF Min
<1> QED BY <1>2

\* The constants, as the proofs use them.
LEMMA Constants ==
  /\ TtlMax \in Nat /\ PausedTtl \in Nat /\ PrivilegedTtl \in Nat
  /\ ForceMin \in Nat /\ ForceMax \in Nat /\ ForceMin <= ForceMax
  /\ PrivilegedLimit \in Nat /\ TargetMaxRounds \in Nat /\ TargetMaxRounds > 0
  /\ None \notin Nat
BY ProgressTTLAssumption

\* A countdown stops at zero, and a clock that is not set stays so.
LEMMA CountdownValue ==
  /\ Countdown(None) = None
  /\ \A n \in Nat : Countdown(n) = IF n = 0 THEN 0 ELSE n - 1
<1>1. ASSUME NEW n \in Nat PROVE Countdown(n) = IF n = 0 THEN 0 ELSE n - 1
  <2>1. n # None
    BY Constants
  <2>2. Max({0, n - 1}) = IF 0 >= n - 1 THEN 0 ELSE n - 1
    BY MaxOfTwo
  <2> QED BY <2>1, <2>2 DEF Countdown
<1> QED BY <1>1 DEF Countdown

\* A countdown keeps the range of its clock and never unsets it.
LEMMA CountdownTicks ==
  ASSUME NEW n \in Nat, NEW t \in Ticks(n)
  PROVE  Countdown(t) \in Ticks(n) /\ (Countdown(t) = None <=> t = None)
BY CountdownValue, Constants DEF Ticks

\* The time left to a deadline is never negative.
LEMMA LeftValue ==
  ASSUME NEW d \in Nat, NEW a \in Nat
  PROVE  Left(d, a) \in Nat /\ Left(d, a) = IF d > a THEN d - a ELSE 0
<1>1. Max({0, d - a}) = IF 0 >= d - a THEN 0 ELSE d - a
  BY MaxOfTwo
<1> QED BY <1>1 DEF Left

-----------------------------------------------------------------------------
(***************************************************************************)
(* What each event does to a factor record.                                *)
(***************************************************************************)

\* The values the events give to the clocks are in their ranges.
LEMMA ClockTypes ==
  /\ None \in Ticks(TtlMax) /\ 0 \in Ticks(TtlMax) /\ 0..TtlMax \subseteq Ticks(TtlMax)
  /\ None \in Ticks(ForceMax) /\ ForceMin..ForceMax \subseteq Ticks(ForceMax)
  /\ None \in Ticks(PausedTtl) /\ PausedTtl \in Ticks(PausedTtl)
  /\ None \in Ticks(PrivilegedTtl) /\ PrivilegedTtl \in Ticks(PrivilegedTtl)
  /\ 0 \in 0..TargetMaxRounds
BY Constants DEF Ticks

\* A clock that is started is not None.
LEMMA ClocksAreSet ==
  /\ PausedTtl # None /\ PrivilegedTtl # None /\ 0 # None
  /\ \A t \in ForceMin..ForceMax : t # None
BY Constants

\* A new service segment stops every clock and keeps the privilege.
LEMMA StartSegmentFields ==
  ASSUME NEW f \in FactorRecord
  PROVE  /\ StartSegment(f) \in FactorRecord
         /\ StartSegment(f).privileged = f.privileged
         /\ StartSegment(f).privilege_left = f.privilege_left
         /\ StartSegment(f).acting_age = None /\ StartSegment(f).ttl = None
         /\ StartSegment(f).force_left = None /\ StartSegment(f).release_left = None
BY ClockTypes DEF StartSegment, FactorRecord

\* A pause starts the retention clock and gives no privilege.
LEMMA OnProgramPausedFields ==
  ASSUME NEW f \in FactorRecord, NEW reason
  PROVE  LET g == OnProgramPaused(f, reason)
         IN  /\ g \in FactorRecord
             /\ g.privileged => f.privileged /\ g.privilege_left = f.privilege_left
             /\ g.ttl = None
             /\ g.release_left = PausedTtl
<1> DEFINE s == StartSegment(f)
<1>1. s \in FactorRecord /\ s.privileged = f.privileged
      /\ s.privilege_left = f.privilege_left /\ s.ttl = None
  BY StartSegmentFields
<1>2. OnProgramPaused(f, reason) =
        [s EXCEPT !.ttl_expiry_observed = FALSE, !.release_left = PausedTtl,
                  !.privileged = @ /\ reason = "ttl_expired",
                  !.privilege_left = IF reason = "ttl_expired" THEN @ ELSE None]
  BY DEF OnProgramPaused
<1> HIDE DEF s
<1> DEFINE g == OnProgramPaused(f, reason)
<1>3. g \in FactorRecord
  BY <1>1, <1>2, ClockTypes DEF FactorRecord
<1>4. /\ g.privileged = (s.privileged /\ reason = "ttl_expired")
      /\ g.privilege_left = IF reason = "ttl_expired" THEN s.privilege_left ELSE None
      /\ g.ttl = s.ttl /\ g.release_left = PausedTtl
  BY <1>1, <1>2 DEF FactorRecord
<1> HIDE DEF g
<1>5. g.privileged => s.privileged /\ reason = "ttl_expired"
  BY <1>4
<1> QED BY <1>1, <1>3, <1>4, <1>5 DEF g

\* A queued request has a force deadline and keeps the privilege.
LEMMA QueueRequestFields ==
  ASSUME NEW f \in FactorRecord, NEW timeout \in ForceMin..ForceMax
  PROVE  LET g == QueueRequest(f, timeout)
         IN  /\ g \in FactorRecord
             /\ g.privileged = f.privileged /\ g.privilege_left = f.privilege_left
             /\ g.force_left # None /\ g.ttl = None
BY ClockTypes, ClocksAreSet DEF QueueRequest, FactorRecord

\* A Program that starts reasoning stops its acting clocks only.
LEMMA OnReasoningFields ==
  ASSUME NEW f \in FactorRecord
  PROVE  LET g == OnReasoning(f)
         IN  /\ g \in FactorRecord
             /\ g.privileged = f.privileged /\ g.privilege_left = f.privilege_left
             /\ g.force_left = f.force_left /\ g.ttl = None
BY ClockTypes DEF OnReasoning, FactorRecord

\* The acting clock runs exactly when the last request has finished.
LEMMA OnRequestFinishedFields ==
  ASSUME NEW f \in FactorRecord, NEW now, NEW ttl \in 0..TtlMax,
         NEW continuous \in BOOLEAN, NEW minimum \in 0..TargetMaxRounds
  PROVE  LET g == OnRequestFinished(f, now, ttl, continuous, minimum)
         IN  /\ g \in FactorRecord
             /\ g.privileged = f.privileged /\ g.privilege_left = f.privilege_left
             /\ g.force_left = f.force_left
             /\ g.acting_age # None <=> now = "acting"
             /\ g.ttl # None => g.acting_age # None
<1> DEFINE rounds == IF continuous THEN Min({f.rounds + 1, TargetMaxRounds}) ELSE f.rounds
           full == rounds >= minimum
<1>1. f.rounds \in 0..TargetMaxRounds
  BY DEF FactorRecord
<1>2. Min({f.rounds + 1, TargetMaxRounds}) =
        IF f.rounds + 1 <= TargetMaxRounds THEN f.rounds + 1 ELSE TargetMaxRounds
  BY <1>1, MinOfTwo, Constants
<1>3. rounds \in 0..TargetMaxRounds /\ full \in BOOLEAN
  BY <1>1, <1>2, Constants
<1>5. OnRequestFinished(f, now, ttl, continuous, minimum) =
        [f EXCEPT !.rounds = rounds, !.evictable = full,
                  !.ttl_expiry_observed = FALSE,
                  !.acting_age = IF now = "acting" THEN 0 ELSE None,
                  !.ttl = IF now = "acting" THEN ttl ELSE None,
                  !.release_left = None]
  BY DEF OnRequestFinished
<1>6. (IF now = "acting" THEN 0 ELSE None) \in Ticks(TtlMax) /\ (IF now = "acting" THEN ttl ELSE None) \in Ticks(TtlMax)
  BY ClockTypes
<1> HIDE DEF rounds, full
<1> QED BY <1>3, <1>5, <1>6, ClockTypes, ClocksAreSet DEF FactorRecord

\* A change of privilege touches no clock of a check, and a privilege has an end.
LEMMA SetPrivilegedFields ==
  ASSUME NEW f \in FactorRecord, NEW enabled \in BOOLEAN
  PROVE  LET g == SetPrivileged(f, enabled)
         IN  /\ g \in FactorRecord
             /\ g.privileged = enabled
             /\ enabled => g.privilege_left # None
             /\ g.force_left = f.force_left /\ g.acting_age = f.acting_age /\ g.ttl = f.ttl
             /\ g.ttl_expiry_observed = f.ttl_expiry_observed /\ g.release_left = f.release_left
BY ClockTypes, ClocksAreSet DEF SetPrivileged, FactorRecord

\* A fresh sidecar has no privilege and no clock.
LEMMA FreshFactorsFields ==
  /\ FreshFactors \in FactorRecord
  /\ ~FreshFactors.privileged /\ FreshFactors.ttl = None
BY ClockTypes DEF FreshFactors, FactorRecord

\* handle_lightweight_check(), for one Program.
LEMMA LightweightFields ==
  ASSUME NEW f \in FactorRecord
  PROVE  LET g == [SetPrivileged(f, FALSE) EXCEPT !.privilege_ttl_expired = TRUE]
         IN  /\ g \in FactorRecord
             /\ ~g.privileged
             /\ g.force_left = f.force_left /\ g.acting_age = f.acting_age /\ g.ttl = f.ttl
             /\ g.ttl_expiry_observed = f.ttl_expiry_observed /\ g.release_left = f.release_left
<1> DEFINE s == SetPrivileged(f, FALSE)
<1>1. /\ s \in FactorRecord
      /\ ~s.privileged
      /\ s.force_left = f.force_left /\ s.acting_age = f.acting_age /\ s.ttl = f.ttl
      /\ s.ttl_expiry_observed = f.ttl_expiry_observed /\ s.release_left = f.release_left
  BY SetPrivilegedFields
<1> HIDE DEF s
<1>2. LET g == [s EXCEPT !.privilege_ttl_expired = TRUE]
      IN  /\ g \in FactorRecord
          /\ ~g.privileged
          /\ g.force_left = f.force_left /\ g.acting_age = f.acting_age /\ g.ttl = f.ttl
          /\ g.ttl_expiry_observed = f.ttl_expiry_observed /\ g.release_left = f.release_left
  BY <1>1 DEF FactorRecord
<1> QED BY <1>2 DEF s

\* One tick, for one Program.
Older(f) ==
  [f EXCEPT !.privilege_left = Countdown(@), !.force_left = Countdown(@),
            !.release_left = Countdown(@),
            !.acting_age = IF @ = None THEN None ELSE Min({@ + 1, TtlMax})]

\* A tick sets no clock and stops none.
LEMMA OlderFields ==
  ASSUME NEW f \in FactorRecord
  PROVE  LET g == Older(f)
         IN  /\ g \in FactorRecord
             /\ g.privileged = f.privileged /\ g.ttl = f.ttl
             /\ g.ttl_expiry_observed = f.ttl_expiry_observed
             /\ g.privilege_left = Countdown(f.privilege_left)
             /\ g.release_left = Countdown(f.release_left)
             /\ g.privilege_left = None <=> f.privilege_left = None
             /\ g.force_left = None <=> f.force_left = None
             /\ g.release_left = None <=> f.release_left = None
             /\ g.acting_age = None <=> f.acting_age = None
             /\ f.acting_age # None =>
                  /\ f.acting_age \in 0..TtlMax
                  /\ g.acting_age = IF f.acting_age < TtlMax THEN f.acting_age + 1 ELSE TtlMax
<1> DEFINE age == IF f.acting_age = None THEN None ELSE Min({f.acting_age + 1, TtlMax})
<1>1. /\ f.privilege_left \in Ticks(PrivilegedTtl) /\ f.force_left \in Ticks(ForceMax)
      /\ f.release_left \in Ticks(PausedTtl) /\ f.acting_age \in Ticks(TtlMax)
  BY DEF FactorRecord
<1>2. /\ Countdown(f.privilege_left) \in Ticks(PrivilegedTtl)
      /\ Countdown(f.force_left) \in Ticks(ForceMax)
      /\ Countdown(f.release_left) \in Ticks(PausedTtl)
      /\ Countdown(f.privilege_left) = None <=> f.privilege_left = None
      /\ Countdown(f.force_left) = None <=> f.force_left = None
      /\ Countdown(f.release_left) = None <=> f.release_left = None
  BY <1>1, CountdownTicks, Constants
<1>3. CASE f.acting_age = None
  <2>1. age = None /\ age \in Ticks(TtlMax)
    BY <1>3, ClockTypes
  <2> HIDE DEF age
  <2>2. Older(f) = [f EXCEPT !.privilege_left = Countdown(@), !.force_left = Countdown(@),
                            !.release_left = Countdown(@), !.acting_age = age]
    BY <1>3, <2>1 DEF Older, FactorRecord
  <2> QED BY <1>2, <1>3, <2>1, <2>2 DEF FactorRecord
<1>4. CASE f.acting_age # None
  <2>1. f.acting_age \in 0..TtlMax
    BY <1>1, <1>4 DEF Ticks
  <2>2. age = (IF f.acting_age < TtlMax THEN f.acting_age + 1 ELSE TtlMax)
    BY <1>4, <2>1, MinOfTwo, Constants
  <2>3. age \in 0..TtlMax /\ age # None /\ age \in Ticks(TtlMax)
    BY <2>1, <2>2, Constants DEF Ticks
  <2>4. Older(f) = [f EXCEPT !.privilege_left = Countdown(@), !.force_left = Countdown(@),
                            !.release_left = Countdown(@), !.acting_age = age]
    BY <1>4 DEF Older, FactorRecord
  <2> HIDE DEF age
  <2> QED BY <1>2, <1>4, <2>1, <2>2, <2>3, <2>4 DEF FactorRecord
<1> QED BY <1>3, <1>4
-----------------------------------------------------------------------------
(***************************************************************************)
(* Deadlines.                                                              *)
(***************************************************************************)
Factors == [ProgramId -> FactorRecord]

\* A frozen TTL has the clock it is compared with.
Clocked(fs) == \A p \in ProgramId : fs[p].ttl # None => fs[p].acting_age # None

\* The deadlines of one Program are numbers of ticks.
LEMMA DeadlinesAreTimes ==
  ASSUME NEW f \in FactorRecord, f.ttl # None => f.acting_age # None, NEW enabled \in BOOLEAN
  PROVE  Deadlines(f, enabled) \subseteq Nat
<1>1. f.ttl \in Ticks(TtlMax) /\ f.acting_age \in Ticks(TtlMax) /\ f.release_left \in Ticks(PausedTtl)
  BY DEF FactorRecord
<1>2. /\ f.ttl # None => f.ttl \in Nat
      /\ f.acting_age # None => f.acting_age \in Nat
      /\ f.release_left # None => f.release_left \in Nat
  BY <1>1, Constants DEF Ticks
<1>3. /\ f.ttl # None => Left(f.ttl, f.acting_age) \in Nat
      /\ f.acting_age # None => Left(TtlMax, f.acting_age) \in Nat
  BY <1>2, LeftValue, Constants
<1> QED BY <1>2, <1>3 DEF Deadlines

\* The earliest of some deadlines is a number of ticks, or None of none.
LEMMA EarliestType ==
  ASSUME NEW S \in SUBSET Nat
  PROVE  Earliest(S) \in Nat \cup {None}
BY MinIsLeast DEF Earliest

\* next_check_at() returns a time or None.
LEMMA NextCheckAtType ==
  ASSUME NEW fs \in Factors, Clocked(fs), NEW enabled \in BOOLEAN
  PROVE  NextCheckAt(fs, enabled) \in Nat \cup {None}
<1>1. \A p \in ProgramId : Deadlines(fs[p], enabled) \subseteq Nat
  BY DeadlinesAreTimes DEF Factors, Clocked
<1>2. UNION {Deadlines(fs[p], enabled) : p \in ProgramId} \subseteq Nat
  BY <1>1
<1> QED BY <1>2, EarliestType DEF NextCheckAt

\* next_lightweight_check_at() returns a time or None.
LEMMA NextLightweightType ==
  ASSUME NEW fs \in Factors
  PROVE  NextLightweightCheckAt(fs) \in Nat \cup {None}
<1> DEFINE S == {fs[p].privilege_left : p \in {q \in ProgramId :
                   fs[q].privileged /\ fs[q].privilege_left # None}}
<1>1. \A p \in ProgramId : fs[p].privilege_left \in Ticks(PrivilegedTtl)
  BY DEF Factors, FactorRecord
<1>2. S \subseteq Nat
  BY <1>1, Constants DEF Ticks
<1> HIDE DEF S
<1>3. Earliest(S) \in Nat \cup {None}
  BY <1>2, EarliestType
<1> QED BY <1>3 DEF NextLightweightCheckAt, S

\* The clocks next_check_at() reads.
SameClocks(f, g) ==
  /\ f.ttl = g.ttl /\ f.acting_age = g.acting_age
  /\ f.ttl_expiry_observed = g.ttl_expiry_observed /\ f.release_left = g.release_left

\* A change of privileges moves no deadline of a check.
LEMMA NextCheckAtUnchanged ==
  ASSUME NEW fs, NEW gs, NEW enabled, \A p \in ProgramId : SameClocks(fs[p], gs[p])
  PROVE  NextCheckAt(gs, enabled) = NextCheckAt(fs, enabled)
<1>1. \A p \in ProgramId : Deadlines(gs[p], enabled) = Deadlines(fs[p], enabled)
  BY DEF SameClocks, Deadlines
<1>2. {Deadlines(gs[p], enabled) : p \in ProgramId} = {Deadlines(fs[p], enabled) : p \in ProgramId}
  BY <1>1
<1> QED BY <1>2 DEF NextCheckAt

\* The earliest of deadlines that all come a tick nearer comes a tick nearer.
LEMMA CountdownEarliest ==
  ASSUME NEW S \in SUBSET Nat
  PROVE  Earliest({Countdown(d) : d \in S}) = Countdown(Earliest(S))
<1> DEFINE T == {Countdown(d) : d \in S}
<1>0. \A d \in S : Countdown(d) = IF d = 0 THEN 0 ELSE d - 1
  BY CountdownValue
<1>1. CASE S = {}
  BY <1>1, CountdownValue DEF Earliest
<1>2. CASE S # {}
  <2>1. Min(S) \in S /\ \A d \in S : Min(S) <= d
    BY <1>2, MinIsLeast
  <2>2. T \in SUBSET Nat /\ T # {}
    <3>1. \A d \in S : Countdown(d) \in Nat
      BY <1>0
    <3>2. PICK d \in S : TRUE
      BY <1>2
    <3>3. Countdown(d) \in T
      BY <3>2
    <3> QED BY <3>1, <3>3
  <2>3. Min(T) \in T /\ \A t \in T : Min(T) <= t
    BY <2>2, MinIsLeast
  <2>4. PICK d \in S : Min(T) = Countdown(d)
    BY <2>3
  <2>5. Countdown(Min(S)) \in T
    BY <2>1
  <2>6. Min(T) <= Countdown(Min(S))
    BY <2>3, <2>5
  <2>7. Min(S) <= d /\ Min(S) \in Nat /\ d \in Nat
    BY <2>1
  <2>8. Countdown(Min(S)) <= Countdown(d)
    BY <1>0, <2>1, <2>7
  <2>9. Min(T) = Countdown(Min(S))
    BY <1>0, <2>1, <2>4, <2>6, <2>7, <2>8
  <2> QED BY <1>2, <2>2, <2>9 DEF Earliest
<1> QED BY <1>1, <1>2

\* One tick brings each deadline of a Program a tick nearer.
LEMMA OlderDeadlines ==
  ASSUME NEW f \in FactorRecord, f.ttl # None => f.acting_age # None, NEW enabled \in BOOLEAN
  PROVE  Deadlines(Older(f), enabled) = {Countdown(d) : d \in Deadlines(f, enabled)}
<1> DEFINE g == Older(f)
           watched == enabled \/ ~f.ttl_expiry_observed
<1>1. /\ g.ttl = f.ttl /\ g.ttl_expiry_observed = f.ttl_expiry_observed
      /\ g.release_left = Countdown(f.release_left)
      /\ g.release_left = None <=> f.release_left = None
      /\ g.acting_age = None <=> f.acting_age = None
      /\ f.acting_age # None =>
           /\ f.acting_age \in 0..TtlMax
           /\ g.acting_age = IF f.acting_age < TtlMax THEN f.acting_age + 1 ELSE TtlMax
  BY OlderFields
<1>2. f.ttl # None => f.ttl \in 0..TtlMax
  BY DEF FactorRecord, Ticks
<1> HIDE DEF g
<1>3. ASSUME NEW d \in 0..TtlMax, f.acting_age # None
      PROVE  Left(d, g.acting_age) = Countdown(Left(d, f.acting_age))
  <2>1. f.acting_age \in Nat /\ g.acting_age \in Nat /\ d \in Nat
    BY <1>1, <1>3, Constants
  <2>2. /\ Left(d, g.acting_age) = IF d > g.acting_age THEN d - g.acting_age ELSE 0
        /\ Left(d, f.acting_age) = IF d > f.acting_age THEN d - f.acting_age ELSE 0
        /\ Left(d, f.acting_age) \in Nat
    BY <2>1, LeftValue
  <2>3. Countdown(Left(d, f.acting_age)) =
          IF Left(d, f.acting_age) = 0 THEN 0 ELSE Left(d, f.acting_age) - 1
    BY <2>2, CountdownValue
  <2> QED BY <1>1, <1>3, <2>1, <2>2, <2>3, Constants
<1>4. f.ttl # None => Left(g.ttl, g.acting_age) = Countdown(Left(f.ttl, f.acting_age))
  BY <1>1, <1>2, <1>3
<1>5. f.acting_age # None => Left(TtlMax, g.acting_age) = Countdown(Left(TtlMax, f.acting_age))
  BY <1>3, Constants
<1> DEFINE A == IF watched /\ f.ttl # None THEN {Left(f.ttl, f.acting_age)} ELSE {}
           B == IF watched /\ f.acting_age # None THEN {Left(TtlMax, f.acting_age)} ELSE {}
           C == IF f.release_left # None THEN {f.release_left} ELSE {}
           A2 == IF watched /\ g.ttl # None THEN {Left(g.ttl, g.acting_age)} ELSE {}
           B2 == IF watched /\ g.acting_age # None THEN {Left(TtlMax, g.acting_age)} ELSE {}
           C2 == IF g.release_left # None THEN {g.release_left} ELSE {}
<1>6. Deadlines(f, enabled) = A \cup B \cup C /\ Deadlines(g, enabled) = A2 \cup B2 \cup C2
  BY <1>1 DEF Deadlines
<1>7. /\ A2 = {Countdown(d) : d \in A}
      /\ B2 = {Countdown(d) : d \in B}
      /\ C2 = {Countdown(d) : d \in C}
  BY <1>1, <1>4, <1>5
<1> HIDE DEF A, B, C, A2, B2, C2
<1> QED BY <1>6, <1>7 DEF g

\* A tick keeps cached deadlines exact.
LEMMA TickDeadlines ==
  ASSUME NEW fs \in Factors, Clocked(fs), NEW gs \in Factors,
         \A p \in ProgramId : gs[p] = Older(fs[p]), NEW enabled \in BOOLEAN
  PROVE  /\ NextCheckAt(gs, enabled) = Countdown(NextCheckAt(fs, enabled))
         /\ NextLightweightCheckAt(gs) = Countdown(NextLightweightCheckAt(fs))
<1>1. NextCheckAt(gs, enabled) = Countdown(NextCheckAt(fs, enabled))
  <2> DEFINE D(p) == Deadlines(fs[p], enabled)
             E(p) == Deadlines(gs[p], enabled)
  <2>1. \A p \in ProgramId : D(p) \subseteq Nat /\ E(p) = {Countdown(d) : d \in D(p)}
    BY DeadlinesAreTimes, OlderDeadlines DEF Factors, Clocked
  <2> HIDE DEF D, E
  <2>2. UNION {E(p) : p \in ProgramId} = {Countdown(d) : d \in UNION {D(p) : p \in ProgramId}}
    BY <2>1
  <2>3. UNION {D(p) : p \in ProgramId} \in SUBSET Nat
    BY <2>1
  <2>4. Earliest(UNION {E(p) : p \in ProgramId}) = Countdown(Earliest(UNION {D(p) : p \in ProgramId}))
    BY <2>2, <2>3, CountdownEarliest
  <2> QED BY <2>4 DEF NextCheckAt, D, E
<1>2. NextLightweightCheckAt(gs) = Countdown(NextLightweightCheckAt(fs))
  <2> DEFINE P == {q \in ProgramId : fs[q].privileged /\ fs[q].privilege_left # None}
             S == {fs[p].privilege_left : p \in P}
  <2>1. \A p \in ProgramId : /\ gs[p].privileged = fs[p].privileged
                             /\ gs[p].privilege_left = Countdown(fs[p].privilege_left)
                             /\ gs[p].privilege_left = None <=> fs[p].privilege_left = None
    <3> SUFFICES ASSUME NEW p \in ProgramId
        PROVE /\ gs[p].privileged = fs[p].privileged
              /\ gs[p].privilege_left = Countdown(fs[p].privilege_left)
              /\ gs[p].privilege_left = None <=> fs[p].privilege_left = None
      OBVIOUS
    <3>1. fs[p] \in FactorRecord /\ gs[p] = Older(fs[p])
      BY DEF Factors
    <3> QED BY <3>1, OlderFields
  <2>2. \A p \in ProgramId : fs[p].privilege_left \in Ticks(PrivilegedTtl)
    BY DEF Factors, FactorRecord
  <2>3. S \in SUBSET Nat
    BY <2>2, Constants DEF Ticks
  <2>4. {q \in ProgramId : gs[q].privileged /\ gs[q].privilege_left # None} = P
    BY <2>1
  <2>5. {gs[p].privilege_left : p \in P} = {Countdown(d) : d \in S}
    BY <2>1
  <2> HIDE DEF S
  <2>6. Earliest({Countdown(d) : d \in S}) = Countdown(Earliest(S))
    BY <2>3, CountdownEarliest
  <2> QED BY <2>4, <2>5, <2>6 DEF NextLightweightCheckAt, S
<1> QED BY <1>1, <1>2
\* The transitions and privilege updates a hook may decide on.
MoveKinds == {"resume", "pause", "mark", "release", "queue"}

Kinds == MoveKinds \cup {"promote", "demote"}

Reasons == {"resume", "reclaim", "repair", "ttl_expired", "ttl_handoff", "retention",
            "off_direct", "handoff", "arrival", "direct", "queued", "max_round"}

RequestRecord == [kind : Kinds, program : ProgramId, reason : Reasons]

SnapshotRecord == [state : [ProgramId -> {"active", "paused", "terminated"}],
                   status : [ProgramId -> {"reasoning", "acting"}],
                   marked : [ProgramId -> BOOLEAN], waiting : SUBSET ProgramId]

\* Types, with the fact that a frozen TTL always has the clock it is compared with.
HookTypes ==
  /\ TTLTypeOK
  /\ requests \in Seq(RequestRecord)
  /\ snapshot \in SnapshotRecord
  /\ advanced \in SnapshotRecord
  /\ Clocked(factors)

\* The strategy function that runs belongs to the hook the runtime has opened.
HookPhase ==
  /\ hook.kind = "idle" <=> phase = "none"
  /\ hook.kind = "admission" <=> phase \in {"admission", "outcome"}
  /\ hook.kind = "completion" <=> phase \in {"completion", "yielding"}
  /\ hook.kind = "cycle" <=> phase \in {"resume", "repair", "check", "checked"}
  /\ phase \in {"none", "admission", "completion"} => requests = << >>
  /\ phase = "outcome" <=> outcome # "none"

\* What a decided request needs of its Program.
Valid(q) ==
  LET p == q.program
  IN  /\ p \in programs
      /\ q.kind \in {"resume", "queue"} => state[p] = "paused" /\ status[p] = "reasoning"
      /\ q.kind = "pause" => state[p] = "active" /\ status[p] = "acting"
      /\ q.kind = "mark" => state[p] = "active" /\ status[p] = "reasoning" /\ ~marked_for_pause[p]
      /\ q.kind = "release" => state[p] = "paused" /\ status[p] = "acting"

\* Two requests of which one may undo what the other needs.
Clash(a, b) ==
  /\ a.program = b.program
  /\ \/ a.kind \in MoveKinds /\ b.kind \in MoveKinds
     \/ "release" \in {a.kind, b.kind}

AllValid(rs) == \A i \in DOMAIN rs : Valid(rs[i])

NoClash(rs) == \A i, j \in DOMAIN rs : i # j => ~Clash(rs[i], rs[j])

RequestsValid == AllValid(requests) /\ NoClash(requests)

\* The Programs of the pending requests of the given kinds.
Pending(rs, kinds) == {rs[i].program : i \in {j \in DOMAIN rs : rs[j].kind \in kinds}}

\* The arrival's snapshot is current; what it leaves out is not privileged.
AdmissionFacts ==
  phase = "admission" =>
    /\ snapshot.state = state
    /\ snapshot.status = status
    /\ \A p \in ProgramId :
         state[p] = "paused" /\ factors[p].privileged => p \in snapshot.waiting

\* An ADMITTED candidate is active or about to be, a QUEUED one is paused and
\* has its force deadline or is about to get it.
OutcomeFacts ==
  LET p == CandidateProgram
  IN  /\ outcome = "admitted" =>
           \/ state[p] = "active" /\ p \notin Pending(requests, MoveKinds)
           \/ p \in Pending(requests, {"resume"})
      /\ outcome = "queued" =>
           /\ state[p] = "paused"
           /\ Pending(requests, MoveKinds \ {"queue"}) = {}
           /\ factors[p].force_left # None \/ p \in Pending(requests, {"queue"})

CompletionFacts ==
  /\ phase = "completion" => snapshot.state = state /\ snapshot.status = status
  /\ phase = "yielding" => Pending(requests, {"promote", "demote"}) = {}

\* The privileges held once the decided updates are made.
Holders(fs) == {p \in ProgramId : fs[p].privileged}

FutureHolders(fs, rs) == (Holders(fs) \ Pending(rs, {"demote"})) \cup Pending(rs, {"promote"})

\* The ledger, and what each loop of schedule_cycle() may count on.
CycleFacts ==
  hook.kind = "cycle" =>
    /\ AdvancedSnapshotExact
    /\ snapshot.status = status
    /\ phase = "resume" =>
         /\ Pending(requests, {"promote", "demote", "mark", "queue", "release"}) = {}
         /\ \A p \in todo : /\ state[p] = "paused" /\ status[p] = "reasoning"
                            /\ p \notin Pending(requests, {"resume"})
         /\ TransitionsEnabled =>
              \A p \in ProgramId :
                state[p] = "paused" /\ status[p] = "reasoning" /\ factors[p].privileged =>
                  p \in todo \/ p \in Pending(requests, {"resume"})
    /\ phase = "repair" =>
         /\ Pending(requests, {"promote", "resume", "queue", "release"}) = {}
         /\ \A p \in todo : /\ state[p] = "active" /\ ~marked_for_pause[p]
                            /\ p \notin Pending(requests, {"pause", "mark"})
    /\ phase = "check" =>
         /\ Pending(requests, {"mark", "queue", "release"}) = {}
         /\ \A p \in ProgramId : snapshot.state[p] # "terminated" => p \in programs
         /\ \A p \in todo : snapshot.state[p] = "active" =>
              state[p] = "active" /\ p \notin Pending(requests, {"pause"})
         /\ \A p \in ProgramId : snapshot.state[p] = "paused" /\ state[p] = "active" =>
              status[p] = "reasoning" /\ p \in FutureHolders(factors, requests)
         /\ Pending(requests, {"resume"}) \subseteq FutureHolders(factors, requests)
         /\ Pending(requests, {"promote"}) \cap Pending(requests, {"demote"}) = {}
    /\ phase = "checked" => Pending(requests, MoveKinds \ {"release"}) = {}

\* The privileges stay within the limit, one per task, whatever is still to be
\* applied; each has an end and a live Program.
Bounded(F) ==
  /\ F \subseteq programs
  /\ Cardinality(F) <= PrivilegedLimit
  /\ \A p, q \in F : p # q => task_id[p] # task_id[q]
  /\ \A p \in F : task_id[p] # None

Ending(fs) == \A p \in ProgramId : fs[p].privileged => fs[p].privilege_left # None

PrivilegeInv == Bounded(FutureHolders(factors, requests)) /\ Ending(factors)

\* The cached deadlines are exact wherever they are read.
DeadlineInv ==
  /\ phase \notin {"check", "checked"} => next_check = NextCheckAt(factors, TransitionsEnabled)
  /\ phase \in {"none", "completion", "yielding"} =>
       next_lightweight = NextLightweightCheckAt(factors)

\* Only the candidate of an open admission waits without a force deadline.
WaiterInv ==
  \A p \in ProgramId :
    state[p] = "paused" /\ status[p] = "reasoning" =>
      factors[p].force_left # None \/ (hook.kind = "admission" /\ p = CandidateProgram)

ClockInv ==
  ~Cancellation =>
    \A p \in programs :
      status[p] = "acting" =>
        /\ state[p] = "active" => factors[p].acting_age # None
        /\ state[p] = "paused" => factors[p].release_left # None

TTLInv ==
  /\ SchedulerInv
  /\ IsFiniteSet(programs)
  /\ HookTypes
  /\ HookPhase
  /\ RequestsValid
  /\ AdmissionFacts
  /\ OutcomeFacts
  /\ CompletionFacts
  /\ CycleFacts
  /\ PrivilegeInv
  /\ DeadlineInv
  /\ WaiterInv
  /\ ClockInv
-----------------------------------------------------------------------------
(***************************************************************************)
(* Sequences of requests.                                                  *)
(***************************************************************************)
LEMMA TailFacts ==
  ASSUME NEW rs \in Seq(RequestRecord), rs # << >>
  PROVE  /\ Head(rs) = rs[1] /\ Head(rs) \in RequestRecord
         /\ Tail(rs) \in Seq(RequestRecord)
         /\ Len(rs) \in Nat /\ Len(rs) > 0 /\ DOMAIN rs = 1..Len(rs)
         /\ DOMAIN Tail(rs) = 1..(Len(rs) - 1)
         /\ \A i \in 1..(Len(rs) - 1) : Tail(rs)[i] = rs[i + 1]
<1>1. Len(rs) \in Nat /\ DOMAIN rs = 1..Len(rs) /\ rs \in [1..Len(rs) -> RequestRecord] /\ Len(rs) > 0
  OBVIOUS
<1> QED BY <1>1

\* What is pending after the first request is pending without it.
LEMMA PendingTail ==
  ASSUME NEW rs \in Seq(RequestRecord), rs # << >>, NEW K
  PROVE  Pending(rs, K) =
           Pending(Tail(rs), K) \cup (IF Head(rs).kind \in K THEN {Head(rs).program} ELSE {})
<1>1. /\ Head(rs) = rs[1] /\ Len(rs) \in Nat /\ Len(rs) > 0 /\ DOMAIN rs = 1..Len(rs)
      /\ DOMAIN Tail(rs) = 1..(Len(rs) - 1)
      /\ \A i \in 1..(Len(rs) - 1) : Tail(rs)[i] = rs[i + 1]
  BY TailFacts
<1>2. ASSUME NEW x \in Pending(rs, K)
      PROVE  x \in Pending(Tail(rs), K) \cup (IF Head(rs).kind \in K THEN {Head(rs).program} ELSE {})
  <2>1. PICK i \in DOMAIN rs : rs[i].kind \in K /\ x = rs[i].program
    BY <1>2 DEF Pending
  <2>2. CASE i = 1
    BY <1>1, <2>1, <2>2
  <2>3. CASE i # 1
    <3>1. i - 1 \in 1..(Len(rs) - 1) /\ (i - 1) + 1 = i
      BY <1>1, <2>1, <2>3
    <3>2. Tail(rs)[i - 1] = rs[i] /\ i - 1 \in DOMAIN Tail(rs)
      BY <1>1, <3>1
    <3> QED BY <2>1, <3>2 DEF Pending
  <2> QED BY <2>2, <2>3
<1>3. ASSUME NEW x \in Pending(Tail(rs), K) PROVE x \in Pending(rs, K)
  <2>1. PICK i \in 1..(Len(rs) - 1) : Tail(rs)[i].kind \in K /\ x = Tail(rs)[i].program
    BY <1>1, <1>3 DEF Pending
  <2>2. i + 1 \in DOMAIN rs /\ Tail(rs)[i] = rs[i + 1]
    BY <1>1, <2>1
  <2> QED BY <2>1, <2>2 DEF Pending
<1>4. Head(rs).kind \in K => Head(rs).program \in Pending(rs, K)
  BY <1>1 DEF Pending
<1> QED BY <1>2, <1>3, <1>4

\* The first request clashes with none of the others.
LEMMA NoClashTail ==
  ASSUME NEW rs \in Seq(RequestRecord), rs # << >>, NoClash(rs)
  PROVE  /\ NoClash(Tail(rs))
         /\ Head(rs).kind \in MoveKinds => Head(rs).program \notin Pending(Tail(rs), MoveKinds)
         /\ Head(rs).kind = "release" => Head(rs).program \notin Pending(Tail(rs), Kinds)
         /\ Head(rs).program \notin Pending(Tail(rs), {"release"})
<1>1. /\ Head(rs) = rs[1] /\ Len(rs) \in Nat /\ Len(rs) > 0 /\ DOMAIN rs = 1..Len(rs)
      /\ DOMAIN Tail(rs) = 1..(Len(rs) - 1)
      /\ \A i \in 1..(Len(rs) - 1) : Tail(rs)[i] = rs[i + 1]
  BY TailFacts
<1>2. \A i \in 1..(Len(rs) - 1) : 1 # i + 1 /\ i + 1 \in DOMAIN rs
  BY <1>1
<1>3. \A i \in 1..(Len(rs) - 1) : ~Clash(Head(rs), Tail(rs)[i])
  BY <1>1, <1>2 DEF NoClash
<1>4. NoClash(Tail(rs))
  <2> SUFFICES ASSUME NEW i \in 1..(Len(rs) - 1), NEW j \in 1..(Len(rs) - 1), i # j
      PROVE ~Clash(Tail(rs)[i], Tail(rs)[j])
    BY <1>1 DEF NoClash
  <2>1. i + 1 \in DOMAIN rs /\ j + 1 \in DOMAIN rs /\ i + 1 # j + 1
    BY <1>1
  <2> QED BY <1>1, <2>1 DEF NoClash
<1> QED BY <1>1, <1>3, <1>4 DEF Clash, Pending, MoveKinds

\* A pending request of a valid list is itself valid.
LEMMA PendingValid ==
  ASSUME NEW rs, AllValid(rs), NEW K, NEW p \in Pending(rs, K)
  PROVE  \E q : /\ q.kind \in K /\ q.program = p /\ Valid(q)
                /\ \E i \in DOMAIN rs : q = rs[i]
BY DEF Pending, AllValid

\* An empty list has nothing pending and nothing that could fail.
LEMMA PendingNone ==
  ASSUME NEW K
  PROVE  Pending(<< >>, K) = {} /\ AllValid(<< >>) /\ NoClash(<< >>) /\ << >> \in Seq(RequestRecord)
BY DEF Pending, AllValid, NoClash
-----------------------------------------------------------------------------
(***************************************************************************)
(* The strategy's steps are steps of the runtime.                          *)
(***************************************************************************)
\* The candidate of an open admission is live and has its request unfinished.
LEMMA CandidateLive ==
  ASSUME SchedulerInv, hook.kind = "admission"
  PROVE  /\ hook.request \in Request
         /\ CandidateProgram \in programs /\ CandidateProgram \in ProgramId
         /\ status[CandidateProgram] = "reasoning"
         /\ state[CandidateProgram] \in {"active", "paused"}
<1>1. hook.request \in Request /\ pool_status[hook.request] # "absent"
  BY DEF SchedulerInv, HookConsistent
<1>2. request_bindings[hook.request] # None /\ pool_program[hook.request] = request_bindings[hook.request]
  BY <1>1 DEF SchedulerInv, OneOwner
<1>3. /\ CandidateProgram \in ProgramId /\ CandidateProgram \in programs
      /\ request_bindings[hook.request] = Ref(CandidateProgram)
  BY <1>1, <1>2, BoundToCurrent DEF CandidateProgram
<1>4. status[CandidateProgram] = "reasoning"
  BY <1>1, <1>3 DEF SchedulerInv, StatusTracksRequests
<1>5. state[CandidateProgram] \in {"active", "paused"}
  BY <1>3 DEF SchedulerInv, LiveStates, SchedulerTypeOK
<1> QED BY <1>1, <1>3, <1>4, <1>5

\* The hook record is Idle as soon as its kind is.
LEMMA HookIdle == SchedulerInv => (hook = Idle <=> hook.kind = "idle")
<1> SUFFICES ASSUME SchedulerInv PROVE hook = Idle <=> hook.kind = "idle"
  OBVIOUS
<1>1. hook \in [kind : {"idle", "admission", "completion", "cycle"}, request : Request \cup {None}]
  BY DEF SchedulerInv, SchedulerTypeOK
<1>2. hook.kind = "idle" => hook.request = None
  BY DEF SchedulerInv, HookConsistent
<1> QED BY <1>1, <1>2 DEF Idle

\* The runtime believes the outcome, and is right to.
LEMMA OutcomeHolds ==
  ASSUME TTLInv, phase = "outcome", requests = << >>
  PROVE  /\ hook.kind = "admission"
         /\ outcome = "admitted" => state[CandidateProgram] = "active"
         /\ outcome = "queued" => /\ state[CandidateProgram] = "paused"
                                  /\ factors[CandidateProgram].force_left # None
<1>1. \A K : Pending(requests, K) = {}
  BY PendingNone
<1> QED BY <1>1 DEF TTLInv, HookPhase, OutcomeFacts

\* Every step of the strategy is a step of the open one, or touches nothing of the runtime.
LEMMA StepRefines ==
  ASSUME TTLInv, [TTLNext]_ttlVars
  PROVE  [Next]_schedulerVars
<1>0. KnownIdentity \subseteq Identity
  BY ProgressTTLAssumption
<1>1. CASE \E r \in Request, m \in KnownIdentity : Arrive(r, m) \/ ArriveRefused(r, m)
  BY <1>0, <1>1 DEF Arrive, ArriveRefused, Next
<1>2. CASE Admission
  BY <1>2 DEF Admission, AdmitWithoutPT, AdmitActive, AdmitByHandoff, AdmitResumed, AdmitDirect,
              QueueCandidate, Decide
<1>3. CASE HandOver
  <2>1. hook.kind = "admission" /\ state[CandidateProgram] = "active"
    BY <1>3, OutcomeHolds DEF HandOver, FinishAdmission
  <2>2. AdmissionAdmitted
    BY <1>3, <2>1 DEF HandOver, FinishAdmission, AdmissionAdmitted
  <2> QED BY <2>2 DEF Next
<1>4. CASE Retain
  <2>1. hook.kind = "admission" /\ state[CandidateProgram] = "paused"
    BY <1>4, OutcomeHolds DEF Retain, FinishAdmission
  <2>2. AdmissionQueued
    BY <1>4, <2>1 DEF Retain, FinishAdmission, AdmissionQueued, requestVars
  <2> QED BY <2>2 DEF Next
<1>5. CASE Apply
  <2>1. requests # << >> => Head(requests).program \in ProgramId
    BY TailFacts DEF TTLInv, HookTypes, RequestRecord
  <2>2. CASE ApplyResume \/ ApplyPause \/ ApplyMark \/ ApplyRelease
    BY <2>1, <2>2 DEF ApplyResume, ApplyPause, ApplyMark, ApplyRelease, Requesting, Next, Transition
  <2>3. CASE ApplyQueue \/ SetPrivilege
    BY <2>3 DEF ApplyQueue, SetPrivilege
  <2> QED BY <1>5, <2>2, <2>3 DEF Apply
<1>6. CASE \E r \in Request : Complete(r) \/ Cancel(r)
  BY <1>6 DEF Complete, Cancel, Next
<1>7. CASE \E p \in ProgramId : YieldCompleted(p) \/ Terminal(p)
  BY <1>7 DEF YieldCompleted, Terminal, Next
<1>8. CASE FinishCompletion \/ BeginCycle \/ Consume
  BY <1>8 DEF FinishCompletion, BeginCycle, Consume, Next
<1>9. CASE CycleStep
  <2>1. ASSUME NEW p \in ProgramId, \/ ResumeAtOnce(p) \/ ResumeOrdinary(p) \/ RepairVictim(p)
                                    \/ KeepActing(p) \/ RecordExpiry(p) \/ ExpireActing(p)
        PROVE  UNCHANGED schedulerVars
    BY <2>1 DEF ResumeAtOnce, ResumeOrdinary, RepairVictim, KeepActing, RecordExpiry, ExpireActing, Visit
  <2>2. CASE BeginRepair \/ BeginCheck \/ ReleaseExpired
    BY <2>2 DEF BeginRepair, BeginCheck, ReleaseExpired
  <2>3. CASE FinishCycle
    BY <2>3 DEF FinishCycle, Next
  <2> QED BY <1>9, <2>1, <2>2, <2>3 DEF CycleStep
<1>10. CASE Tick \/ LightweightCheck \/ UNCHANGED ttlVars
  BY <1>10 DEF Tick, LightweightCheck, ttlVars
<1> QED BY <1>1, <1>2, <1>3, <1>4, <1>5, <1>6, <1>7, <1>8, <1>9, <1>10 DEF TTLNext

\* The registry holds finitely many Programs at every moment.
LEMMA StepKeepsFinite ==
  ASSUME IsFiniteSet(programs), [RegistryNext]_registryVars
  PROVE  IsFiniteSet(programs')
<1>1. ASSUME NEW m \in Identity, Create(m) PROVE IsFiniteSet(programs')
  BY <1>1, FS_AddElement DEF Create
<1>2. ASSUME NEW p \in ProgramId, Release(Ref(p)) PROVE IsFiniteSet(programs')
  BY <1>2, FS_RemoveElement DEF Release
<1>3. CASE programs' = programs
  BY <1>3
<1> QED BY <1>1, <1>2, <1>3 DEF RegistryNext, ApplyMetadata, registryVars

\* So the runtime's own invariant is kept by every step.
LEMMA StepKeepsRuntime ==
  ASSUME TTLInv, [TTLNext]_ttlVars
  PROVE  SchedulerInv' /\ IsFiniteSet(programs')
<1>1. [Next]_schedulerVars /\ SchedulerInv /\ IsFiniteSet(programs)
  BY StepRefines DEF TTLInv
<1>2. SchedulerInv'
  BY <1>1, NextKeepsInv
<1>3. IsFiniteSet(programs')
  BY <1>1, RuntimeStepIsRegistryStep, StepKeepsFinite
<1> QED BY <1>2, <1>3
-----------------------------------------------------------------------------
(***************************************************************************)
(* Privileges.                                                             *)
(***************************************************************************)
LEMMA OneMore ==
  ASSUME NEW S, IsFiniteSet(S), NEW x
  PROVE  /\ Cardinality(S) \in Nat /\ Cardinality(S \cup {x}) \in Nat
         /\ Cardinality(S \cup {x}) <= Cardinality(S) + 1
<1>1. /\ IsFiniteSet(S \cup {x})
      /\ Cardinality(S \cup {x}) = IF x \in S THEN Cardinality(S) ELSE Cardinality(S) + 1
  BY FS_AddElement
<1>2. Cardinality(S) \in Nat
  BY FS_CardinalityType
<1> QED BY <1>1, <1>2

\* fs and gs differ in privileges only.
OnlyPrivileges(fs, gs) ==
  \A p \in ProgramId : SameClocks(fs[p], gs[p]) /\ gs[p].force_left = fs[p].force_left

\* _reconcile_privileges() only takes privileges away.
LEMMA ReconciledFacts ==
  ASSUME NEW fs \in Factors, NEW sn, NEW gs \in Reconciled(fs, sn)
  PROVE  /\ gs \in Factors /\ OnlyPrivileges(fs, gs)
         /\ \A p \in Holders(gs) : gs[p] = fs[p] /\ RetainsPrivilege(fs, sn, p)
         /\ Holders(gs) \subseteq Holders(fs)
<1> DEFINE E == {p \in ProgramId : RetainsPrivilege(fs, sn, p)}
           Cleared(K) == [p \in ProgramId |-> IF fs[p].privileged /\ p \notin K
                                              THEN SetPrivileged(fs[p], FALSE) ELSE fs[p]]
<1>1. PICK K \in SUBSET E : gs = Cleared(K)
  BY DEF Reconciled
<1>2. ASSUME NEW p \in ProgramId
      PROVE  /\ gs[p] \in FactorRecord
             /\ SameClocks(fs[p], gs[p]) /\ gs[p].force_left = fs[p].force_left
             /\ gs[p].privileged => gs[p] = fs[p] /\ p \in K
  <2>1. fs[p] \in FactorRecord
    BY DEF Factors
  <2>2. CASE fs[p].privileged /\ p \notin K
    <3>0. /\ SetPrivileged(fs[p], FALSE) \in FactorRecord
          /\ SetPrivileged(fs[p], FALSE).privileged = FALSE
          /\ SameClocks(fs[p], SetPrivileged(fs[p], FALSE))
          /\ SetPrivileged(fs[p], FALSE).force_left = fs[p].force_left
          /\ FALSE => SetPrivileged(fs[p], FALSE).privilege_left # None
      <4>1. FALSE \in BOOLEAN
        OBVIOUS
      <4> QED BY <2>1, <4>1, SetPrivilegedFields DEF SameClocks
    <3>1. gs[p] = SetPrivileged(fs[p], FALSE)
      BY <1>1, <2>2
    <3> QED BY <3>0, <3>1
  <2>3. CASE ~(fs[p].privileged /\ p \notin K)
    <3>1. gs[p] = fs[p]
      BY <1>1, <2>3
    <3> QED BY <2>1, <2>3, <3>1 DEF SameClocks
  <2> QED BY <2>2, <2>3
<1>3. gs \in Factors
  <2>1. gs = [p \in ProgramId |-> gs[p]]
    BY <1>1
  <2> QED BY <1>2, <2>1 DEF Factors
<1> QED BY <1>1, <1>2, <1>3 DEF OnlyPrivileges, Holders

\* _promote_progress_privileges() fills slots with active Programs, one per task,
\* up to the limit, if every privilege it finds is an active Program's.
LEMMA PromotedFacts ==
  ASSUME NEW fs \in Factors, NEW sn, NEW gs \in Promoted(fs, sn),
         Holders(fs) \subseteq ActivePrograms(sn), IsFiniteSet(ActivePrograms(sn)),
         Cardinality(Holders(fs)) <= PrivilegedLimit,
         \A p, q \in Holders(fs) : p # q => task_id[p] # task_id[q],
         \A p \in Holders(fs) : task_id[p] # None,
         Ending(fs)
  PROVE  /\ gs \in Factors /\ OnlyPrivileges(fs, gs) /\ Ending(gs)
         /\ Holders(gs) \subseteq ActivePrograms(sn)
         /\ Cardinality(Holders(gs)) <= PrivilegedLimit
         /\ \A p, q \in Holders(gs) : p # q => task_id[p] # task_id[q]
         /\ \A p \in Holders(gs) : task_id[p] # None
<1> DEFINE C == {p \in ActivePrograms(sn) : ~fs[p].privileged}
           With(K) == [p \in ProgramId |-> IF p \in K THEN SetPrivileged(fs[p], TRUE) ELSE fs[p]]
           A(K) == {q \in ActivePrograms(sn) : With(K)[q].privileged}
<1>1. PICK S \in SUBSET C : gs = With(S) /\ \A p \in S : CanPromote(With(S \ {p}), sn, p)
  BY DEF Promoted
<1>2. ActivePrograms(sn) \subseteq ProgramId
  BY DEF ActivePrograms
<1>3. ASSUME NEW K \in SUBSET C, NEW p \in ProgramId
      PROVE  /\ With(K)[p] \in FactorRecord
             /\ SameClocks(fs[p], With(K)[p]) /\ With(K)[p].force_left = fs[p].force_left
             /\ With(K)[p].privileged <=> (p \in K \/ fs[p].privileged)
             /\ With(K)[p].privileged => With(K)[p].privilege_left # None
  <2>1. fs[p] \in FactorRecord /\ (fs[p].privileged => fs[p].privilege_left # None)
    BY DEF Factors, Ending
  <2>2. CASE p \in K
    <3>0. /\ SetPrivileged(fs[p], TRUE) \in FactorRecord
          /\ SetPrivileged(fs[p], TRUE).privileged = TRUE
          /\ SameClocks(fs[p], SetPrivileged(fs[p], TRUE))
          /\ SetPrivileged(fs[p], TRUE).force_left = fs[p].force_left
          /\ TRUE => SetPrivileged(fs[p], TRUE).privilege_left # None
      <4>1. TRUE \in BOOLEAN
        OBVIOUS
      <4> QED BY <2>1, <4>1, SetPrivilegedFields DEF SameClocks
    <3>1. With(K)[p] = SetPrivileged(fs[p], TRUE)
      BY <2>2
    <3> HIDE DEF With
    <3> QED BY <2>2, <3>0, <3>1
  <2>3. CASE p \notin K
    <3>1. With(K)[p] = fs[p]
      BY <2>3
    <3> HIDE DEF With
    <3> QED BY <2>1, <2>3, <3>1 DEF SameClocks
  <2> QED BY <2>2, <2>3
<1>4. gs = [p \in ProgramId |-> gs[p]]
  BY <1>1
<1>5. \A p \in S : S \ {p} \in SUBSET C
  BY <1>1
<1> HIDE DEF With, C
<1>6. gs \in Factors /\ OnlyPrivileges(fs, gs) /\ Ending(gs)
  <2>1. gs \in Factors
    BY <1>1, <1>3, <1>4 DEF Factors
  <2> QED BY <1>1, <1>3, <2>1 DEF OnlyPrivileges, Ending
<1>7. Holders(gs) = Holders(fs) \cup S /\ S \subseteq ActivePrograms(sn)
  <2>1. S \subseteq ActivePrograms(sn)
    BY <1>1 DEF C
  <2> QED BY <1>1, <1>2, <1>3, <2>1 DEF Holders
<1>8. \A p \in S : A(S \ {p}) = Holders(fs) \cup (S \ {p})
  BY <1>2, <1>3, <1>5, <1>7 DEF Holders
<1>9. \A p \in S : /\ task_id[p] # None
                   /\ \A q \in A(S \ {p}) : q # p => task_id[q] # task_id[p]
                   /\ Cardinality(A(S \ {p})) < PrivilegedLimit
  BY <1>1 DEF CanPromote
<1> HIDE DEF A
<1>10. Cardinality(Holders(gs)) <= PrivilegedLimit
  <2>1. CASE S = {}
    BY <1>7, <2>1
  <2>2. CASE S # {}
    <3>1. PICK p \in S : TRUE
      BY <2>2
    <3> DEFINE B == A(S \ {p})
    <3>2. Holders(gs) = B \cup {p} /\ B \subseteq ActivePrograms(sn)
      BY <1>7, <1>8
    <3>3. IsFiniteSet(B) /\ Cardinality(B) \in Nat
      BY <3>2, FS_Subset, FS_CardinalityType
    <3>4. Cardinality(B \cup {p}) <= Cardinality(B) + 1 /\ Cardinality(B \cup {p}) \in Nat
      BY <3>3, OneMore
    <3>5. Cardinality(B) < PrivilegedLimit
      BY <1>9
    <3> HIDE DEF B
    <3> QED BY <3>2, <3>3, <3>4, <3>5, Constants
  <2> QED BY <2>1, <2>2
<1> QED BY <1>6, <1>7, <1>8, <1>9, <1>10

\* Losing privileges or live Programs' privileges keeping their task is harmless.
LEMMA BoundedSubset ==
  ASSUME IsFiniteSet(programs), NEW F, Bounded(F), NEW G \in SUBSET F,
         \A p \in G : p \in programs' /\ task_id'[p] = task_id[p]
  PROVE  /\ G \subseteq programs' /\ Cardinality(G) <= PrivilegedLimit
         /\ \A p, q \in G : p # q => task_id'[p] # task_id'[q]
         /\ \A p \in G : task_id'[p] # None
<1>1. IsFiniteSet(F)
  BY FS_Subset DEF Bounded
<1>2. Cardinality(G) <= Cardinality(F) /\ Cardinality(G) \in Nat /\ Cardinality(F) \in Nat
  BY <1>1, FS_Subset, FS_CardinalityType
<1> QED BY <1>2, Constants DEF Bounded

\* A privilege handed from a Program to another of the same task.
LEMMA BoundedHandoff ==
  ASSUME IsFiniteSet(programs), NEW F, Bounded(F), NEW p \in F, NEW q \in programs,
         task_id[q] = task_id[p]
  PROVE  Bounded((F \ {p}) \cup {q})
<1>1. IsFiniteSet(F) /\ Cardinality(F) \in Nat
  BY FS_Subset, FS_CardinalityType DEF Bounded
<1>2. IsFiniteSet(F \ {p}) /\ Cardinality(F \ {p}) = Cardinality(F) - 1
  BY <1>1, FS_RemoveElement
<1>3. /\ Cardinality((F \ {p}) \cup {q}) <= Cardinality(F \ {p}) + 1
      /\ Cardinality((F \ {p}) \cup {q}) \in Nat
  BY <1>2, OneMore
<1>4. Cardinality((F \ {p}) \cup {q}) <= Cardinality(F)
  BY <1>1, <1>2, <1>3
<1> QED BY <1>1, <1>3, <1>4, Constants DEF Bounded
-----------------------------------------------------------------------------
(***************************************************************************)
(* The sequences of requests the strategy decides on.                      *)
(***************************************************************************)
\* A decided sequence can be applied from the present state.
Applicable(rs) == rs \in Seq(RequestRecord) /\ AllValid(rs) /\ NoClash(rs)

\* A decision to do nothing.
LEMMA NothingAsked ==
  Applicable(<< >>) /\ \A K : Pending(<< >>, K) = {}
BY PendingNone DEF Applicable

\* What a request is made of.
LEMMA AskFields ==
  ASSUME NEW kind \in Kinds, NEW p \in ProgramId, NEW reason \in Reasons
  PROVE  /\ Ask(kind, p, reason) \in RequestRecord
         /\ Ask(kind, p, reason).kind = kind /\ Ask(kind, p, reason).program = p
         /\ Ask(kind, p, reason).reason = reason
BY DEF Ask, RequestRecord

\* A single request that is valid is applicable.
LEMMA OneAsked ==
  ASSUME NEW q \in RequestRecord, Valid(q)
  PROVE  /\ Applicable(<<q>>)
         /\ \A K : Pending(<<q>>, K) = IF q.kind \in K THEN {q.program} ELSE {}
<1>1. /\ <<q>> \in Seq(RequestRecord) /\ DOMAIN <<q>> = {1} /\ <<q>>[1] = q
  OBVIOUS
<1> QED BY <1>1 DEF Applicable, AllValid, NoClash, Pending

\* Two lists that move different Programs are applicable one after the other.
LEMMA BothAsked ==
  ASSUME NEW a, NEW b, Applicable(a), Applicable(b),
         Pending(a, MoveKinds) \cap Pending(b, MoveKinds) = {},
         Pending(a, {"release"}) = {}, Pending(b, {"release"}) = {}
  PROVE  /\ Applicable(a \o b)
         /\ \A K : Pending(a \o b, K) = Pending(a, K) \cup Pending(b, K)
<1> DEFINE c == a \o b
<1>1. /\ a \in Seq(RequestRecord) /\ b \in Seq(RequestRecord)
      /\ AllValid(a) /\ AllValid(b) /\ NoClash(a) /\ NoClash(b)
  BY DEF Applicable
<1>2. /\ Len(a) \in Nat /\ Len(b) \in Nat /\ DOMAIN a = 1..Len(a) /\ DOMAIN b = 1..Len(b)
      /\ c \in Seq(RequestRecord) /\ DOMAIN c = 1..(Len(a) + Len(b))
      /\ \A i \in 1..Len(a) : c[i] = a[i]
      /\ \A i \in 1..Len(b) : c[Len(a) + i] = b[i]
      /\ \A i \in 1..Len(a) : i \in DOMAIN c
      /\ \A i \in 1..Len(b) : Len(a) + i \in DOMAIN c
  BY <1>1
<1>3. \A k \in DOMAIN c : \/ k \in 1..Len(a) /\ c[k] = a[k]
                          \/ \E i \in 1..Len(b) : k = Len(a) + i /\ c[k] = b[i]
  <2> SUFFICES ASSUME NEW k \in DOMAIN c, k \notin 1..Len(a)
      PROVE \E i \in 1..Len(b) : k = Len(a) + i /\ c[k] = b[i]
    BY <1>2
  <2>1. k - Len(a) \in 1..Len(b) /\ k = Len(a) + (k - Len(a))
    BY <1>2
  <2> QED BY <1>2, <2>1
<1> HIDE DEF c
<1>4. \A K : Pending(c, K) = Pending(a, K) \cup Pending(b, K)
  <2> TAKE K
  <2>1. Pending(c, K) \subseteq Pending(a, K) \cup Pending(b, K)
    BY <1>2, <1>3 DEF Pending
  <2>2. Pending(a, K) \subseteq Pending(c, K)
    BY <1>2 DEF Pending
  <2>3. Pending(b, K) \subseteq Pending(c, K)
    BY <1>2 DEF Pending
  <2> QED BY <2>1, <2>2, <2>3
<1>5. AllValid(c)
  BY <1>1, <1>2, <1>3 DEF AllValid
<1>6. \A i \in 1..Len(a), j \in 1..Len(b) : ~Clash(a[i], b[j]) /\ ~Clash(b[j], a[i])
  <2> SUFFICES ASSUME NEW i \in 1..Len(a), NEW j \in 1..Len(b), a[i].program = b[j].program
      PROVE ~Clash(a[i], b[j]) /\ ~Clash(b[j], a[i])
    BY DEF Clash
  <2>1. ~(a[i].kind \in MoveKinds /\ b[j].kind \in MoveKinds)
    BY <1>2 DEF Pending
  <2>2. a[i].kind # "release" /\ b[j].kind # "release"
    BY <1>2 DEF Pending
  <2> QED BY <2>1, <2>2 DEF Clash
<1>7. NoClash(c)
  <2> SUFFICES ASSUME NEW k \in DOMAIN c, NEW l \in DOMAIN c, k # l
      PROVE ~Clash(c[k], c[l])
    BY DEF NoClash
  <2>1. CASE k \in 1..Len(a) /\ l \in 1..Len(a)
    BY <1>1, <1>2, <2>1 DEF NoClash
  <2>2. CASE k \in 1..Len(a) /\ l \notin 1..Len(a)
    BY <1>2, <1>3, <1>6, <2>2
  <2>3. CASE k \notin 1..Len(a) /\ l \in 1..Len(a)
    BY <1>2, <1>3, <1>6, <2>3
  <2>4. CASE k \notin 1..Len(a) /\ l \notin 1..Len(a)
    <3>1. PICK i \in 1..Len(b) : k = Len(a) + i /\ c[k] = b[i]
      BY <1>3, <2>4
    <3>2. PICK j \in 1..Len(b) : l = Len(a) + j /\ c[l] = b[j]
      BY <1>3, <2>4
    <3> QED BY <1>1, <1>2, <3>1, <3>2 DEF NoClash
  <2> QED BY <2>1, <2>2, <2>3, <2>4
<1> QED BY <1>2, <1>4, <1>5, <1>7 DEF Applicable, c

\* One transition for each Program of a set, in any order.
LEMMA AllAsked ==
  ASSUME NEW V \in SUBSET ProgramId, IsFiniteSet(V), NEW seq \in SetToSeqs(V),
         NEW kind \in MoveKinds, NEW reason \in Reasons,
         \A p \in V : Valid(Ask(kind, p, reason))
  PROVE  /\ Applicable(AskAll(kind, seq, reason))
         /\ \A K : Pending(AskAll(kind, seq, reason), K) \subseteq IF kind \in K THEN V ELSE {}
<1> DEFINE n == Cardinality(V)
           rs == AskAll(kind, seq, reason)
<1>1. n \in Nat
  BY FS_CardinalityType
<1>2. seq \in [1..n -> V] /\ \A i, j \in 1..n : i # j => seq[i] # seq[j]
  BY DEF SetToSeqs
<1>3. rs = [i \in 1..n |-> Ask(kind, seq[i], reason)]
  BY <1>2 DEF AskAll
<1> HIDE DEF n, rs
<1>4. \A i \in 1..n : /\ rs[i] = Ask(kind, seq[i], reason) /\ seq[i] \in V
                      /\ rs[i] \in RequestRecord
                      /\ rs[i].kind = kind /\ rs[i].program = seq[i]
  BY <1>2, <1>3, AskFields DEF Kinds
<1>5. DOMAIN rs = 1..n /\ rs \in [1..n -> RequestRecord]
  BY <1>3, <1>4
<1>6. rs \in Seq(RequestRecord)
  BY <1>1, <1>5
<1>7. AllValid(rs)
  BY <1>4, <1>5 DEF AllValid
<1>8. NoClash(rs)
  BY <1>2, <1>4, <1>5 DEF NoClash, Clash
<1>9. \A K : Pending(rs, K) \subseteq IF kind \in K THEN V ELSE {}
  BY <1>4, <1>5 DEF Pending
<1> QED BY <1>6, <1>7, <1>8, <1>9 DEF Applicable, rs
-----------------------------------------------------------------------------
(***************************************************************************)
(* Decisions: steps in which the strategy computes and the runtime rests.  *)
(***************************************************************************)
\* The empty system satisfies the invariant.
LEMMA InitTTLInv == TTLInit => TTLInv
<1> SUFFICES ASSUME TTLInit PROVE TTLInv
  OBVIOUS
<1>1. SchedulerInv
  BY InitSchedulerInv DEF TTLInit
<1>2. programs = {} /\ hook = Idle /\ state = [p \in ProgramId |-> "terminated"]
  BY DEF TTLInit, Init, RegistryInit
<1>3. IsFiniteSet(programs) /\ Cardinality({}) = 0
  BY <1>2, FS_EmptySet
<1>4. /\ requests = << >> /\ \A K : Pending(requests, K) = {}
      /\ Applicable(requests)
  BY NothingAsked DEF TTLInit
<1>5. /\ factors \in Factors /\ \A p \in ProgramId : factors[p] = FreshFactors
      /\ Holders(factors) = {} /\ Clocked(factors) /\ Ending(factors)
  BY FreshFactorsFields DEF TTLInit, Factors, Holders, Clocked, Ending
<1>6. NoSnapshot \in SnapshotRecord
  BY DEF NoSnapshot, SnapshotRecord
<1>7. HookTypes
  BY <1>4, <1>5, <1>6 DEF TTLInit, HookTypes, TTLTypeOK, Factors, Applicable
<1>8. HookPhase /\ RequestsValid
  BY <1>2, <1>4 DEF TTLInit, HookPhase, RequestsValid, Applicable, Idle
<1>9. AdmissionFacts /\ OutcomeFacts /\ CompletionFacts /\ CycleFacts
  BY <1>2 DEF TTLInit, AdmissionFacts, OutcomeFacts, CompletionFacts, CycleFacts, Idle
<1>10. PrivilegeInv
  <2>1. FutureHolders(factors, requests) = {}
    BY <1>4, <1>5 DEF FutureHolders
  <2>2. Bounded({})
    BY <1>3, Constants DEF Bounded
  <2> QED BY <1>5, <2>1, <2>2 DEF PrivilegeInv
<1>11. DeadlineInv
  <2>1. \A p \in ProgramId, e \in BOOLEAN : Deadlines(factors[p], e) = {}
    BY <1>5 DEF Deadlines, FreshFactors
  <2>2. TransitionsEnabled \in BOOLEAN
    BY DEF TransitionsEnabled, TTLInit
  <2>3. UNION {Deadlines(factors[p], TransitionsEnabled) : p \in ProgramId} = {}
    BY <2>1, <2>2
  <2>4. NextCheckAt(factors, TransitionsEnabled) = None
    BY <2>3 DEF NextCheckAt, Earliest
  <2>5. {q \in ProgramId : factors[q].privileged /\ factors[q].privilege_left # None} = {}
    BY <1>5 DEF Holders
  <2>6. NextLightweightCheckAt(factors) = None
    BY <2>5 DEF NextLightweightCheckAt, Earliest
  <2> QED BY <2>4, <2>6 DEF TTLInit, DeadlineInv
<1>12. WaiterInv /\ ClockInv
  BY <1>2 DEF WaiterInv, ClockInv
<1> QED BY <1>1, <1>3, <1>7, <1>8, <1>9, <1>10, <1>11, <1>12 DEF TTLInv

\* fs and gs run the same clocks.
SameTimes(fs, gs) ==
  \A p \in ProgramId :
    /\ gs[p].ttl = fs[p].ttl /\ gs[p].acting_age = fs[p].acting_age
    /\ gs[p].release_left = fs[p].release_left /\ gs[p].force_left = fs[p].force_left

\* A change of privileges moves no clock.
LEMMA PrivilegesAreNotTimes ==
  ASSUME NEW fs, NEW gs, OnlyPrivileges(fs, gs)
  PROVE  SameTimes(fs, gs)
BY DEF OnlyPrivileges, SameTimes, SameClocks

Phases == {"none", "admission", "outcome", "completion", "yielding", "resume",
           "repair", "check", "checked"}

\* A decision that keeps the clocks, asks for what applies, and leaves the facts
\* of its own hook keeps the invariant.
LEMMA DecisionKeeps ==
  ASSUME TTLInv,
         UNCHANGED <<schedulerVars, continuity_enabled, next_check, next_lightweight>>,
         factors' \in Factors, SameTimes(factors, factors'), Ending(factors'),
         phase' \notin {"check", "checked"} =>
           phase \notin {"check", "checked"} /\ OnlyPrivileges(factors, factors'),
         phase' \in {"none", "completion", "yielding"} =>
           phase \in {"none", "completion", "yielding"} /\ factors' = factors,
         phase' \in Phases, outcome' \in {"none", "admitted", "queued"},
         snapshot' \in SnapshotRecord, advanced' \in SnapshotRecord,
         todo' \subseteq ProgramId, protected' \subseteq ProgramId,
         Applicable(requests'), Bounded(FutureHolders(factors', requests')),
         HookPhase', AdmissionFacts', OutcomeFacts', CompletionFacts', CycleFacts'
  PROVE  TTLInv'
<1>1. /\ programs' = programs /\ state' = state /\ status' = status
      /\ marked_for_pause' = marked_for_pause /\ hook' = hook
      /\ pool_program' = pool_program /\ task_id' = task_id
  BY DEF schedulerVars, registryVars, recordVars, requestVars
<1>2. SchedulerInv' /\ IsFiniteSet(programs')
  BY <1>1, StutterKeepsSchedulerInv DEF TTLInv
<1>3. HookTypes'
  BY DEF TTLInv, HookTypes, TTLTypeOK, Factors, Applicable, SameTimes, Clocked, Phases
<1>4. RequestsValid'
  BY <1>1 DEF RequestsValid, Applicable, AllValid, NoClash, Clash, Valid
<1>5. PrivilegeInv'
  BY <1>1 DEF PrivilegeInv, FutureHolders, Holders, Pending, Bounded, Ending
<1>6. TransitionsEnabled' = TransitionsEnabled
  BY DEF TransitionsEnabled
<1>7. DeadlineInv'
  <2>1. CASE phase' \notin {"check", "checked"}
    <3>1. \A p \in ProgramId : SameClocks(factors[p], factors'[p])
      BY <2>1 DEF OnlyPrivileges
    <3>2. NextCheckAt(factors', TransitionsEnabled) = NextCheckAt(factors, TransitionsEnabled)
      BY <3>1, NextCheckAtUnchanged
    <3> QED BY <1>6, <2>1, <3>2 DEF TTLInv, DeadlineInv
  <2>2. CASE phase' \in {"check", "checked"}
    BY <2>2 DEF DeadlineInv
  <2> QED BY <2>1, <2>2
<1>8. WaiterInv' /\ ClockInv'
  BY <1>1 DEF TTLInv, WaiterInv, ClockInv, SameTimes, CandidateProgram, SchedulerInv, RegistryInv,
              RegistryTypeOK
<1> QED BY <1>2, <1>3, <1>4, <1>5, <1>7, <1>8 DEF TTLInv

\* The decision of handle_admission().
LEMMA DecideKeeps ==
  ASSUME TTLInv, phase = "admission", NEW asked, NEW disposition \in {"admitted", "queued"},
         Decide(asked, disposition),
         factors' \in Factors, OnlyPrivileges(factors, factors'), Ending(factors'),
         Applicable(asked), Bounded(FutureHolders(factors', asked)),
         disposition = "admitted" =>
           \/ state[CandidateProgram] = "active" /\ CandidateProgram \notin Pending(asked, MoveKinds)
           \/ CandidateProgram \in Pending(asked, {"resume"}),
         disposition = "queued" =>
           /\ state[CandidateProgram] = "paused"
           /\ Pending(asked, MoveKinds \ {"queue"}) = {}
           /\ CandidateProgram \in Pending(asked, {"queue"})
  PROVE  TTLInv'
<1>1. /\ UNCHANGED <<schedulerVars, continuity_enabled, next_check, next_lightweight>>
      /\ UNCHANGED <<snapshot, advanced, todo, protected>>
      /\ requests' = asked /\ outcome' = disposition /\ phase' = "outcome"
  BY DEF Decide
<1>2. hook' = hook /\ state' = state /\ pool_program' = pool_program
  BY <1>1 DEF schedulerVars, recordVars, requestVars
<1>3. hook.kind = "admission"
  BY DEF TTLInv, HookPhase
<1>4. HookPhase'
  BY <1>1, <1>2, <1>3 DEF HookPhase
<1>5. AdmissionFacts' /\ CompletionFacts' /\ CycleFacts'
  BY <1>1, <1>2, <1>3 DEF AdmissionFacts, CompletionFacts, CycleFacts
<1>6. OutcomeFacts'
  BY <1>1, <1>2 DEF OutcomeFacts, CandidateProgram, Pending
<1>7. /\ snapshot' \in SnapshotRecord /\ advanced' \in SnapshotRecord
      /\ todo' \subseteq ProgramId /\ protected' \subseteq ProgramId
  BY <1>1 DEF TTLInv, HookTypes, TTLTypeOK
<1>8. phase' \in Phases /\ outcome' \in {"none", "admitted", "queued"}
  BY <1>1 DEF Phases
<1>9. Applicable(requests') /\ Bounded(FutureHolders(factors', requests'))
  BY <1>1
<1> QED BY <1>1, <1>4, <1>5, <1>6, <1>7, <1>8, <1>9, PrivilegesAreNotTimes, DecisionKeeps

\* Fewer privileges stay within their bounds.
LEMMA FewerHolders ==
  ASSUME IsFiniteSet(programs), NEW F, Bounded(F), NEW G \in SUBSET F
  PROVE  Bounded(G)
<1>1. IsFiniteSet(F)
  BY FS_Subset DEF Bounded
<1>2. Cardinality(G) <= Cardinality(F) /\ Cardinality(G) \in Nat /\ Cardinality(F) \in Nat
  BY <1>1, FS_Subset, FS_CardinalityType
<1> QED BY <1>2, Constants DEF Bounded

\* One more privilege fits when a slot and its task are free.
LEMMA OneMoreHolder ==
  ASSUME IsFiniteSet(programs), NEW F, Bounded(F), NEW p \in programs, task_id[p] # None,
         Cardinality(F) < PrivilegedLimit, \A q \in F : q # p => task_id[q] # task_id[p]
  PROVE  Bounded(F \cup {p})
<1>1. IsFiniteSet(F)
  BY FS_Subset DEF Bounded
<1>2. Cardinality(F) \in Nat /\ Cardinality(F \cup {p}) \in Nat /\ Cardinality(F \cup {p}) <= Cardinality(F) + 1
  BY <1>1, OneMore
<1>3. Cardinality(F \cup {p}) <= PrivilegedLimit
  BY <1>2, Constants
<1> QED BY <1>3 DEF Bounded

\* The Programs of the registry are those that are not terminated.
LEMMA LiveProgram ==
  ASSUME TTLInv, NEW p \in ProgramId
  PROVE  /\ p \in programs <=> state[p] \in {"active", "paused"}
         /\ state[p] \in {"active", "paused", "terminated"}
         /\ status[p] \in {"acting", "reasoning"}
         /\ marked_for_pause[p] \in BOOLEAN
         /\ programs \subseteq ProgramId
BY DEF TTLInv, SchedulerInv, SchedulerTypeOK, LiveStates, RegistryInv, RegistryTypeOK

\* What an open admission starts from.
LEMMA AtAdmission ==
  ASSUME TTLInv, phase = "admission"
  PROVE  /\ hook.kind = "admission"
         /\ CandidateProgram \in programs /\ CandidateProgram \in ProgramId
         /\ status[CandidateProgram] = "reasoning"
         /\ state[CandidateProgram] \in {"active", "paused"}
         /\ snapshot.state = state /\ snapshot.status = status
         /\ factors \in Factors /\ Bounded(Holders(factors)) /\ Ending(factors)
         /\ IsFiniteSet(programs)
<1>1. hook.kind = "admission" /\ requests = << >>
  BY DEF TTLInv, HookPhase
<1>2. FutureHolders(factors, requests) = Holders(factors)
  BY <1>1, NothingAsked DEF FutureHolders
<1> QED BY <1>1, <1>2, CandidateLive
        DEF TTLInv, AdmissionFacts, HookTypes, TTLTypeOK, Factors, PrivilegeInv

\* After _reconcile_privileges() the privileges are those of before or fewer, and
\* none has lost its end.
LEMMA ReconciledBounded ==
  ASSUME TTLInv, NEW sn, NEW gs \in Reconciled(factors, sn), Bounded(Holders(factors))
  PROVE  /\ gs \in Factors /\ OnlyPrivileges(factors, gs) /\ Ending(gs) /\ Bounded(Holders(gs))
         /\ Holders(gs) \subseteq Holders(factors)
         /\ \A p \in Holders(gs) : gs[p] = factors[p] /\ RetainsPrivilege(factors, sn, p)
<1>1. factors \in Factors /\ Ending(factors) /\ IsFiniteSet(programs)
  BY DEF TTLInv, HookTypes, TTLTypeOK, Factors, PrivilegeInv
<1>2. /\ gs \in Factors /\ OnlyPrivileges(factors, gs)
      /\ \A p \in Holders(gs) : gs[p] = factors[p] /\ RetainsPrivilege(factors, sn, p)
      /\ Holders(gs) \subseteq Holders(factors)
  BY <1>1, ReconciledFacts
<1>3. Bounded(Holders(gs))
  BY <1>1, <1>2, FewerHolders
<1>4. Ending(gs)
  BY <1>1, <1>2 DEF Ending, Holders
<1> QED BY <1>2, <1>3, <1>4

\* One transition asked for.
LEMMA OneMove ==
  ASSUME NEW kind \in Kinds, NEW p \in ProgramId, NEW reason \in Reasons,
         Valid(Ask(kind, p, reason))
  PROVE  /\ Applicable(<<Ask(kind, p, reason)>>)
         /\ \A K : Pending(<<Ask(kind, p, reason)>>, K) = IF kind \in K THEN {p} ELSE {}
<1>1. /\ Ask(kind, p, reason) \in RequestRecord
      /\ Ask(kind, p, reason).kind = kind /\ Ask(kind, p, reason).program = p
  BY AskFields
<1> QED BY <1>1, OneAsked

\* _admit_without_pt(): the candidate is resumed unless it is active.
LEMMA AdmitWithoutPTKeeps ==
  ASSUME TTLInv, AdmitWithoutPT
  PROVE  TTLInv'
<1> DEFINE p == CandidateProgram
<1>1. phase = "admission" /\ UNCHANGED factors
  BY DEF AdmitWithoutPT
<1>2. /\ p \in programs /\ p \in ProgramId /\ status[p] = "reasoning" /\ state[p] \in {"active", "paused"}
      /\ snapshot.state = state
      /\ factors \in Factors /\ Bounded(Holders(factors)) /\ Ending(factors)
  BY <1>1, AtAdmission
<1> HIDE DEF p
<1>3. OnlyPrivileges(factors, factors')
  BY <1>1 DEF OnlyPrivileges, SameClocks
<1>4. CASE state[p] = "active"
  <2>1. Decide(<< >>, "admitted")
    BY <1>2, <1>4 DEF AdmitWithoutPT, p
  <2>2. Applicable(<< >>) /\ \A K : Pending(<< >>, K) = {}
    BY NothingAsked
  <2>3. Bounded(FutureHolders(factors', << >>))
    BY <1>1, <1>2, <2>2 DEF FutureHolders
  <2> QED BY <1>1, <1>2, <1>3, <1>4, <2>1, <2>2, <2>3, DecideKeeps DEF p
<1>5. CASE state[p] = "paused"
  <2> DEFINE asked == <<Ask("resume", p, "off_direct")>>
  <2>1. Decide(asked, "admitted")
    BY <1>2, <1>5 DEF AdmitWithoutPT, p
  <2>2. Valid(Ask("resume", p, "off_direct")) /\ "resume" \in Kinds /\ "off_direct" \in Reasons
    BY <1>2, <1>5 DEF Valid, Ask, Kinds, MoveKinds, Reasons
  <2>3. Applicable(asked) /\ \A K : Pending(asked, K) = IF "resume" \in K THEN {p} ELSE {}
    BY <1>2, <2>2, OneMove, Zenon
  <2> HIDE DEF asked
  <2>4. Bounded(FutureHolders(factors', asked))
    BY <1>1, <1>2, <2>3 DEF FutureHolders
  <2> QED BY <1>1, <1>2, <1>3, <1>5, <2>1, <2>3, <2>4, DecideKeeps DEF p
<1> QED BY <1>2, <1>4, <1>5

\* An active candidate is admitted as it is.
LEMMA AdmitActiveKeeps ==
  ASSUME TTLInv, AdmitActive
  PROVE  TTLInv'
<1> DEFINE p == CandidateProgram
<1>1. phase = "admission" /\ factors' \in Reconciled(factors, snapshot) /\ Decide(<< >>, "admitted")
  BY DEF AdmitActive
<1>2. state[p] = "active" /\ Bounded(Holders(factors))
  BY <1>1, AtAdmission DEF AdmitActive
<1>3. /\ factors' \in Factors /\ OnlyPrivileges(factors, factors') /\ Ending(factors')
      /\ Bounded(Holders(factors'))
  BY <1>1, <1>2, ReconciledBounded
<1>4. Applicable(<< >>) /\ \A K : Pending(<< >>, K) = {}
  BY NothingAsked
<1>5. Bounded(FutureHolders(factors', << >>))
  BY <1>3, <1>4 DEF FutureHolders
<1> HIDE DEF p
<1> QED BY <1>1, <1>2, <1>3, <1>4, <1>5, DecideKeeps DEF p

\* What the decisions about a candidate that is not active start from.
LEMMA AtConsidering ==
  ASSUME TTLInv, Considering(CandidateProgram)
  PROVE  /\ phase = "admission"
         /\ CandidateProgram \in programs /\ CandidateProgram \in ProgramId
         /\ status[CandidateProgram] = "reasoning" /\ state[CandidateProgram] = "paused"
         /\ snapshot.state = state /\ snapshot.status = status
         /\ factors' \in Factors /\ OnlyPrivileges(factors, factors') /\ Ending(factors')
         /\ Bounded(Holders(factors')) /\ IsFiniteSet(programs)
         /\ \A q \in Holders(factors') : factors'[q] = factors[q] /\ RetainsPrivilege(factors, snapshot, q)
<1>1. phase = "admission" /\ factors' \in Reconciled(factors, snapshot)
  BY DEF Considering
<1>2. /\ CandidateProgram \in programs /\ CandidateProgram \in ProgramId
      /\ status[CandidateProgram] = "reasoning" /\ state[CandidateProgram] \in {"active", "paused"}
      /\ snapshot.state = state /\ snapshot.status = status
      /\ Bounded(Holders(factors)) /\ IsFiniteSet(programs)
  BY <1>1, AtAdmission
<1>3. state[CandidateProgram] = "paused"
  BY <1>2 DEF Considering
<1> QED BY <1>1, <1>2, <1>3, ReconciledBounded

\* A candidate that alone waits is resumed by its arrival.
LEMMA AdmitResumedKeeps ==
  ASSUME TTLInv, AdmitResumed
  PROVE  TTLInv'
<1> DEFINE p == CandidateProgram
           asked == <<Ask("resume", p, "arrival")>>
<1>1. Considering(CandidateProgram) /\ Decide(asked, "admitted")
  BY DEF AdmitResumed
<1>2. /\ phase = "admission" /\ p \in programs /\ p \in ProgramId
      /\ status[p] = "reasoning" /\ state[p] = "paused"
      /\ factors' \in Factors /\ OnlyPrivileges(factors, factors') /\ Ending(factors')
      /\ Bounded(Holders(factors'))
  BY <1>1, AtConsidering
<1>3. Valid(Ask("resume", p, "arrival")) /\ "resume" \in Kinds /\ "arrival" \in Reasons
  BY <1>2 DEF Valid, Ask, Kinds, MoveKinds, Reasons
<1> HIDE DEF p
<1>4. Applicable(asked) /\ \A K : Pending(asked, K) = IF "resume" \in K THEN {p} ELSE {}
  BY <1>2, <1>3, OneMove, Zenon
<1> HIDE DEF asked
<1>5. Bounded(FutureHolders(factors', asked))
  BY <1>2, <1>4 DEF FutureHolders
<1> QED BY <1>1, <1>2, <1>4, <1>5, DecideKeeps DEF p

\* A queued candidate is about to get its force deadline.
LEMMA QueueCandidateKeeps ==
  ASSUME TTLInv, QueueCandidate
  PROVE  TTLInv'
<1> DEFINE p == CandidateProgram
           asked == <<Ask("queue", p, "queued")>>
<1>1. Considering(CandidateProgram) /\ Decide(asked, "queued")
  BY DEF QueueCandidate
<1>2. /\ phase = "admission" /\ p \in programs /\ p \in ProgramId
      /\ status[p] = "reasoning" /\ state[p] = "paused"
      /\ factors' \in Factors /\ OnlyPrivileges(factors, factors') /\ Ending(factors')
      /\ Bounded(Holders(factors'))
  BY <1>1, AtConsidering
<1>3. Valid(Ask("queue", p, "queued")) /\ "queue" \in Kinds /\ "queued" \in Reasons
  BY <1>2 DEF Valid, Ask, Kinds, MoveKinds, Reasons
<1> HIDE DEF p
<1>4. Applicable(asked) /\ \A K : Pending(asked, K) = IF "queue" \in K THEN {p} ELSE {}
  BY <1>2, <1>3, OneMove, Zenon
<1> HIDE DEF asked
<1>5. Bounded(FutureHolders(factors', asked))
  BY <1>2, <1>4 DEF FutureHolders
<1>6. Pending(asked, MoveKinds \ {"queue"}) = {} /\ p \in Pending(asked, {"queue"})
  BY <1>4
<1> QED BY <1>1, <1>2, <1>4, <1>5, <1>6, DecideKeeps DEF p

\* A privilege handed from a Program that is paused to one that is resumed.
LEMMA HandoffAsked ==
  ASSUME NEW s \in ProgramId, NEW p \in ProgramId, s # p, NEW reason \in Reasons,
         s \in programs, state[s] = "active", status[s] = "acting",
         p \in programs, state[p] = "paused", status[p] = "reasoning"
  PROVE  LET asked == <<Ask("pause", s, reason), Ask("demote", s, reason),
                        Ask("resume", p, reason), Ask("promote", p, reason)>>
         IN  /\ Applicable(asked)
             /\ Pending(asked, {"demote"}) = {s} /\ Pending(asked, {"promote"}) = {p}
             /\ p \in Pending(asked, {"resume"})
<1> DEFINE a == Ask("pause", s, reason)
           b == Ask("demote", s, reason)
           c == Ask("resume", p, reason)
           d == Ask("promote", p, reason)
           asked == <<a, b, c, d>>
<1>1. /\ a \in RequestRecord /\ a.kind = "pause" /\ a.program = s
      /\ b \in RequestRecord /\ b.kind = "demote" /\ b.program = s
      /\ c \in RequestRecord /\ c.kind = "resume" /\ c.program = p
      /\ d \in RequestRecord /\ d.kind = "promote" /\ d.program = p
  BY DEF Ask, RequestRecord, Kinds, MoveKinds
<1> HIDE DEF a, b, c, d
<1>2. /\ asked \in Seq(RequestRecord) /\ DOMAIN asked = 1..4
      /\ asked[1] = a /\ asked[2] = b /\ asked[3] = c /\ asked[4] = d
  BY <1>1
<1>3. 1..4 = {1, 2, 3, 4}
  OBVIOUS
<1> HIDE DEF asked
<1>4. Valid(a) /\ Valid(b) /\ Valid(c) /\ Valid(d)
  BY <1>1 DEF Valid
<1>5. AllValid(asked)
  BY <1>2, <1>3, <1>4 DEF AllValid
<1>6. NoClash(asked)
  <2>1. ~Clash(a, b) /\ ~Clash(b, a) /\ ~Clash(c, d) /\ ~Clash(d, c)
    BY <1>1 DEF Clash, MoveKinds
  <2>2. /\ ~Clash(a, c) /\ ~Clash(a, d) /\ ~Clash(b, c) /\ ~Clash(b, d)
        /\ ~Clash(c, a) /\ ~Clash(d, a) /\ ~Clash(c, b) /\ ~Clash(d, b)
    BY <1>1 DEF Clash
  <2> QED BY <1>2, <1>3, <2>1, <2>2 DEF NoClash
<1>7. /\ Pending(asked, {"demote"}) = {s} /\ Pending(asked, {"promote"}) = {p}
      /\ p \in Pending(asked, {"resume"})
  <2>1. \A i \in DOMAIN asked : asked[i].kind \in {"demote"} <=> i = 2
    BY <1>1, <1>2, <1>3
  <2>2. \A i \in DOMAIN asked : asked[i].kind \in {"promote"} <=> i = 4
    BY <1>1, <1>2, <1>3
  <2>3. Pending(asked, {"demote"}) = {s}
    BY <1>1, <1>2, <1>3, <2>1 DEF Pending
  <2>4. Pending(asked, {"promote"}) = {p}
    BY <1>1, <1>2, <1>3, <2>2 DEF Pending
  <2>5. p \in Pending(asked, {"resume"})
    BY <1>1, <1>2, <1>3 DEF Pending
  <2> QED BY <2>3, <2>4, <2>5
<1> QED BY <1>2, <1>5, <1>6, <1>7 DEF Applicable, asked, a, b, c, d

\* _admit_by_privilege_handoff(): the privilege moves within its task.
LEMMA AdmitByHandoffKeeps ==
  ASSUME TTLInv, AdmitByHandoff
  PROVE  TTLInv'
<1> DEFINE p == CandidateProgram
<1>1. Considering(CandidateProgram)
  BY DEF AdmitByHandoff
<1>2. /\ phase = "admission" /\ p \in programs /\ p \in ProgramId
      /\ status[p] = "reasoning" /\ state[p] = "paused"
      /\ snapshot.state = state /\ snapshot.status = status
      /\ factors' \in Factors /\ OnlyPrivileges(factors, factors') /\ Ending(factors')
      /\ Bounded(Holders(factors')) /\ IsFiniteSet(programs)
  BY <1>1, AtConsidering
<1>3. PICK s \in RelationshipSources(factors', CandidateProgram) :
        Decide(<<Ask("pause", s, "handoff"), Ask("demote", s, "handoff"),
                 Ask("resume", p, "handoff"), Ask("promote", p, "handoff")>>, "admitted")
  BY DEF AdmitByHandoff
<1>4. /\ s \in ActivePrograms(snapshot) /\ s # p /\ task_id[s] = task_id[p]
      /\ snapshot.status[s] = "acting" /\ factors'[s].privileged
  BY DEF RelationshipSources
<1> HIDE DEF p
<1>5. /\ s \in ProgramId /\ state[s] = "active" /\ status[s] = "acting" /\ s \in Holders(factors')
  BY <1>2, <1>4 DEF ActivePrograms, Holders
<1>6. s \in programs
  BY <1>5, LiveProgram
<1> DEFINE asked == <<Ask("pause", s, "handoff"), Ask("demote", s, "handoff"),
                      Ask("resume", p, "handoff"), Ask("promote", p, "handoff")>>
<1>7. "handoff" \in Reasons
  BY DEF Reasons
<1>8. /\ Applicable(asked)
      /\ Pending(asked, {"demote"}) = {s} /\ Pending(asked, {"promote"}) = {p}
      /\ p \in Pending(asked, {"resume"})
  BY <1>2, <1>4, <1>5, <1>6, <1>7, HandoffAsked, Zenon
<1>9. Decide(asked, "admitted")
  BY <1>3
<1> HIDE DEF asked
<1>10. Bounded((Holders(factors') \ {s}) \cup {p})
  BY <1>2, <1>4, <1>5, BoundedHandoff
<1>11. Bounded(FutureHolders(factors', asked))
  BY <1>8, <1>10 DEF FutureHolders
<1> QED BY <1>2, <1>8, <1>9, <1>11, DecideKeeps DEF p

\* A candidate is promoted only into a free slot of another task.
LEMMA AdmitDirectKeeps ==
  ASSUME TTLInv, AdmitDirect
  PROVE  TTLInv'
<1> DEFINE p == CandidateProgram
           resume == <<Ask("resume", p, "direct")>>
           promote == <<Ask("promote", p, "direct")>>
<1>1. /\ Considering(CandidateProgram) /\ snapshot.waiting = {}
      /\ Decide(resume \o (IF CanPromote(factors', snapshot, p) THEN promote ELSE << >>), "admitted")
  BY DEF AdmitDirect
<1>2. /\ phase = "admission" /\ p \in programs /\ p \in ProgramId
      /\ status[p] = "reasoning" /\ state[p] = "paused"
      /\ snapshot.state = state /\ snapshot.status = status
      /\ factors' \in Factors /\ OnlyPrivileges(factors, factors') /\ Ending(factors')
      /\ Bounded(Holders(factors')) /\ IsFiniteSet(programs)
      /\ \A q \in Holders(factors') : factors'[q] = factors[q] /\ RetainsPrivilege(factors, snapshot, q)
  BY <1>1, AtConsidering
<1>3. /\ Valid(Ask("resume", p, "direct")) /\ "resume" \in Kinds /\ "direct" \in Reasons
      /\ Valid(Ask("promote", p, "direct")) /\ "promote" \in Kinds
  BY <1>2 DEF Valid, Ask, Kinds, MoveKinds, Reasons
<1>4. {q \in ActivePrograms(snapshot) : factors'[q].privileged} = Holders(factors')
  <2>1. \A q \in Holders(factors') : state[q] = "active"
    BY <1>1, <1>2 DEF TTLInv, AdmissionFacts, RetainsPrivilege, Holders
  <2> QED BY <1>2, <2>1 DEF Holders, ActivePrograms
<1> HIDE DEF p
<1>5. Applicable(resume) /\ \A K : Pending(resume, K) = IF "resume" \in K THEN {p} ELSE {}
  BY <1>2, <1>3, OneMove, Zenon
<1>6. Applicable(promote) /\ \A K : Pending(promote, K) = IF "promote" \in K THEN {p} ELSE {}
  BY <1>2, <1>3, OneMove, Zenon
<1>7. CASE CanPromote(factors', snapshot, p)
  <2> DEFINE asked == resume \o promote
  <2>0. Decide(asked, "admitted")
    BY <1>1, <1>7
  <2> HIDE DEF resume, promote
  <2>1. /\ Pending(resume, MoveKinds) \cap Pending(promote, MoveKinds) = {}
        /\ Pending(resume, {"release"}) = {} /\ Pending(promote, {"release"}) = {}
    BY <1>5, <1>6 DEF MoveKinds
  <2>2. Applicable(asked) /\ \A K : Pending(asked, K) = Pending(resume, K) \cup Pending(promote, K)
    BY <1>5, <1>6, <2>1, BothAsked
  <2>3. /\ Pending(asked, {"promote"}) = {p} /\ Pending(asked, {"demote"}) = {}
        /\ p \in Pending(asked, {"resume"})
    BY <1>5, <1>6, <2>2
  <2>4. /\ task_id[p] # None /\ Cardinality(Holders(factors')) < PrivilegedLimit
        /\ \A q \in Holders(factors') : q # p => task_id[q] # task_id[p]
    BY <1>4, <1>7 DEF CanPromote
  <2>5. Bounded(Holders(factors') \cup {p})
    BY <1>2, <2>4, OneMoreHolder
  <2> HIDE DEF asked
  <2>6. Bounded(FutureHolders(factors', asked))
    BY <2>3, <2>5 DEF FutureHolders
  <2> QED BY <1>2, <2>0, <2>2, <2>3, <2>6, DecideKeeps DEF p
<1>8. CASE ~CanPromote(factors', snapshot, p)
  <2>0. Decide(resume, "admitted")
    <3>1. resume \in Seq(RequestRecord)
      BY <1>5 DEF Applicable
    <3>2. resume \o << >> = resume
      BY <3>1
    <3> QED BY <1>1, <1>8, <3>2
  <2> HIDE DEF resume
  <2>1. Bounded(FutureHolders(factors', resume))
    BY <1>2, <1>5 DEF FutureHolders
  <2> QED BY <1>2, <1>5, <2>0, <2>1, DecideKeeps DEF p
<1> QED BY <1>7, <1>8

\* handle_request_completion()
LEMMA YieldCompletedKeeps ==
  ASSUME TTLInv, NEW p \in ProgramId, YieldCompleted(p)
  PROVE  TTLInv'
<1> DEFINE asked == <<Ask("pause", p, "max_round")>>
<1>1. /\ phase = "completion" /\ phase' = "yielding" /\ requests' = asked
      /\ UNCHANGED <<schedulerVars, strategyVars, snapshot, advanced, todo, protected, outcome>>
      /\ snapshot.state[p] = "active" /\ snapshot.status[p] = "acting"
  BY DEF YieldCompleted
<1>2. state[p] = "active" /\ status[p] = "acting"
  BY <1>1 DEF TTLInv, CompletionFacts
<1>3. p \in programs
  BY <1>2, LiveProgram
<1>4. Valid(Ask("pause", p, "max_round")) /\ "pause" \in Kinds /\ "max_round" \in Reasons
  BY <1>2, <1>3 DEF Valid, Ask, Kinds, MoveKinds, Reasons
<1>5. Applicable(asked) /\ \A K : Pending(asked, K) = IF "pause" \in K THEN {p} ELSE {}
  BY <1>4, OneMove, Zenon
<1> HIDE DEF asked
<1>6. /\ hook.kind = "completion" /\ outcome = "none" /\ requests = << >>
      /\ UNCHANGED <<factors, continuity_enabled, next_check, next_lightweight, hook>>
  BY <1>1 DEF TTLInv, HookPhase, strategyVars, schedulerVars
<1>7. FutureHolders(factors, requests) = Holders(factors) /\ FutureHolders(factors', requests') = Holders(factors)
  BY <1>1, <1>5, <1>6, NothingAsked DEF FutureHolders
<1>8. HookPhase' /\ AdmissionFacts' /\ OutcomeFacts' /\ CompletionFacts' /\ CycleFacts'
  <2>0. Pending(asked, {"promote", "demote"}) = {}
    BY <1>5
  <2>1. Pending(requests, {"promote", "demote"})' = {}
    BY <1>1, <2>0 DEF Pending
  <2> QED BY <1>1, <1>6, <2>1
          DEF HookPhase, AdmissionFacts, OutcomeFacts, CompletionFacts, CycleFacts
<1>9. /\ factors' \in Factors /\ Ending(factors') /\ Bounded(FutureHolders(factors', requests'))
      /\ snapshot' \in SnapshotRecord /\ advanced' \in SnapshotRecord
      /\ todo' \subseteq ProgramId /\ protected' \subseteq ProgramId
      /\ OnlyPrivileges(factors, factors') /\ SameTimes(factors, factors')
  BY <1>1, <1>6, <1>7 DEF TTLInv, HookTypes, TTLTypeOK, Factors, PrivilegeInv, OnlyPrivileges,
     SameTimes, SameClocks
<1>10. phase' \in Phases /\ outcome' \in {"none", "admitted", "queued"} /\ Applicable(requests')
  BY <1>1, <1>5, <1>6 DEF Phases
<1> QED BY <1>1, <1>6, <1>8, <1>9, <1>10, DecisionKeeps
-----------------------------------------------------------------------------
(***************************************************************************)
(* The decisions of schedule_cycle().                                      *)
(***************************************************************************)
LEMMA CycleDecisionKeeps ==
  ASSUME TTLInv, hook.kind = "cycle",
         UNCHANGED <<schedulerVars, continuity_enabled, next_check, next_lightweight, outcome>>,
         factors' \in Factors, SameTimes(factors, factors'), Ending(factors'),
         phase' \in {"resume", "repair", "check", "checked"},
         phase' \notin {"check", "checked"} =>
           phase \notin {"check", "checked"} /\ OnlyPrivileges(factors, factors'),
         snapshot' \in SnapshotRecord, advanced' \in SnapshotRecord,
         todo' \subseteq ProgramId, protected' \subseteq ProgramId,
         Applicable(requests'), Bounded(FutureHolders(factors', requests')), CycleFacts'
  PROVE  TTLInv'
<1>1. hook' = hook
  BY DEF schedulerVars
<1>2. outcome = "none" /\ outcome' = "none"
  BY DEF TTLInv, HookPhase
<1>3. HookPhase' /\ AdmissionFacts' /\ OutcomeFacts' /\ CompletionFacts'
  BY <1>1, <1>2 DEF HookPhase, AdmissionFacts, OutcomeFacts, CompletionFacts
<1>4. phase' \in Phases /\ outcome' \in {"none", "admitted", "queued"}
      /\ phase' \notin {"none", "completion", "yielding"}
  BY <1>2 DEF Phases
<1> QED BY <1>3, <1>4, DecisionKeeps

\* What every decision of a cycle starts from.
LEMMA AtCycle ==
  ASSUME TTLInv, phase \in {"resume", "repair", "check", "checked"}, requests = << >>
  PROVE  /\ hook.kind = "cycle"
         /\ advanced.state = state /\ advanced.status = status
         /\ advanced.marked = marked_for_pause
         /\ advanced.waiting = {p \in ProgramId : state[p] = "paused"}
         /\ snapshot.status = status
         /\ factors \in Factors /\ Ending(factors) /\ IsFiniteSet(programs)
         /\ FutureHolders(factors, requests) = Holders(factors) /\ Bounded(Holders(factors))
         /\ snapshot \in SnapshotRecord /\ advanced \in SnapshotRecord
         /\ todo \subseteq ProgramId /\ protected \subseteq ProgramId
         /\ \A K : Pending(requests, K) = {}
<1>1. hook.kind = "cycle" /\ \A K : Pending(requests, K) = {}
  BY NothingAsked DEF TTLInv, HookPhase
<1>2. FutureHolders(factors, requests) = Holders(factors)
  BY <1>1 DEF FutureHolders
<1>3. Bounded(Holders(factors)) /\ Ending(factors) /\ IsFiniteSet(programs)
  BY <1>2 DEF TTLInv, PrivilegeInv
<1>4. /\ advanced.state = state /\ advanced.status = status
      /\ advanced.marked = marked_for_pause
      /\ advanced.waiting = {p \in ProgramId : state[p] = "paused"}
      /\ snapshot.status = status
  BY <1>1 DEF TTLInv, CycleFacts, AdvancedSnapshotExact
<1>5. /\ snapshot \in SnapshotRecord /\ advanced \in SnapshotRecord
      /\ todo \subseteq ProgramId /\ protected \subseteq ProgramId /\ factors \in Factors
  BY DEF TTLInv, HookTypes, TTLTypeOK, Factors
<1> QED BY <1>1, <1>2, <1>3, <1>4, <1>5

\* An iteration of a loop of the cycle that moves no privilege itself.
LEMMA VisitKeeps ==
  ASSUME TTLInv, NEW p, NEW asked, phase \in {"resume", "repair", "check"}, requests = << >>,
         Visit(p, asked), protected' \subseteq ProgramId,
         phase # "check" => factors' = factors,
         factors' \in Factors, SameTimes(factors, factors'), Ending(factors'),
         Applicable(asked), Bounded(FutureHolders(factors', asked)), CycleFacts'
  PROVE  TTLInv'
<1>1. /\ requests' = asked /\ todo' = todo \ {p}
      /\ UNCHANGED <<schedulerVars, continuity_enabled, next_check, next_lightweight,
                     phase, snapshot, advanced, outcome>>
  BY DEF Visit
<1>2. /\ hook.kind = "cycle" /\ todo' \subseteq ProgramId
      /\ snapshot' \in SnapshotRecord /\ advanced' \in SnapshotRecord
  BY <1>1, AtCycle
<1>3. phase' \notin {"check", "checked"} =>
        phase \notin {"check", "checked"} /\ OnlyPrivileges(factors, factors')
  BY <1>1 DEF OnlyPrivileges, SameClocks
<1>4. Applicable(requests') /\ Bounded(FutureHolders(factors', requests'))
  BY <1>1
<1> QED BY <1>1, <1>2, <1>3, <1>4, CycleDecisionKeeps

\* Factors that are left alone keep their types and clocks.
LEMMA SameFactors ==
  ASSUME TTLInv, factors' = factors
  PROVE  factors' \in Factors /\ SameTimes(factors, factors') /\ Ending(factors')
BY DEF TTLInv, HookTypes, TTLTypeOK, Factors, SameTimes, PrivilegeInv

\* An iteration of schedule_resume().
LEMMA ResumeVisitKeeps ==
  ASSUME TTLInv, NEW p, NEW asked, phase = "resume", requests = << >>, p \in todo,
         Visit(p, asked), UNCHANGED <<factors, protected>>, Applicable(asked),
         Pending(asked, {"promote", "demote", "mark", "queue", "release"}) = {},
         Pending(asked, {"promote"}) = {}, Pending(asked, {"demote"}) = {},
         Pending(asked, {"resume"}) \subseteq {p},
         TransitionsEnabled /\ factors[p].privileged => p \in Pending(asked, {"resume"})
  PROVE  TTLInv'
<1>1. /\ requests' = asked /\ todo' = todo \ {p}
      /\ UNCHANGED <<schedulerVars, continuity_enabled, phase, snapshot, advanced>>
  BY DEF Visit
<1>2. /\ hook' = hook /\ state' = state /\ status' = status /\ marked_for_pause' = marked_for_pause
      /\ TransitionsEnabled' = TransitionsEnabled
  BY <1>1 DEF schedulerVars, recordVars, TransitionsEnabled
<1>3. /\ hook.kind = "cycle" /\ protected' \subseteq ProgramId
      /\ Bounded(Holders(factors)) /\ \A K : Pending(requests, K) = {}
  BY AtCycle
<1>4. FutureHolders(factors', asked) = Holders(factors)
  BY DEF FutureHolders
<1>5. CycleFacts'
  <2>1. AdvancedSnapshotExact' /\ (snapshot.status = status)'
    BY <1>1, <1>2, <1>3 DEF TTLInv, CycleFacts, AdvancedSnapshotExact
  <2>2. /\ \A q \in todo : state[q] = "paused" /\ status[q] = "reasoning"
        /\ TransitionsEnabled =>
             \A q \in ProgramId :
               state[q] = "paused" /\ status[q] = "reasoning" /\ factors[q].privileged => q \in todo
    BY <1>3 DEF TTLInv, CycleFacts
  <2>3. Pending(requests, {"promote", "demote", "mark", "queue", "release"})' = {}
    BY <1>1 DEF Pending
  <2>4. Pending(requests, {"resume"})' = Pending(asked, {"resume"})
    BY <1>1 DEF Pending
  <2>5. phase' = "resume"
    BY <1>1
  <2> QED BY <1>1, <1>2, <2>1, <2>2, <2>3, <2>4, <2>5 DEF CycleFacts
<1>6. Bounded(FutureHolders(factors', asked))
  BY <1>3, <1>4
<1> QED BY <1>3, <1>5, <1>6, SameFactors, VisitKeeps

\* The waiters schedule_resume() has still to visit are still waiting.
LEMMA WaiterInTodo ==
  ASSUME TTLInv, phase = "resume", requests = << >>, NEW p \in todo
  PROVE  p \in ProgramId /\ p \in programs /\ state[p] = "paused" /\ status[p] = "reasoning"
<1>1. hook.kind = "cycle" /\ todo \subseteq ProgramId
  BY AtCycle
<1>2. state[p] = "paused" /\ status[p] = "reasoning"
  BY <1>1 DEF TTLInv, CycleFacts
<1> QED BY <1>1, <1>2, LiveProgram

\* Such a waiter may be resumed.
LEMMA WaiterResumed ==
  ASSUME TTLInv, phase = "resume", requests = << >>, NEW p \in todo
  PROVE  LET asked == <<Ask("resume", p, "resume")>>
         IN  /\ Applicable(asked)
             /\ \A K : Pending(asked, K) = IF "resume" \in K THEN {p} ELSE {}
<1>1. p \in ProgramId /\ p \in programs /\ state[p] = "paused" /\ status[p] = "reasoning"
  BY WaiterInTodo
<1>2. Valid(Ask("resume", p, "resume")) /\ "resume" \in Kinds /\ "resume" \in Reasons
  BY <1>1 DEF Valid, Ask, Kinds, MoveKinds, Reasons
<1> QED BY <1>1, <1>2, OneMove, Zenon

\* A forced or privileged waiter is resumed.
LEMMA ResumeAtOnceKeeps ==
  ASSUME TTLInv, NEW p \in ProgramId, ResumeAtOnce(p)
  PROVE  TTLInv'
<1> DEFINE asked == <<Ask("resume", p, "resume")>>
<1>1. /\ phase = "resume" /\ requests = << >> /\ p \in todo
      /\ Visit(p, asked) /\ UNCHANGED <<factors, protected>>
  BY DEF ResumeAtOnce, Deciding, FirstWaiter
<1>2. Applicable(asked) /\ \A K : Pending(asked, K) = IF "resume" \in K THEN {p} ELSE {}
  BY <1>1, WaiterResumed
<1> HIDE DEF asked
<1>3. /\ Pending(asked, {"promote", "demote", "mark", "queue", "release"}) = {}
      /\ Pending(asked, {"promote"}) = {} /\ Pending(asked, {"demote"}) = {}
      /\ Pending(asked, {"resume"}) = {p}
  BY <1>2
<1> QED BY <1>1, <1>2, <1>3, ResumeVisitKeeps

\* An ordinary waiter may have idle Programs paused before it is resumed.
LEMMA ResumeOrdinaryKeeps ==
  ASSUME TTLInv, NEW p \in ProgramId, ResumeOrdinary(p)
  PROVE  TTLInv'
<1> DEFINE resume == <<Ask("resume", p, "resume")>>
<1>1. /\ phase = "resume" /\ requests = << >> /\ p \in todo /\ UNCHANGED <<factors, protected>>
      /\ ResumeTier(p) = 0
  BY DEF ResumeOrdinary, Deciding, FirstWaiter
<1>2. ~factors[p].privileged
  BY <1>1 DEF ResumeTier
<1>3. Applicable(resume) /\ \A K : Pending(resume, K) = IF "resume" \in K THEN {p} ELSE {}
  BY <1>1, WaiterResumed
<1>4. p \in programs /\ state[p] = "paused"
  BY <1>1, WaiterInTodo
<1>5. Applicable(<< >>) /\ \A K : Pending(<< >>, K) = {}
  BY NothingAsked
<1>6. CASE Visit(p, << >>)
  BY <1>1, <1>2, <1>5, <1>6, ResumeVisitKeeps
<1>7. CASE Visit(p, resume)
  <2> HIDE DEF resume
  <2> QED BY <1>1, <1>2, <1>3, <1>7, ResumeVisitKeeps
<1>8. ASSUME NEW V \in {S \in SUBSET Victims : LayeredFit(S)}, NEW seq \in SetToSeqs(V),
             NEW fits \in BOOLEAN,
             Visit(p, AskAll("pause", seq, "reclaim") \o (IF fits THEN resume ELSE << >>))
      PROVE  TTLInv'
  <2> DEFINE pauses == AskAll("pause", seq, "reclaim")
             rest == IF fits THEN resume ELSE << >>
             asked == pauses \o rest
  <2>1. /\ \A v \in V : v \in ProgramId /\ state[v] = "active" /\ status[v] = "acting"
        /\ IsFiniteSet(programs)
    <3>1. advanced.state = state /\ snapshot.status = status /\ IsFiniteSet(programs)
      BY <1>1, AtCycle
    <3> QED BY <3>1 DEF Victims, ActivePrograms
  <2>2. \A v \in V : v \in programs
    BY <2>1, LiveProgram
  <2>3. IsFiniteSet(V) /\ V \in SUBSET ProgramId
    BY <2>1, <2>2, FS_Subset
  <2>4. /\ \A v \in V : Valid(Ask("pause", v, "reclaim"))
        /\ "pause" \in MoveKinds /\ "reclaim" \in Reasons
    BY <2>1, <2>2 DEF Valid, Ask, MoveKinds, Reasons
  <2>5. /\ Applicable(pauses)
        /\ \A K : Pending(pauses, K) \subseteq IF "pause" \in K THEN V ELSE {}
    <3> HIDE DEF pauses, rest, asked, resume
    <3>1. pauses = AskAll("pause", seq, "reclaim")
      BY DEF pauses
    <3>2. seq \in SetToSeqs(V)
      OBVIOUS
    <3> QED BY <2>3, <2>4, <3>1, <3>2, AllAsked
  <2>6. Applicable(rest) /\ \A K : Pending(rest, K) \subseteq IF "resume" \in K THEN {p} ELSE {}
    BY <1>3, <1>5
  <2>7. Visit(p, asked)
    BY <1>8
  <2> HIDE DEF pauses, rest, resume
  <2>8. p \notin V
    BY <1>4, <2>1
  <2>9. /\ Pending(pauses, MoveKinds) \cap Pending(rest, MoveKinds) = {}
        /\ Pending(pauses, {"release"}) = {} /\ Pending(rest, {"release"}) = {}
    <3>1. Pending(pauses, MoveKinds) \subseteq V /\ Pending(rest, MoveKinds) \subseteq {p}
      BY <2>5, <2>6 DEF MoveKinds
    <3> QED BY <2>5, <2>6, <2>8, <3>1
  <2>10. /\ Applicable(asked)
         /\ \A K : Pending(asked, K) = Pending(pauses, K) \cup Pending(rest, K)
    BY <2>5, <2>6, <2>9, BothAsked
  <2> HIDE DEF asked
  <2>11. /\ Pending(asked, {"promote", "demote", "mark", "queue", "release"}) = {}
         /\ Pending(asked, {"promote"}) = {} /\ Pending(asked, {"demote"}) = {}
         /\ Pending(asked, {"resume"}) \subseteq {p}
    BY <2>5, <2>6, <2>10
  <2> QED BY <1>1, <1>2, <2>7, <2>10, <2>11, ResumeVisitKeeps
<1> QED BY <1>6, <1>7, <1>8 DEF ResumeOrdinary

\* repair_capacity() starts on the advanced snapshot, with the privileges of
\* active Programs only.
LEMMA BeginRepairKeeps ==
  ASSUME TTLInv, BeginRepair
  PROVE  TTLInv'
<1>1. /\ phase = "resume" /\ requests = << >> /\ todo = {} /\ phase' = "repair" /\ snapshot' = advanced
      /\ UNCHANGED <<schedulerVars, continuity_enabled, next_check, next_lightweight,
                     advanced, protected, requests, outcome>>
  BY DEF BeginRepair, Deciding
<1>2. /\ hook.kind = "cycle"
      /\ advanced.state = state /\ advanced.status = status /\ advanced.marked = marked_for_pause
      /\ advanced.waiting = {p \in ProgramId : state[p] = "paused"}
      /\ factors \in Factors /\ Ending(factors) /\ IsFiniteSet(programs) /\ Bounded(Holders(factors))
      /\ advanced \in SnapshotRecord /\ protected \subseteq ProgramId
      /\ \A K : Pending(requests, K) = {}
  BY <1>1, AtCycle
<1>3. /\ hook' = hook /\ state' = state /\ status' = status /\ marked_for_pause' = marked_for_pause
  BY <1>1 DEF schedulerVars, recordVars
<1>4. ASSUME TransitionsEnabled
      PROVE  /\ factors' \in Factors /\ OnlyPrivileges(factors, factors') /\ Ending(factors')
             /\ Bounded(Holders(factors'))
             /\ todo' \subseteq ProgramId
             /\ \A p \in todo' : state[p] = "active" /\ ~marked_for_pause[p]
  <2>1. PICK fs \in Reconciled(factors, advanced) : factors' \in Promoted(fs, advanced)
    BY <1>4 DEF BeginRepair
  <2>2. /\ fs \in Factors /\ OnlyPrivileges(factors, fs) /\ Ending(fs) /\ Bounded(Holders(fs))
        /\ \A p \in Holders(fs) : fs[p] = factors[p] /\ RetainsPrivilege(factors, advanced, p)
        /\ Holders(fs) \subseteq Holders(factors)
    BY <1>2, <2>1, ReconciledBounded
  <2>3. Holders(fs) \subseteq ActivePrograms(advanced)
    <3>1. \A p \in ProgramId : state[p] = "paused" /\ status[p] = "reasoning" => ~factors[p].privileged
      BY <1>1, <1>2, <1>4 DEF TTLInv, CycleFacts
    <3> QED BY <1>2, <2>2, <3>1 DEF Holders, RetainsPrivilege, ActivePrograms
  <2>4. ActivePrograms(advanced) \subseteq programs
    BY <1>2, LiveProgram DEF ActivePrograms
  <2>5. IsFiniteSet(ActivePrograms(advanced))
    BY <1>2, <2>4, FS_Subset
  <2>6. /\ factors' \in Factors /\ OnlyPrivileges(fs, factors') /\ Ending(factors')
        /\ Holders(factors') \subseteq ActivePrograms(advanced)
        /\ Cardinality(Holders(factors')) <= PrivilegedLimit
        /\ \A p, q \in Holders(factors') : p # q => task_id[p] # task_id[q]
        /\ \A p \in Holders(factors') : task_id[p] # None
    BY <2>1, <2>2, <2>3, <2>5, PromotedFacts DEF Bounded
  <2>7. Bounded(Holders(factors'))
    BY <2>4, <2>6 DEF Bounded
  <2>8. OnlyPrivileges(factors, factors')
    BY <2>2, <2>6 DEF OnlyPrivileges, SameClocks
  <2>9. todo' = {p \in ActivePrograms(advanced) : ~advanced.marked[p]}
    BY <1>4 DEF BeginRepair
  <2> QED BY <1>2, <2>6, <2>7, <2>8, <2>9 DEF ActivePrograms
<1>5. ASSUME ~TransitionsEnabled
      PROVE  /\ factors' \in Factors /\ OnlyPrivileges(factors, factors') /\ Ending(factors')
             /\ Bounded(Holders(factors'))
             /\ todo' = {}
  <2>1. UNCHANGED <<factors, todo>>
    BY <1>5 DEF BeginRepair
  <2> QED BY <1>1, <1>2, <2>1 DEF OnlyPrivileges, SameClocks
<1>6. /\ factors' \in Factors /\ OnlyPrivileges(factors, factors') /\ Ending(factors')
      /\ Bounded(Holders(factors')) /\ todo' \subseteq ProgramId
      /\ \A p \in todo' : state[p] = "active" /\ ~marked_for_pause[p]
  BY <1>4, <1>5
<1>7. Applicable(requests') /\ \A K : Pending(requests', K) = {}
  BY <1>1, NothingAsked
<1>8. Bounded(FutureHolders(factors', requests'))
  BY <1>6, <1>7 DEF FutureHolders
<1>9. CycleFacts'
  <2>1. AdvancedSnapshotExact' /\ (snapshot.status = status)'
    BY <1>1, <1>2, <1>3 DEF AdvancedSnapshotExact
  <2>2. \A p \in todo' : state'[p] = "active" /\ ~marked_for_pause'[p]
    BY <1>3, <1>6
  <2>3. \A K : Pending(requests, K)' = {}
    BY <1>7 DEF Pending
  <2> QED BY <1>1, <2>1, <2>2, <2>3 DEF CycleFacts
<1> QED BY <1>1, <1>2, <1>6, <1>7, <1>8, <1>9, PrivilegesAreNotTimes, CycleDecisionKeeps

\* One victim: demoted first if it is privileged, then paused or marked.
LEMMA RepairVictimKeeps ==
  ASSUME TTLInv, NEW v \in ProgramId, RepairVictim(v)
  PROVE  TTLInv'
<1> DEFINE demote == IF factors[v].privileged THEN <<Ask("demote", v, "repair")>> ELSE << >>
           kind == IF snapshot.status[v] = "acting" THEN "pause" ELSE "mark"
           move == <<Ask(kind, v, "repair")>>
           asked == demote \o move
<1>1. /\ phase = "repair" /\ requests = << >> /\ v \in todo /\ Visit(v, asked)
      /\ UNCHANGED <<factors, protected>>
  BY DEF RepairVictim, Deciding
<1>2. /\ hook.kind = "cycle" /\ snapshot.status = status /\ protected' \subseteq ProgramId
      /\ Bounded(Holders(factors)) /\ IsFiniteSet(programs) /\ \A K : Pending(requests, K) = {}
  BY <1>1, AtCycle
<1>3. \A p \in todo : state[p] = "active" /\ ~marked_for_pause[p]
  BY <1>1, <1>2 DEF TTLInv, CycleFacts
<1>4. v \in programs /\ state[v] = "active" /\ ~marked_for_pause[v] /\ status[v] \in {"acting", "reasoning"}
  BY <1>1, <1>3, LiveProgram
<1>5. /\ Valid(Ask("demote", v, "repair")) /\ "demote" \in Kinds /\ "repair" \in Reasons
      /\ Valid(Ask(kind, v, "repair")) /\ kind \in Kinds /\ kind \in {"pause", "mark"}
  BY <1>2, <1>4 DEF Valid, Ask, Kinds, MoveKinds, Reasons
<1> HIDE DEF kind
<1>6. /\ Applicable(<<Ask("demote", v, "repair")>>)
      /\ \A K : Pending(<<Ask("demote", v, "repair")>>, K) = IF "demote" \in K THEN {v} ELSE {}
  BY <1>5, OneMove, Zenon
<1>7. Applicable(demote) /\ \A K : Pending(demote, K) \subseteq IF "demote" \in K THEN {v} ELSE {}
  BY <1>6, NothingAsked
<1>8. Applicable(move) /\ \A K : Pending(move, K) = IF kind \in K THEN {v} ELSE {}
  BY <1>5, OneMove, Zenon
<1> HIDE DEF demote, move
<1>9. /\ Pending(demote, MoveKinds) \cap Pending(move, MoveKinds) = {}
      /\ Pending(demote, {"release"}) = {} /\ Pending(move, {"release"}) = {}
  BY <1>5, <1>7, <1>8 DEF MoveKinds
<1>10. Applicable(asked) /\ \A K : Pending(asked, K) = Pending(demote, K) \cup Pending(move, K)
  BY <1>7, <1>8, <1>9, BothAsked
<1> HIDE DEF asked
<1>11. /\ Pending(asked, {"promote", "resume", "queue", "release"}) = {}
       /\ Pending(asked, {"promote"}) = {}
       /\ Pending(asked, {"pause", "mark"}) \subseteq {v}
  BY <1>5, <1>7, <1>8, <1>10
<1>12. FutureHolders(factors', asked) \subseteq Holders(factors)
  BY <1>1, <1>11 DEF FutureHolders
<1>13. Bounded(FutureHolders(factors', asked))
  BY <1>2, <1>12, FewerHolders
<1>14. CycleFacts'
  <2>1. /\ requests' = asked /\ todo' = todo \ {v}
        /\ UNCHANGED <<schedulerVars, continuity_enabled, phase, snapshot, advanced>>
    BY <1>1 DEF Visit
  <2>2. /\ hook' = hook /\ state' = state /\ status' = status /\ marked_for_pause' = marked_for_pause
    BY <2>1 DEF schedulerVars, recordVars
  <2>3. AdvancedSnapshotExact' /\ (snapshot.status = status)'
    BY <1>2, <2>1, <2>2 DEF TTLInv, CycleFacts, AdvancedSnapshotExact
  <2>4. Pending(requests, {"promote", "resume", "queue", "release"})' = {}
    BY <1>11, <2>1 DEF Pending
  <2>5. Pending(requests, {"pause", "mark"})' \subseteq {v}
    BY <1>11, <2>1 DEF Pending
  <2>6. phase' = "repair"
    BY <1>1, <2>1
  <2> QED BY <1>3, <2>1, <2>2, <2>3, <2>4, <2>5, <2>6 DEF CycleFacts
<1> QED BY <1>1, <1>2, <1>10, <1>13, <1>14, SameFactors, VisitKeeps

\* handle_scheduled_check() starts on the advanced snapshot.
LEMMA BeginCheckKeeps ==
  ASSUME TTLInv, BeginCheck
  PROVE  TTLInv'
<1>1. /\ phase = "repair" /\ requests = << >> /\ phase' = "check" /\ snapshot' = advanced
      /\ todo' = Live(advanced) /\ factors' \in Reconciled(factors, advanced)
      /\ UNCHANGED <<schedulerVars, continuity_enabled, next_check, next_lightweight,
                     advanced, protected, requests, outcome>>
  BY DEF BeginCheck, Deciding
<1>2. /\ hook.kind = "cycle"
      /\ advanced.state = state /\ advanced.status = status /\ advanced.marked = marked_for_pause
      /\ advanced.waiting = {p \in ProgramId : state[p] = "paused"}
      /\ Bounded(Holders(factors))
      /\ advanced \in SnapshotRecord /\ protected \subseteq ProgramId
  BY <1>1, AtCycle
<1>3. /\ hook' = hook /\ state' = state /\ status' = status /\ marked_for_pause' = marked_for_pause
      /\ programs' = programs
  BY <1>1 DEF schedulerVars, recordVars, registryVars
<1>4. /\ factors' \in Factors /\ OnlyPrivileges(factors, factors') /\ Ending(factors')
      /\ Bounded(Holders(factors'))
  BY <1>1, <1>2, ReconciledBounded
<1>5. Applicable(requests') /\ \A K : Pending(requests', K) = {}
  BY <1>1, NothingAsked
<1>6. Bounded(FutureHolders(factors', requests'))
  BY <1>4, <1>5 DEF FutureHolders
<1>7. CycleFacts'
  <2>1. AdvancedSnapshotExact' /\ (snapshot.status = status)'
    BY <1>1, <1>2, <1>3 DEF AdvancedSnapshotExact
  <2>2. \A p \in ProgramId : snapshot'.state[p] # "terminated" => p \in programs'
    BY <1>1, <1>2, <1>3, LiveProgram
  <2>3. \A K : Pending(requests, K)' = {}
    BY <1>5 DEF Pending
  <2>4. snapshot'.state = state'
    BY <1>1, <1>2, <1>3
  <2> QED BY <1>1, <2>1, <2>2, <2>3, <2>4 DEF CycleFacts
<1>8. todo' \subseteq ProgramId
  BY <1>1 DEF Live
<1> QED BY <1>1, <1>2, <1>4, <1>5, <1>6, <1>7, <1>8, PrivilegesAreNotTimes, CycleDecisionKeeps

\* What an iteration of handle_scheduled_check() starts from.
LEMMA AtCheck ==
  ASSUME TTLInv, phase = "check", requests = << >>
  PROVE  /\ \A p \in ProgramId : snapshot.state[p] # "terminated" => p \in programs
         /\ \A p \in todo : snapshot.state[p] = "active" => state[p] = "active"
         /\ \A p \in ProgramId : snapshot.state[p] = "paused" /\ state[p] = "active" =>
              status[p] = "reasoning" /\ factors[p].privileged
<1>1. hook.kind = "cycle" /\ FutureHolders(factors, requests) = Holders(factors)
  BY AtCycle
<1> QED BY <1>1 DEF TTLInv, CycleFacts, Holders

\* An iteration of handle_scheduled_check().
LEMMA CheckVisitKeeps ==
  ASSUME TTLInv, NEW p, NEW asked, phase = "check", requests = << >>, Visit(p, asked),
         protected' \subseteq ProgramId, Applicable(asked),
         factors' \in Factors, SameTimes(factors, factors'), Ending(factors'),
         Bounded(FutureHolders(factors', asked)),
         Pending(asked, {"mark", "queue", "release"}) = {}, Pending(asked, {"pause"}) \subseteq {p},
         \A q \in ProgramId : snapshot.state[q] = "paused" /\ factors[q].privileged =>
           q \in FutureHolders(factors', asked),
         Pending(asked, {"resume"}) \subseteq FutureHolders(factors', asked),
         Pending(asked, {"promote"}) \cap Pending(asked, {"demote"}) = {}
  PROVE  TTLInv'
<1>1. /\ requests' = asked /\ todo' = todo \ {p}
      /\ UNCHANGED <<schedulerVars, continuity_enabled, phase, snapshot, advanced>>
  BY DEF Visit
<1>2. /\ hook' = hook /\ state' = state /\ status' = status /\ marked_for_pause' = marked_for_pause
      /\ programs' = programs
  BY <1>1 DEF schedulerVars, recordVars, registryVars
<1>3. hook.kind = "cycle"
  BY AtCycle
<1>4. AdvancedSnapshotExact' /\ (snapshot.status = status)'
  BY <1>1, <1>2, <1>3 DEF TTLInv, CycleFacts, AdvancedSnapshotExact
<1>5. /\ Pending(requests, {"mark", "queue", "release"})' = {}
      /\ Pending(requests, {"pause"})' \subseteq {p}
      /\ FutureHolders(factors, requests)' = FutureHolders(factors', asked)
      /\ Pending(requests, {"resume"})' \subseteq FutureHolders(factors, requests)'
      /\ Pending(requests, {"promote"})' \cap Pending(requests, {"demote"})' = {}
  <2>1. /\ Pending(requests, {"resume"})' = Pending(asked, {"resume"})
        /\ Pending(requests, {"pause"})' = Pending(asked, {"pause"})
        /\ Pending(requests, {"promote"})' = Pending(asked, {"promote"})
        /\ Pending(requests, {"demote"})' = Pending(asked, {"demote"})
        /\ Pending(requests, {"mark", "queue", "release"})' = Pending(asked, {"mark", "queue", "release"})
    BY <1>1 DEF Pending
  <2>2. Holders(factors)' = Holders(factors')
    BY DEF Holders
  <2>3. FutureHolders(factors, requests)' = FutureHolders(factors', asked)
    BY <2>1, <2>2 DEF FutureHolders
  <2> QED BY <2>1, <2>3
<1>6. CycleFacts'
  <2>1. /\ \A q \in ProgramId : snapshot.state[q] # "terminated" => q \in programs
        /\ \A q \in todo : snapshot.state[q] = "active" => state[q] = "active"
        /\ \A q \in ProgramId : snapshot.state[q] = "paused" /\ state[q] = "active" =>
             status[q] = "reasoning" /\ factors[q].privileged
    BY AtCheck
  <2>2. \A q \in ProgramId : snapshot'.state[q] # "terminated" => q \in programs'
    BY <1>1, <1>2, <2>1
  <2>3. \A q \in todo' : snapshot'.state[q] = "active" =>
          state'[q] = "active" /\ q \notin Pending(requests, {"pause"})'
    BY <1>1, <1>2, <1>5, <2>1
  <2>4. \A q \in ProgramId : snapshot'.state[q] = "paused" /\ state'[q] = "active" =>
          status'[q] = "reasoning" /\ q \in FutureHolders(factors, requests)'
    BY <1>1, <1>2, <1>5, <2>1
  <2>5. phase' = "check"
    BY <1>1
  <2> QED BY <1>4, <1>5, <2>2, <2>3, <2>4, <2>5 DEF CycleFacts
<1> QED BY <1>6, VisitKeeps

\* An acting Program whose TTL is not over stays.
LEMMA KeepActingKeeps ==
  ASSUME TTLInv, NEW p \in ProgramId, KeepActing(p)
  PROVE  TTLInv'
<1>1. phase = "check" /\ requests = << >> /\ Visit(p, << >>) /\ UNCHANGED <<factors, protected>>
  BY DEF KeepActing, Deciding
<1>2. Bounded(Holders(factors)) /\ protected' \subseteq ProgramId
  BY <1>1, AtCycle
<1>3. Applicable(<< >>) /\ \A K : Pending(<< >>, K) = {}
  BY NothingAsked
<1>4. FutureHolders(factors', << >>) = Holders(factors)
  BY <1>1, <1>3 DEF FutureHolders
<1>5. \A q \in ProgramId : factors[q].privileged => q \in Holders(factors)
  BY DEF Holders
<1> QED BY <1>1, <1>2, <1>3, <1>4, <1>5, SameFactors, CheckVisitKeeps

\* The off mode records an expiry and moves no clock and no privilege.
LEMMA RecordExpiryKeeps ==
  ASSUME TTLInv, NEW p \in ProgramId, RecordExpiry(p)
  PROVE  TTLInv'
<1>1. /\ phase = "check" /\ requests = << >> /\ Visit(p, << >>)
      /\ factors' = [factors EXCEPT ![p].ttl_expiry_observed = TRUE]
      /\ protected' = protected \cup {p}
  BY DEF RecordExpiry, Deciding
<1>2. Bounded(Holders(factors)) /\ protected' \subseteq ProgramId /\ factors \in Factors /\ Ending(factors)
  BY <1>1, AtCycle
<1>3. Applicable(<< >>) /\ \A K : Pending(<< >>, K) = {}
  BY NothingAsked
<1>4. \A q \in ProgramId :
        /\ factors'[q] \in FactorRecord /\ factors'[q].privileged = factors[q].privileged
        /\ factors'[q].privilege_left = factors[q].privilege_left
        /\ factors'[q].ttl = factors[q].ttl /\ factors'[q].acting_age = factors[q].acting_age
        /\ factors'[q].release_left = factors[q].release_left
        /\ factors'[q].force_left = factors[q].force_left
  <2> SUFFICES ASSUME NEW q \in ProgramId
      PROVE /\ factors'[q] \in FactorRecord /\ factors'[q].privileged = factors[q].privileged
            /\ factors'[q].privilege_left = factors[q].privilege_left
            /\ factors'[q].ttl = factors[q].ttl /\ factors'[q].acting_age = factors[q].acting_age
            /\ factors'[q].release_left = factors[q].release_left
            /\ factors'[q].force_left = factors[q].force_left
    OBVIOUS
  <2>1. factors[q] \in FactorRecord
    BY <1>2 DEF Factors
  <2>2. factors'[q] = IF q = p THEN [factors[q] EXCEPT !.ttl_expiry_observed = TRUE] ELSE factors[q]
    BY <1>1, <1>2 DEF Factors
  <2> QED BY <2>1, <2>2 DEF FactorRecord
<1>5. factors' \in Factors
  <2>1. factors' = [q \in ProgramId |-> factors'[q]]
    BY <1>1, <1>2 DEF Factors
  <2> QED BY <1>4, <2>1 DEF Factors
<1>6. SameTimes(factors, factors') /\ Ending(factors') /\ Holders(factors') = Holders(factors)
  BY <1>2, <1>4 DEF SameTimes, Ending, Holders
<1>7. FutureHolders(factors', << >>) = Holders(factors)
  BY <1>3, <1>6 DEF FutureHolders
<1>8. \A q \in ProgramId : factors[q].privileged => q \in Holders(factors)
  BY DEF Holders
<1> QED BY <1>1, <1>2, <1>3, <1>5, <1>6, <1>7, <1>8, CheckVisitKeeps

\* An expired Program is paused, and its privilege handed to one of its task.
LEMMA ExpireActingKeeps ==
  ASSUME TTLInv, NEW p \in ProgramId, ExpireActing(p)
  PROVE  TTLInv'
<1> DEFINE targets == IF factors[p].privileged THEN TtlPrivilegeTargets(p) ELSE {}
           pause == <<Ask("pause", p, "ttl_expired")>>
           demote == <<Ask("demote", p, "ttl_expired")>>
<1>1. /\ phase = "check" /\ requests = << >> /\ p \in todo /\ UNCHANGED factors
      /\ snapshot.state[p] = "active" /\ snapshot.status[p] = "acting"
  BY DEF ExpireActing, Deciding, ActingExpired
<1>2. /\ Bounded(Holders(factors)) /\ protected \subseteq ProgramId /\ IsFiniteSet(programs)
      /\ snapshot.status = status
  BY <1>1, AtCycle
<1>3. /\ \A q \in ProgramId : snapshot.state[q] # "terminated" => q \in programs
      /\ \A q \in todo : snapshot.state[q] = "active" => state[q] = "active"
      /\ \A q \in ProgramId : snapshot.state[q] = "paused" /\ state[q] = "active" =>
           status[q] = "reasoning" /\ factors[q].privileged
  BY <1>1, AtCheck
<1>4. p \in programs /\ state[p] = "active" /\ status[p] = "acting"
  BY <1>1, <1>2, <1>3
<1>5. /\ Valid(Ask("pause", p, "ttl_expired")) /\ Valid(Ask("demote", p, "ttl_expired"))
      /\ "pause" \in Kinds /\ "demote" \in Kinds /\ "ttl_expired" \in Reasons
  BY <1>4 DEF Valid, Ask, Kinds, MoveKinds, Reasons
<1>6. Applicable(pause) /\ \A K : Pending(pause, K) = IF "pause" \in K THEN {p} ELSE {}
  BY <1>5, OneMove, Zenon
<1>7. Applicable(demote) /\ \A K : Pending(demote, K) = IF "demote" \in K THEN {p} ELSE {}
  BY <1>5, OneMove, Zenon
<1>8. CASE Visit(p, pause) /\ UNCHANGED protected
  <2> HIDE DEF pause
  <2>1. FutureHolders(factors', pause) = Holders(factors)
    BY <1>1, <1>6 DEF FutureHolders
  <2>2. \A q \in ProgramId : factors[q].privileged => q \in Holders(factors)
    BY DEF Holders
  <2>3. /\ Pending(pause, {"mark", "queue", "release"}) = {} /\ Pending(pause, {"pause"}) \subseteq {p}
        /\ Pending(pause, {"resume"}) = {} /\ Pending(pause, {"promote"}) = {}
    BY <1>6
  <2> QED BY <1>1, <1>2, <1>6, <1>8, <2>1, <2>2, <2>3, SameFactors, CheckVisitKeeps
<1>9. ASSUME NEW t \in targets,
             Visit(p, pause \o demote
                        \o (IF snapshot.state[t] = "paused"
                            THEN <<Ask("resume", t, "ttl_handoff")>> ELSE << >>)
                        \o <<Ask("promote", t, "ttl_handoff")>>),
             protected' = protected \cup {t}
      PROVE  TTLInv'
  <2> DEFINE resume == IF snapshot.state[t] = "paused"
                       THEN <<Ask("resume", t, "ttl_handoff")>> ELSE << >>
             promote == <<Ask("promote", t, "ttl_handoff")>>
             asked == pause \o demote \o resume \o promote
  <2>0. Visit(p, asked)
    BY <1>9
  <2>1. /\ factors[p].privileged /\ t \in Live(snapshot) \ {p} /\ task_id[p] # None
        /\ task_id[t] = task_id[p] /\ TargetTier(t) < 3
    BY DEF TtlPrivilegeTargets
  <2>2. /\ t \in ProgramId /\ t # p /\ snapshot.state[t] # "terminated" /\ t \in programs
    BY <1>3, <2>1 DEF Live
  <2>3. snapshot.state[t] = "paused" => status[t] = "reasoning"
    BY <1>2, <2>1 DEF TargetTier
  <2>4. snapshot.state[t] = "paused" => state[t] = "paused"
    <3> SUFFICES ASSUME snapshot.state[t] = "paused", state[t] # "paused" PROVE FALSE
      OBVIOUS
    <3>1. state[t] = "active"
      BY <2>2, LiveProgram
    <3>2. t \in Holders(factors) /\ p \in Holders(factors)
      BY <1>3, <2>1, <2>2, <3>1 DEF Holders
    <3> QED BY <1>2, <2>1, <2>2, <3>2 DEF Bounded
  <2>5. /\ Valid(Ask("promote", t, "ttl_handoff")) /\ "promote" \in Kinds /\ "resume" \in Kinds
        /\ "ttl_handoff" \in Reasons
        /\ snapshot.state[t] = "paused" => Valid(Ask("resume", t, "ttl_handoff"))
    BY <2>2, <2>3, <2>4 DEF Valid, Ask, Kinds, MoveKinds, Reasons
  <2>6. Applicable(promote) /\ \A K : Pending(promote, K) = IF "promote" \in K THEN {t} ELSE {}
    BY <2>2, <2>5, OneMove, Zenon
  <2>7. Applicable(resume) /\ \A K : Pending(resume, K) \subseteq IF "resume" \in K THEN {t} ELSE {}
    <3>1. CASE snapshot.state[t] = "paused"
      <4>1. /\ Applicable(<<Ask("resume", t, "ttl_handoff")>>)
            /\ \A K : Pending(<<Ask("resume", t, "ttl_handoff")>>, K) = IF "resume" \in K THEN {t} ELSE {}
        BY <2>2, <2>5, <3>1, OneMove, Zenon
      <4> QED BY <3>1, <4>1
    <3>2. CASE snapshot.state[t] # "paused"
      BY <3>2, NothingAsked
    <3> QED BY <3>1, <3>2
  <2> DEFINE first == pause \o demote
             second == first \o resume
  <2> HIDE DEF pause, demote, resume, promote
  <2>8. Applicable(first) /\ \A K : Pending(first, K) = Pending(pause, K) \cup Pending(demote, K)
    <3>1. /\ Pending(pause, MoveKinds) \cap Pending(demote, MoveKinds) = {}
          /\ Pending(pause, {"release"}) = {} /\ Pending(demote, {"release"}) = {}
      BY <1>6, <1>7 DEF MoveKinds
    <3> QED BY <1>6, <1>7, <3>1, BothAsked
  <2>9. Applicable(second) /\ \A K : Pending(second, K) = Pending(first, K) \cup Pending(resume, K)
    <3> HIDE DEF first
    <3>1. /\ Pending(first, MoveKinds) \cap Pending(resume, MoveKinds) = {}
          /\ Pending(first, {"release"}) = {} /\ Pending(resume, {"release"}) = {}
      <4>1. Pending(first, MoveKinds) \subseteq {p} /\ Pending(resume, MoveKinds) \subseteq {t}
        BY <1>6, <1>7, <2>7, <2>8 DEF MoveKinds
      <4> QED BY <1>6, <1>7, <2>2, <2>7, <2>8, <4>1
    <3> QED BY <2>7, <2>8, <3>1, BothAsked
  <2>10. Applicable(asked) /\ \A K : Pending(asked, K) = Pending(second, K) \cup Pending(promote, K)
    <3>1. asked = second \o promote
      OBVIOUS
    <3> HIDE DEF second, asked, first
    <3>2. /\ Pending(second, MoveKinds) \cap Pending(promote, MoveKinds) = {}
          /\ Pending(second, {"release"}) = {} /\ Pending(promote, {"release"}) = {}
      BY <1>6, <1>7, <2>6, <2>7, <2>8, <2>9 DEF MoveKinds
    <3> QED BY <2>6, <2>9, <3>1, <3>2, BothAsked
  <2> HIDE DEF asked, first, second
  <2>11. /\ Pending(asked, {"mark", "queue", "release"}) = {}
         /\ Pending(asked, {"pause"}) \subseteq {p}
         /\ Pending(asked, {"demote"}) = {p} /\ Pending(asked, {"promote"}) = {t}
    BY <1>6, <1>7, <2>6, <2>7, <2>8, <2>9, <2>10
  <2>12. FutureHolders(factors', asked) = (Holders(factors) \ {p}) \cup {t}
    BY <1>1, <2>11 DEF FutureHolders
  <2>13. Bounded((Holders(factors) \ {p}) \cup {t})
    <3>1. p \in Holders(factors)
      BY <2>1 DEF Holders
    <3> QED BY <1>2, <2>1, <2>2, <3>1, BoundedHandoff
  <2>16. Pending(asked, {"resume"}) \subseteq {t}
    BY <1>6, <1>7, <2>6, <2>7, <2>8, <2>9, <2>10
  <2>17. /\ Pending(asked, {"resume"}) \subseteq FutureHolders(factors', asked)
         /\ Pending(asked, {"promote"}) \cap Pending(asked, {"demote"}) = {}
    BY <2>2, <2>11, <2>12, <2>16
  <2>14. \A q \in ProgramId : snapshot.state[q] = "paused" /\ factors[q].privileged =>
           q \in FutureHolders(factors', asked)
    BY <1>1, <2>12 DEF Holders
  <2>15. protected' \subseteq ProgramId
    BY <1>2, <1>9, <2>2
  <2> QED BY <1>1, <2>0, <2>10, <2>11, <2>12, <2>13, <2>14, <2>15, <2>17,
         SameFactors, CheckVisitKeeps
<1> QED BY <1>8, <1>9 DEF ExpireActing

\* Only idle paused Programs are asked to be released.
LEMMA ReleaseExpiredKeeps ==
  ASSUME TTLInv, ReleaseExpired
  PROVE  TTLInv'
<1> DEFINE expired == {p \in Live(snapshot) :
                         /\ snapshot.state[p] = "paused" /\ snapshot.status[p] = "acting"
                         /\ factors[p].release_left = 0}
<1>1. /\ phase = "check" /\ requests = << >> /\ phase' = "checked"
      /\ UNCHANGED <<schedulerVars, strategyVars, snapshot, advanced, todo, protected, outcome>>
  BY DEF ReleaseExpired, Deciding
<1>2. PICK seq \in SetToSeqs(expired) : requests' = AskAll("release", seq, "retention")
  BY DEF ReleaseExpired
<1>3. /\ hook.kind = "cycle" /\ snapshot.status = status /\ IsFiniteSet(programs)
      /\ Bounded(Holders(factors)) /\ todo \subseteq ProgramId /\ protected \subseteq ProgramId
      /\ snapshot \in SnapshotRecord /\ advanced \in SnapshotRecord
  BY <1>1, AtCycle
<1>4. /\ \A q \in ProgramId : snapshot.state[q] # "terminated" => q \in programs
      /\ \A q \in ProgramId : snapshot.state[q] = "paused" /\ state[q] = "active" =>
           status[q] = "reasoning" /\ factors[q].privileged
  BY <1>1, AtCheck
<1>5. \A p \in expired : /\ p \in ProgramId /\ p \in programs
                         /\ state[p] = "paused" /\ status[p] = "acting"
  <2> SUFFICES ASSUME NEW p \in expired
      PROVE p \in ProgramId /\ p \in programs /\ state[p] = "paused" /\ status[p] = "acting"
    OBVIOUS
  <2>1. p \in ProgramId /\ snapshot.state[p] = "paused" /\ status[p] = "acting"
    BY <1>3 DEF Live
  <2>2. p \in programs /\ state[p] # "active"
    BY <1>4, <2>1
  <2> QED BY <2>1, <2>2, LiveProgram
<1>6. IsFiniteSet(expired) /\ expired \in SUBSET ProgramId
  BY <1>3, <1>5, FS_Subset
<1>7. /\ \A p \in expired : Valid(Ask("release", p, "retention"))
      /\ "release" \in MoveKinds /\ "retention" \in Reasons
  BY <1>5 DEF Valid, Ask, MoveKinds, Reasons
<1> HIDE DEF expired
<1>8. /\ Applicable(requests')
      /\ \A K : Pending(requests', K) \subseteq IF "release" \in K THEN expired ELSE {}
  BY <1>2, <1>6, <1>7, AllAsked
<1>9. /\ UNCHANGED <<factors, continuity_enabled, next_check, next_lightweight, hook>>
      /\ state' = state /\ status' = status /\ marked_for_pause' = marked_for_pause
  BY <1>1 DEF strategyVars, schedulerVars, recordVars
<1>10. FutureHolders(factors', requests') = Holders(factors)
  BY <1>8, <1>9 DEF FutureHolders
<1>11. CycleFacts'
  <2>1. AdvancedSnapshotExact' /\ (snapshot.status = status)'
    BY <1>1, <1>3, <1>9 DEF TTLInv, CycleFacts, AdvancedSnapshotExact
  <2>2. Pending(requests', MoveKinds \ {"release"}) = {}
    BY <1>8 DEF MoveKinds
  <2>3. Pending(requests, MoveKinds \ {"release"})' = {}
    BY <2>2 DEF Pending, MoveKinds
  <2> QED BY <1>1, <2>1, <2>3 DEF CycleFacts
<1> QED BY <1>1, <1>3, <1>8, <1>9, <1>10, <1>11, SameFactors, CycleDecisionKeeps
-----------------------------------------------------------------------------
(***************************************************************************)
(* The transitions and privilege updates, applied one after the other.     *)
(***************************************************************************)
\* What the first request does to the runtime: nothing but to its own Program.
MovesProgram(p, kind) ==
  /\ UNCHANGED <<status, hook, pool_program>>
  /\ \A q \in ProgramId \ {p} :
       /\ state'[q] = state[q] /\ marked_for_pause'[q] = marked_for_pause[q]
       /\ task_id'[q] = task_id[q] /\ (q \in programs' <=> q \in programs)
  /\ kind # "release" => p \in programs' /\ task_id'[p] = task_id[p]
  /\ kind = "release" => state'[p] = "terminated" /\ p \notin programs'
  /\ kind = "resume" => state'[p] = "active"
  /\ kind = "pause" => state'[p] = "paused"
  /\ kind \in {"mark", "queue", "promote", "demote"} => state'[p] = state[p]
  /\ kind \in {"queue", "promote", "demote"} => marked_for_pause'[p] = marked_for_pause[p]

\* What it does to the factors.
MovesFactors(p, kind) ==
  /\ factors' \in Factors /\ Clocked(factors') /\ Ending(factors')
  /\ \A q \in ProgramId \ {p} : factors'[q] = factors[q]
  /\ kind \in MoveKinds => (factors'[p].privileged => factors[p].privileged)
  /\ kind \in {"resume", "mark", "queue"} => factors'[p].privileged = factors[p].privileged
  /\ kind = "promote" => factors'[p].privileged
  /\ kind \in {"demote", "release"} => ~factors'[p].privileged
  /\ kind = "pause" => factors'[p].release_left # None
  /\ kind = "queue" => factors'[p].force_left # None
  /\ kind \in {"promote", "demote"} =>
       SameClocks(factors[p], factors'[p]) /\ factors'[p].force_left = factors[p].force_left

\* What it does to the hook and to the cached deadlines.
MovesHook(p, kind) ==
  /\ requests' = Tail(requests)
  /\ UNCHANGED <<phase, snapshot, todo, protected, outcome, continuity_enabled>>
  /\ advanced' \in SnapshotRecord
  /\ hook.kind = "cycle" => AdvancedSnapshotExact'
  /\ \/ kind \in MoveKinds /\ CacheDeadlines
     \/ kind \in {"promote", "demote"} /\ UNCHANGED <<next_check, next_lightweight>>

\* The privileges held in the end are those foreseen, less what a pause or a
\* release takes.
LEMMA FutureAfterMove ==
  ASSUME TTLInv, requests # << >>, NEW p, p = Head(requests).program,
         NEW kind, kind = Head(requests).kind, MovesFactors(p, kind)
  PROVE  /\ FutureHolders(factors', Tail(requests)) \subseteq FutureHolders(factors, requests)
         /\ FutureHolders(factors, requests) \ {p} \subseteq FutureHolders(factors', Tail(requests))
         /\ kind \in {"resume", "mark", "queue", "demote"} =>
              FutureHolders(factors', Tail(requests)) = FutureHolders(factors, requests)
         /\ kind = "promote" /\ p \notin Pending(Tail(requests), {"demote"}) =>
              FutureHolders(factors', Tail(requests)) = FutureHolders(factors, requests)
         /\ kind = "release" => p \notin FutureHolders(factors', Tail(requests))
<1> DEFINE D == Pending(Tail(requests), {"demote"})
           P == Pending(Tail(requests), {"promote"})
           F == FutureHolders(factors, requests)
           G == FutureHolders(factors', Tail(requests))
<1>1. requests \in Seq(RequestRecord) /\ NoClash(requests)
  BY DEF TTLInv, HookTypes, RequestsValid
<1>2. p \in ProgramId /\ kind \in Kinds
  BY <1>1, TailFacts DEF RequestRecord
<1>3. /\ Pending(requests, {"demote"}) = D \cup (IF kind = "demote" THEN {p} ELSE {})
      /\ Pending(requests, {"promote"}) = P \cup (IF kind = "promote" THEN {p} ELSE {})
  BY <1>1, PendingTail
<1>4. kind = "release" => p \notin P
  <2>1. kind = "release" => p \notin Pending(Tail(requests), Kinds)
    BY <1>1, NoClashTail
  <2> QED BY <2>1 DEF Pending, Kinds
<1>5. F = (Holders(factors) \ (D \cup (IF kind = "demote" THEN {p} ELSE {})))
            \cup (P \cup (IF kind = "promote" THEN {p} ELSE {}))
  BY <1>3 DEF FutureHolders
<1>6. G = (Holders(factors') \ D) \cup P
  BY DEF FutureHolders
<1>7. \A q \in ProgramId \ {p} : q \in Holders(factors') <=> q \in Holders(factors)
  BY DEF MovesFactors, Holders
<1>8. Holders(factors) \subseteq ProgramId /\ Holders(factors') \subseteq ProgramId
  BY DEF Holders
<1> HIDE DEF D, P, F, G
<1>9. CASE kind = "promote"
  <2>1. p \in Holders(factors')
    BY <1>2, <1>9 DEF MovesFactors, Holders
  <2> QED BY <1>2, <1>5, <1>6, <1>7, <1>8, <1>9, <2>1 DEF D, F, G
<1>10. CASE kind = "demote"
  <2>1. p \notin Holders(factors')
    BY <1>2, <1>10 DEF MovesFactors, Holders
  <2> QED BY <1>2, <1>5, <1>6, <1>7, <1>8, <1>10, <2>1 DEF D, F, G
<1>11. CASE kind \in {"resume", "mark", "queue"}
  <2>1. p \in Holders(factors') <=> p \in Holders(factors)
    BY <1>2, <1>11 DEF MovesFactors, Holders
  <2> QED BY <1>2, <1>5, <1>6, <1>7, <1>8, <1>11, <2>1 DEF D, F, G
<1>12. CASE kind = "pause"
  <2>1. p \in Holders(factors') => p \in Holders(factors)
    BY <1>2, <1>12 DEF MovesFactors, Holders, MoveKinds
  <2> QED BY <1>2, <1>5, <1>6, <1>7, <1>8, <1>12, <2>1 DEF D, F, G
<1>13. CASE kind = "release"
  <2>1. p \notin Holders(factors')
    BY <1>2, <1>13 DEF MovesFactors, Holders
  <2> QED BY <1>2, <1>4, <1>5, <1>6, <1>7, <1>8, <1>13, <2>1 DEF D, F, G
<1> QED BY <1>2, <1>9, <1>10, <1>11, <1>12, <1>13 DEF Kinds, MoveKinds

\* The other requests stay applicable.
LEMMA RestStaysValid ==
  ASSUME TTLInv, requests # << >>, NEW p, p = Head(requests).program,
         NEW kind, kind = Head(requests).kind, MovesProgram(p, kind), requests' = Tail(requests)
  PROVE  RequestsValid'
<1>1. requests \in Seq(RequestRecord) /\ NoClash(requests) /\ AllValid(requests)
  BY DEF TTLInv, HookTypes, RequestsValid
<1>2. /\ p \in ProgramId /\ kind \in Kinds
      /\ Len(requests) \in Nat /\ DOMAIN requests = 1..Len(requests)
      /\ DOMAIN Tail(requests) = 1..(Len(requests) - 1)
      /\ \A i \in 1..(Len(requests) - 1) : Tail(requests)[i] = requests[i + 1]
      /\ Tail(requests) \in Seq(RequestRecord)
  BY <1>1, TailFacts DEF RequestRecord
<1>3. /\ NoClash(Tail(requests))
      /\ kind \in MoveKinds => p \notin Pending(Tail(requests), MoveKinds)
      /\ kind = "release" => p \notin Pending(Tail(requests), Kinds)
      /\ p \notin Pending(Tail(requests), {"release"})
  BY <1>1, NoClashTail
<1>4. ASSUME NEW i \in DOMAIN requests' PROVE Valid(requests[i])'
  <2> DEFINE q == requests'[i]
  <2>1. i + 1 \in DOMAIN requests /\ q = requests[i + 1] /\ i \in DOMAIN Tail(requests)
    BY <1>2
  <2>2. Valid(q) /\ q \in RequestRecord
    BY <1>1, <1>2, <2>1 DEF AllValid
  <2>3. q.program \in ProgramId /\ q.kind \in Kinds
    BY <2>2 DEF RequestRecord
  <2>4. \A K : q.kind \in K => q.program \in Pending(Tail(requests), K)
    BY <2>1 DEF Pending
  <2> HIDE DEF q
  <2>5. /\ q.program \in programs'
        /\ q.kind \in {"resume", "queue"} => state'[q.program] = "paused" /\ status'[q.program] = "reasoning"
        /\ q.kind = "pause" => state'[q.program] = "active" /\ status'[q.program] = "acting"
        /\ q.kind = "mark" => /\ state'[q.program] = "active" /\ status'[q.program] = "reasoning"
                              /\ ~marked_for_pause'[q.program]
        /\ q.kind = "release" => state'[q.program] = "paused" /\ status'[q.program] = "acting"
        => Valid(requests[i])'
    BY DEF Valid, q
  <2>6. CASE q.program # p
    <3>1. /\ q.program \in programs' <=> q.program \in programs
          /\ state'[q.program] = state[q.program] /\ status'[q.program] = status[q.program]
          /\ marked_for_pause'[q.program] = marked_for_pause[q.program]
      BY <2>3, <2>6 DEF MovesProgram
    <3>2. /\ q.program \in programs'
          /\ q.kind \in {"resume", "queue"} => state'[q.program] = "paused" /\ status'[q.program] = "reasoning"
          /\ q.kind = "pause" => state'[q.program] = "active" /\ status'[q.program] = "acting"
          /\ q.kind = "mark" => /\ state'[q.program] = "active" /\ status'[q.program] = "reasoning"
                                /\ ~marked_for_pause'[q.program]
          /\ q.kind = "release" => state'[q.program] = "paused" /\ status'[q.program] = "acting"
      BY <2>2, <3>1 DEF Valid
    <3> QED BY <2>5, <3>2
  <2>7. CASE q.program = p
    <3>1. kind # "release" /\ q.kind # "release"
      BY <1>3, <2>3, <2>4, <2>7
    <3>2. p \in programs'
      BY <3>1 DEF MovesProgram
    <3>3. CASE kind \in MoveKinds
      <4>1. q.kind \notin MoveKinds
        BY <1>3, <2>4, <2>7, <3>3
      <4> QED BY <2>5, <2>7, <3>2, <4>1 DEF MoveKinds
    <3>4. CASE kind \in {"promote", "demote"}
      <4>1. state'[p] = state[p] /\ status' = status /\ marked_for_pause'[p] = marked_for_pause[p]
        BY <3>4 DEF MovesProgram
      <4>2. /\ q.kind \in {"resume", "queue"} => state'[p] = "paused" /\ status'[p] = "reasoning"
            /\ q.kind = "pause" => state'[p] = "active" /\ status'[p] = "acting"
            /\ q.kind = "mark" => /\ state'[p] = "active" /\ status'[p] = "reasoning"
                                  /\ ~marked_for_pause'[p]
        BY <2>2, <2>7, <4>1 DEF Valid
      <4> QED BY <2>5, <2>7, <3>1, <3>2, <4>2
    <3> QED BY <1>2, <3>3, <3>4 DEF Kinds
  <2> QED BY <2>6, <2>7
<1>5. NoClash(requests)'
  BY <1>3 DEF NoClash, Clash
<1> QED BY <1>4, <1>5 DEF RequestsValid, AllValid

\* The outcome of an admission is what its transitions lead to.
LEMMA OutcomeAfterMove ==
  ASSUME TTLInv, requests # << >>, NEW p, p = Head(requests).program,
         NEW kind, kind = Head(requests).kind,
         MovesProgram(p, kind), MovesFactors(p, kind), MovesHook(p, kind)
  PROVE  OutcomeFacts'
<1> DEFINE c == CandidateProgram
           rest == Tail(requests)
<1>1. requests \in Seq(RequestRecord) /\ NoClash(requests)
  BY DEF TTLInv, HookTypes, RequestsValid
<1>2. p \in ProgramId /\ kind \in Kinds
  BY <1>1, TailFacts DEF RequestRecord
<1>3. \A K : Pending(requests, K) = Pending(rest, K) \cup (IF kind \in K THEN {p} ELSE {})
  BY <1>1, PendingTail
<1>4. kind \in MoveKinds => p \notin Pending(rest, MoveKinds)
  BY <1>1, NoClashTail
<1>5. /\ CandidateProgram' = c /\ outcome' = outcome
      /\ \A K : Pending(requests, K)' = Pending(rest, K)
  BY DEF MovesProgram, MovesHook, CandidateProgram, Pending
<1>6. outcome # "none" => c \in ProgramId
  <2>1. outcome # "none" => hook.kind = "admission" /\ SchedulerInv
    BY DEF TTLInv, HookPhase
  <2> QED BY <2>1, CandidateLive
<1> HIDE DEF c, rest
<1>7. ASSUME outcome = "admitted"
      PROVE  \/ state'[c] = "active" /\ c \notin Pending(rest, MoveKinds)
             \/ c \in Pending(rest, {"resume"})
  <2>1. \/ state[c] = "active" /\ c \notin Pending(requests, MoveKinds)
        \/ c \in Pending(requests, {"resume"})
    BY <1>7 DEF TTLInv, OutcomeFacts, c
  <2>2. CASE state[c] = "active" /\ c \notin Pending(requests, MoveKinds)
    <3>1. c \notin Pending(rest, MoveKinds) /\ (kind \in MoveKinds => c # p)
      BY <1>3, <2>2
    <3>2. state'[c] = state[c]
      BY <1>2, <1>6, <1>7, <3>1 DEF MovesProgram, Kinds
    <3> QED BY <2>2, <3>1, <3>2
  <2>3. CASE c \in Pending(requests, {"resume"})
    <3>1. c \in Pending(rest, {"resume"}) \/ (kind = "resume" /\ c = p)
      BY <1>3, <2>3
    <3>2. kind = "resume" /\ c = p => state'[c] = "active" /\ c \notin Pending(rest, MoveKinds)
      BY <1>4 DEF MovesProgram, MoveKinds
    <3> QED BY <3>1, <3>2
  <2> QED BY <2>1, <2>2, <2>3
<1>8. ASSUME outcome = "queued"
      PROVE  /\ state'[c] = "paused" /\ Pending(rest, MoveKinds \ {"queue"}) = {}
             /\ factors'[c].force_left # None \/ c \in Pending(rest, {"queue"})
  <2>1. /\ state[c] = "paused" /\ Pending(requests, MoveKinds \ {"queue"}) = {}
        /\ factors[c].force_left # None \/ c \in Pending(requests, {"queue"})
    BY <1>8 DEF TTLInv, OutcomeFacts, c
  <2>2. kind \in {"queue", "promote", "demote"} /\ Pending(rest, MoveKinds \ {"queue"}) = {}
    BY <1>2, <1>3, <2>1 DEF Kinds, MoveKinds
  <2>3. state'[c] = state[c]
    BY <1>6, <1>8, <2>2 DEF MovesProgram
  <2>4. factors[c].force_left # None => factors'[c].force_left # None
    BY <1>6, <1>8, <2>2 DEF MovesFactors
  <2>5. c \in Pending(requests, {"queue"}) => c \in Pending(rest, {"queue"}) \/ factors'[c].force_left # None
    BY <1>3 DEF MovesFactors
  <2> QED BY <2>1, <2>2, <2>3, <2>4, <2>5
<1> QED BY <1>5, <1>7, <1>8 DEF OutcomeFacts

\* What the loops of the cycle count on survives each transition.
LEMMA CycleAfterMove ==
  ASSUME TTLInv, requests # << >>, NEW p, p = Head(requests).program,
         NEW kind, kind = Head(requests).kind,
         MovesProgram(p, kind), MovesFactors(p, kind), MovesHook(p, kind)
  PROVE  CycleFacts'
<1> DEFINE rest == Tail(requests)
           F == FutureHolders(factors, requests)
           G == FutureHolders(factors', rest)
<1> SUFFICES ASSUME hook.kind = "cycle" PROVE CycleFacts'
  BY DEF CycleFacts, MovesProgram
<1>1. requests \in Seq(RequestRecord) /\ NoClash(requests) /\ AllValid(requests)
  BY DEF TTLInv, HookTypes, RequestsValid
<1>2. p \in ProgramId /\ kind \in Kinds
  BY <1>1, TailFacts DEF RequestRecord
<1>3. \A K : Pending(requests, K) = Pending(rest, K) \cup (IF kind \in K THEN {p} ELSE {})
  BY <1>1, PendingTail
<1>4. kind \in MoveKinds => p \notin Pending(rest, MoveKinds)
  BY <1>1, NoClashTail
<1>5. Valid(Head(requests))
  BY <1>1, TailFacts DEF AllValid
<1>6. /\ G \subseteq F /\ F \ {p} \subseteq G
      /\ kind \in {"resume", "mark", "queue", "demote"} => G = F
      /\ kind = "promote" /\ p \notin Pending(rest, {"demote"}) => G = F
  BY FutureAfterMove
<1>7. /\ \A K : Pending(requests, K)' = Pending(rest, K)
      /\ FutureHolders(factors, requests)' = G
  BY DEF MovesHook, Pending, FutureHolders, Holders
<1>8. /\ phase' = phase /\ snapshot' = snapshot /\ todo' = todo /\ status' = status
      /\ AdvancedSnapshotExact' /\ TransitionsEnabled' = TransitionsEnabled /\ snapshot.status = status
  BY DEF MovesHook, MovesProgram, TransitionsEnabled, TTLInv, CycleFacts
<1>9. todo \subseteq ProgramId
  BY DEF TTLInv, HookTypes, TTLTypeOK
<1> HIDE DEF rest, F, G
<1>10. CASE phase = "resume"
  <2>1. /\ Pending(requests, {"promote", "demote", "mark", "queue", "release"}) = {}
        /\ \A q \in todo : /\ state[q] = "paused" /\ status[q] = "reasoning"
                           /\ q \notin Pending(requests, {"resume"})
        /\ TransitionsEnabled =>
             \A q \in ProgramId :
               state[q] = "paused" /\ status[q] = "reasoning" /\ factors[q].privileged =>
                 q \in todo \/ q \in Pending(requests, {"resume"})
    BY <1>10 DEF TTLInv, CycleFacts
  <2>2. kind \in {"resume", "pause"} /\ Pending(rest, {"promote", "demote", "mark", "queue", "release"}) = {}
    <3> DEFINE K == {"promote", "demote", "mark", "queue", "release"}
    <3>1. Pending(requests, K) = Pending(rest, K) \cup (IF kind \in K THEN {p} ELSE {})
      BY <1>3
    <3>2. Pending(requests, K) = {}
      BY <2>1
    <3> HIDE DEF K
    <3>3. kind \notin K /\ Pending(rest, K) = {}
      BY <3>1, <3>2
    <3> QED BY <1>2, <3>3 DEF K, Kinds, MoveKinds
  <2>3. kind = "pause" => state[p] = "active" /\ status[p] = "acting"
    BY <1>5 DEF Valid
  <2>4. \A q \in todo : q # p
    BY <1>3, <2>1, <2>2, <2>3
  <2>5. \A q \in todo : state'[q] = "paused" /\ q \notin Pending(rest, {"resume"})
    BY <1>3, <1>9, <2>1, <2>4 DEF MovesProgram
  <2>6. ~(state'[p] = "paused" /\ status[p] = "reasoning")
    BY <2>2, <2>3 DEF MovesProgram
  <2>7. TransitionsEnabled =>
          \A q \in ProgramId :
            state'[q] = "paused" /\ status[q] = "reasoning" /\ factors'[q].privileged =>
              q \in todo \/ q \in Pending(rest, {"resume"})
    BY <1>3, <2>1, <2>6 DEF MovesProgram, MovesFactors
  <2> QED BY <1>7, <1>8, <1>10, <2>1, <2>2, <2>5, <2>7 DEF CycleFacts
<1>11. CASE phase = "repair"
  <2>1. /\ Pending(requests, {"promote", "resume", "queue", "release"}) = {}
        /\ \A q \in todo : /\ state[q] = "active" /\ ~marked_for_pause[q]
                           /\ q \notin Pending(requests, {"pause", "mark"})
    BY <1>11 DEF TTLInv, CycleFacts
  <2>2. kind \in {"pause", "mark", "demote"} /\ Pending(rest, {"promote", "resume", "queue", "release"}) = {}
    <3> DEFINE K == {"promote", "resume", "queue", "release"}
    <3>1. Pending(requests, K) = Pending(rest, K) \cup (IF kind \in K THEN {p} ELSE {})
      BY <1>3
    <3>2. Pending(requests, K) = {}
      BY <2>1
    <3> HIDE DEF K
    <3>3. kind \notin K /\ Pending(rest, K) = {}
      BY <3>1, <3>2
    <3> QED BY <1>2, <3>3 DEF K, Kinds, MoveKinds
  <2>3. \A q \in todo : q # p \/ kind = "demote"
    BY <1>3, <2>1, <2>2
  <2>4. \A q \in todo : /\ state'[q] = "active" /\ ~marked_for_pause'[q]
                        /\ q \notin Pending(rest, {"pause", "mark"})
    BY <1>3, <1>9, <2>1, <2>3 DEF MovesProgram
  <2> QED BY <1>7, <1>8, <1>11, <2>2, <2>4 DEF CycleFacts
<1>12. CASE phase = "check"
  <2>1. /\ Pending(requests, {"mark", "queue", "release"}) = {}
        /\ \A q \in ProgramId : snapshot.state[q] # "terminated" => q \in programs
        /\ \A q \in todo : snapshot.state[q] = "active" =>
             state[q] = "active" /\ q \notin Pending(requests, {"pause"})
        /\ \A q \in ProgramId : snapshot.state[q] = "paused" /\ state[q] = "active" =>
             status[q] = "reasoning" /\ q \in F
        /\ Pending(requests, {"resume"}) \subseteq F
        /\ Pending(requests, {"promote"}) \cap Pending(requests, {"demote"}) = {}
    BY <1>12 DEF TTLInv, CycleFacts, F
  <2>2. /\ kind \in {"pause", "resume", "promote", "demote"}
        /\ Pending(rest, {"mark", "queue", "release"}) = {}
    BY <1>2, <1>3, <2>1 DEF Kinds, MoveKinds
  <2>3. /\ kind = "pause" => state[p] = "active"
        /\ kind = "resume" => state[p] = "paused" /\ status[p] = "reasoning"
    BY <1>5 DEF Valid
  <2>4. /\ Pending(rest, {"promote"}) \cap Pending(rest, {"demote"}) = {}
        /\ kind = "promote" => p \notin Pending(rest, {"demote"})
        /\ \A K : Pending(rest, K) \subseteq Pending(requests, K)
    BY <1>3, <2>1
  <2>5. kind # "pause" => G = F
    BY <1>6, <2>2, <2>4
  <2>6. \A q \in ProgramId : snapshot.state[q] # "terminated" => q \in programs'
    BY <2>1, <2>2 DEF MovesProgram
  <2>7. \A q \in todo : snapshot.state[q] = "active" =>
          state'[q] = "active" /\ q \notin Pending(rest, {"pause"})
    <3> SUFFICES ASSUME NEW q \in todo, snapshot.state[q] = "active"
        PROVE state'[q] = "active" /\ q \notin Pending(rest, {"pause"})
      OBVIOUS
    <3>1. state[q] = "active" /\ q \notin Pending(requests, {"pause"}) /\ q \in ProgramId
      BY <1>9, <2>1
    <3>2. q \notin Pending(rest, {"pause"}) /\ (kind = "pause" => q # p)
      BY <1>3, <3>1
    <3>3. state'[q] = "active"
      BY <2>2, <3>1, <3>2 DEF MovesProgram
    <3> QED BY <3>2, <3>3
  <2>8. \A q \in ProgramId : snapshot.state[q] = "paused" /\ state'[q] = "active" =>
          status[q] = "reasoning" /\ q \in G
    <3> SUFFICES ASSUME NEW q \in ProgramId, snapshot.state[q] = "paused", state'[q] = "active"
        PROVE status[q] = "reasoning" /\ q \in G
      OBVIOUS
    <3>1. CASE q # p
      <4>1. state[q] = "active"
        BY <3>1 DEF MovesProgram
      <4> QED BY <1>6, <2>1, <3>1, <4>1
    <3>2. CASE q = p
      <4>1. kind # "pause"
        BY <3>2 DEF MovesProgram
      <4>2. CASE kind = "resume"
        <5>1. p \in Pending(requests, {"resume"})
          BY <1>3, <4>2
        <5> QED BY <2>1, <2>3, <2>5, <3>2, <4>2, <5>1
      <4>3. CASE kind \in {"promote", "demote"}
        <5>1. state[q] = "active"
          BY <3>2, <4>3 DEF MovesProgram
        <5> QED BY <2>1, <2>5, <4>1, <5>1
      <4> QED BY <2>2, <4>1, <4>2, <4>3
    <3> QED BY <3>1, <3>2
  <2>9. Pending(rest, {"resume"}) \subseteq G
    <3>1. kind = "pause" => p \notin Pending(rest, {"resume"})
      <4>1. Pending(rest, {"resume"}) \subseteq Pending(rest, MoveKinds)
        BY DEF Pending, MoveKinds
      <4> QED BY <1>4, <4>1 DEF MoveKinds
    <3> QED BY <1>6, <2>1, <2>4, <2>5, <3>1
  <2> QED BY <1>7, <1>8, <1>12, <2>2, <2>4, <2>6, <2>7, <2>8, <2>9 DEF CycleFacts
<1>13. CASE phase = "checked"
  <2>1. Pending(requests, MoveKinds \ {"release"}) = {}
    BY <1>13 DEF TTLInv, CycleFacts
  <2>2. Pending(rest, MoveKinds \ {"release"}) = {}
    BY <1>3, <2>1
  <2>3. (Pending(requests, MoveKinds \ {"release"}))' = {}
    BY <1>7, <2>2 DEF MoveKinds
  <2> QED BY <1>8, <1>13, <2>3 DEF CycleFacts
<1> QED BY <1>8, <1>10, <1>11, <1>12, <1>13 DEF TTLInv, HookPhase

\* One accepted transition or privilege update keeps the invariant.
LEMMA MoveKeeps ==
  ASSUME TTLInv, requests # << >>, NEW p, p = Head(requests).program,
         NEW kind, kind = Head(requests).kind, SchedulerInv', IsFiniteSet(programs'),
         MovesProgram(p, kind), MovesFactors(p, kind), MovesHook(p, kind)
  PROVE  TTLInv'
<1> DEFINE rest == Tail(requests)
<1>1. requests \in Seq(RequestRecord) /\ NoClash(requests) /\ AllValid(requests)
  BY DEF TTLInv, HookTypes, RequestsValid
<1>2. p \in ProgramId /\ kind \in Kinds /\ Tail(requests) \in Seq(RequestRecord)
  BY <1>1, TailFacts DEF RequestRecord
<1>3. Valid(Head(requests))
  BY <1>1, TailFacts DEF AllValid
<1>4. phase \notin {"none", "admission", "completion"}
  BY DEF TTLInv, HookPhase
<1>5. factors' \in Factors /\ Clocked(factors')
  BY DEF MovesFactors
<1>6. TransitionsEnabled' \in BOOLEAN /\ TransitionsEnabled' = TransitionsEnabled
  BY DEF TransitionsEnabled, TTLInv, HookTypes, TTLTypeOK, MovesHook
<1>7. HookTypes'
  <2>1. next_check' \in Nat \cup {None} /\ next_lightweight' \in Nat \cup {None}
    BY <1>5, <1>6, NextCheckAtType, NextLightweightType
       DEF MovesHook, CacheDeadlines, TTLInv, HookTypes, TTLTypeOK
  <2> QED BY <1>2, <1>5, <2>1 DEF TTLInv, HookTypes, TTLTypeOK, MovesHook, Factors, Clocked
<1>8. HookPhase'
  BY <1>4 DEF TTLInv, HookPhase, MovesHook, MovesProgram
<1>9. RequestsValid'
  BY RestStaysValid DEF MovesHook
<1>10. AdmissionFacts'
  BY <1>4 DEF AdmissionFacts, MovesHook
<1>11. CompletionFacts'
  <2>1. Pending(requests, {"promote", "demote"})' \subseteq Pending(requests, {"promote", "demote"})
    <3>1. Pending(rest, {"promote", "demote"}) \subseteq Pending(requests, {"promote", "demote"})
      BY <1>1, PendingTail
    <3> QED BY <3>1 DEF Pending, MovesHook
  <2> QED BY <1>4, <2>1 DEF TTLInv, CompletionFacts, MovesHook
<1>12. PrivilegeInv'
  <2> DEFINE F == FutureHolders(factors, requests)
             G == FutureHolders(factors', rest)
  <2>1. G \subseteq F /\ (kind = "release" => p \notin G)
    BY FutureAfterMove
  <2>2. Bounded(F) /\ IsFiniteSet(programs) /\ F \subseteq programs /\ programs \subseteq ProgramId
    BY DEF TTLInv, PrivilegeInv, Bounded, SchedulerInv, RegistryInv, RegistryTypeOK
  <2>3. FutureHolders(factors, requests)' = G /\ Ending(factors)'
    BY DEF MovesHook, MovesFactors, FutureHolders, Holders, Pending, Ending
  <2> HIDE DEF F, G
  <2>4. \A q \in G : q \in programs' /\ task_id'[q] = task_id[q]
    <3> SUFFICES ASSUME NEW q \in G PROVE q \in programs' /\ task_id'[q] = task_id[q]
      OBVIOUS
    <3>1. q \in programs /\ q \in ProgramId
      BY <2>1, <2>2
    <3> QED BY <2>1, <3>1 DEF MovesProgram
  <2>5. /\ G \subseteq programs' /\ Cardinality(G) <= PrivilegedLimit
        /\ \A q, r \in G : q # r => task_id'[q] # task_id'[r]
        /\ \A q \in G : task_id'[q] # None
    BY <2>1, <2>2, <2>4, BoundedSubset
  <2> QED BY <2>3, <2>5 DEF PrivilegeInv, Bounded
<1>13. DeadlineInv'
  <2>1. CASE kind \in MoveKinds /\ CacheDeadlines
    BY <2>1 DEF DeadlineInv, CacheDeadlines
  <2>2. CASE kind \in {"promote", "demote"} /\ UNCHANGED <<next_check, next_lightweight>>
    <3>1. \A q \in ProgramId : SameClocks(factors[q], factors'[q])
      BY <2>2 DEF MovesFactors, SameClocks
    <3>2. NextCheckAt(factors', TransitionsEnabled) = NextCheckAt(factors, TransitionsEnabled)
      BY <3>1, NextCheckAtUnchanged
    <3>3. phase # "yielding"
      <4>1. p \in Pending(requests, {"promote", "demote"})
        BY <1>1, <2>2, PendingTail
      <4> QED BY <4>1 DEF TTLInv, CompletionFacts
    <3> QED BY <1>4, <1>6, <2>2, <3>2, <3>3 DEF TTLInv, DeadlineInv, MovesHook
  <2> QED BY <2>1, <2>2 DEF MovesHook
<1>14. WaiterInv'
  <2> SUFFICES ASSUME NEW q \in ProgramId, state'[q] = "paused", status'[q] = "reasoning"
      PROVE factors'[q].force_left # None \/ (hook'.kind = "admission" /\ q = CandidateProgram')
    BY DEF WaiterInv
  <2>1. hook' = hook /\ CandidateProgram' = CandidateProgram /\ status' = status
    BY DEF MovesProgram, CandidateProgram
  <2>2. CASE q # p
    BY <2>1, <2>2 DEF TTLInv, WaiterInv, MovesProgram, MovesFactors
  <2>3. CASE q = p
    <3>1. kind \notin {"resume", "release", "pause", "mark"}
      BY <1>3, <2>1, <2>3 DEF MovesProgram, Valid
    <3>2. kind = "queue" => factors'[q].force_left # None
      BY <2>3 DEF MovesFactors
    <3>3. kind \in {"promote", "demote"} =>
            state[q] = "paused" /\ status[q] = "reasoning" /\ factors'[q].force_left = factors[q].force_left
      BY <2>1, <2>3 DEF MovesFactors, MovesProgram
    <3> QED BY <1>2, <2>1, <3>1, <3>2, <3>3 DEF TTLInv, WaiterInv, Kinds, MoveKinds
  <2> QED BY <2>2, <2>3
<1>15. ClockInv'
  <2> SUFFICES ASSUME ~Cancellation, NEW q \in programs', status'[q] = "acting"
      PROVE /\ state'[q] = "active" => factors'[q].acting_age # None
            /\ state'[q] = "paused" => factors'[q].release_left # None
    BY DEF ClockInv
  <2>1. status' = status /\ q \in ProgramId
    BY DEF MovesProgram, SchedulerInv, RegistryInv, RegistryTypeOK
  <2>2. CASE q # p
    BY <2>1, <2>2 DEF TTLInv, ClockInv, MovesProgram, MovesFactors
  <2>3. CASE q = p
    <3>1. kind \notin {"resume", "release", "queue", "mark"}
      BY <1>3, <2>1, <2>3 DEF MovesProgram, Valid
    <3>2. kind = "pause" => state'[q] = "paused" /\ factors'[q].release_left # None
      BY <2>3 DEF MovesFactors, MovesProgram
    <3>3. kind \in {"promote", "demote"} =>
            /\ state'[q] = state[q] /\ status[q] = "acting" /\ q \in programs
            /\ factors'[q].acting_age = factors[q].acting_age
            /\ factors'[q].release_left = factors[q].release_left
      BY <1>3, <2>1, <2>3 DEF MovesFactors, MovesProgram, SameClocks, Valid
    <3> QED BY <1>2, <3>1, <3>2, <3>3 DEF TTLInv, ClockInv, Kinds, MoveKinds
  <2> QED BY <2>2, <2>3
<1> QED BY <1>7, <1>8, <1>9, <1>10, <1>11, <1>12, <1>13, <1>14, <1>15, OutcomeAfterMove, CycleAfterMove
        DEF TTLInv

\* One Program's factors replaced by a record that can stand there.
LEMMA OneFactor ==
  ASSUME TTLInv, NEW p \in ProgramId, NEW f \in FactorRecord,
         f.ttl # None => f.acting_age # None, f.privileged => f.privilege_left # None,
         factors' = [factors EXCEPT ![p] = f]
  PROVE  /\ factors' \in Factors /\ Clocked(factors') /\ Ending(factors')
         /\ factors'[p] = f /\ \A q \in ProgramId \ {p} : factors'[q] = factors[q]
<1>1. factors \in Factors /\ Clocked(factors) /\ Ending(factors)
  BY DEF TTLInv, HookTypes, TTLTypeOK, Factors, PrivilegeInv
<1>2. factors' \in Factors /\ factors'[p] = f /\ \A q \in ProgramId \ {p} : factors'[q] = factors[q]
  BY <1>1 DEF Factors
<1> QED BY <1>1, <1>2 DEF Clocked, Ending

\* _advance_snapshot() follows the registry.
LEMMA LedgerFollows ==
  ASSUME NEW p \in ProgramId, NEW kind \in MoveKinds, advanced \in SnapshotRecord,
         state \in [ProgramId -> {"active", "paused", "terminated"}],
         marked_for_pause \in [ProgramId -> BOOLEAN],
         advanced' = AdvanceSnapshot(advanced, kind, p),
         UNCHANGED <<hook, status>>,
         state' = [state EXCEPT ![p] = CASE kind = "resume" -> "active"
                                         [] kind = "pause" -> "paused"
                                         [] kind = "release" -> "terminated"
                                         [] OTHER -> state[p]],
         marked_for_pause' = [marked_for_pause EXCEPT ![p] = CASE kind = "mark" -> TRUE
                                                               [] kind = "queue" -> marked_for_pause[p]
                                                               [] OTHER -> FALSE],
         hook.kind = "cycle" => AdvancedSnapshotExact
  PROVE  /\ advanced' \in SnapshotRecord
         /\ hook.kind = "cycle" => AdvancedSnapshotExact'
<1> DEFINE s == CASE kind = "resume" -> "active"
                  [] kind = "pause" -> "paused"
                  [] kind = "release" -> "terminated"
                  [] OTHER -> advanced.state[p]
           m == CASE kind = "mark" -> TRUE
                  [] kind = "queue" -> advanced.marked[p]
                  [] OTHER -> FALSE
           states == [advanced.state EXCEPT ![p] = s]
           marks == [advanced.marked EXCEPT ![p] = m]
           waits == {q \in ProgramId : states[q] = "paused"}
<1>1. /\ advanced.state \in [ProgramId -> {"active", "paused", "terminated"}]
      /\ advanced.status \in [ProgramId -> {"reasoning", "acting"}]
      /\ advanced.marked \in [ProgramId -> BOOLEAN]
  BY DEF SnapshotRecord
<1>2. s \in {"active", "paused", "terminated"} /\ m \in BOOLEAN
  <2>1. s \in {"active", "paused", "terminated"}
    BY <1>1 DEF MoveKinds
  <2>2. m \in BOOLEAN
    BY <1>1 DEF MoveKinds
  <2> QED BY <2>1, <2>2
<1>3. /\ states \in [ProgramId -> {"active", "paused", "terminated"}]
      /\ marks \in [ProgramId -> BOOLEAN] /\ waits \in SUBSET ProgramId
  BY <1>1, <1>2
<1>4. advanced' = [advanced EXCEPT !.state = states, !.marked = marks, !.waiting = waits]
  BY DEF AdvanceSnapshot, SnapshotRecord
<1>5. ASSUME hook.kind = "cycle", AdvancedSnapshotExact
      PROVE  states = state' /\ marks = marked_for_pause'
  <2>1. advanced.state = state /\ advanced.marked = marked_for_pause
    BY <1>5 DEF AdvancedSnapshotExact
  <2> QED BY <2>1
<1> HIDE DEF states, marks, waits
<1>6. /\ advanced' \in SnapshotRecord /\ advanced'.state = states /\ advanced'.marked = marks
      /\ advanced'.waiting = waits /\ advanced'.status = advanced.status
  BY <1>3, <1>4 DEF SnapshotRecord
<1>7. ASSUME hook.kind = "cycle" PROVE AdvancedSnapshotExact'
  <2>1. states = state' /\ marks = marked_for_pause'
    BY <1>5, <1>7
  <2>2. waits = {q \in ProgramId : state'[q] = "paused"}
    BY <2>1 DEF waits
  <2> QED BY <1>6, <1>7, <2>1, <2>2 DEF AdvancedSnapshotExact
<1> QED BY <1>6, <1>7

\* The event of an accepted transition, reported to the strategy.
LEMMA AppliedMoves ==
  ASSUME TTLInv, requests # << >>, NEW p \in ProgramId, NEW kind \in MoveKinds,
         kind = Head(requests).kind, NEW f, Applied(p, f),
         UNCHANGED <<hook, status>>,
         state' = [state EXCEPT ![p] = CASE kind = "resume" -> "active"
                                         [] kind = "pause" -> "paused"
                                         [] kind = "release" -> "terminated"
                                         [] OTHER -> state[p]],
         marked_for_pause' = [marked_for_pause EXCEPT ![p] = CASE kind = "mark" -> TRUE
                                                               [] kind = "queue" -> marked_for_pause[p]
                                                               [] OTHER -> FALSE]
  PROVE  /\ MovesHook(p, kind)
         /\ \A q \in ProgramId \ {p} : state'[q] = state[q] /\ marked_for_pause'[q] = marked_for_pause[q]
         /\ kind = "resume" => state'[p] = "active"
         /\ kind = "pause" => state'[p] = "paused"
         /\ kind = "release" => state'[p] = "terminated"
         /\ kind \in {"mark", "queue"} => state'[p] = state[p]
         /\ kind = "queue" => marked_for_pause'[p] = marked_for_pause[p]
<1>1. /\ state \in [ProgramId -> {"active", "paused", "terminated"}]
      /\ marked_for_pause \in [ProgramId -> BOOLEAN] /\ advanced \in SnapshotRecord
      /\ hook.kind = "cycle" => AdvancedSnapshotExact
  BY DEF TTLInv, SchedulerInv, SchedulerTypeOK, HookTypes, CycleFacts
<1>2. advanced' = AdvanceSnapshot(advanced, kind, p)
  BY DEF Applied
<1>3. advanced' \in SnapshotRecord /\ (hook.kind = "cycle" => AdvancedSnapshotExact')
  BY <1>1, <1>2, LedgerFollows
<1>4. MovesHook(p, kind)
  BY <1>3 DEF MovesHook, Applied
<1> QED BY <1>1, <1>4

\* What an application starts from.
LEMMA AtApply ==
  ASSUME TTLInv, requests # << >>
  PROVE  /\ Head(requests).program \in ProgramId /\ Valid(Head(requests))
         /\ factors[Head(requests).program] \in FactorRecord
         /\ factors[Head(requests).program].privileged =>
              factors[Head(requests).program].privilege_left # None
         /\ factors[Head(requests).program].ttl # None =>
              factors[Head(requests).program].acting_age # None
<1>1. requests \in Seq(RequestRecord) /\ AllValid(requests)
  BY DEF TTLInv, HookTypes, RequestsValid
<1>2. /\ Head(requests) = requests[1] /\ Head(requests) \in RequestRecord
      /\ 1 \in DOMAIN requests
  BY <1>1, TailFacts
<1>3. Head(requests).program \in ProgramId
  BY <1>2 DEF RequestRecord
<1>4. Valid(requests[1])
  BY <1>1, <1>2 DEF AllValid
<1>5. Valid(Head(requests))
  BY <1>2, <1>4
<1> QED BY <1>3, <1>5 DEF TTLInv, HookTypes, TTLTypeOK, Clocked, PrivilegeInv, Ending

\* on_program_resumed()
LEMMA ApplyResumeKeeps ==
  ASSUME TTLInv, ApplyResume
  PROVE  TTLInv'
<1> DEFINE p == Head(requests).program
           f == StartSegment(factors[p])
<1>0. SchedulerInv' /\ IsFiniteSet(programs')
  BY StepKeepsRuntime DEF TTLNext, Apply
<1>1. requests # << >> /\ Head(requests).kind = "resume" /\ AdmitOrResume(p) /\ Applied(p, f)
  BY DEF ApplyResume, Requesting
<1>2. p \in ProgramId /\ factors[p] \in FactorRecord
      /\ (factors[p].privileged => factors[p].privilege_left # None)
  BY <1>1, AtApply
<1> HIDE DEF p
<1>3. /\ UNCHANGED <<registryVars, status, hook, pool_program>> /\ p \in programs
      /\ state' = [state EXCEPT ![p] = "active"]
      /\ marked_for_pause' = [marked_for_pause EXCEPT ![p] = FALSE]
  BY <1>1 DEF AdmitOrResume
<1>4. programs' = programs /\ task_id' = task_id
  BY <1>3 DEF registryVars
<1>5. /\ MovesHook(p, "resume") /\ state'[p] = "active"
      /\ \A q \in ProgramId \ {p} : state'[q] = state[q] /\ marked_for_pause'[q] = marked_for_pause[q]
  BY <1>1, <1>2, <1>3, AppliedMoves DEF MoveKinds
<1>6. MovesProgram(p, "resume")
  BY <1>3, <1>4, <1>5 DEF MovesProgram
<1>7. /\ f \in FactorRecord /\ f.privileged = factors[p].privileged
      /\ f.privilege_left = factors[p].privilege_left /\ f.ttl = None
  BY <1>2, StartSegmentFields
<1> HIDE DEF f
<1>8. /\ factors' \in Factors /\ Clocked(factors') /\ Ending(factors')
      /\ factors'[p] = f /\ \A q \in ProgramId \ {p} : factors'[q] = factors[q]
  BY <1>1, <1>2, <1>7, OneFactor DEF Applied
<1>9. MovesFactors(p, "resume")
  BY <1>7, <1>8 DEF MovesFactors, MoveKinds
<1> QED BY <1>0, <1>1, <1>5, <1>6, <1>9, MoveKeeps DEF p

\* on_program_paused()
LEMMA ApplyPauseKeeps ==
  ASSUME TTLInv, ApplyPause
  PROVE  TTLInv'
<1> DEFINE p == Head(requests).program
           f == OnProgramPaused(factors[p], Head(requests).reason)
<1>0. SchedulerInv' /\ IsFiniteSet(programs')
  BY StepKeepsRuntime DEF TTLNext, Apply
<1>1. requests # << >> /\ Head(requests).kind = "pause" /\ Pause(p) /\ Applied(p, f)
  BY DEF ApplyPause, Requesting
<1>2. p \in ProgramId /\ factors[p] \in FactorRecord
      /\ (factors[p].privileged => factors[p].privilege_left # None)
  BY <1>1, AtApply
<1> HIDE DEF p
<1>3. /\ UNCHANGED <<registryVars, status, hook, pool_program>> /\ p \in programs
      /\ state' = [state EXCEPT ![p] = "paused"]
      /\ marked_for_pause' = [marked_for_pause EXCEPT ![p] = FALSE]
  BY <1>1 DEF Pause, CanPause, ToPaused, requestVars
<1>4. programs' = programs /\ task_id' = task_id
  BY <1>3 DEF registryVars
<1>5. /\ MovesHook(p, "pause") /\ state'[p] = "paused"
      /\ \A q \in ProgramId \ {p} : state'[q] = state[q] /\ marked_for_pause'[q] = marked_for_pause[q]
  BY <1>1, <1>2, <1>3, AppliedMoves DEF MoveKinds
<1>6. MovesProgram(p, "pause")
  BY <1>3, <1>4, <1>5 DEF MovesProgram
<1>7. /\ f \in FactorRecord
      /\ f.privileged => factors[p].privileged /\ f.privilege_left = factors[p].privilege_left
      /\ f.ttl = None /\ f.release_left = PausedTtl
  BY <1>2, OnProgramPausedFields
<1> HIDE DEF f
<1>8. /\ factors' \in Factors /\ Clocked(factors') /\ Ending(factors')
      /\ factors'[p] = f /\ \A q \in ProgramId \ {p} : factors'[q] = factors[q]
  BY <1>1, <1>2, <1>7, OneFactor DEF Applied
<1>9. MovesFactors(p, "pause")
  BY <1>7, <1>8, ClocksAreSet DEF MovesFactors, MoveKinds
<1> QED BY <1>0, <1>1, <1>5, <1>6, <1>9, MoveKeeps DEF p

\* on_program_marked_for_pause()
LEMMA ApplyMarkKeeps ==
  ASSUME TTLInv, ApplyMark
  PROVE  TTLInv'
<1> DEFINE p == Head(requests).program
           f == [factors[p] EXCEPT !.ttl = None]
<1>0. SchedulerInv' /\ IsFiniteSet(programs')
  BY StepKeepsRuntime DEF TTLNext, Apply
<1>1. requests # << >> /\ Head(requests).kind = "mark" /\ MarkForPause(p) /\ Applied(p, f)
  BY DEF ApplyMark, Requesting
<1>2. p \in ProgramId /\ factors[p] \in FactorRecord
      /\ (factors[p].privileged => factors[p].privilege_left # None)
  BY <1>1, AtApply
<1> HIDE DEF p
<1>3. /\ UNCHANGED <<registryVars, state, status, hook, pool_program>> /\ p \in programs
      /\ marked_for_pause' = [marked_for_pause EXCEPT ![p] = TRUE]
  BY <1>1 DEF MarkForPause, requestVars
<1>4. programs' = programs /\ task_id' = task_id
  BY <1>3 DEF registryVars
<1>5. /\ MovesHook(p, "mark") /\ state'[p] = state[p]
      /\ \A q \in ProgramId \ {p} : state'[q] = state[q] /\ marked_for_pause'[q] = marked_for_pause[q]
  <2>1. state' = [state EXCEPT ![p] = state[p]]
    BY <1>2, <1>3 DEF TTLInv, SchedulerInv, SchedulerTypeOK
  <2> QED BY <1>1, <1>2, <1>3, <2>1, AppliedMoves DEF MoveKinds
<1>6. MovesProgram(p, "mark")
  BY <1>3, <1>4, <1>5 DEF MovesProgram
<1>7. /\ f \in FactorRecord /\ f.privileged = factors[p].privileged
      /\ f.privilege_left = factors[p].privilege_left /\ f.ttl = None
  BY <1>2, ClockTypes DEF FactorRecord
<1> HIDE DEF f
<1>8. /\ factors' \in Factors /\ Clocked(factors') /\ Ending(factors')
      /\ factors'[p] = f /\ \A q \in ProgramId \ {p} : factors'[q] = factors[q]
  BY <1>1, <1>2, <1>7, OneFactor DEF Applied
<1>9. MovesFactors(p, "mark")
  BY <1>7, <1>8 DEF MovesFactors, MoveKinds
<1> QED BY <1>0, <1>1, <1>5, <1>6, <1>9, MoveKeeps DEF p

\* on_program_released()
LEMMA ApplyReleaseKeeps ==
  ASSUME TTLInv, ApplyRelease
  PROVE  TTLInv'
<1> DEFINE p == Head(requests).program
<1>0. SchedulerInv' /\ IsFiniteSet(programs')
  BY StepKeepsRuntime DEF TTLNext, Apply
<1>1. requests # << >> /\ Head(requests).kind = "release" /\ ReleaseIdle(p) /\ Applied(p, FreshFactors)
  BY DEF ApplyRelease, Requesting
<1>2. p \in ProgramId /\ status[p] = "acting"
  BY <1>1, AtApply DEF Valid
<1> HIDE DEF p
<1>3. Ref(p)[1] = p
  BY DEF Ref
<1>4. /\ programs' = programs \ {p} /\ task_id' = [task_id EXCEPT ![p] = None]
      /\ UNCHANGED <<hook, pool_program>>
      /\ state' = [state EXCEPT ![p] = "terminated"]
      /\ status' = [status EXCEPT ![p] = "acting"]
      /\ marked_for_pause' = [marked_for_pause EXCEPT ![p] = FALSE]
  BY <1>1, <1>3 DEF ReleaseIdle, ReleaseProgram, Release, requestVars
<1>5. status' = status /\ \A q \in ProgramId \ {p} : task_id'[q] = task_id[q]
  BY <1>2, <1>4 DEF TTLInv, SchedulerInv, SchedulerTypeOK, RegistryInv, RegistryTypeOK
<1>6. /\ MovesHook(p, "release") /\ state'[p] = "terminated"
      /\ \A q \in ProgramId \ {p} : state'[q] = state[q] /\ marked_for_pause'[q] = marked_for_pause[q]
  BY <1>1, <1>2, <1>4, <1>5, AppliedMoves DEF MoveKinds
<1>7. MovesProgram(p, "release")
  BY <1>4, <1>5, <1>6 DEF MovesProgram
<1>8. /\ factors' \in Factors /\ Clocked(factors') /\ Ending(factors')
      /\ factors'[p] = FreshFactors /\ \A q \in ProgramId \ {p} : factors'[q] = factors[q]
  BY <1>1, <1>2, FreshFactorsFields, OneFactor DEF Applied
<1>9. MovesFactors(p, "release")
  BY <1>8, FreshFactorsFields DEF MovesFactors, MoveKinds
<1> QED BY <1>0, <1>1, <1>6, <1>7, <1>9, MoveKeeps DEF p

\* _queue() gives the candidate its force deadline.
LEMMA ApplyQueueKeeps ==
  ASSUME TTLInv, ApplyQueue
  PROVE  TTLInv'
<1> DEFINE p == Head(requests).program
<1>0. SchedulerInv' /\ IsFiniteSet(programs')
  BY StepKeepsRuntime DEF TTLNext, Apply
<1>1. requests # << >> /\ Head(requests).kind = "queue" /\ UNCHANGED schedulerVars
  BY DEF ApplyQueue, Requesting
<1>t. PICK timeout \in ForceMin..ForceMax : Applied(p, QueueRequest(factors[p], timeout))
  BY DEF ApplyQueue
<1> DEFINE f == QueueRequest(factors[p], timeout)
<1>2. p \in ProgramId /\ factors[p] \in FactorRecord /\ p \in programs
      /\ (factors[p].privileged => factors[p].privilege_left # None)
  BY <1>1, AtApply DEF Valid
<1> HIDE DEF p
<1>3. /\ programs' = programs /\ task_id' = task_id
      /\ UNCHANGED <<state, status, marked_for_pause, hook, pool_program>>
  BY <1>1 DEF schedulerVars, registryVars, recordVars, requestVars
<1>5. /\ MovesHook(p, "queue") /\ state'[p] = state[p] /\ marked_for_pause'[p] = marked_for_pause[p]
      /\ \A q \in ProgramId \ {p} : state'[q] = state[q] /\ marked_for_pause'[q] = marked_for_pause[q]
  <2>1. /\ state' = [state EXCEPT ![p] = state[p]]
        /\ marked_for_pause' = [marked_for_pause EXCEPT ![p] = marked_for_pause[p]]
    BY <1>2, <1>3 DEF TTLInv, SchedulerInv, SchedulerTypeOK
  <2> QED BY <1>1, <1>2, <1>3, <1>t, <2>1, AppliedMoves DEF MoveKinds
<1>6. MovesProgram(p, "queue")
  BY <1>2, <1>3, <1>5 DEF MovesProgram
<1>7. /\ f \in FactorRecord /\ f.privileged = factors[p].privileged
      /\ f.privilege_left = factors[p].privilege_left /\ f.ttl = None /\ f.force_left # None
  BY <1>2, QueueRequestFields
<1>8. /\ factors' \in Factors /\ Clocked(factors') /\ Ending(factors')
      /\ factors'[p] = f /\ \A q \in ProgramId \ {p} : factors'[q] = factors[q]
  <2>1. factors' = [factors EXCEPT ![p] = f]
    BY <1>t DEF Applied
  <2> HIDE DEF f
  <2> QED BY <1>2, <1>7, <2>1, OneFactor
<1> HIDE DEF f
<1>9. MovesFactors(p, "queue")
  BY <1>7, <1>8 DEF MovesFactors, MoveKinds
<1> QED BY <1>0, <1>1, <1>5, <1>6, <1>9, MoveKeeps DEF p

\* _set_privileged()
LEMMA SetPrivilegeKeeps ==
  ASSUME TTLInv, SetPrivilege
  PROVE  TTLInv'
<1> DEFINE p == Head(requests).program
           kind == Head(requests).kind
           enabled == kind = "promote"
           f == SetPrivileged(factors[p], enabled)
<1>0. SchedulerInv' /\ IsFiniteSet(programs')
  BY StepKeepsRuntime DEF TTLNext, Apply
<1>1. /\ requests # << >> /\ kind \in {"promote", "demote"}
      /\ factors' = [factors EXCEPT ![p] = SetPrivileged(@, kind = "promote")]
      /\ requests' = Tail(requests)
      /\ UNCHANGED <<schedulerVars, continuity_enabled, next_check, next_lightweight,
                     phase, snapshot, advanced, todo, protected, outcome>>
  BY DEF SetPrivilege, Requesting
<1>2. p \in ProgramId /\ factors[p] \in FactorRecord /\ p \in programs
      /\ (factors[p].privileged => factors[p].privilege_left # None)
      /\ (factors[p].ttl # None => factors[p].acting_age # None)
  BY <1>1, AtApply DEF Valid
<1>3. /\ programs' = programs /\ task_id' = task_id
      /\ UNCHANGED <<state, status, marked_for_pause, hook, pool_program>>
  BY <1>1 DEF schedulerVars, registryVars, recordVars, requestVars
<1>4. factors' = [factors EXCEPT ![p] = f]
  BY <1>1, <1>2
<1>5. enabled \in BOOLEAN
  OBVIOUS
<1> HIDE DEF p, enabled
<1>6. MovesProgram(p, kind)
  BY <1>1, <1>2, <1>3 DEF MovesProgram
<1>7. /\ f \in FactorRecord /\ f.privileged = enabled /\ (enabled => f.privilege_left # None)
      /\ f.force_left = factors[p].force_left /\ SameClocks(factors[p], f)
  BY <1>2, <1>5, SetPrivilegedFields DEF SameClocks
<1> HIDE DEF f
<1>8. /\ factors' \in Factors /\ Clocked(factors') /\ Ending(factors')
      /\ factors'[p] = f /\ \A q \in ProgramId \ {p} : factors'[q] = factors[q]
  <2>1. f.ttl # None => f.acting_age # None
    BY <1>2, <1>7 DEF SameClocks
  <2>2. f.privileged => f.privilege_left # None
    BY <1>7
  <2> QED BY <1>2, <1>4, <1>7, <2>1, <2>2, OneFactor
<1>9. MovesFactors(p, kind)
  BY <1>1, <1>7, <1>8 DEF MovesFactors, MoveKinds, enabled
<1>10. MovesHook(p, kind)
  <2>1. advanced' \in SnapshotRecord
    BY <1>1 DEF TTLInv, HookTypes
  <2>2. hook.kind = "cycle" => AdvancedSnapshotExact'
    BY <1>1, <1>3 DEF TTLInv, CycleFacts, AdvancedSnapshotExact
  <2> QED BY <1>1, <2>1, <2>2 DEF MovesHook
<1> HIDE DEF kind
<1> QED BY <1>0, <1>1, <1>6, <1>9, <1>10, MoveKeeps DEF p, kind

-----------------------------------------------------------------------------
(***************************************************************************)
(* The entry points of the runtime, the ends of its hooks, and time.       *)
(***************************************************************************)

\* What every entry point starts from.
LEMMA AtIdle ==
  ASSUME TTLInv, hook = Idle
  PROVE  /\ phase = "none" /\ requests = << >> /\ outcome = "none"
         /\ factors \in Factors /\ Clocked(factors) /\ Ending(factors)
         /\ Bounded(Holders(factors)) /\ IsFiniteSet(programs)
         /\ next_check = NextCheckAt(factors, TransitionsEnabled)
         /\ next_lightweight = NextLightweightCheckAt(factors)
         /\ \A p \in ProgramId :
              state[p] = "paused" /\ status[p] = "reasoning" => factors[p].force_left # None
<1>1. hook.kind = "idle"
  BY DEF Idle
<1>2. phase = "none" /\ requests = << >>
  BY <1>1 DEF TTLInv, HookPhase
<1>3. outcome = "none"
  BY <1>2 DEF TTLInv, HookPhase
<1>4. Pending(requests, {"demote"}) = {} /\ Pending(requests, {"promote"}) = {}
  BY <1>2, PendingNone
<1>5. FutureHolders(factors, requests) = Holders(factors)
  BY <1>4 DEF FutureHolders
<1>6. Bounded(Holders(factors)) /\ Ending(factors)
  BY <1>5 DEF TTLInv, PrivilegeInv
<1>7. factors \in Factors /\ Clocked(factors) /\ IsFiniteSet(programs)
  BY DEF TTLInv, HookTypes, TTLTypeOK, Factors
<1>8. /\ next_check = NextCheckAt(factors, TransitionsEnabled)
      /\ next_lightweight = NextLightweightCheckAt(factors)
  BY <1>2 DEF TTLInv, DeadlineInv
<1>9. \A p \in ProgramId :
        state[p] = "paused" /\ status[p] = "reasoning" => factors[p].force_left # None
  BY <1>1 DEF TTLInv, WaiterInv
<1> QED BY <1>2, <1>3, <1>6, <1>7, <1>8, <1>9

\* With no request decided on, the facts about requests hold of themselves.
LEMMA NoRequestKeeps ==
  ASSUME SchedulerInv', IsFiniteSet(programs'), HookTypes', HookPhase',
         phase' \in {"none", "admission", "completion"}, AdmissionFacts',
         phase' = "completion" => snapshot'.state = state' /\ snapshot'.status = status',
         Bounded(Holders(factors))', Ending(factors'), DeadlineInv', WaiterInv', ClockInv'
  PROVE  TTLInv'
<1>1. requests' = << >> /\ outcome' = "none" /\ hook'.kind # "cycle" /\ phase' # "yielding"
  BY DEF HookPhase
<1>2. RequestsValid'
  BY <1>1 DEF RequestsValid, AllValid, NoClash
<1>3. OutcomeFacts'
  BY <1>1 DEF OutcomeFacts
<1>4. CompletionFacts'
  BY <1>1 DEF CompletionFacts
<1>5. CycleFacts'
  BY <1>1 DEF CycleFacts
<1>6. Pending(requests', {"demote"}) = {} /\ Pending(requests', {"promote"}) = {}
  BY <1>1, PendingNone
<1>7. FutureHolders(factors', requests') = Holders(factors')
  BY <1>6 DEF FutureHolders
<1>8. FutureHolders(factors, requests)' = FutureHolders(factors', requests')
  BY DEF FutureHolders, Holders, Pending
<1>9. Holders(factors)' = Holders(factors')
  BY DEF Holders
<1>10. PrivilegeInv'
  BY <1>7, <1>8, <1>9 DEF PrivilegeInv, Bounded, Ending
<1> QED BY <1>2, <1>3, <1>4, <1>5, <1>10 DEF TTLInv

\* A step that ends between hooks, with the deadlines cached.
LEMMA IdleKeeps ==
  ASSUME SchedulerInv', IsFiniteSet(programs'), hook' = Idle,
         phase' = "none", requests' = << >>, outcome' = "none",
         snapshot' \in SnapshotRecord, advanced' \in SnapshotRecord,
         todo' \subseteq ProgramId, protected' \subseteq ProgramId,
         continuity_enabled' \in BOOLEAN,
         factors' \in Factors, Clocked(factors'), Ending(factors'),
         next_check' = NextCheckAt(factors', TransitionsEnabled'),
         next_lightweight' = NextLightweightCheckAt(factors'),
         Bounded(Holders(factors))',
         \A p \in ProgramId :
           state'[p] = "paused" /\ status'[p] = "reasoning" => factors'[p].force_left # None,
         ClockInv'
  PROVE  TTLInv'
<1>1. TransitionsEnabled' \in BOOLEAN
  BY DEF TransitionsEnabled
<1>2. next_check' \in Nat \cup {None} /\ next_lightweight' \in Nat \cup {None}
  BY <1>1, NextCheckAtType, NextLightweightType
<1>3. TTLTypeOK'
  BY <1>2 DEF TTLTypeOK, Factors
<1>4. requests' \in Seq(RequestRecord)
  OBVIOUS
<1>5. HookTypes'
  BY <1>3, <1>4 DEF HookTypes, SnapshotRecord, RequestRecord, Clocked
<1>6. hook'.kind = "idle"
  BY DEF Idle
<1>7. HookPhase' /\ AdmissionFacts'
  BY <1>6 DEF HookPhase, AdmissionFacts
<1>8. DeadlineInv'
  BY DEF DeadlineInv, NextCheckAt, NextLightweightCheckAt
<1>9. WaiterInv'
  BY DEF WaiterInv
<1> QED BY <1>5, <1>7, <1>8, <1>9, NoRequestKeeps

\* What a step between hooks that leaves the hook's own variables alone keeps.
LEMMA StaysIdleKeeps ==
  ASSUME TTLInv, hook = Idle, hook' = Idle, UNCHANGED <<hookVars, continuity_enabled>>,
         SchedulerInv', IsFiniteSet(programs'),
         factors' \in Factors, Clocked(factors'), Ending(factors'),
         next_check' = NextCheckAt(factors', TransitionsEnabled'),
         next_lightweight' = NextLightweightCheckAt(factors'),
         Bounded(Holders(factors))',
         \A p \in ProgramId :
           state'[p] = "paused" /\ status'[p] = "reasoning" => factors'[p].force_left # None,
         ClockInv'
  PROVE  TTLInv'
<1>1. /\ phase' = "none" /\ requests' = << >> /\ outcome' = "none"
  BY AtIdle DEF hookVars
<1>2. /\ snapshot' \in SnapshotRecord /\ advanced' \in SnapshotRecord
      /\ todo' \subseteq ProgramId /\ protected' \subseteq ProgramId
      /\ continuity_enabled' \in BOOLEAN
  BY DEF hookVars, TTLInv, HookTypes, TTLTypeOK
<1> QED BY <1>1, <1>2, IdleKeeps

\* No new privilege, and none of a Program that goes or changes its task.
LEMMA HoldersStayBounded ==
  ASSUME TTLInv, Bounded(Holders(factors)),
         \A p \in ProgramId : factors'[p].privileged =>
           factors[p].privileged /\ p \in programs' /\ task_id'[p] = task_id[p]
  PROVE  Bounded(Holders(factors))'
<1> DEFINE F == Holders(factors)
           G == Holders(factors')
<1>1. G \in SUBSET F /\ \A p \in G : p \in programs' /\ task_id'[p] = task_id[p]
  BY DEF Holders
<1>2. IsFiniteSet(programs) /\ Bounded(F)
  BY DEF TTLInv
<1>3. Holders(factors)' = G
  BY DEF Holders
<1> HIDE DEF F, G
<1>4. /\ G \subseteq programs' /\ Cardinality(G) <= PrivilegedLimit
      /\ \A p, q \in G : p # q => task_id'[p] # task_id'[q]
      /\ \A p \in G : task_id'[p] # None
  BY <1>1, <1>2, BoundedSubset
<1> QED BY <1>3, <1>4 DEF Bounded

\* consume_admitted_requests() touches no Program.
LEMMA ConsumeKeeps ==
  ASSUME TTLInv, Consume
  PROVE  TTLInv'
<1>0. SchedulerInv' /\ IsFiniteSet(programs')
  BY StepKeepsRuntime DEF TTLNext
<1>1. hook = Idle /\ UNCHANGED <<registryVars, recordVars, hook, strategyVars, hookVars>>
  BY DEF Consume, ConsumeAdmitted, TakeAdmitted
<1>2. UNCHANGED <<programs, task_id, state, status, factors, continuity_enabled,
                  next_check, next_lightweight>>
  BY <1>1 DEF registryVars, recordVars, strategyVars
<1>3. TransitionsEnabled' = TransitionsEnabled
  BY <1>2 DEF TransitionsEnabled
<1>4. /\ factors \in Factors /\ Clocked(factors) /\ Ending(factors) /\ Bounded(Holders(factors))
      /\ next_check = NextCheckAt(factors, TransitionsEnabled)
      /\ next_lightweight = NextLightweightCheckAt(factors)
      /\ \A p \in ProgramId :
           state[p] = "paused" /\ status[p] = "reasoning" => factors[p].force_left # None
  BY <1>1, AtIdle
<1>5. Bounded(Holders(factors))' /\ ClockInv'
  BY <1>2, <1>4 DEF Bounded, Holders, TTLInv, ClockInv
<1> QED BY <1>0, <1>1, <1>2, <1>3, <1>4, <1>5, StaysIdleKeeps

\* A refused arrival touches no Program.
LEMMA ArriveRefusedKeeps ==
  ASSUME TTLInv, NEW r \in Request, NEW m \in KnownIdentity, ArriveRefused(r, m)
  PROVE  TTLInv'
<1>0. SchedulerInv' /\ IsFiniteSet(programs')
  BY StepKeepsRuntime DEF TTLNext
<1>1. hook = Idle /\ UNCHANGED <<registryVars, recordVars, hook, strategyVars, hookVars>>
  BY DEF ArriveRefused, OnRequestArrivalRefused, Unused, RefuseArrival
<1>2. UNCHANGED <<programs, task_id, state, status, factors, continuity_enabled,
                  next_check, next_lightweight>>
  BY <1>1 DEF registryVars, recordVars, strategyVars
<1>3. TransitionsEnabled' = TransitionsEnabled
  BY <1>2 DEF TransitionsEnabled
<1>4. /\ factors \in Factors /\ Clocked(factors) /\ Ending(factors) /\ Bounded(Holders(factors))
      /\ next_check = NextCheckAt(factors, TransitionsEnabled)
      /\ next_lightweight = NextLightweightCheckAt(factors)
      /\ \A p \in ProgramId :
           state[p] = "paused" /\ status[p] = "reasoning" => factors[p].force_left # None
  BY <1>1, AtIdle
<1>5. Bounded(Holders(factors))' /\ ClockInv'
  BY <1>2, <1>4 DEF Bounded, Holders, TTLInv, ClockInv
<1> QED BY <1>0, <1>1, <1>2, <1>3, <1>4, <1>5, StaysIdleKeeps

\* A tick moves every clock and the two cached deadlines together.
LEMMA TickKeeps ==
  ASSUME TTLInv, Tick
  PROVE  TTLInv'
<1>0. SchedulerInv' /\ IsFiniteSet(programs')
  BY StepKeepsRuntime DEF TTLNext
<1>1. /\ hook = Idle /\ UNCHANGED <<schedulerVars, continuity_enabled, hookVars>>
      /\ next_check' = Countdown(next_check) /\ next_lightweight' = Countdown(next_lightweight)
  BY DEF Tick
<1>2. UNCHANGED <<programs, task_id, state, status, hook>>
  BY <1>1 DEF schedulerVars, registryVars, recordVars
<1>3. TransitionsEnabled' = TransitionsEnabled /\ TransitionsEnabled \in BOOLEAN
  BY <1>1 DEF TransitionsEnabled
<1>4. /\ factors \in Factors /\ Clocked(factors) /\ Ending(factors) /\ Bounded(Holders(factors))
      /\ next_check = NextCheckAt(factors, TransitionsEnabled)
      /\ next_lightweight = NextLightweightCheckAt(factors)
      /\ \A p \in ProgramId :
           state[p] = "paused" /\ status[p] = "reasoning" => factors[p].force_left # None
  BY <1>1, AtIdle
<1>5. factors' = [p \in ProgramId |-> Older(factors[p])]
  BY DEF Tick, Older
<1>6. \A p \in ProgramId :
        /\ factors'[p] = Older(factors[p]) /\ factors'[p] \in FactorRecord
        /\ factors'[p].privileged = factors[p].privileged /\ factors'[p].ttl = factors[p].ttl
        /\ factors'[p].privilege_left = None <=> factors[p].privilege_left = None
        /\ factors'[p].force_left = None <=> factors[p].force_left = None
        /\ factors'[p].release_left = None <=> factors[p].release_left = None
        /\ factors'[p].acting_age = None <=> factors[p].acting_age = None
  <2> SUFFICES ASSUME NEW p \in ProgramId
      PROVE  /\ factors'[p] = Older(factors[p]) /\ factors'[p] \in FactorRecord
             /\ factors'[p].privileged = factors[p].privileged /\ factors'[p].ttl = factors[p].ttl
             /\ factors'[p].privilege_left = None <=> factors[p].privilege_left = None
             /\ factors'[p].force_left = None <=> factors[p].force_left = None
             /\ factors'[p].release_left = None <=> factors[p].release_left = None
             /\ factors'[p].acting_age = None <=> factors[p].acting_age = None
    OBVIOUS
  <2>1. factors[p] \in FactorRecord /\ factors'[p] = Older(factors[p])
    BY <1>4, <1>5 DEF Factors
  <2> QED BY <2>1, OlderFields
<1>7. factors' \in Factors
  BY <1>5, <1>6 DEF Factors
<1>8. Clocked(factors') /\ Ending(factors')
  BY <1>4, <1>6 DEF Clocked, Ending
<1>9. /\ next_check' = NextCheckAt(factors', TransitionsEnabled')
      /\ next_lightweight' = NextLightweightCheckAt(factors')
  BY <1>1, <1>3, <1>4, <1>6, <1>7, TickDeadlines
<1>10. Bounded(Holders(factors))'
  <2>1. \A p \in Holders(factors) : p \in programs
    BY <1>4 DEF Bounded
  <2>2. \A p \in ProgramId : factors'[p].privileged =>
          factors[p].privileged /\ p \in programs' /\ task_id'[p] = task_id[p]
    BY <1>2, <1>6, <2>1 DEF Holders
  <2> QED BY <1>4, <2>2, HoldersStayBounded
<1>11. ClockInv'
  BY <1>2, <1>6 DEF TTLInv, ClockInv, SchedulerInv, RegistryInv, RegistryTypeOK
<1>12. \A p \in ProgramId :
         state'[p] = "paused" /\ status'[p] = "reasoning" => factors'[p].force_left # None
  BY <1>2, <1>4, <1>6
<1> QED BY <1>0, <1>1, <1>2, <1>7, <1>8, <1>9, <1>10, <1>11, <1>12, StaysIdleKeeps

\* A privilege that has run out goes without another clock changing.
LEMMA LightweightCheckKeeps ==
  ASSUME TTLInv, LightweightCheck
  PROVE  TTLInv'
<1> DEFINE Lapsed(f) == [SetPrivileged(f, FALSE) EXCEPT !.privilege_ttl_expired = TRUE]
<1>0. SchedulerInv' /\ IsFiniteSet(programs')
  BY StepKeepsRuntime DEF TTLNext
<1>1. /\ hook = Idle /\ UNCHANGED <<schedulerVars, continuity_enabled, next_check, hookVars>>
      /\ next_lightweight' = NextLightweightCheckAt(factors')
      /\ factors' = [p \in ProgramId |->
           IF factors[p].privileged /\ factors[p].privilege_left = 0
           THEN Lapsed(factors[p]) ELSE factors[p]]
  BY DEF LightweightCheck
<1>2. UNCHANGED <<programs, task_id, state, status, hook>>
  BY <1>1 DEF schedulerVars, registryVars, recordVars
<1>3. TransitionsEnabled' = TransitionsEnabled
  BY <1>1 DEF TransitionsEnabled
<1>4. /\ factors \in Factors /\ Clocked(factors) /\ Ending(factors) /\ Bounded(Holders(factors))
      /\ next_check = NextCheckAt(factors, TransitionsEnabled)
      /\ \A p \in ProgramId :
           state[p] = "paused" /\ status[p] = "reasoning" => factors[p].force_left # None
  BY <1>1, AtIdle
<1>5. \A f \in FactorRecord :
        /\ Lapsed(f) \in FactorRecord /\ ~Lapsed(f).privileged
        /\ Lapsed(f).force_left = f.force_left /\ SameClocks(f, Lapsed(f))
  BY LightweightFields DEF SameClocks
<1> HIDE DEF Lapsed
<1>6. \A p \in ProgramId :
        /\ factors'[p] \in FactorRecord
        /\ factors'[p].privileged => factors'[p] = factors[p]
        /\ factors'[p].force_left = factors[p].force_left
        /\ SameClocks(factors[p], factors'[p])
  <2> SUFFICES ASSUME NEW p \in ProgramId
      PROVE  /\ factors'[p] \in FactorRecord
             /\ factors'[p].privileged => factors'[p] = factors[p]
             /\ factors'[p].force_left = factors[p].force_left
             /\ SameClocks(factors[p], factors'[p])
    OBVIOUS
  <2>1. factors[p] \in FactorRecord
    BY <1>4 DEF Factors
  <2>2. factors'[p] \in {factors[p], Lapsed(factors[p])}
    BY <1>1
  <2> QED BY <1>5, <2>1, <2>2 DEF SameClocks
<1>7. factors' \in Factors
  BY <1>1, <1>6 DEF Factors
<1>8. Clocked(factors') /\ Ending(factors')
  BY <1>4, <1>6 DEF Clocked, Ending, SameClocks
<1>9. next_check' = NextCheckAt(factors', TransitionsEnabled')
  BY <1>1, <1>3, <1>4, <1>6, NextCheckAtUnchanged
<1>10. Bounded(Holders(factors))'
  <2>1. \A p \in Holders(factors) : p \in programs
    BY <1>4 DEF Bounded
  <2>2. \A p \in ProgramId : factors'[p].privileged =>
          factors[p].privileged /\ p \in programs' /\ task_id'[p] = task_id[p]
    BY <1>2, <1>6, <2>1 DEF Holders
  <2> QED BY <1>4, <2>2, HoldersStayBounded
<1>11. ClockInv'
  BY <1>2, <1>6 DEF TTLInv, ClockInv, SchedulerInv, RegistryInv, RegistryTypeOK, SameClocks
<1>12. \A p \in ProgramId :
         state'[p] = "paused" /\ status'[p] = "reasoning" => factors'[p].force_left # None
  BY <1>2, <1>4, <1>6
<1> QED BY <1>0, <1>1, <1>2, <1>7, <1>8, <1>9, <1>10, <1>11, <1>12, StaysIdleKeeps

\* The release of a Program drops its sidecar and with it its clocks and privilege.
LEMMA ReleasedKeeps ==
  ASSUME TTLInv, hook = Idle, hook' = Idle, UNCHANGED <<hookVars, continuity_enabled>>,
         SchedulerInv', IsFiniteSet(programs'), NEW p \in ProgramId, ReleaseProgram(Ref(p)),
         factors' = [factors EXCEPT ![p] = FreshFactors], CacheDeadlines
  PROVE  TTLInv'
<1>1. Ref(p)[1] = p
  BY DEF Ref
<1>2. /\ programs' = programs \ {p} /\ task_id' = [task_id EXCEPT ![p] = None]
      /\ state' = [state EXCEPT ![p] = "terminated"]
      /\ status' = [status EXCEPT ![p] = "acting"]
  BY <1>1 DEF ReleaseProgram, Release
<1>3. /\ state'[p] = "terminated"
      /\ \A q \in ProgramId \ {p} : /\ state'[q] = state[q] /\ status'[q] = status[q]
                                    /\ task_id'[q] = task_id[q]
  BY <1>2 DEF TTLInv, SchedulerInv, SchedulerTypeOK, RegistryInv, RegistryTypeOK
<1>4. /\ Bounded(Holders(factors))
      /\ \A q \in ProgramId :
           state[q] = "paused" /\ status[q] = "reasoning" => factors[q].force_left # None
  BY AtIdle
<1>5. /\ factors' \in Factors /\ Clocked(factors') /\ Ending(factors')
      /\ factors'[p] = FreshFactors /\ \A q \in ProgramId \ {p} : factors'[q] = factors[q]
  BY FreshFactorsFields, OneFactor
<1>6. Bounded(Holders(factors))'
  <2>1. \A q \in Holders(factors) : q \in programs
    BY <1>4 DEF Bounded
  <2>2. \A q \in ProgramId : factors'[q].privileged =>
          factors[q].privileged /\ q \in programs' /\ task_id'[q] = task_id[q]
    BY <1>2, <1>3, <1>5, <2>1, FreshFactorsFields DEF Holders
  <2> QED BY <1>4, <2>2, HoldersStayBounded
<1>7. ClockInv'
  BY <1>2, <1>3, <1>5 DEF TTLInv, ClockInv, SchedulerInv, RegistryInv, RegistryTypeOK
<1>8. \A q \in ProgramId :
        state'[q] = "paused" /\ status'[q] = "reasoning" => factors'[q].force_left # None
  BY <1>3, <1>4, <1>5
<1>9. /\ next_check' = NextCheckAt(factors', TransitionsEnabled')
      /\ next_lightweight' = NextLightweightCheckAt(factors')
  BY DEF CacheDeadlines
<1> QED BY <1>5, <1>6, <1>7, <1>8, <1>9, StaysIdleKeeps

\* A terminal fact releases an idle Program.
LEMMA TerminalKeeps ==
  ASSUME TTLInv, NEW p \in ProgramId, Terminal(p)
  PROVE  TTLInv'
<1>0. SchedulerInv' /\ IsFiniteSet(programs')
  BY StepKeepsRuntime DEF TTLNext
<1>1. /\ hook = Idle /\ hook' = Idle /\ ReleaseProgram(Ref(p))
      /\ UNCHANGED <<hookVars, continuity_enabled>>
      /\ factors' = [factors EXCEPT ![p] = FreshFactors] /\ CacheDeadlines
  BY DEF Terminal, OnResponseTerminal, ReleaseTerminal
<1> QED BY <1>0, <1>1, ReleasedKeeps

\* A cancellation either releases a Program that was never served, or takes one
\* of its requests: none starts to wait by it.
LEMMA CancelKeeps ==
  ASSUME TTLInv, NEW r \in Request, Cancel(r)
  PROVE  TTLInv'
<1> DEFINE ref == request_bindings[r]
           p == ref[1]
<1>0. SchedulerInv' /\ IsFiniteSet(programs') /\ SchedulerInv
  BY StepKeepsRuntime DEF TTLNext, TTLInv
<1>1. /\ Cancellation /\ CancelRequest(r)
      /\ factors' = IF state'[p] = "terminated" THEN [factors EXCEPT ![p] = FreshFactors]
                    ELSE factors
      /\ IF UNCHANGED recordVars THEN UNCHANGED <<next_check, next_lightweight>>
         ELSE CacheDeadlines
      /\ UNCHANGED <<hookVars, continuity_enabled>>
  BY DEF Cancel
<1>2. hook = Idle /\ hook' = Idle /\ ref # None
  BY <1>1 DEF CancelRequest, DropBound
<1>3. p \in ProgramId /\ p \in programs /\ ref = Ref(p)
  BY <1>0, <1>2, BoundToCurrent
<1>4. state[p] # "terminated" /\ status[p] = "reasoning"
  <2>1. \E q \in Request : request_bindings[q] = Ref(p)
    BY <1>3
  <2> QED BY <1>0, <1>3, <2>1 DEF SchedulerInv, LiveStates, StatusTracksRequests
<1> DEFINE last == RequestsLeft(ref, r) = {}
<1>5. \/ state[p] = "paused" /\ ReleaseProgram(ref)
      \/ /\ status' = [status EXCEPT ![p] = IF ~Get(ref) THEN @ ELSE IF last THEN "acting" ELSE "reasoning"]
         /\ UNCHANGED <<registryVars, state, marked_for_pause, served, sideVars>>
  BY <1>1 DEF CancelRequest, DropBound
<1>6. CASE state[p] = "paused" /\ ReleaseProgram(ref)
  <2>1. ref[1] = p
    OBVIOUS
  <2>2. state' = [state EXCEPT ![p] = "terminated"]
    BY <1>6, <2>1 DEF ReleaseProgram
  <2>3. state'[p] = "terminated"
    BY <1>0, <1>3, <2>2 DEF SchedulerInv, SchedulerTypeOK
  <2>4. ~UNCHANGED recordVars
    BY <1>6, <2>3 DEF recordVars
  <2>5. CacheDeadlines /\ factors' = [factors EXCEPT ![p] = FreshFactors]
    BY <1>1, <2>3, <2>4
  <2> HIDE DEF ref, p
  <2> QED BY <1>0, <1>1, <1>2, <1>3, <1>6, <2>5, ReleasedKeeps
<1>7. CASE /\ status' = [status EXCEPT ![p] = IF ~Get(ref) THEN @ ELSE IF last THEN "acting" ELSE "reasoning"]
           /\ UNCHANGED <<registryVars, state, marked_for_pause, served, sideVars>>
  <2>1. factors' = factors /\ UNCHANGED <<programs, task_id, state>>
    BY <1>1, <1>4, <1>7 DEF registryVars
  <2>2. /\ Bounded(Holders(factors))
        /\ factors \in Factors /\ Clocked(factors) /\ Ending(factors)
        /\ next_check = NextCheckAt(factors, TransitionsEnabled)
        /\ next_lightweight = NextLightweightCheckAt(factors)
        /\ \A q \in ProgramId :
             state[q] = "paused" /\ status[q] = "reasoning" => factors[q].force_left # None
    BY <1>2, AtIdle
  <2>3. TransitionsEnabled' = TransitionsEnabled
    BY <1>1 DEF TransitionsEnabled
  <2>4. /\ next_check' = NextCheckAt(factors', TransitionsEnabled')
        /\ next_lightweight' = NextLightweightCheckAt(factors')
    BY <1>1, <2>1, <2>2, <2>3 DEF CacheDeadlines
  <2>5. \A q \in ProgramId : status'[q] = "reasoning" => status[q] = "reasoning"
    BY <1>0, <1>4, <1>7 DEF SchedulerInv, SchedulerTypeOK
  <2>6. \A q \in ProgramId :
          state'[q] = "paused" /\ status'[q] = "reasoning" => factors'[q].force_left # None
    BY <2>1, <2>2, <2>5
  <2>7. Bounded(Holders(factors))'
    BY <2>1, <2>2 DEF Bounded, Holders
  <2>8. ClockInv'
    BY <1>1 DEF ClockInv
  <2> QED BY <1>0, <1>1, <1>2, <2>1, <2>2, <2>4, <2>6, <2>7, <2>8, StaysIdleKeeps
<1> QED BY <1>5, <1>6, <1>7

\* The hook returns and the runtime is idle again.
LEMMA HookOverKeeps ==
  ASSUME TTLInv, requests = << >>, HookOver, hook' = Idle,
         SchedulerInv', IsFiniteSet(programs'),
         UNCHANGED <<programs, task_id, state, status, factors, continuity_enabled>>,
         next_check' = NextCheckAt(factors, TransitionsEnabled),
         next_lightweight' = NextLightweightCheckAt(factors),
         \A p \in ProgramId :
           state[p] = "paused" /\ status[p] = "reasoning" => factors[p].force_left # None
  PROVE  TTLInv'
<1>1. /\ phase' = "none" /\ requests' = << >> /\ outcome' = "none" /\ todo' = {} /\ protected' = {}
      /\ snapshot' = NoSnapshot /\ advanced' = NoSnapshot
  BY DEF HookOver
<1>2. NoSnapshot \in SnapshotRecord
  BY DEF NoSnapshot, SnapshotRecord
<1>3. Pending(requests, {"demote"}) = {} /\ Pending(requests, {"promote"}) = {}
  BY PendingNone
<1>4. FutureHolders(factors, requests) = Holders(factors)
  BY <1>3 DEF FutureHolders
<1>5. Bounded(Holders(factors)) /\ Ending(factors)
  BY <1>4 DEF TTLInv, PrivilegeInv
<1>6. factors \in Factors /\ Clocked(factors) /\ continuity_enabled \in BOOLEAN
  BY DEF TTLInv, HookTypes, TTLTypeOK, Factors
<1>7. Bounded(Holders(factors))' /\ ClockInv'
  BY <1>5 DEF Bounded, Holders, TTLInv, ClockInv
<1>8. TransitionsEnabled' = TransitionsEnabled
  BY DEF TransitionsEnabled
<1> QED BY <1>1, <1>2, <1>5, <1>6, <1>7, <1>8, IdleKeeps

\* A queued candidate has its force deadline when the runtime believes the outcome.
LEMMA FinishAdmissionKeeps ==
  ASSUME TTLInv, HandOver \/ Retain
  PROVE  TTLInv'
<1>0. SchedulerInv' /\ IsFiniteSet(programs')
  BY StepKeepsRuntime DEF TTLNext
<1>1. /\ phase = "outcome" /\ requests = << >> /\ hook' = Idle /\ HookOver
      /\ next_lightweight' = NextLightweightCheckAt(factors)
      /\ UNCHANGED <<registryVars, recordVars, factors, continuity_enabled, next_check>>
      /\ outcome \in {"admitted", "queued"}
  BY DEF HandOver, Retain, FinishAdmission
<1>2. UNCHANGED <<programs, task_id, state, status>>
  BY <1>1 DEF registryVars, recordVars
<1>3. next_check' = NextCheckAt(factors, TransitionsEnabled)
  BY <1>1 DEF TTLInv, DeadlineInv
<1>4. /\ outcome = "admitted" => state[CandidateProgram] = "active"
      /\ outcome = "queued" => factors[CandidateProgram].force_left # None
  BY <1>1, OutcomeHolds
<1>5. \A p \in ProgramId :
        state[p] = "paused" /\ status[p] = "reasoning" => factors[p].force_left # None
  BY <1>1, <1>4 DEF TTLInv, WaiterInv
<1> QED BY <1>0, <1>1, <1>2, <1>3, <1>5, HookOverKeeps

\* The completion hook has cached its deadlines with its last event.
LEMMA FinishCompletionKeeps ==
  ASSUME TTLInv, FinishCompletion
  PROVE  TTLInv'
<1>0. SchedulerInv' /\ IsFiniteSet(programs')
  BY StepKeepsRuntime DEF TTLNext
<1>1. /\ phase \in {"completion", "yielding"} /\ requests = << >> /\ hook' = Idle /\ HookOver
      /\ UNCHANGED <<registryVars, recordVars, strategyVars>>
  BY DEF FinishCompletion, EndHook
<1>2. UNCHANGED <<programs, task_id, state, status, factors, continuity_enabled,
                  next_check, next_lightweight>>
  BY <1>1 DEF registryVars, recordVars, strategyVars
<1>3. /\ next_check' = NextCheckAt(factors, TransitionsEnabled)
      /\ next_lightweight' = NextLightweightCheckAt(factors)
  BY <1>1, <1>2 DEF TTLInv, DeadlineInv
<1>4. hook.kind # "admission"
  BY <1>1 DEF TTLInv, HookPhase
<1>5. \A p \in ProgramId :
        state[p] = "paused" /\ status[p] = "reasoning" => factors[p].force_left # None
  BY <1>4 DEF TTLInv, WaiterInv
<1> QED BY <1>0, <1>1, <1>2, <1>3, <1>5, HookOverKeeps

\* The cycle caches the deadlines when it ends.
LEMMA FinishCycleKeeps ==
  ASSUME TTLInv, FinishCycle
  PROVE  TTLInv'
<1>0. SchedulerInv' /\ IsFiniteSet(programs')
  BY StepKeepsRuntime DEF TTLNext, CycleStep
<1>1. /\ phase \in {"repair", "checked"} /\ requests = << >> /\ hook' = Idle /\ HookOver
      /\ UNCHANGED <<registryVars, recordVars, factors, continuity_enabled>> /\ CacheDeadlines
  BY DEF FinishCycle, Deciding, EndHook
<1>2. UNCHANGED <<programs, task_id, state, status, factors, continuity_enabled>>
  BY <1>1 DEF registryVars, recordVars
<1>3. /\ next_check' = NextCheckAt(factors, TransitionsEnabled)
      /\ next_lightweight' = NextLightweightCheckAt(factors)
  BY <1>1, <1>2 DEF CacheDeadlines, TransitionsEnabled
<1>4. hook.kind # "admission"
  BY <1>1 DEF TTLInv, HookPhase
<1>5. \A p \in ProgramId :
        state[p] = "paused" /\ status[p] = "reasoning" => factors[p].force_left # None
  BY <1>4 DEF TTLInv, WaiterInv
<1> QED BY <1>0, <1>1, <1>2, <1>3, <1>5, HookOverKeeps

\* A cycle starts from the present: every privileged waiter is in the list of
\* schedule_resume().
LEMMA BeginCycleKeeps ==
  ASSUME TTLInv, BeginCycle
  PROVE  TTLInv'
<1>0. SchedulerInv' /\ IsFiniteSet(programs')
  BY StepKeepsRuntime DEF TTLNext
<1>1. /\ hook = Idle /\ hook' = [kind |-> "cycle", request |-> None]
      /\ UNCHANGED <<registryVars, recordVars>>
      /\ snapshot' = SnapshotAfter({}) /\ advanced' = snapshot'
      /\ phase' = "resume" /\ todo' = Waiters(snapshot')
      /\ factors' \in (IF TransitionsEnabled THEN Reconciled(factors, snapshot') ELSE {factors})
      /\ UNCHANGED <<continuity_enabled, next_check, next_lightweight, protected, requests, outcome>>
  BY DEF BeginCycle, ScheduleCycle, OpenCycle
<1>2. UNCHANGED <<programs, task_id, state, status, marked_for_pause>>
  BY <1>1 DEF registryVars, recordVars
<1>3. /\ phase = "none" /\ requests = << >> /\ outcome = "none"
      /\ factors \in Factors /\ Clocked(factors) /\ Ending(factors) /\ Bounded(Holders(factors))
      /\ next_check = NextCheckAt(factors, TransitionsEnabled)
      /\ \A p \in ProgramId :
           state[p] = "paused" /\ status[p] = "reasoning" => factors[p].force_left # None
  BY <1>1, AtIdle
<1>4. /\ factors' \in Factors /\ OnlyPrivileges(factors, factors') /\ Ending(factors')
      /\ Bounded(Holders(factors'))
  <2>1. CASE TransitionsEnabled
    <3>1. factors' \in Reconciled(factors, snapshot')
      BY <1>1, <2>1
    <3> QED BY <1>3, <3>1, ReconciledBounded
  <2>2. CASE ~TransitionsEnabled
    BY <1>1, <1>3, <2>2 DEF OnlyPrivileges, SameClocks
  <2> QED BY <2>1, <2>2
<1>5. /\ snapshot'.state = state /\ snapshot'.status = status /\ snapshot'.marked = marked_for_pause
      /\ snapshot'.waiting = {p \in ProgramId : state[p] = "paused"}
      /\ snapshot' \in SnapshotRecord
  BY <1>1, <1>2 DEF SnapshotAfter, SnapshotRecord, TTLInv, SchedulerInv, SchedulerTypeOK
<1>6. /\ todo' = {p \in ProgramId : state[p] = "paused" /\ status[p] = "reasoning"}
      /\ todo' \subseteq ProgramId
  BY <1>1, <1>5 DEF Waiters
<1>7. TransitionsEnabled' = TransitionsEnabled
  BY <1>1 DEF TransitionsEnabled
<1>8. HookTypes'
  <2>1. TTLTypeOK'
    BY <1>1, <1>4, <1>6 DEF TTLInv, HookTypes, TTLTypeOK, Factors
  <2>2. Clocked(factors')
    BY <1>3, <1>4 DEF Clocked, OnlyPrivileges, SameClocks
  <2> QED BY <1>1, <1>5, <2>1, <2>2 DEF TTLInv, HookTypes, Clocked
<1>9. HookPhase'
  BY <1>1, <1>3 DEF HookPhase
<1>10. RequestsValid'
  BY <1>1, <1>3 DEF RequestsValid, AllValid, NoClash
<1>11. AdmissionFacts' /\ OutcomeFacts' /\ CompletionFacts'
  BY <1>1, <1>3 DEF AdmissionFacts, OutcomeFacts, CompletionFacts
<1>12. \A K : Pending(requests', K) = {}
  BY <1>1, <1>3, NothingAsked
<1>13. \A K : Pending(requests, K)' = {}
  BY <1>12 DEF Pending
<1>14. CycleFacts'
  <2>1. AdvancedSnapshotExact' /\ snapshot'.status = status'
    BY <1>1, <1>2, <1>5 DEF AdvancedSnapshotExact
  <2>2. \A p \in todo' : state'[p] = "paused" /\ status'[p] = "reasoning"
    BY <1>2, <1>6
  <2>3. \A p \in ProgramId : state'[p] = "paused" /\ status'[p] = "reasoning" => p \in todo'
    BY <1>2, <1>6
  <2> QED BY <1>1, <1>13, <2>1, <2>2, <2>3 DEF CycleFacts
<1>15. PrivilegeInv'
  <2>1. FutureHolders(factors', requests') = Holders(factors')
    BY <1>12 DEF FutureHolders
  <2>2. FutureHolders(factors, requests)' = FutureHolders(factors', requests')
    BY DEF FutureHolders, Holders, Pending
  <2> QED BY <1>2, <1>4, <2>1, <2>2 DEF PrivilegeInv, Bounded, Ending
<1>16. DeadlineInv'
  <2>1. NextCheckAt(factors', TransitionsEnabled) = NextCheckAt(factors, TransitionsEnabled)
    BY <1>4, NextCheckAtUnchanged DEF OnlyPrivileges
  <2> QED BY <1>1, <1>3, <1>7, <2>1 DEF DeadlineInv
<1>17. WaiterInv' /\ ClockInv'
  BY <1>2, <1>3, <1>4 DEF WaiterInv, TTLInv, ClockInv, OnlyPrivileges, SameClocks, SchedulerInv,
                          RegistryInv, RegistryTypeOK
<1> QED BY <1>0, <1>8, <1>9, <1>10, <1>11, <1>14, <1>15, <1>16, <1>17 DEF TTLInv

\* An arrival stops the acting clock of its Program and no other.
LEMMA ArriveFactors ==
  ASSUME TTLInv, hook = Idle, NEW p \in ProgramId, TransitionsEnabled' = TransitionsEnabled,
         \/ factors' = [factors EXCEPT ![p] = OnReasoning(@)] /\ CacheDeadlines
         \/ UNCHANGED <<factors, next_check, next_lightweight>>
  PROVE  /\ factors' \in Factors /\ Clocked(factors') /\ Ending(factors')
         /\ \A q \in ProgramId \ {p} : factors'[q] = factors[q]
         /\ factors'[p].privileged = factors[p].privileged
         /\ next_check' = NextCheckAt(factors', TransitionsEnabled')
         /\ next_lightweight' = NextLightweightCheckAt(factors')
<1>1. /\ factors \in Factors /\ Clocked(factors) /\ Ending(factors)
      /\ next_check = NextCheckAt(factors, TransitionsEnabled)
      /\ next_lightweight = NextLightweightCheckAt(factors)
  BY AtIdle
<1>2. CASE UNCHANGED <<factors, next_check, next_lightweight>>
  BY <1>1, <1>2
<1>3. CASE factors' = [factors EXCEPT ![p] = OnReasoning(@)] /\ CacheDeadlines
  <2> DEFINE g == OnReasoning(factors[p])
  <2>1. factors[p] \in FactorRecord /\ (factors[p].privileged => factors[p].privilege_left # None)
    BY <1>1 DEF Factors, Ending
  <2>2. /\ g \in FactorRecord /\ g.privileged = factors[p].privileged
        /\ g.privilege_left = factors[p].privilege_left /\ g.ttl = None
    BY <2>1, OnReasoningFields
  <2>3. factors' = [factors EXCEPT ![p] = g]
    BY <1>3, <1>1 DEF Factors
  <2> HIDE DEF g
  <2>4. /\ factors' \in Factors /\ Clocked(factors') /\ Ending(factors')
        /\ factors'[p] = g /\ \A q \in ProgramId \ {p} : factors'[q] = factors[q]
    BY <2>1, <2>2, <2>3, OneFactor
  <2> QED BY <1>3, <2>2, <2>4 DEF CacheDeadlines
<1> QED BY <1>2, <1>3

\* An arrival opens the admission hook on a current snapshot; only its candidate may wait without
\* a force deadline.
LEMMA ArriveKeeps ==
  ASSUME TTLInv, NEW r \in Request, NEW m \in KnownIdentity, Arrive(r, m)
  PROVE  TTLInv'
<1> DEFINE p == m.program
           created == p \notin programs
<1>0. SchedulerInv' /\ IsFiniteSet(programs')
  BY StepKeepsRuntime DEF TTLNext
<1>1. p \in ProgramId
  BY ProgressTTLAssumption DEF Identity
<1>2. /\ hook = Idle /\ Materialize(m)
      /\ state' = [state EXCEPT ![p] = IF created THEN "paused" ELSE @]
      /\ status' = [status EXCEPT ![p] = "reasoning"]
      /\ pool_program' = [pool_program EXCEPT ![r] = MaterializedRef(p)]
      /\ hook' = [kind |-> "admission", request |-> r]
  BY DEF Arrive, OnRequestArrival, Unused, BindArrival
<1>3. /\ UNCHANGED <<continuity_enabled, todo, protected, requests, outcome>>
      /\ \/ factors' = [factors EXCEPT ![p] = OnReasoning(@)] /\ CacheDeadlines
         \/ UNCHANGED <<factors, next_check, next_lightweight>>
      /\ phase' = "admission" /\ advanced' = snapshot'
      /\ snapshot' = SnapshotAfter(IF created THEN {p} ELSE {})
  BY DEF Arrive
<1>4. /\ programs' = programs \cup {p}
      /\ \E t : task_id' = [task_id EXCEPT ![p] = t]
      /\ p \in programs => task_id' = [task_id EXCEPT ![p] = IF @ = None THEN m.task ELSE @]
  <2>1. CASE Create(m)
    BY <2>1 DEF Create
  <2>2. CASE ApplyMetadata(m)
    BY <2>2 DEF ApplyMetadata
  <2> QED BY <1>2, <2>1, <2>2 DEF Materialize
<1>5. TransitionsEnabled' = TransitionsEnabled /\ TransitionsEnabled' \in BOOLEAN
  BY <1>3 DEF TransitionsEnabled
<1>6. /\ phase = "none" /\ requests = << >> /\ outcome = "none"
      /\ factors \in Factors /\ Bounded(Holders(factors))
      /\ \A q \in ProgramId :
           state[q] = "paused" /\ status[q] = "reasoning" => factors[q].force_left # None
  BY <1>2, AtIdle
<1>7. /\ factors' \in Factors /\ Clocked(factors') /\ Ending(factors')
      /\ \A q \in ProgramId \ {p} : factors'[q] = factors[q]
      /\ factors'[p].privileged = factors[p].privileged
      /\ next_check' = NextCheckAt(factors', TransitionsEnabled')
      /\ next_lightweight' = NextLightweightCheckAt(factors')
  <2> HIDE DEF p
  <2> QED BY <1>1, <1>2, <1>3, <1>5, ArriveFactors
<1>8. /\ \A q \in ProgramId \ {p} : /\ state'[q] = state[q] /\ status'[q] = status[q]
                                    /\ task_id'[q] = task_id[q]
      /\ p \in programs /\ task_id[p] # None => task_id'[p] = task_id[p]
      /\ status'[p] = "reasoning"
      /\ state' \in [ProgramId -> {"active", "paused", "terminated"}]
      /\ status' \in [ProgramId -> {"reasoning", "acting"}]
      /\ marked_for_pause' \in [ProgramId -> BOOLEAN]
  <2>1. /\ state \in [ProgramId -> {"active", "paused", "terminated"}]
        /\ status \in [ProgramId -> {"reasoning", "acting"}]
        /\ DOMAIN task_id = ProgramId
    BY DEF TTLInv, SchedulerInv, SchedulerTypeOK, RegistryInv, RegistryTypeOK
  <2>2. /\ state' \in [ProgramId -> {"active", "paused", "terminated"}]
        /\ status' \in [ProgramId -> {"reasoning", "acting"}]
        /\ marked_for_pause' \in [ProgramId -> BOOLEAN]
    BY <1>0 DEF SchedulerInv, SchedulerTypeOK
  <2> QED BY <1>1, <1>2, <1>4, <2>1, <2>2
<1> HIDE DEF created, p
<1>9. \A q \in ProgramId : factors[q].privileged =>
        q \in programs /\ task_id[q] # None
  BY <1>6 DEF Bounded, Holders
<1>10. \A q \in ProgramId : factors'[q].privileged = factors[q].privileged
  BY <1>7
<1>11. Bounded(Holders(factors))'
  <2>1. \A q \in ProgramId : factors'[q].privileged =>
          factors[q].privileged /\ q \in programs' /\ task_id'[q] = task_id[q]
    BY <1>4, <1>8, <1>9, <1>10
  <2> QED BY <1>6, <2>1, HoldersStayBounded
<1>12. /\ snapshot'.state = state' /\ snapshot'.status = status'
       /\ snapshot'.waiting = {q \in ProgramId : state'[q] = "paused"} \ (IF created THEN {p} ELSE {})
       /\ snapshot' \in SnapshotRecord
  BY <1>3, <1>8 DEF SnapshotAfter, SnapshotRecord
<1>13. AdmissionFacts'
  <2> SUFFICES ASSUME NEW q \in ProgramId, state'[q] = "paused", factors'[q].privileged
      PROVE  q \in snapshot'.waiting
    BY <1>12 DEF AdmissionFacts
  <2>1. q \in programs
    BY <1>9, <1>10
  <2>2. created => q # p
    BY <2>1 DEF created
  <2> QED BY <1>12, <2>2
<1>14. HookTypes'
  <2>1. next_check' \in Nat \cup {None} /\ next_lightweight' \in Nat \cup {None}
    BY <1>5, <1>7, NextCheckAtType, NextLightweightType
  <2>2. TTLTypeOK'
    BY <1>3, <1>7, <2>1 DEF TTLInv, HookTypes, TTLTypeOK, Factors
  <2> QED BY <1>3, <1>7, <1>12, <2>2 DEF TTLInv, HookTypes, Clocked
<1>15. HookPhase'
  BY <1>2, <1>3, <1>6 DEF HookPhase
<1>16. DeadlineInv'
  BY <1>3, <1>7 DEF DeadlineInv
<1>17. WaiterInv'
  <2>1. hook'.kind = "admission" /\ hook'.request = r
    BY <1>2
  <2>2. pool_program'[r] = MaterializedRef(p)
    BY <1>2 DEF TTLInv, SchedulerInv, SchedulerTypeOK
  <2>3. CandidateProgram' = p
    BY <2>1, <2>2 DEF CandidateProgram, MaterializedRef
  <2> QED BY <1>6, <1>7, <1>8, <2>1, <2>3 DEF WaiterInv
<1>18. ClockInv'
  BY <1>4, <1>7, <1>8 DEF TTLInv, ClockInv, SchedulerInv, RegistryInv, RegistryTypeOK
<1>19. Ending(factors') /\ phase' = "admission"
  BY <1>3, <1>7
<1> QED BY <1>0, <1>11, <1>13, <1>14, <1>15, <1>16, <1>17, <1>18, <1>19, NoRequestKeeps

\* A completion restarts the clocks of its Program, or ends its segment.
LEMMA FinishedFields ==
  ASSUME NEW old \in FactorRecord, NEW now, NEW paused \in BOOLEAN, NEW ttl \in 0..TtlMax,
         NEW continuous \in BOOLEAN, NEW minimum \in 0..TargetMaxRounds
  PROVE  LET f == OnRequestFinished(old, now, ttl, continuous, minimum)
             g == IF paused THEN OnProgramPaused(f, "marked") ELSE f
         IN  /\ g \in FactorRecord
             /\ g.privileged => old.privileged /\ g.privilege_left = old.privilege_left
             /\ g.ttl # None => g.acting_age # None
             /\ paused => g.release_left # None
             /\ ~paused /\ now = "acting" => g.acting_age # None
<1> DEFINE f == OnRequestFinished(old, now, ttl, continuous, minimum)
<1>1. /\ f \in FactorRecord
      /\ f.privileged = old.privileged /\ f.privilege_left = old.privilege_left
      /\ f.acting_age # None <=> now = "acting"
      /\ f.ttl # None => f.acting_age # None
  BY OnRequestFinishedFields
<1> HIDE DEF f
<1> DEFINE g == IF paused THEN OnProgramPaused(f, "marked") ELSE f
<1>2. CASE paused
  <2>1. g = OnProgramPaused(f, "marked")
    BY <1>2
  <2>2. /\ g \in FactorRecord
        /\ g.privileged => f.privileged /\ g.privilege_left = f.privilege_left
        /\ g.ttl = None /\ g.release_left = PausedTtl
    BY <1>1, <2>1, OnProgramPausedFields
  <2> HIDE DEF g
  <2>3. /\ g \in FactorRecord
        /\ g.privileged => old.privileged /\ g.privilege_left = old.privilege_left
        /\ g.ttl # None => g.acting_age # None
        /\ g.release_left # None
    BY <1>1, <2>2, ClocksAreSet
  <2> QED BY <1>2, <2>3 DEF f, g
<1>3. CASE ~paused
  <2>1. g = f
    BY <1>3
  <2> HIDE DEF g
  <2>2. /\ g \in FactorRecord
        /\ g.privileged => old.privileged /\ g.privilege_left = old.privilege_left
        /\ g.ttl # None => g.acting_age # None
        /\ now = "acting" => g.acting_age # None
    BY <1>1, <2>1
  <2> QED BY <1>3, <2>2 DEF f, g
<1> QED BY <1>2, <1>3

\* The factors after a completion.
LEMMA CompleteFactors ==
  ASSUME TTLInv, hook = Idle, NEW p \in ProgramId, NEW now, NEW paused \in BOOLEAN,
         NEW ttl \in 0..TtlMax, NEW continuous \in BOOLEAN, NEW minimum \in 0..TargetMaxRounds,
         LET f == OnRequestFinished(factors[p], now, ttl, continuous, minimum)
         IN  factors' = [factors EXCEPT ![p] = IF paused THEN OnProgramPaused(f, "marked") ELSE f]
  PROVE  /\ factors' \in Factors /\ Clocked(factors') /\ Ending(factors')
         /\ \A q \in ProgramId \ {p} : factors'[q] = factors[q]
         /\ factors'[p].privileged => factors[p].privileged
         /\ paused => factors'[p].release_left # None
         /\ ~paused /\ now = "acting" => factors'[p].acting_age # None
<1> DEFINE old == factors[p]
           f == OnRequestFinished(old, now, ttl, continuous, minimum)
           g == IF paused THEN OnProgramPaused(f, "marked") ELSE f
<1>1. factors' = [factors EXCEPT ![p] = g]
  OBVIOUS
<1>2. old \in FactorRecord /\ (old.privileged => old.privilege_left # None)
  BY AtIdle DEF Factors, Ending
<1> HIDE DEF old
<1>3. /\ g \in FactorRecord
      /\ g.privileged => old.privileged /\ g.privilege_left = old.privilege_left
      /\ g.ttl # None => g.acting_age # None
      /\ paused => g.release_left # None
      /\ ~paused /\ now = "acting" => g.acting_age # None
  BY <1>2, FinishedFields
<1> HIDE DEF f, g
<1>4. g.privileged => g.privilege_left # None
  BY <1>2, <1>3
<1>5. /\ factors' \in Factors /\ Clocked(factors') /\ Ending(factors')
      /\ factors'[p] = g /\ \A q \in ProgramId \ {p} : factors'[q] = factors[q]
  BY <1>1, <1>3, <1>4, OneFactor
<1> QED BY <1>3, <1>5 DEF old

\* A completion leaves its Program on a clock: acting, or paused by a delayed pause.
LEMMA CompleteKeeps ==
  ASSUME TTLInv, NEW r \in Request, Complete(r)
  PROVE  TTLInv'
<1> DEFINE ref == request_bindings[r]
           p == ref[1]
           last == RequestsLeft(ref, r) = {}
           paused == state[p] = "active" /\ state'[p] = "paused"
<1>0. SchedulerInv' /\ IsFiniteSet(programs') /\ SchedulerInv
  BY StepKeepsRuntime DEF TTLNext, TTLInv
<1>1. /\ hook = Idle /\ r \in native /\ ref # None
      /\ status' = [status EXCEPT ![p] = IF last THEN "acting" ELSE "reasoning"]
      /\ IF last /\ marked_for_pause[p] /\ state[p] = "active" THEN ToPaused(p)
         ELSE UNCHANGED <<state, marked_for_pause, freshness_anchor>>
      /\ hook' = IF last /\ marked_for_pause[p] THEN Idle
                 ELSE [kind |-> "completion", request |-> None]
      /\ UNCHANGED registryVars
  BY DEF Complete, OnRequestCompletion, FinishBound
<1>2. /\ continuity_enabled' \in (IF Mode = "auto" THEN BOOLEAN ELSE {continuity_enabled})
      /\ \E ttl \in 0..TtlMax, continuous \in BOOLEAN, minimum \in 0..TargetMaxRounds :
           LET f == OnRequestFinished(factors[p], status'[p], ttl, continuous, minimum)
           IN  factors' = [factors EXCEPT ![p] = IF paused THEN OnProgramPaused(f, "marked") ELSE f]
      /\ CacheDeadlines
      /\ \/ /\ hook' = Idle
            /\ UNCHANGED hookVars
         \/ /\ hook' # Idle
            /\ phase' = "completion"
            /\ snapshot' = SnapshotAfter({})
            /\ advanced' = snapshot'
            /\ todo' = {p}
            /\ UNCHANGED <<protected, requests, outcome>>
  BY DEF Complete
<1>3. p \in ProgramId /\ p \in programs
  BY <1>0, <1>1, BoundToCurrent
<1>4. state[p] = "active"
  BY <1>0, <1>1 DEF SchedulerInv, ServedOnlyWhileActive
<1>5. paused \in BOOLEAN /\ last \in BOOLEAN
  OBVIOUS
<1> HIDE DEF p, last
<1>6. /\ state' \in [ProgramId -> {"active", "paused", "terminated"}]
      /\ status' \in [ProgramId -> {"reasoning", "acting"}]
      /\ marked_for_pause' \in [ProgramId -> BOOLEAN]
      /\ \A q \in ProgramId \ {p} : state'[q] = state[q] /\ status'[q] = status[q]
      /\ state'[p] = "paused" => status'[p] = "acting"
  <2>1. /\ state \in [ProgramId -> {"active", "paused", "terminated"}]
        /\ status \in [ProgramId -> {"reasoning", "acting"}]
        /\ marked_for_pause \in [ProgramId -> BOOLEAN]
    BY <1>0 DEF SchedulerInv, SchedulerTypeOK
  <2>2. /\ status'[p] = IF last THEN "acting" ELSE "reasoning"
        /\ \A q \in ProgramId \ {p} : status'[q] = status[q]
        /\ status' \in [ProgramId -> {"reasoning", "acting"}]
    BY <1>1, <1>3, <2>1
  <2>3. /\ \A q \in ProgramId \ {p} : state'[q] = state[q]
        /\ state' \in [ProgramId -> {"active", "paused", "terminated"}]
        /\ marked_for_pause' \in [ProgramId -> BOOLEAN]
        /\ state'[p] # state[p] => last
    BY <1>1, <1>3, <2>1 DEF ToPaused
  <2> QED BY <1>4, <2>2, <2>3
<1>7. /\ phase = "none" /\ requests = << >> /\ outcome = "none"
      /\ factors \in Factors /\ Bounded(Holders(factors))
      /\ \A q \in ProgramId :
           state[q] = "paused" /\ status[q] = "reasoning" => factors[q].force_left # None
  BY <1>1, AtIdle
<1>8. /\ factors' \in Factors /\ Clocked(factors') /\ Ending(factors')
      /\ \A q \in ProgramId \ {p} : factors'[q] = factors[q]
      /\ factors'[p].privileged => factors[p].privileged
      /\ paused => factors'[p].release_left # None
      /\ ~paused /\ status'[p] = "acting" => factors'[p].acting_age # None
  <2>1. PICK ttl \in 0..TtlMax, continuous \in BOOLEAN, minimum \in 0..TargetMaxRounds :
          LET f == OnRequestFinished(factors[p], status'[p], ttl, continuous, minimum)
          IN  factors' = [factors EXCEPT ![p] = IF paused THEN OnProgramPaused(f, "marked") ELSE f]
    BY <1>2
  <2> DEFINE now == status'[p]
  <2>2. LET f == OnRequestFinished(factors[p], now, ttl, continuous, minimum)
        IN  factors' = [factors EXCEPT ![p] = IF paused THEN OnProgramPaused(f, "marked") ELSE f]
    BY <2>1
  <2> HIDE DEF paused, now
  <2>3. /\ factors' \in Factors /\ Clocked(factors') /\ Ending(factors')
        /\ \A q \in ProgramId \ {p} : factors'[q] = factors[q]
        /\ factors'[p].privileged => factors[p].privileged
        /\ paused => factors'[p].release_left # None
        /\ ~paused /\ now = "acting" => factors'[p].acting_age # None
    BY <1>1, <1>3, <1>5, <2>2, CompleteFactors
  <2> QED BY <2>3 DEF now
<1>9. programs' = programs /\ task_id' = task_id
  BY <1>1 DEF registryVars
<1>10. Bounded(Holders(factors))'
  <2>1. \A q \in Holders(factors) : q \in programs
    BY <1>7 DEF Bounded
  <2>2. \A q \in ProgramId : factors'[q].privileged =>
          factors[q].privileged /\ q \in programs' /\ task_id'[q] = task_id[q]
    BY <1>8, <1>9, <2>1 DEF Holders
  <2> QED BY <1>7, <2>2, HoldersStayBounded
<1>11. \A q \in ProgramId :
         state'[q] = "paused" /\ status'[q] = "reasoning" => factors'[q].force_left # None
  BY <1>6, <1>7, <1>8
<1>12. ClockInv'
  <2>1. state'[p] = "active" => ~paused
    OBVIOUS
  <2>2. state'[p] = "paused" => paused
    BY <1>4
  <2> QED BY <1>6, <1>8, <1>9, <2>1, <2>2 DEF TTLInv, ClockInv, SchedulerInv, RegistryInv, RegistryTypeOK
<1>13. /\ next_check' = NextCheckAt(factors', TransitionsEnabled')
       /\ next_lightweight' = NextLightweightCheckAt(factors')
  BY <1>2 DEF CacheDeadlines
<1>14. continuity_enabled' \in BOOLEAN
  BY <1>2 DEF TTLInv, HookTypes, TTLTypeOK
<1>15. CASE hook' = Idle
  <2>1. UNCHANGED hookVars
    BY <1>2, <1>15
  <2>2. /\ phase' = "none" /\ requests' = << >> /\ outcome' = "none"
        /\ snapshot' \in SnapshotRecord /\ advanced' \in SnapshotRecord
        /\ todo' \subseteq ProgramId /\ protected' \subseteq ProgramId
    BY <1>7, <2>1 DEF hookVars, TTLInv, HookTypes, TTLTypeOK
  <2> QED BY <1>0, <1>8, <1>10, <1>11, <1>12, <1>13, <1>14, <1>15, <2>2, IdleKeeps
<1>16. CASE hook' # Idle
  <2>1. /\ phase' = "completion" /\ snapshot' = SnapshotAfter({}) /\ advanced' = snapshot'
        /\ todo' = {p} /\ UNCHANGED <<protected, requests, outcome>>
    BY <1>2, <1>16
  <2>2. hook'.kind = "completion"
    BY <1>1, <1>16
  <2>3. snapshot'.state = state' /\ snapshot'.status = status' /\ snapshot' \in SnapshotRecord
    BY <1>6, <2>1 DEF SnapshotAfter, SnapshotRecord
  <2>4. TransitionsEnabled' \in BOOLEAN
    BY DEF TransitionsEnabled
  <2>5. next_check' \in Nat \cup {None} /\ next_lightweight' \in Nat \cup {None}
    BY <1>8, <1>13, <2>4, NextCheckAtType, NextLightweightType
  <2>6. TTLTypeOK'
    BY <1>3, <1>8, <1>14, <2>1, <2>5 DEF TTLInv, HookTypes, TTLTypeOK, Factors
  <2>7. HookTypes'
    BY <1>8, <2>1, <2>3, <2>6 DEF TTLInv, HookTypes, Clocked
  <2>8. HookPhase' /\ AdmissionFacts'
    BY <1>7, <2>1, <2>2 DEF HookPhase, AdmissionFacts
  <2>9. DeadlineInv' /\ WaiterInv'
    BY <1>11, <1>13 DEF DeadlineInv, WaiterInv
  <2>10. phase' \in {"none", "admission", "completion"}
    BY <2>1
  <2> QED BY <1>0, <1>8, <1>10, <1>12, <2>3, <2>7, <2>8, <2>9, <2>10, NoRequestKeeps
<1> QED BY <1>15, <1>16

\* Nothing changes when every variable is left alone.
LEMMA StutterKeeps ==
  ASSUME TTLInv, UNCHANGED ttlVars
  PROVE  TTLInv'
<1>1. UNCHANGED <<schedulerVars, strategyVars, hookVars>>
  BY DEF ttlVars
<1>2. /\ UNCHANGED <<factors, continuity_enabled, next_check, next_lightweight, phase, snapshot,
                     advanced, todo, protected, requests, outcome>>
      /\ UNCHANGED <<programs, task_id, state, status, marked_for_pause, pool_program, hook>>
  BY <1>1 DEF strategyVars, hookVars, schedulerVars, registryVars, recordVars, requestVars
<1>3. /\ factors' \in Factors /\ SameTimes(factors, factors') /\ Ending(factors')
      /\ OnlyPrivileges(factors, factors')
  BY <1>2, SameFactors DEF OnlyPrivileges, SameClocks
<1>4. Applicable(requests') /\ Bounded(FutureHolders(factors', requests'))
  BY <1>2 DEF TTLInv, Applicable, RequestsValid, HookTypes, PrivilegeInv
<1>5. HookPhase' /\ AdmissionFacts' /\ CompletionFacts'
  BY <1>2 DEF TTLInv, HookPhase, AdmissionFacts, CompletionFacts, Pending
<1>6. OutcomeFacts'
  BY <1>2 DEF TTLInv, OutcomeFacts, Pending, CandidateProgram
<1>7. CycleFacts'
  <2>1. \A K : Pending(requests, K)' = Pending(requests, K)
    BY <1>2 DEF Pending
  <2>2. FutureHolders(factors, requests)' = FutureHolders(factors, requests)
    BY <1>2, <2>1 DEF FutureHolders, Holders
  <2>3. TransitionsEnabled' = TransitionsEnabled
    BY <1>2 DEF TransitionsEnabled
  <2>4. AdvancedSnapshotExact' = AdvancedSnapshotExact
    BY <1>2 DEF AdvancedSnapshotExact
  <2> QED BY <1>2, <2>1, <2>2, <2>3, <2>4 DEF TTLInv, CycleFacts
<1>8. /\ phase' \in Phases /\ outcome' \in {"none", "admitted", "queued"}
      /\ snapshot' \in SnapshotRecord /\ advanced' \in SnapshotRecord
      /\ todo' \subseteq ProgramId /\ protected' \subseteq ProgramId
  BY <1>2 DEF TTLInv, HookTypes, TTLTypeOK, Phases
<1> QED BY <1>1, <1>2, <1>3, <1>4, <1>5, <1>6, <1>7, <1>8, DecisionKeeps

-----------------------------------------------------------------------------
(***************************************************************************)
(* The invariant and what follows from it.                                 *)
(***************************************************************************)

\* Every decision of handle_admission().
LEMMA AdmissionKeeps ==
  ASSUME TTLInv, Admission
  PROVE  TTLInv'
BY AdmitWithoutPTKeeps, AdmitActiveKeeps, AdmitByHandoffKeeps, AdmitResumedKeeps,
   AdmitDirectKeeps, QueueCandidateKeeps DEF Admission

\* Every request is applied in its turn.
LEMMA ApplyKeeps ==
  ASSUME TTLInv, Apply
  PROVE  TTLInv'
BY ApplyResumeKeeps, ApplyPauseKeeps, ApplyMarkKeeps, ApplyReleaseKeeps, ApplyQueueKeeps,
   SetPrivilegeKeeps DEF Apply

\* Every step of schedule_cycle().
LEMMA CycleStepKeeps ==
  ASSUME TTLInv, CycleStep
  PROVE  TTLInv'
<1>1. ASSUME NEW p \in ProgramId,
             \/ ResumeAtOnce(p) \/ ResumeOrdinary(p) \/ RepairVictim(p)
             \/ KeepActing(p) \/ RecordExpiry(p) \/ ExpireActing(p)
      PROVE  TTLInv'
  BY <1>1, ResumeAtOnceKeeps, ResumeOrdinaryKeeps, RepairVictimKeeps, KeepActingKeeps,
     RecordExpiryKeeps, ExpireActingKeeps
<1> QED BY <1>1, BeginRepairKeeps, BeginCheckKeeps, ReleaseExpiredKeeps, FinishCycleKeeps
        DEF CycleStep

\* Every step of the strategy and of time keeps the invariant.
LEMMA NextKeepsTTLInv == TTLInv /\ [TTLNext]_ttlVars => TTLInv'
<1> SUFFICES ASSUME TTLInv, [TTLNext]_ttlVars PROVE TTLInv'
  OBVIOUS
<1>1. ASSUME NEW r \in Request, NEW m \in KnownIdentity, Arrive(r, m) PROVE TTLInv'
  BY <1>1, ArriveKeeps
<1>2. ASSUME NEW r \in Request, NEW m \in KnownIdentity, ArriveRefused(r, m) PROVE TTLInv'
  BY <1>2, ArriveRefusedKeeps
<1>3. CASE Admission
  BY <1>3, AdmissionKeeps
<1>4. CASE HandOver \/ Retain
  BY <1>4, FinishAdmissionKeeps
<1>5. CASE Apply
  BY <1>5, ApplyKeeps
<1>6. ASSUME NEW r \in Request, Complete(r) PROVE TTLInv'
  BY <1>6, CompleteKeeps
<1>7. ASSUME NEW p \in ProgramId, YieldCompleted(p) PROVE TTLInv'
  BY <1>7, YieldCompletedKeeps
<1>8. CASE FinishCompletion
  BY <1>8, FinishCompletionKeeps
<1>9. ASSUME NEW r \in Request, Cancel(r) PROVE TTLInv'
  BY <1>9, CancelKeeps
<1>10. ASSUME NEW p \in ProgramId, Terminal(p) PROVE TTLInv'
  BY <1>10, TerminalKeeps
<1>11. CASE BeginCycle
  BY <1>11, BeginCycleKeeps
<1>12. CASE CycleStep
  BY <1>12, CycleStepKeeps
<1>13. CASE Consume
  BY <1>13, ConsumeKeeps
<1>14. CASE Tick
  BY <1>14, TickKeeps
<1>15. CASE LightweightCheck
  BY <1>15, LightweightCheckKeeps
<1>16. CASE UNCHANGED ttlVars
  BY <1>16, StutterKeeps
<1> QED BY <1>1, <1>2, <1>3, <1>4, <1>5, <1>6, <1>7, <1>8, <1>9, <1>10, <1>11, <1>12, <1>13,
           <1>14, <1>15, <1>16 DEF TTLNext

\* The inductive invariant holds in every reachable state of the strategy.
LEMMA TTLInvariant == TTLSpec => []TTLInv
BY InitTTLInv, NextKeepsTTLInv, PTL DEF TTLSpec

\* A Program that a release is decided on has no request left.
LEMMA ActingHasNoneLeft ==
  ASSUME SchedulerInv, NEW p \in programs, status[p] = "acting"
  PROVE  RequestsOf(Ref(p)) = {}
<1> SUFFICES ASSUME NEW r \in Request, <<Ref(p), r>> \in program_requests PROVE FALSE
  BY DEF RequestsOf
<1>1. request_bindings[<<Ref(p), r>>[2]] = <<Ref(p), r>>[1]
  BY DEF SchedulerInv, BindingsExact
<1>2. request_bindings[r] = Ref(p)
  BY <1>1
<1> QED BY <1>2 DEF SchedulerInv, StatusTracksRequests

(***************************************************************************)
(* Whatever a hook of the strategy decides on is still applicable when its *)
(* turn comes, after the transitions before it have changed Programs and   *)
(* factors, and the snapshot advanced by the ledger of accepted            *)
(* transitions is the registry's: _require_applied() never raises inside a *)
(* hook (strategy.py _apply_transitions, runtime.py _apply_transition).    *)
(***************************************************************************)
THEOREM DecisionsStayCurrent == TTLSpec => []DecisionsCurrent
<1>1. TTLInv => DecisionsCurrent
  <2> SUFFICES ASSUME TTLInv PROVE DecisionsCurrent
    OBVIOUS
  <2>1. TTLTypeOK
    BY DEF TTLInv, HookTypes
  <2>2. AdvancedSnapshotExact
    BY DEF TTLInv, CycleFacts, AdvancedSnapshotExact
  <2>3. RequestsApply
    <3> SUFFICES ASSUME requests # << >> PROVE RequestsApply
      BY DEF RequestsApply
    <3> DEFINE q == Head(requests)
               p == q.program
    <3>1. p \in ProgramId /\ Valid(q)
      BY AtApply
    <3>2. p \in programs /\ (q.kind = "release" => status[p] = "acting")
      BY <3>1 DEF Valid
    <3>3. q.kind = "release" => RequestsOf(Ref(p)) = {}
      BY <3>2, ActingHasNoneLeft DEF TTLInv
    <3> QED BY <3>1, <3>2, <3>3 DEF Valid, RequestsApply, CanPause
  <2> QED BY <2>1, <2>2, <2>3 DEF DecisionsCurrent
<1> QED BY <1>1, TTLInvariant, PTL

\* Every waiter is on a force deadline between hooks, by whichever of queueing,
\* pausing and arriving it came to wait (strategy.py _queue, handle_admission).
THEOREM EveryWaiterHasForceDeadline == TTLSpec => []WaitersHaveForceDeadline
<1>1. TTLInv => WaitersHaveForceDeadline
  BY AtIdle DEF WaitersHaveForceDeadline
<1> QED BY <1>1, TTLInvariant, PTL

\* Promotions, handoffs and TTL pauses keep at most one privilege per task and at
\* most PrivilegedLimit in all (strategy.py _reconcile_privileges, _can_promote,
\* _admit_by_privilege_handoff, handle_scheduled_check).
THEOREM PrivilegesStayBounded == TTLSpec => []PrivilegesBounded
<1>1. TTLInv => PrivilegesBounded
  <2> SUFFICES ASSUME TTLInv, hook = Idle PROVE PrivilegesBounded
    BY DEF PrivilegesBounded
  <2>1. Bounded(Holders(factors)) /\ Ending(factors)
    BY AtIdle
  <2> QED BY <2>1 DEF PrivilegesBounded, Bounded, Holders, Ending
<1> QED BY <1>1, TTLInvariant, PTL

\* Between hooks the runtime's cached deadlines are the ones the strategy would
\* compute (runtime.py _dispatch_event, strategy.py next_check_at).
THEOREM CachedDeadlinesStayExact == TTLSpec => []CachedDeadlinesExact
<1>1. TTLInv => CachedDeadlinesExact
  BY AtIdle DEF CachedDeadlinesExact
<1> QED BY <1>1, TTLInvariant, PTL

\* Without cancellations every idle Program is on a clock, active or paused
\* (strategy.py on_request_finished, on_program_paused).  A cancelled request
\* leaves its Program without one: see IdleHasDeadline in the README.
THEOREM IdleProgramsHaveDeadline == Cancellation = FALSE => (TTLSpec => []IdleHasDeadline)
<1> SUFFICES ASSUME Cancellation = FALSE PROVE TTLSpec => []IdleHasDeadline
  OBVIOUS
<1>1. TTLInv => IdleHasDeadline
  BY DEF TTLInv, ClockInv, IdleHasDeadline, RetentionRuns
<1> QED BY <1>1, TTLInvariant, PTL

(***************************************************************************)
(* The strategy keeps the contract that the runtime asks of any strategy:  *)
(* every behaviour is one of the open strategy's.  The admission outcome   *)
(* it returns is ADMITTED exactly when it leaves the candidate ACTIVE.     *)
(***************************************************************************)
THEOREM StrategyKeepsContract == TTLSpec => OpenStrategyContract
<1>1. TTLInit => Init
  BY DEF TTLInit
<1>2. TTLInv /\ [TTLNext]_ttlVars => [Next]_schedulerVars
  BY StepRefines
<1> QED BY <1>1, <1>2, TTLInvariant, PTL DEF TTLSpec, Spec, OpenStrategyContract

\* So what was proved of the runtime under any strategy holds under this one: its
\* records agree, no request is lost, none is handed over twice or interrupted.
THEOREM RuntimeSoundUnderStrategy ==
  TTLSpec => /\ []RuntimeConsistent /\ []RequestsOwned
             /\ NeverInterrupted /\ HandedOverOnce
<1>1. TTLSpec => Spec
  BY StrategyKeepsContract DEF OpenStrategyContract
<1> QED BY <1>1, RuntimeStaysConsistent, RequestsAccounted, ServiceNeverInterrupted,
           RequestsHandedOverOnce
=============================================================================
