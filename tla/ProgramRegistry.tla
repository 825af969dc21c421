--------------------------- MODULE ProgramRegistry ---------------------------
(***************************************************************************)
(* The registry of live Programs, their generations, and the task and      *)
(* blocking-parent indexes (agentinfer/scheduling/program_registry.py).    *)
(*                                                                         *)
(* A Program is an agent's conversation with the model; ProgramRef, a pair *)
(* <<program_id, generation>>, names one incarnation of it.  A RuntimeProgram *)
(* record is spread over one function per field.  Two indexes are kept     *)
(* incrementally next to the records: task_programs, and children_by_parent_id *)
(* together with each parent's cached blocking_children.  The module has no *)
(* lock: the hosting scheduler serialises every call.                      *)
(***************************************************************************)
EXTENDS Integers

CONSTANTS
  ProgramId,      \* the stable external Program ids
  Task,           \* the task ids that group Programs
  None,           \* Python's None: no task, no parent, no reference
  MaxGeneration   \* bound of TLC's instances: the highest generation created

ASSUME RegistryAssumption ==
  /\ None \notin ProgramId
  /\ None \notin Task
  /\ MaxGeneration \in Nat

VARIABLES
  programs,               \* the ids with a live record
  last_generations,       \* the last generation handed out per id, -1 before any
  task_id,                \* RuntimeProgram.task_id
  parent_program_id,      \* RuntimeProgram.parent_program_id
  blocks_parent,          \* RuntimeProgram.blocks_parent
  blocking_children,      \* RuntimeProgram.blocking_children (blocked_on_child: it is not empty)
  task_programs,          \* task id -> references of its Programs
  children_by_parent_id   \* parent id -> references of its blocking children

registryVars == <<programs, last_generations, task_id, parent_program_id,
                  blocks_parent, blocking_children, task_programs,
                  children_by_parent_id>>

Refs == ProgramId \X Nat

(***************************************************************************)
(* A live record always carries the last generation of its id, so the      *)
(* record's ref is not stored a second time.                               *)
(***************************************************************************)
Ref(p) == <<p, last_generations[p]>>

\* What the identity adapters may hand to the registry: AgentIdentity rejects
\* a Program that is its own parent, and a blocking edge without a parent.
Identity ==
  {m \in [program : ProgramId, task : Task \cup {None},
          parent : ProgramId \cup {None}, blocks : BOOLEAN] :
     m.parent # m.program /\ (m.blocks => m.parent # None)}

RegistryInit ==
  /\ programs = {}
  /\ last_generations = [p \in ProgramId |-> -1]
  /\ task_id = [p \in ProgramId |-> None]
  /\ parent_program_id = [p \in ProgramId |-> None]
  /\ blocks_parent = [p \in ProgramId |-> FALSE]
  /\ blocking_children = [p \in ProgramId |-> {}]
  /\ task_programs = [t \in Task |-> {}]
  /\ children_by_parent_id = [p \in ProgramId |-> {}]
-----------------------------------------------------------------------------
(***************************************************************************)
(* Queries.                                                                *)
(***************************************************************************)

\* get(ref): the reference still names the live generation of its id.
Get(ref) == ref[1] \in programs /\ ref = Ref(ref[1])

IsLiveChildOf(ref, p) ==
  Get(ref) /\ blocks_parent[ref[1]] /\ parent_program_id[ref[1]] = p

\* children(parent): the indexed references that are still blocking children.
LiveChildren(p) == {ref \in children_by_parent_id[p] : IsLiveChildOf(ref, p)}

(***************************************************************************)
(* Index maintenance.  Each operator describes the next value of one       *)
(* index; _refresh_parent reads the relations as the operation leaves them, *)
(* and does nothing for a parent that is not registered.                   *)
(***************************************************************************)
\* Mutant of RefreshParents: the parent is refreshed before the relations change.
RefreshParentsEarly(Q) ==
  blocking_children' =
    [p \in ProgramId |-> IF p \notin programs' THEN {}
                         ELSE IF p \in Q THEN LiveChildren(p) ELSE blocking_children[p]]

RefreshParents(Q) ==
  blocking_children' =
    [p \in ProgramId |->
       IF p \notin programs' THEN {}
       ELSE IF p \in Q THEN LiveChildren(p)'
       ELSE blocking_children[p]]

AttachTask(ref, t) ==
  task_programs' =
    [k \in Task |-> IF k = t THEN task_programs[k] \cup {ref} ELSE task_programs[k]]

DetachTask(p) ==
  task_programs' =
    [k \in Task |-> IF k = task_id[p] THEN task_programs[k] \ {Ref(p)}
                    ELSE task_programs[k]]

\* The edge index after detaching ref from each parent of From and attaching
\* it to each parent of To.
MoveEdge(ref, From, To) ==
  [p \in ProgramId |->
     (children_by_parent_id[p] \ (IF p \in From THEN {ref} ELSE {}))
       \cup (IF p \in To THEN {ref} ELSE {})]
-----------------------------------------------------------------------------
\* Mutant of NextGeneration: an id that comes back reuses its generation.
ReusedGeneration(p) == IF last_generations[p] = -1 THEN 0 ELSE last_generations[p]

NextGeneration(p) == last_generations[p] + 1

(***************************************************************************)
(* materialize(), new generation: the record is created, indexed under its *)
(* task and its parent, and its own blocking children, which may have      *)
(* arrived before it, are collected.                                       *)
(***************************************************************************)
Create(m) ==
  LET p == m.program
      ref == <<p, NextGeneration(p)>>
      To == IF m.blocks THEN {m.parent} ELSE {}
  IN  /\ p \notin programs
      /\ last_generations[p] < MaxGeneration
      /\ programs' = programs \cup {p}
      /\ last_generations' = [last_generations EXCEPT ![p] = NextGeneration(p)]
      /\ task_id' = [task_id EXCEPT ![p] = m.task]
      /\ parent_program_id' = [parent_program_id EXCEPT ![p] = m.parent]
      /\ blocks_parent' = [blocks_parent EXCEPT ![p] = m.blocks]
      /\ AttachTask(ref, m.task)
      /\ children_by_parent_id' = MoveEdge(ref, {}, To)
      /\ RefreshParents(To \cup {p})

\* _apply_metadata() refuses to move a live Program to another task.
TaskConflict(m) ==
  /\ m.program \in programs
  /\ m.task # None
  /\ task_id[m.program] # None
  /\ task_id[m.program] # m.task

(***************************************************************************)
(* materialize(), live generation: _apply_metadata() fills in the task     *)
(* once and moves, drops or adds the blocking edge when the hints changed. *)
(***************************************************************************)
ApplyMetadata(m) ==
  LET p == m.program
      parentChanged == m.parent # parent_program_id[p]
      blocksChanged == m.blocks # blocks_parent[p]
      From == (IF parentChanged THEN {parent_program_id[p]} ELSE {})
                \cup (IF blocksChanged /\ ~m.blocks THEN {m.parent} ELSE {})
      To == IF (parentChanged \/ blocksChanged) /\ m.blocks THEN {m.parent} ELSE {}
  IN  /\ p \in programs
      /\ ~TaskConflict(m)
      /\ task_id' = [task_id EXCEPT ![p] = IF @ = None THEN m.task ELSE @]
      /\ IF task_id[p] = None THEN AttachTask(Ref(p), m.task)
                              ELSE UNCHANGED task_programs
      /\ parent_program_id' = [parent_program_id EXCEPT ![p] = m.parent]
      /\ blocks_parent' = [blocks_parent EXCEPT ![p] = m.blocks]
      /\ UNCHANGED <<programs, last_generations>>
      /\ children_by_parent_id' = MoveEdge(Ref(p), From, To)
      /\ RefreshParents(From \cup To)

Materialize(m) == Create(m) \/ ApplyMetadata(m)

(***************************************************************************)
(* release(ref): the record leaves its task and its parent's edge set, its *)
(* blocking children are orphaned, and its id becomes free for the next    *)
(* generation.  A child that only names it as a non-blocking parent keeps  *)
(* the name.                                                               *)
(***************************************************************************)
Release(ref) ==
  LET p == ref[1]
      orphans == {c \in ProgramId : /\ Get(Ref(c))
                                    /\ Ref(c) \in children_by_parent_id[p]
                                    /\ parent_program_id[c] = p}
  IN  /\ Get(ref)
      /\ programs' = programs \ {p}
      /\ UNCHANGED last_generations
      /\ task_id' = [task_id EXCEPT ![p] = None]
      /\ parent_program_id' =
           [c \in ProgramId |-> IF c \in orphans \cup {p} THEN None
                                ELSE parent_program_id[c]]
      /\ blocks_parent' =
           [c \in ProgramId |-> IF c \in orphans \cup {p} THEN FALSE
                                ELSE blocks_parent[c]]
      /\ DetachTask(p)
      /\ children_by_parent_id' =
           [MoveEdge(ref, {parent_program_id[p]}, {}) EXCEPT ![p] = {}]
      /\ RefreshParents({parent_program_id[p]})

RegistryNext ==
  \/ \E m \in Identity : Create(m)
  \/ \E m \in Identity : ApplyMetadata(m)
  \/ \E p \in ProgramId : Release(Ref(p))

RegistrySpec == RegistryInit /\ [][RegistryNext]_registryVars
-----------------------------------------------------------------------------
RegistryTypeOK ==
  /\ programs \subseteq ProgramId
  /\ last_generations \in [ProgramId -> Nat \cup {-1}]
  /\ task_id \in [ProgramId -> Task \cup {None}]
  /\ parent_program_id \in [ProgramId -> ProgramId \cup {None}]
  /\ blocks_parent \in [ProgramId -> BOOLEAN]
  /\ blocking_children \in [ProgramId -> SUBSET Refs]
  /\ task_programs \in [Task -> SUBSET Refs]
  /\ children_by_parent_id \in [ProgramId -> SUBSET Refs]
  /\ \A p \in programs : last_generations[p] \in Nat

\* The incremental edge index holds exactly the references of the live Programs
\* that declare themselves blocking children, under the parent they name,
\* whatever the order in which parents and children come, change and go
\* (program_registry.py _attach_parent_edge, _detach_parent_edge, release).
EdgeIndexExact ==
  \A p \in ProgramId :
    children_by_parent_id[p] =
      {Ref(c) : c \in {x \in programs : blocks_parent[x] /\ parent_program_id[x] = p}}

\* A live parent's cached blocking_children (hence blocked_on_child) agrees with
\* the relations its children declare now: it is neither blocked on a child that
\* has left nor unblocked while one remains, even when the child came first
\* (program_registry.py _refresh_parent).
BlockedExactlyOnLiveChildren ==
  \A p \in programs :
    blocking_children[p] =
      {Ref(c) : c \in {x \in programs : blocks_parent[x] /\ parent_program_id[x] = p}}

\* A task's index holds exactly the live Programs of that task: no reference to
\* a released generation stays behind (program_registry.py _detach_task).
TaskIndexExact ==
  \A t \in Task : task_programs[t] = {Ref(c) : c \in {x \in programs : task_id[x] = t}}

\* A blocking edge always has a parent to block (the ValueError of
\* _apply_metadata cannot fire), and no Program blocks itself.
EdgesHaveParents ==
  \A p \in programs : blocks_parent[p] => parent_program_id[p] \notin {None, p}

\* The registry at every moment: the two incremental indexes and the cached
\* blocking children are what the live records say, after any sequence of
\* materialize() and release() calls in any order of parents and children.
RegistryExact ==
  /\ RegistryTypeOK
  /\ EdgeIndexExact /\ BlockedExactlyOnLiveChildren
  /\ TaskIndexExact /\ EdgesHaveParents

\* A new incarnation of an id never reuses a generation, and a live
\* incarnation keeps its generation: a reference that stopped resolving never
\* resolves again (program_registry.py materialize, get).
GenerationsNeverReused ==
  [][\A p \in ProgramId :
       IF p \in programs' \ programs
       THEN last_generations'[p] > last_generations[p]
       ELSE last_generations'[p] = last_generations[p]]_registryVars
=============================================================================
