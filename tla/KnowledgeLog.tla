----------------------------- MODULE KnowledgeLog -----------------------------
(***************************************************************************)
(* What the knowledge store promises, without its tables, transactions and *)
(* processes: every identity has one line of revisions.  A revision is     *)
(* published once, whole, as the successor of the newest one the publisher *)
(* knew, and is never changed or withdrawn.                                *)
(***************************************************************************)
EXTENDS Naturals, Sequences

CONSTANTS Identity, Revision, Path, Content, IdOf

VARIABLES
  history,   \* identity -> its revisions, oldest first
  readable   \* revision -> the resources a reader finds

LogInit ==
  /\ history = [i \in Identity |-> << >>]
  /\ readable = [r \in Revision |-> {}]

\* The successor r of the newest revision of its identity, published whole.
Publish(r) ==
  /\ \A k \in DOMAIN history[IdOf[r]] : history[IdOf[r]][k] # r
  /\ history' = [history EXCEPT ![IdOf[r]] = Append(@, r)]
  /\ readable' = [readable EXCEPT ![r] = Content[r]]

LogNext == \E r \in Revision : Publish(r)
LogSpec == LogInit /\ [][LogNext]_<<history, readable>>
=============================================================================
