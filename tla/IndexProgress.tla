---------------------------- MODULE IndexProgress ----------------------------
(***************************************************************************)
(* What the indexer promises about its progress, with no pipeline in       *)
(* sight: an index that grows upwards, one atomic commit of rows and       *)
(* cursor at a time, a height reported to clients that trails the cursor,  *)
(* and restarts that resume from the cursor.                               *)
(***************************************************************************)
EXTENDS Integers

CONSTANTS
  MaxHeight,
  Lossy       \* a commit may leave blocks of its span out

VARIABLES
  cursor,     \* the stored height scanning resumes from
  indexed,    \* the blocks whose data is in the store
  claimed     \* the height shown to clients

progressVars == <<cursor, indexed, claimed>>

Start == cursor = 0 /\ indexed = {} /\ claimed = 0

\* The cursor moves up; all the blocks it passes arrive with it, and none
\* below it is touched again.
Commit ==
  \E to \in (cursor + 1)..MaxHeight :
    /\ cursor' = to
    /\ \E blocks \in SUBSET ((cursor + 1)..to) :
         /\ Lossy \/ blocks = (cursor + 1)..to
         /\ indexed' = indexed \cup blocks
    /\ UNCHANGED claimed

\* Clients see a committed height, when a commit is announced and when the
\* process starts again.
Report == claimed' = cursor /\ UNCHANGED <<cursor, indexed>>

Progress == Start /\ [][Commit \/ Report]_progressVars
=============================================================================
