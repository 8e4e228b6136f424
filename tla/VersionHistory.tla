--------------------------- MODULE VersionHistory ---------------------------
(***************************************************************************)
(* What a lecture promises whoever reads it (LectureVersion's docstring): *)
(* its history only grows, one numbered version at a time, and its current *)
(* version is always one of that history.  A delete ends it.  Nothing is   *)
(* said of handlers, jobs, private copies or failures.                     *)
(***************************************************************************)
EXTENDS Integers

CONSTANT Entry   \* possible versions: records with a number in field version

VARIABLES
  history,  \* the versions so far
  current,  \* the number of the current one, 0 when there is none
  deleted   \* the lecture has been deleted

vars == <<history, current, deleted>>

Numbers == {e.version : e \in history}

Init == history = {} /\ current = 0 /\ deleted = FALSE

\* A new version takes the next number: its predecessor is there, it is not.
Append(e) ==
  /\ ~deleted
  /\ e \in Entry
  /\ e.version \notin Numbers
  /\ e.version = 1 \/ e.version - 1 \in Numbers
  /\ history' = history \cup {e}
  /\ UNCHANGED <<current, deleted>>

\* Any existing version may be made the current one.
Select(n) ==
  /\ ~deleted
  /\ n \in Numbers \cup {0}
  /\ current' = n
  /\ UNCHANGED <<history, deleted>>

Delete ==
  /\ ~deleted
  /\ history' = {} /\ current' = 0 /\ deleted' = TRUE

Next == \/ \E e \in history' \ history : Append(e)
        \/ \E n \in Numbers \cup {0} : Select(n)
        \/ Delete

Spec == Init /\ [][Next]_vars
=============================================================================
