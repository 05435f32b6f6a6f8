---------------------------- MODULE AtomicProject ----------------------------
(***************************************************************************)
(* What the project store promises its callers: the file on disk moves     *)
(* from the result of one whole call to the result of the next, whatever   *)
(* throws, dies or fails to commit in between.                             *)
(***************************************************************************)
EXTENDS ProjectTables

VARIABLE durable

Init == durable = NewProject

Next == OneCall(durable, durable')

Spec == Init /\ [][Next]_durable
=============================================================================
