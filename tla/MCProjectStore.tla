---------------------------- MODULE MCProjectStore ----------------------------
(* ProjectStore on a small project.  The rows of the single-statement      *)
(* tables have one key each; the configuration has two keys and two        *)
(* versions, the least that a half-written one can be made of.             *)
EXTENDS ProjectStore
=============================================================================
