---------------------------- MODULE EngineValues ----------------------------
(***************************************************************************)
(* What the engine's modules share: the value that stands for an absent    *)
(* one, and the order of ids.                                              *)
(***************************************************************************)
EXTENDS Integers

CONSTANT None  \* nobody stated it; no asset

(* Ids are numbers, in the order of the texts they stand for.              *)
IsFirst(x, S) == x \in S /\ \A y \in S : x <= y
=============================================================================
