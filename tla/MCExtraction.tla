---------------------------- MODULE MCExtraction ----------------------------
(* Two launchers on one input file that may hold two things.               *)
EXTENDS Extraction, TLC

CONSTANTS l1, l2, c1, c2

MCLaunchers == {l1, l2}
MCContents  == {c1, c2}
=============================================================================
