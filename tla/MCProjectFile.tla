---------------------------- MODULE MCProjectFile ----------------------------
(* ProjectFile with two processes on one path, schema versions 1 to 3 as   *)
(* in schema.ts and one newer.                                             *)
EXTENDS ProjectFile
=============================================================================
