--------------------------- MODULE MCProjectSession ---------------------------
(* ProjectSession on a project with an extraction cache at one path and a  *)
(* workbook at another, either of which has two versions.                  *)
EXTENDS ProjectSession, TLC

CONSTANTS
  cache, book,      \* paths
  m1, m2, w1, w2,   \* bytes
  flow,             \* the workbook's role
  p1, p2            \* profiles

MCPaths     == {cache, book}
MCHashes    == {m1, m2, w1, w2}
MCKeys      == {ModelKey, flow}
MCProfiles  == {p1, p2}
MCContents  == (cache :> {m1, m2}) @@ (book :> {w1, w2})
MCRegisters == [h \in MCHashes |-> IF h \in {m1, m2} THEN {ModelKey} ELSE {flow}]

(* Nothing tells two versions of a file, or two profiles, apart.           *)
Symmetry == Permutations({m1, m2}) \cup Permutations({w1, w2}) \cup Permutations({p1, p2})
=============================================================================
