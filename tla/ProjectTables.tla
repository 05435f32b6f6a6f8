---------------------------- MODULE ProjectTables ----------------------------
(***************************************************************************)
(* The tables of a .matchline project file and what one whole call of the  *)
(* project store does to them (packages/project-store/src/store.ts and the *)
(* DDL in schema.ts).                                                      *)
(*                                                                         *)
(* A value of Tables is the content of the file at one instant.  Rows keep *)
(* what the rest of the program tells apart: which bytes a source row      *)
(* pins, which revision of the profile a compile row points at, which      *)
(* compile the one snapshot row belongs to.                                *)
(***************************************************************************)
EXTENDS Naturals, Sequences

CONSTANTS
  SourceKeys,    \* (role, file_name), the primary key of the sources table
  Hashes,        \* sha256 digests
  Profiles,      \* site profile bodies
  Assets,        \* asset keys of the overrides table
  Payloads,      \* override payloads
  RuleSets,      \* learned rule sets, tagged with their kind
  Decisions,     \* review decisions (review key and verdict)
  ConfigKeys,    \* CONFIG_KEYS of schema.ts
  ConfigVersions,\* states of the project configuration object
  None           \* no row

ASSUME NoneIsNoRow ==
  /\ None \notin Hashes
  /\ None \notin Payloads
  /\ None \notin ConfigVersions
ASSUME SomeConfigKey == ConfigKeys # {}

Tables ==
  [sources   : [SourceKeys -> Hashes \cup {None}],
   profile   : Seq(Profiles),              \* the index is the revision
   overrides : [Assets -> Payloads \cup {None}],
   learned   : Seq(RuleSets),
   decisions : Seq(Decisions),
   config    : [ConfigKeys -> ConfigVersions \cup {None}],
   compiles  : Seq(Nat),                   \* profile_revision; the index is the id
   snapshot  : Nat,                        \* compile_id of slot 0, 0 for no row
   touches   : Nat]                        \* how often meta.modified_at was written

(* createProject: the DDL has run and meta is written; no other row.       *)
NewProject ==
  [sources   |-> [k \in SourceKeys |-> None],
   profile   |-> << >>,
   overrides |-> [a \in Assets |-> None],
   learned   |-> << >>,
   decisions |-> << >>,
   config    |-> [k \in ConfigKeys |-> None],
   compiles  |-> << >>,
   snapshot  |-> 0,
   touches   |-> 0]

(***************************************************************************)
(* What each mutator writes.  To write modified_at is part of the mutator  *)
(* (#touch, called by #mutate).  The instant written is that of the wall   *)
(* clock, which may repeat and go back, and it is not kept here: touches   *)
(* counts the writes that the content of the file includes.                *)
(***************************************************************************)
Touched(t) == [t EXCEPT !.touches = @ + 1]

UpsertedSource(t, k, h)  == Touched([t EXCEPT !.sources[k] = h])
AppendedProfile(t, p)    == Touched([t EXCEPT !.profile = Append(@, p)])
AppendedLearned(t, r)    == Touched([t EXCEPT !.learned = Append(@, r)])
AppendedDecision(t, d)   == Touched([t EXCEPT !.decisions = Append(@, d)])
PutOverride(t, a, p)     == Touched([t EXCEPT !.overrides[a] = p])
SavedConfigKey(t, k, v)  == Touched([t EXCEPT !.config[k] = v])
RecordedCompile(t, rev)  == Touched([t EXCEPT !.compiles = Append(@, rev)])
SavedSnapshot(t, id)     == Touched([t EXCEPT !.snapshot = id])

(* A DELETE that matches no row does not touch modified_at.                *)
RemovedSource(t, k) ==
  IF t.sources[k] = None THEN t ELSE Touched([t EXCEPT !.sources[k] = None])
RemovedOverride(t, a) ==
  IF t.overrides[a] = None THEN t ELSE Touched([t EXCEPT !.overrides[a] = None])

KnownRevision(t, rev) == rev \in 1 .. Len(t.profile)
KnownCompile(t, id)   == id \in 1 .. Len(t.compiles)

(***************************************************************************)
(* The contract of the store: u is what exactly one whole call makes of t. *)
(* Besides the single mutators there are two callers that put several      *)
(* statements behind one commit: writeProjectConfig (all the keys) and     *)
(* compileNow (the compile row and its snapshot).                          *)
(***************************************************************************)
SameBut(t, u, fields) ==
  \A f \in DOMAIN t \ (fields \cup {"touches"}) : u[f] = t[f]

ConfigWritten(t, u) ==
  /\ SameBut(t, u, {"config"})
  /\ \E v \in ConfigVersions : u.config = [k \in ConfigKeys |-> v]

CompileWritten(t, u) ==
  /\ SameBut(t, u, {"compiles", "snapshot"})
  /\ \E rev \in 1 .. Len(t.profile) : u.compiles = Append(t.compiles, rev)
  /\ u.snapshot = Len(u.compiles)

RowWritten(t, u) ==
  \/ \E k \in SourceKeys, h \in Hashes : u = UpsertedSource(t, k, h)
  \/ \E k \in SourceKeys : u = RemovedSource(t, k)
  \/ \E p \in Profiles : u = AppendedProfile(t, p)
  \/ \E a \in Assets, p \in Payloads : u = PutOverride(t, a, p)
  \/ \E a \in Assets : u = RemovedOverride(t, a)
  \/ \E r \in RuleSets : u = AppendedLearned(t, r)
  \/ \E d \in Decisions : u = AppendedDecision(t, d)

OneCall(t, u) ==
  \/ RowWritten(t, u)
  \/ ConfigWritten(t, u) /\ u.touches > t.touches
  \/ CompileWritten(t, u) /\ u.touches > t.touches

(***************************************************************************)
(* The invariants of the content.                                          *)
(***************************************************************************)

(* Every compile names a revision that is stored, and the snapshot a       *)
(* compile that is stored (the two foreign keys of schema.ts).             *)
References(t) ==
  /\ \A i \in 1 .. Len(t.compiles) : KnownRevision(t, t.compiles[i])
  /\ t.snapshot # 0 => KnownCompile(t, t.snapshot)

(* The configuration is one object: no reader finds keys of two versions.  *)
ConfigWhole(t) == \A j, k \in ConfigKeys : t.config[j] = t.config[k]

(* The snapshot is the newest compile's.                                   *)
SnapshotNewest(t) == t.snapshot = Len(t.compiles)

IsExtension(s, r) ==
  /\ Len(s) <= Len(r)
  /\ \A i \in 1 .. Len(s) : r[i] = s[i]

(* Append-only tables: a row once written is never edited or dropped.      *)
HistoryKept(t, u) ==
  /\ IsExtension(t.profile, u.profile)
  /\ IsExtension(t.learned, u.learned)
  /\ IsExtension(t.decisions, u.decisions)
  /\ IsExtension(t.compiles, u.compiles)
=============================================================================
