------------------------- MODULE ProjectTablesProofs -------------------------
(***************************************************************************)
(* Lemmas about the operators of ProjectTables, for the proofs about the   *)
(* store and about the session: the types of an updated table, what each   *)
(* mutator leaves alone, and what one whole call keeps.                    *)
(***************************************************************************)
EXTENDS ProjectTables, TLAPS

-----------------------------------------------------------------------------
(* The type of the tables, field by field, and of an update of one field.  *)
LEMMA FieldTypes ==
  ASSUME NEW t \in Tables
  PROVE  /\ t.sources \in [SourceKeys -> Hashes \cup {None}]
         /\ t.profile \in Seq(Profiles)
         /\ t.overrides \in [Assets -> Payloads \cup {None}]
         /\ t.learned \in Seq(RuleSets)
         /\ t.decisions \in Seq(Decisions)
         /\ t.config \in [ConfigKeys -> ConfigVersions \cup {None}]
         /\ t.compiles \in Seq(Nat)
         /\ t.snapshot \in Nat
         /\ t.touches \in Nat
         /\ DOMAIN t = {"sources", "profile", "overrides", "learned", "decisions",
                        "config", "compiles", "snapshot", "touches"}
BY DEF Tables

LEMMA UpdateTypes ==
  ASSUME NEW t \in Tables
  PROVE  /\ \A x \in [SourceKeys -> Hashes \cup {None}] : [t EXCEPT !.sources = x] \in Tables
         /\ \A x \in Seq(Profiles) : [t EXCEPT !.profile = x] \in Tables
         /\ \A x \in [Assets -> Payloads \cup {None}] : [t EXCEPT !.overrides = x] \in Tables
         /\ \A x \in Seq(RuleSets) : [t EXCEPT !.learned = x] \in Tables
         /\ \A x \in Seq(Decisions) : [t EXCEPT !.decisions = x] \in Tables
         /\ \A x \in [ConfigKeys -> ConfigVersions \cup {None}] : [t EXCEPT !.config = x] \in Tables
         /\ \A x \in Seq(Nat) : [t EXCEPT !.compiles = x] \in Tables
         /\ \A x \in Nat : [t EXCEPT !.snapshot = x] \in Tables
         /\ \A x \in Nat : [t EXCEPT !.touches = x] \in Tables
<1>1. \A x \in [SourceKeys -> Hashes \cup {None}] : [t EXCEPT !.sources = x] \in Tables
  BY Zenon DEF Tables
<1>2. \A x \in Seq(Profiles) : [t EXCEPT !.profile = x] \in Tables
  BY Zenon DEF Tables
<1>3. \A x \in [Assets -> Payloads \cup {None}] : [t EXCEPT !.overrides = x] \in Tables
  BY Zenon DEF Tables
<1>4. \A x \in Seq(RuleSets) : [t EXCEPT !.learned = x] \in Tables
  BY Zenon DEF Tables
<1>5. \A x \in Seq(Decisions) : [t EXCEPT !.decisions = x] \in Tables
  BY Zenon DEF Tables
<1>6. \A x \in [ConfigKeys -> ConfigVersions \cup {None}] : [t EXCEPT !.config = x] \in Tables
  BY Zenon DEF Tables
<1>7. \A x \in Seq(Nat) : [t EXCEPT !.compiles = x] \in Tables
  BY Zenon DEF Tables
<1>8. \A x \in Nat : [t EXCEPT !.snapshot = x] \in Tables
  BY Zenon DEF Tables
<1>9. \A x \in Nat : [t EXCEPT !.touches = x] \in Tables
  BY Zenon DEF Tables
<1> QED BY <1>1, <1>2, <1>3, <1>4, <1>5, <1>6, <1>7, <1>8, <1>9

LEMMA TouchedFacts ==
  ASSUME NEW t \in Tables
  PROVE  /\ Touched(t) \in Tables
         /\ Touched(t).touches > t.touches
         /\ \A f \in DOMAIN t \ {"touches"} : Touched(t)[f] = t[f]
<1>1. t.touches + 1 \in Nat
  BY FieldTypes
<1>2. Touched(t) \in Tables
  BY <1>1, UpdateTypes, Zenon DEF Touched
<1> QED BY <1>2, FieldTypes DEF Touched

(* A mutator changes its own table and modified_at, and nothing else.      *)
Wrote(t, u, field) ==
  /\ u \in Tables
  /\ u.touches > t.touches
  /\ \A f \in DOMAIN t \ {field, "touches"} : u[f] = t[f]

LEMMA UpdateWrites ==
  ASSUME NEW t \in Tables
  PROVE  /\ \A x \in [SourceKeys -> Hashes \cup {None}] :
              /\ Wrote(t, Touched([t EXCEPT !.sources = x]), "sources")
              /\ Touched([t EXCEPT !.sources = x]).sources = x
         /\ \A x \in Seq(Profiles) :
              /\ Wrote(t, Touched([t EXCEPT !.profile = x]), "profile")
              /\ Touched([t EXCEPT !.profile = x]).profile = x
         /\ \A x \in [Assets -> Payloads \cup {None}] :
              /\ Wrote(t, Touched([t EXCEPT !.overrides = x]), "overrides")
              /\ Touched([t EXCEPT !.overrides = x]).overrides = x
         /\ \A x \in Seq(RuleSets) :
              /\ Wrote(t, Touched([t EXCEPT !.learned = x]), "learned")
              /\ Touched([t EXCEPT !.learned = x]).learned = x
         /\ \A x \in Seq(Decisions) :
              /\ Wrote(t, Touched([t EXCEPT !.decisions = x]), "decisions")
              /\ Touched([t EXCEPT !.decisions = x]).decisions = x
         /\ \A x \in [ConfigKeys -> ConfigVersions \cup {None}] :
              /\ Wrote(t, Touched([t EXCEPT !.config = x]), "config")
              /\ Touched([t EXCEPT !.config = x]).config = x
         /\ \A x \in Seq(Nat) :
              /\ Wrote(t, Touched([t EXCEPT !.compiles = x]), "compiles")
              /\ Touched([t EXCEPT !.compiles = x]).compiles = x
         /\ \A x \in Nat :
              /\ Wrote(t, Touched([t EXCEPT !.snapshot = x]), "snapshot")
              /\ Touched([t EXCEPT !.snapshot = x]).snapshot = x
<1>1. ASSUME NEW x \in [SourceKeys -> Hashes \cup {None}]
      PROVE  /\ Wrote(t, Touched([t EXCEPT !.sources = x]), "sources")
             /\ Touched([t EXCEPT !.sources = x]).sources = x
  <2>1. [t EXCEPT !.sources = x] \in Tables
    BY UpdateTypes, Zenon
  <2>2. /\ [t EXCEPT !.sources = x].touches = t.touches
        /\ [t EXCEPT !.sources = x].sources = x
        /\ \A f \in DOMAIN t \ {"sources"} : [t EXCEPT !.sources = x][f] = t[f]
        /\ DOMAIN [t EXCEPT !.sources = x] = DOMAIN t
    BY FieldTypes
  <2> QED BY <2>1, <2>2, TouchedFacts, FieldTypes DEF Wrote
<1>2. ASSUME NEW x \in Seq(Profiles)
      PROVE  /\ Wrote(t, Touched([t EXCEPT !.profile = x]), "profile")
             /\ Touched([t EXCEPT !.profile = x]).profile = x
  <2>1. [t EXCEPT !.profile = x] \in Tables
    BY UpdateTypes, Zenon
  <2>2. /\ [t EXCEPT !.profile = x].touches = t.touches
        /\ [t EXCEPT !.profile = x].profile = x
        /\ \A f \in DOMAIN t \ {"profile"} : [t EXCEPT !.profile = x][f] = t[f]
        /\ DOMAIN [t EXCEPT !.profile = x] = DOMAIN t
    BY FieldTypes
  <2> QED BY <2>1, <2>2, TouchedFacts, FieldTypes DEF Wrote
<1>3. ASSUME NEW x \in [Assets -> Payloads \cup {None}]
      PROVE  /\ Wrote(t, Touched([t EXCEPT !.overrides = x]), "overrides")
             /\ Touched([t EXCEPT !.overrides = x]).overrides = x
  <2>1. [t EXCEPT !.overrides = x] \in Tables
    BY UpdateTypes, Zenon
  <2>2. /\ [t EXCEPT !.overrides = x].touches = t.touches
        /\ [t EXCEPT !.overrides = x].overrides = x
        /\ \A f \in DOMAIN t \ {"overrides"} : [t EXCEPT !.overrides = x][f] = t[f]
        /\ DOMAIN [t EXCEPT !.overrides = x] = DOMAIN t
    BY FieldTypes
  <2> QED BY <2>1, <2>2, TouchedFacts, FieldTypes DEF Wrote
<1>4. ASSUME NEW x \in Seq(RuleSets)
      PROVE  /\ Wrote(t, Touched([t EXCEPT !.learned = x]), "learned")
             /\ Touched([t EXCEPT !.learned = x]).learned = x
  <2>1. [t EXCEPT !.learned = x] \in Tables
    BY UpdateTypes, Zenon
  <2>2. /\ [t EXCEPT !.learned = x].touches = t.touches
        /\ [t EXCEPT !.learned = x].learned = x
        /\ \A f \in DOMAIN t \ {"learned"} : [t EXCEPT !.learned = x][f] = t[f]
        /\ DOMAIN [t EXCEPT !.learned = x] = DOMAIN t
    BY FieldTypes
  <2> QED BY <2>1, <2>2, TouchedFacts, FieldTypes DEF Wrote
<1>5. ASSUME NEW x \in Seq(Decisions)
      PROVE  /\ Wrote(t, Touched([t EXCEPT !.decisions = x]), "decisions")
             /\ Touched([t EXCEPT !.decisions = x]).decisions = x
  <2>1. [t EXCEPT !.decisions = x] \in Tables
    BY UpdateTypes, Zenon
  <2>2. /\ [t EXCEPT !.decisions = x].touches = t.touches
        /\ [t EXCEPT !.decisions = x].decisions = x
        /\ \A f \in DOMAIN t \ {"decisions"} : [t EXCEPT !.decisions = x][f] = t[f]
        /\ DOMAIN [t EXCEPT !.decisions = x] = DOMAIN t
    BY FieldTypes
  <2> QED BY <2>1, <2>2, TouchedFacts, FieldTypes DEF Wrote
<1>6. ASSUME NEW x \in [ConfigKeys -> ConfigVersions \cup {None}]
      PROVE  /\ Wrote(t, Touched([t EXCEPT !.config = x]), "config")
             /\ Touched([t EXCEPT !.config = x]).config = x
  <2>1. [t EXCEPT !.config = x] \in Tables
    BY UpdateTypes, Zenon
  <2>2. /\ [t EXCEPT !.config = x].touches = t.touches
        /\ [t EXCEPT !.config = x].config = x
        /\ \A f \in DOMAIN t \ {"config"} : [t EXCEPT !.config = x][f] = t[f]
        /\ DOMAIN [t EXCEPT !.config = x] = DOMAIN t
    BY FieldTypes
  <2> QED BY <2>1, <2>2, TouchedFacts, FieldTypes DEF Wrote
<1>7. ASSUME NEW x \in Seq(Nat)
      PROVE  /\ Wrote(t, Touched([t EXCEPT !.compiles = x]), "compiles")
             /\ Touched([t EXCEPT !.compiles = x]).compiles = x
  <2>1. [t EXCEPT !.compiles = x] \in Tables
    BY UpdateTypes, Zenon
  <2>2. /\ [t EXCEPT !.compiles = x].touches = t.touches
        /\ [t EXCEPT !.compiles = x].compiles = x
        /\ \A f \in DOMAIN t \ {"compiles"} : [t EXCEPT !.compiles = x][f] = t[f]
        /\ DOMAIN [t EXCEPT !.compiles = x] = DOMAIN t
    BY FieldTypes
  <2> QED BY <2>1, <2>2, TouchedFacts, FieldTypes DEF Wrote
<1>8. ASSUME NEW x \in Nat
      PROVE  /\ Wrote(t, Touched([t EXCEPT !.snapshot = x]), "snapshot")
             /\ Touched([t EXCEPT !.snapshot = x]).snapshot = x
  <2>1. [t EXCEPT !.snapshot = x] \in Tables
    BY UpdateTypes, Zenon
  <2>2. /\ [t EXCEPT !.snapshot = x].touches = t.touches
        /\ [t EXCEPT !.snapshot = x].snapshot = x
        /\ \A f \in DOMAIN t \ {"snapshot"} : [t EXCEPT !.snapshot = x][f] = t[f]
        /\ DOMAIN [t EXCEPT !.snapshot = x] = DOMAIN t
    BY FieldTypes
  <2> QED BY <2>1, <2>2, TouchedFacts, FieldTypes DEF Wrote
<1> QED BY <1>1, <1>2, <1>3, <1>4, <1>5, <1>6, <1>7, <1>8

-----------------------------------------------------------------------------
(* Append-only tables.                                                     *)
LEMMA SameIsExtension ==
  ASSUME NEW S, NEW s \in Seq(S)
  PROVE  IsExtension(s, s)
BY DEF IsExtension

LEMMA AppendIsExtension ==
  ASSUME NEW S, NEW s \in Seq(S), NEW x \in S
  PROVE  /\ IsExtension(s, Append(s, x))
         /\ Append(s, x) \in Seq(S)
         /\ Len(Append(s, x)) = Len(s) + 1
BY DEF IsExtension

(* What the single-statement calls leave alone: the configuration, the     *)
(* compiles and the snapshot always, and every row of the histories.       *)
RowKept(t, u) ==
  /\ u \in Tables
  /\ u.config = t.config
  /\ u.compiles = t.compiles
  /\ u.snapshot = t.snapshot
  /\ HistoryKept(t, u)
  /\ u = t \/ u.touches > t.touches

LEMMA UpsertKeeps ==
  ASSUME NEW t \in Tables, NEW u,
         Wrote(t, u, "sources") \/ Wrote(t, u, "overrides")
  PROVE  RowKept(t, u)
<1>1. /\ u.profile = t.profile
      /\ u.learned = t.learned
      /\ u.decisions = t.decisions
      /\ u.config = t.config
      /\ u.compiles = t.compiles
      /\ u.snapshot = t.snapshot
      /\ u \in Tables
      /\ u.touches > t.touches
  BY FieldTypes DEF Wrote
<1> QED BY <1>1, SameIsExtension, FieldTypes DEF RowKept, HistoryKept

LEMMA RowWrittenKeeps ==
  ASSUME NEW t \in Tables, NEW u, RowWritten(t, u)
  PROVE  RowKept(t, u)
<1>0. RowKept(t, t)
  BY SameIsExtension, FieldTypes DEF RowKept, HistoryKept
<1>1. ASSUME NEW k \in SourceKeys, NEW h \in Hashes \cup {None},
             u = Touched([t EXCEPT !.sources[k] = h])
      PROVE  RowKept(t, u)
  <2> DEFINE x == [t.sources EXCEPT ![k] = h]
  <2>1. x \in [SourceKeys -> Hashes \cup {None}]
    BY FieldTypes
  <2>2. [t EXCEPT !.sources[k] = h] = [t EXCEPT !.sources = x]
    OBVIOUS
  <2>3. u = Touched([t EXCEPT !.sources = x])
    BY <1>1, <2>2
  <2>4. Wrote(t, u, "sources")
    BY <2>1, <2>3, UpdateWrites, ZenonT(60)
  <2> HIDE DEF x
  <2> QED BY <2>4, UpsertKeeps, Zenon
<1>2. ASSUME NEW a \in Assets, NEW p \in Payloads \cup {None},
             u = Touched([t EXCEPT !.overrides[a] = p])
      PROVE  RowKept(t, u)
  <2> DEFINE x == [t.overrides EXCEPT ![a] = p]
  <2>1. x \in [Assets -> Payloads \cup {None}]
    BY FieldTypes
  <2>2. [t EXCEPT !.overrides[a] = p] = [t EXCEPT !.overrides = x]
    OBVIOUS
  <2>3. u = Touched([t EXCEPT !.overrides = x])
    BY <1>2, <2>2
  <2>4. Wrote(t, u, "overrides")
    BY <2>1, <2>3, UpdateWrites, ZenonT(60)
  <2> HIDE DEF x
  <2> QED BY <2>4, UpsertKeeps, Zenon
<1>3. ASSUME NEW p \in Profiles, u = AppendedProfile(t, p)
      PROVE  RowKept(t, u)
  <2> DEFINE x == Append(t.profile, p)
  <2>1. x \in Seq(Profiles) /\ IsExtension(t.profile, x)
    BY AppendIsExtension, FieldTypes
  <2>2. u = Touched([t EXCEPT !.profile = x])
    BY <1>3 DEF AppendedProfile
  <2>3. Wrote(t, u, "profile") /\ u.profile = x
    BY <2>1, <2>2, UpdateWrites, ZenonT(60)
  <2> HIDE DEF x
  <2> QED BY <2>1, <2>3, SameIsExtension, FieldTypes DEF RowKept, HistoryKept, Wrote
<1>4. ASSUME NEW r \in RuleSets, u = AppendedLearned(t, r)
      PROVE  RowKept(t, u)
  <2> DEFINE x == Append(t.learned, r)
  <2>1. x \in Seq(RuleSets) /\ IsExtension(t.learned, x)
    BY AppendIsExtension, FieldTypes
  <2>2. u = Touched([t EXCEPT !.learned = x])
    BY <1>4 DEF AppendedLearned
  <2>3. Wrote(t, u, "learned") /\ u.learned = x
    BY <2>1, <2>2, UpdateWrites, ZenonT(60)
  <2> HIDE DEF x
  <2> QED BY <2>1, <2>3, SameIsExtension, FieldTypes DEF RowKept, HistoryKept, Wrote
<1>5. ASSUME NEW d \in Decisions, u = AppendedDecision(t, d)
      PROVE  RowKept(t, u)
  <2> DEFINE x == Append(t.decisions, d)
  <2>1. x \in Seq(Decisions) /\ IsExtension(t.decisions, x)
    BY AppendIsExtension, FieldTypes
  <2>2. u = Touched([t EXCEPT !.decisions = x])
    BY <1>5 DEF AppendedDecision
  <2>3. Wrote(t, u, "decisions") /\ u.decisions = x
    BY <2>1, <2>2, UpdateWrites, ZenonT(60)
  <2> HIDE DEF x
  <2> QED BY <2>1, <2>3, SameIsExtension, FieldTypes DEF RowKept, HistoryKept, Wrote
<1> QED
  BY <1>0, <1>1, <1>2, <1>3, <1>4, <1>5
     DEF RowWritten, UpsertedSource, RemovedSource, PutOverride, RemovedOverride

-----------------------------------------------------------------------------
(* What one whole call keeps of what the content of the file promises.     *)
Sound(t) == References(t) /\ ConfigWhole(t) /\ SnapshotNewest(t)

LEMMA OneCallKeeps ==
  ASSUME NEW t \in Tables, NEW u \in Tables, OneCall(t, u), Sound(t)
  PROVE  /\ Sound(u)
         /\ HistoryKept(t, u)
         /\ u = t \/ u.touches > t.touches
<1>1. CASE RowWritten(t, u)
  <2>1. RowKept(t, u)
    BY <1>1, RowWrittenKeeps
  <2> QED
    BY <2>1, FieldTypes
       DEF RowKept, Sound, References, KnownRevision, KnownCompile, ConfigWhole,
           SnapshotNewest, HistoryKept, IsExtension
<1>2. CASE ConfigWritten(t, u) /\ u.touches > t.touches
  <2>1. /\ u.profile = t.profile
        /\ u.learned = t.learned
        /\ u.decisions = t.decisions
        /\ u.compiles = t.compiles
        /\ u.snapshot = t.snapshot
    BY <1>2, FieldTypes DEF ConfigWritten, SameBut
  <2>2. ConfigWhole(u)
    BY <1>2 DEF ConfigWritten, ConfigWhole
  <2>3. HistoryKept(t, u)
    BY <2>1, SameIsExtension, FieldTypes DEF HistoryKept
  <2> QED
    BY <1>2, <2>1, <2>2, <2>3
       DEF Sound, References, KnownRevision, KnownCompile, SnapshotNewest
<1>3. CASE CompileWritten(t, u) /\ u.touches > t.touches
  <2>1. /\ u.profile = t.profile
        /\ u.learned = t.learned
        /\ u.decisions = t.decisions
        /\ u.config = t.config
    BY <1>3, FieldTypes DEF CompileWritten, SameBut
  <2>2. PICK rev \in 1 .. Len(t.profile) : u.compiles = Append(t.compiles, rev)
    BY <1>3 DEF CompileWritten
  <2>3. rev \in Nat
    BY FieldTypes
  <2>4. /\ IsExtension(t.compiles, u.compiles)
        /\ Len(u.compiles) = Len(t.compiles) + 1
        /\ u.compiles[Len(t.compiles) + 1] = rev
    <3>1. t.compiles \in Seq(Nat)
      BY FieldTypes
    <3>2. /\ IsExtension(t.compiles, Append(t.compiles, rev))
          /\ Len(Append(t.compiles, rev)) = Len(t.compiles) + 1
      BY <2>3, <3>1, AppendIsExtension
    <3>3. Append(t.compiles, rev)[Len(t.compiles) + 1] = rev
      BY <2>3, <3>1
    <3> QED BY <2>2, <3>2, <3>3
  <2>5. u.snapshot = Len(u.compiles)
    BY <1>3 DEF CompileWritten
  <2>6. References(u)
    <3>1. ASSUME NEW i \in 1 .. Len(u.compiles)
          PROVE  u.compiles[i] \in 1 .. Len(u.profile)
      <4>1. CASE i = Len(t.compiles) + 1
        BY <4>1, <2>1, <2>4
      <4>2. CASE i # Len(t.compiles) + 1
        <5>1. i \in 1 .. Len(t.compiles)
          BY <4>2, <2>4, FieldTypes
        <5>2. u.compiles[i] = t.compiles[i]
          BY <5>1, <2>4 DEF IsExtension
        <5> QED BY <5>1, <5>2, <2>1 DEF Sound, References, KnownRevision
      <4> QED BY <4>1, <4>2
    <3>2. Len(u.compiles) \in 1 .. Len(u.compiles)
      BY <2>4, FieldTypes
    <3> QED BY <3>1, <3>2, <2>5 DEF References, KnownRevision, KnownCompile
  <2>7. HistoryKept(t, u)
    BY <2>1, <2>4, SameIsExtension, FieldTypes DEF HistoryKept
  <2> QED
    BY <1>3, <2>1, <2>5, <2>6, <2>7 DEF Sound, ConfigWhole, SnapshotNewest
<1> QED BY <1>1, <1>2, <1>3 DEF OneCall

-----------------------------------------------------------------------------
(* The calls of the desktop session, field by field.                       *)
LEMMA ProfileAppended ==
  ASSUME NEW t \in Tables, NEW p \in Profiles
  PROVE  LET u == AppendedProfile(t, p) IN
         /\ u \in Tables /\ u.profile = Append(t.profile, p) /\ u.touches > t.touches
         /\ u.sources = t.sources /\ u.config = t.config
         /\ u.compiles = t.compiles /\ u.snapshot = t.snapshot
<1> DEFINE x == Append(t.profile, p)
           u == Touched([t EXCEPT !.profile = x])
<1>1. x \in Seq(Profiles)
  BY FieldTypes
<1>2. Wrote(t, u, "profile") /\ u.profile = x
  BY <1>1, UpdateWrites, ZenonT(60)
<1>3. AppendedProfile(t, p) = u
  BY DEF AppendedProfile
<1> HIDE DEF x, u
<1>4. u \in Tables /\ u.profile = x /\ u.touches > t.touches
      /\ u.sources = t.sources /\ u.config = t.config
      /\ u.compiles = t.compiles /\ u.snapshot = t.snapshot
  BY <1>2, FieldTypes DEF Wrote
<1> QED BY <1>3, <1>4 DEF x

LEMMA SourceUpserted ==
  ASSUME NEW t \in Tables, NEW k \in SourceKeys, NEW h \in Hashes \cup {None}
  PROVE  LET u == Touched([t EXCEPT !.sources[k] = h]) IN
         /\ u \in Tables /\ u.sources = [t.sources EXCEPT ![k] = h] /\ u.touches > t.touches
         /\ u.profile = t.profile /\ u.config = t.config
         /\ u.compiles = t.compiles /\ u.snapshot = t.snapshot
<1> DEFINE x == [t.sources EXCEPT ![k] = h]
           u == Touched([t EXCEPT !.sources = x])
<1>1. x \in [SourceKeys -> Hashes \cup {None}]
  BY FieldTypes
<1>2. Wrote(t, u, "sources") /\ u.sources = x
  BY <1>1, UpdateWrites, ZenonT(60)
<1>3. Touched([t EXCEPT !.sources[k] = h]) = u
  OBVIOUS
<1> HIDE DEF x, u
<1>4. u \in Tables /\ u.sources = x /\ u.touches > t.touches
      /\ u.profile = t.profile /\ u.config = t.config
      /\ u.compiles = t.compiles /\ u.snapshot = t.snapshot
  BY <1>2, FieldTypes DEF Wrote
<1> QED BY <1>3, <1>4 DEF x

LEMMA ConfigPut ==
  ASSUME NEW t \in Tables, NEW x \in [ConfigKeys -> ConfigVersions \cup {None}]
  PROVE  LET u == Touched([t EXCEPT !.config = x]) IN
         /\ u \in Tables /\ u.config = x /\ u.touches > t.touches
         /\ SameBut(t, u, {"config"})
         /\ u.sources = t.sources /\ u.profile = t.profile
         /\ u.compiles = t.compiles /\ u.snapshot = t.snapshot
<1> DEFINE u == Touched([t EXCEPT !.config = x])
<1>1. Wrote(t, u, "config") /\ u.config = x
  BY UpdateWrites, ZenonT(60)
<1> HIDE DEF u
<1>2. u \in Tables /\ u.config = x /\ u.touches > t.touches
      /\ u.sources = t.sources /\ u.profile = t.profile
      /\ u.compiles = t.compiles /\ u.snapshot = t.snapshot
      /\ SameBut(t, u, {"config"})
  BY <1>1, FieldTypes DEF Wrote, SameBut
<1> QED BY <1>2 DEF u

LEMMA CompilePut ==
  ASSUME NEW t \in Tables, NEW rev \in Nat
  PROVE  LET u == [Touched(t) EXCEPT !.compiles = Append(@, rev), !.snapshot = Len(t.compiles) + 1] IN
         /\ u \in Tables /\ u.compiles = Append(t.compiles, rev)
         /\ u.snapshot = Len(t.compiles) + 1 /\ u.touches > t.touches
         /\ SameBut(t, u, {"compiles", "snapshot"})
         /\ u.sources = t.sources /\ u.profile = t.profile /\ u.config = t.config
<1> DEFINE s == Touched(t)
           x == Append(t.compiles, rev)
           n == Len(t.compiles) + 1
           v == [s EXCEPT !.compiles = x]
           u == [v EXCEPT !.snapshot = n]
<1>1. s \in Tables /\ s.touches > t.touches /\ SameBut(t, s, {})
      /\ s.compiles = t.compiles
  BY TouchedFacts, FieldTypes DEF SameBut
<1>2. x \in Seq(Nat) /\ n \in Nat
  BY FieldTypes
<1>3. [Touched(t) EXCEPT !.compiles = Append(@, rev), !.snapshot = n] = u
  BY <1>1
<1> HIDE DEF s, x, n
<1>4. v \in Tables
  BY <1>1, <1>2, UpdateTypes, Zenon
<1>5. u \in Tables
  BY <1>2, <1>4, UpdateTypes, Zenon
<1>6. u.compiles = x /\ u.snapshot = n /\ u.touches > t.touches
      /\ u.sources = t.sources /\ u.profile = t.profile /\ u.config = t.config
      /\ SameBut(t, u, {"compiles", "snapshot"})
  BY <1>1, <1>2, FieldTypes DEF SameBut
<1> HIDE DEF u
<1> QED BY <1>3, <1>5, <1>6 DEF x, n

-----------------------------------------------------------------------------
(* A new project is a sound one.                                           *)
LEMMA NewProjectSound == NewProject \in Tables /\ Sound(NewProject)
<1>1. /\ NewProject.profile = << >> /\ NewProject.learned = << >>
      /\ NewProject.decisions = << >> /\ NewProject.compiles = << >>
  BY DEF NewProject
<1>2. NewProject \in Tables
  BY <1>1 DEF NewProject, Tables
<1>3. Sound(NewProject)
  BY DEF NewProject, Sound, References, ConfigWhole, SnapshotNewest
<1> QED BY <1>2, <1>3
=============================================================================
