------------------------- MODULE ProjectSessionProofs -------------------------
(***************************************************************************)
(* Theorems about ProjectSession for any sources, files, profiles and      *)
(* configurations, and for any number of calls, edits and crashes.         *)
(*                                                                         *)
(* The argument has three parts that need each other only for the types:   *)
(* the draft and the revision it was saved as (DraftIsSaved), the live     *)
(* configuration and the table's (ConfigKept), and the bytes behind the    *)
(* details of the sources and behind the model (Faithful), which hold for  *)
(* as long as no source is touched and no add is cut short.                *)
(***************************************************************************)
EXTENDS ProjectSession, ProjectTablesProofs

(* What a call has read so far, where it relies on it; and a source said   *)
(* to be ready is somewhere.                                               *)
Fits ==
  /\ pc = "identified" => job.path \in Paths
  /\ pc = "registering" => job.path \in Paths /\ job.hash \in Hashes
  /\ \A k \in SourceKeys : details[k].status = "ready" => details[k].path \in Paths

Typed == TypeOK /\ Fits

(* A revision in memory is the draft's, and a compile has one.             *)
DraftIsSaved ==
  /\ savedRevision # 0 => store.profile[savedRevision] = draft
  /\ pc \in {"compiling", "recording"} => savedRevision # 0
  /\ Len(compiled) = Len(store.compiles)
  /\ CompileNamesItsProfile

(* A session that is closed has forgotten the configuration, and a project *)
(* that is not there has none.                                             *)
ConfigKept ==
  /\ LiveConfigIsStored
  /\ pc = "closed" => config = Default
  /\ origin = "absent" => pc = "closed" /\ StoredConfig = None

(* While nothing has disturbed the session, each detail with a path and    *)
(* the open model show the bytes the project records, and what a call has  *)
(* read is still what it would read.                                       *)
DetailsTrue ==
  \A k \in SourceKeys : Recorded(k) /\ details[k].path # None => fs[details[k].path] = store.sources[k]

ModelTrue ==
  pc \in {"idle", "compiling", "recording"} /\ Recorded(ModelKey) /\ model # None =>
    model = store.sources[ModelKey]

Faithful ==
  /\ pc \in {"closed", "adopting", "rehydrating"} => details = NoDetails /\ model = None
  /\ ~disturbed =>
       /\ DetailsTrue
       /\ ModelTrue
       /\ pc = "registering" => fs[job.path] = job.hash
       /\ pc = "recording" => job.used = store.sources
  /\ SettledProvenance

IInv == Typed /\ DraftIsSaved /\ ConfigKept /\ ShownCompileIsNewest /\ Faithful

-----------------------------------------------------------------------------
(* What each call writes, field by field.                                  *)
LEMMA ConfigWrittenIs ==
  ASSUME store \in Tables, NEW v \in ConfigVersions
  PROVE  /\ WrittenConfig(v) \in Tables /\ WrittenConfig(v).config = [k \in ConfigKeys |-> v]
         /\ SameBut(store, WrittenConfig(v), {"config"})
         /\ WrittenConfig(v).touches > store.touches
         /\ WrittenConfig(v).config[CHOOSE k \in ConfigKeys : TRUE] = v
         /\ WrittenConfig(v).sources = store.sources /\ WrittenConfig(v).profile = store.profile
         /\ WrittenConfig(v).compiles = store.compiles /\ WrittenConfig(v).snapshot = store.snapshot
<1> DEFINE x == [k \in ConfigKeys |-> v]
<1>1. x \in [ConfigKeys -> ConfigVersions \cup {None}]
  OBVIOUS
<1>2. WrittenConfig(v) = Touched([store EXCEPT !.config = x])
  BY DEF WrittenConfig
<1> HIDE DEF x
<1>3. LET u == Touched([store EXCEPT !.config = x]) IN
      /\ u \in Tables /\ u.config = x /\ u.touches > store.touches
      /\ SameBut(store, u, {"config"})
      /\ u.sources = store.sources /\ u.profile = store.profile
      /\ u.compiles = store.compiles /\ u.snapshot = store.snapshot
  BY <1>1, ConfigPut
<1>4. x[CHOOSE k \in ConfigKeys : TRUE] = v
  BY SomeConfigKey DEF x
<1> QED BY <1>2, <1>3, <1>4 DEF x

LEMMA ConfigStep ==
  ASSUME Typed, NEW v \in ConfigVersions, Writes(WrittenConfig(v))
  PROVE  /\ store' \in Tables /\ StoredConfig' = v
         /\ store'.sources = store.sources /\ store'.profile = store.profile
         /\ store'.compiles = store.compiles /\ store'.snapshot = store.snapshot
         /\ store'.config = [k \in ConfigKeys |-> v]
         /\ SameBut(store, store', {"config"}) /\ store'.touches > store.touches
<1>1. store \in Tables /\ store' = WrittenConfig(v)
  BY DEF Typed, TypeOK, Writes
<1> QED BY <1>1, ConfigWrittenIs DEF StoredConfig

LEMMA ProfileStep ==
  ASSUME Typed, draft # Blank, Writes(AppendedProfile(store, draft))
  PROVE  /\ store' \in Tables /\ draft \in Profiles
         /\ Len(store'.profile) = Len(store.profile) + 1
         /\ store'.profile[Len(store.profile) + 1] = draft
         /\ \A i \in 1 .. Len(store.profile) : store'.profile[i] = store.profile[i]
         /\ store'.sources = store.sources /\ StoredConfig' = StoredConfig
         /\ store'.compiles = store.compiles /\ store'.snapshot = store.snapshot
<1>1. store \in Tables /\ draft \in Profiles /\ store' = AppendedProfile(store, draft)
  BY DEF Typed, TypeOK, Writes, Drafts
<1>2. /\ store' \in Tables /\ store'.profile = Append(store.profile, draft)
      /\ store'.sources = store.sources /\ store'.config = store.config
      /\ store'.compiles = store.compiles /\ store'.snapshot = store.snapshot
  BY <1>1, ProfileAppended
<1> QED BY <1>1, <1>2, FieldTypes DEF StoredConfig

LEMMA SourceStep ==
  ASSUME Typed, NEW k \in SourceKeys,
         RemoveSource(k) \/ AddRegister(k)
  PROVE  /\ store' \in Tables
         /\ store'.sources = [store.sources EXCEPT ![k] = IF RemoveSource(k) THEN None ELSE job.hash]
         /\ store'.profile = store.profile /\ StoredConfig' = StoredConfig
         /\ store'.compiles = store.compiles /\ store'.snapshot = store.snapshot
<1>1. store \in Tables
  BY DEF Typed, TypeOK
<1>2. CASE RemoveSource(k)
  <2>1. CASE store.sources[k] = None
    BY <1>1, <1>2, <2>1, FieldTypes DEF RemoveSource, RemovedSource, Writes, StoredConfig
  <2>2. CASE store.sources[k] # None
    <3>1. store' = Touched([store EXCEPT !.sources[k] = None])
      BY <1>2, <2>2 DEF RemoveSource, RemovedSource, Writes
    <3> QED BY <1>1, <1>2, <3>1, SourceUpserted DEF StoredConfig
  <2> QED BY <2>1, <2>2
<1>3. CASE AddRegister(k)
  <2>1. /\ store' = Touched([store EXCEPT !.sources[k] = job.hash]) /\ job.hash \in Hashes
        /\ ~RemoveSource(k)
    BY <1>3 DEF AddRegister, UpsertedSource, Writes, Typed, Fits, RemoveSource
  <2> QED BY <1>1, <2>1, SourceUpserted DEF StoredConfig
<1> QED BY <1>2, <1>3

LEMMA CompileStep ==
  ASSUME Typed, CompileRecord
  PROVE  /\ store' \in Tables
         /\ store'.compiles = Append(store.compiles, savedRevision)
         /\ store'.snapshot = Len(store.compiles) + 1
         /\ SameBut(store, store', {"compiles", "snapshot"}) /\ store'.touches > store.touches
         /\ store'.profile = store.profile /\ store'.sources = store.sources
         /\ StoredConfig' = StoredConfig
<1>1. store \in Tables /\ savedRevision \in Nat
  BY FieldTypes DEF Typed, TypeOK
<1>2. store' = [Touched(store) EXCEPT !.compiles = Append(@, savedRevision),
                                      !.snapshot = Len(store.compiles) + 1]
  BY DEF CompileRecord, Writes
<1> QED BY <1>1, <1>2, CompilePut DEF StoredConfig

-----------------------------------------------------------------------------
Jobs    == [path : Paths \cup {None}, keys : SUBSET SourceKeys,
            hash : Hashes \cup {None}, used : Inputs]
Details == [status : {"none", "ready", "missing", "changed"}, path : Paths \cup {None}]

(* The types of what is not on the table.                                  *)
RestTyped ==
  /\ origin \in {"absent", "earlier", "created"}
  /\ legacy \in Readable \cup {None}
  /\ index \in [Hashes -> Paths \cup {None}]
  /\ fs \in Files
  /\ edits \in 0 .. MaxEdits
  /\ pc \in Points
  /\ job \in Jobs
  /\ draft \in Drafts
  /\ config \in Readable
  /\ details \in [SourceKeys -> Details]
  /\ model \in Hashes \cup {None}
  /\ status \in {"never-run", "failed", "done"}
  /\ compiled \in Seq([profile : Drafts, honest : BOOLEAN, disturbed : BOOLEAN])
  /\ disturbed \in BOOLEAN

TableTyped ==
  /\ store \in Tables
  /\ savedRevision \in 0 .. Len(store.profile)
  /\ view \in 0 .. Len(store.compiles)

LEMMA TypedParts == Typed <=> TableTyped /\ RestTyped /\ Fits
BY DEF Typed, TypeOK, TableTyped, RestTyped, Jobs, Details

LEMMA NothingTyped ==
  /\ NoJob \in Jobs /\ NoDetail \in Details /\ NoDetails \in [SourceKeys -> Details]
  /\ NoDetail.status = "none" /\ \A k \in SourceKeys : NoDetails[k] = NoDetail
BY DEF NoJob, NoInputs, NoDetail, NoDetails, Detail, Jobs, Details, Inputs

(* What a file holds is bytes, and bytes have roles of the project.        *)
LEMMA BytesAreHashes ==
  ASSUME fs \in Files, NEW p \in Paths
  PROVE  fs[p] \in Hashes \cup {None} /\ IdentifySource(p) \subseteq SourceKeys
BY SessionAssumption, NoneIsNoRow DEF Files, IdentifySource

LEMMA ForgetTyped == ASSUME Typed, Forget PROVE RestTyped' /\ Fits'
BY TypedParts, NothingTyped, SessionAssumption
   DEF Forget, Unwritten, world, RestTyped, Fits, Points, Drafts, Readable

LEMMA RestTypedNext == ASSUME Typed, [Next]_vars PROVE RestTyped' /\ Fits'
<1>0. TableTyped /\ RestTyped /\ Fits
  BY TypedParts
<1> USE <1>0, SessionAssumption, NoneIsNoRow
<1> USE DEF RestTyped, Fits, Points, world, memory, Unwritten, Adding, TableTyped
<1>1. ASSUME Close PROVE RestTyped' /\ Fits'
  BY <1>1, ForgetTyped DEF Close
<1>2. ASSUME Crash PROVE RestTyped' /\ Fits'
  BY <1>2, ForgetTyped DEF Crash
<1>3. ASSUME Create PROVE RestTyped' /\ Fits'
  BY <1>3 DEF Create
<1>4. ASSUME Open PROVE RestTyped' /\ Fits'
  <2>1. draft' \in Drafts
    BY <1>4, FieldTypes DEF Open, Drafts
  <2>2. config' \in Readable /\ legacy' \in Readable \cup {None} /\ pc' \in {"rehydrating", "adopting"}
    BY <1>4 DEF Open, TakeLegacyProjectConfig, Readable
  <2> QED BY <1>4, <2>1, <2>2 DEF Open
<1>5. ASSUME AdoptLegacy PROVE RestTyped' /\ Fits'
  BY <1>5 DEF AdoptLegacy
<1>6. ASSUME AdoptFails PROVE RestTyped' /\ Fits'
  BY <1>6, ForgetTyped DEF AdoptFails
<1>7. ASSUME Rehydrate PROVE RestTyped' /\ Fits'
  <2>1. \A k \in SourceKeys :
          /\ Rehydrated(k) \in Details
          /\ Rehydrated(k).status = "ready" => Rehydrated(k).path \in Paths
    BY FieldTypes DEF Rehydrated, Recorded, Detail, NoDetail, Details
  <2>2. details' = [k \in SourceKeys |-> Rehydrated(k)]
    BY <1>7 DEF Rehydrate
  <2>3. details' \in [SourceKeys -> Details] /\ \A k \in SourceKeys : details'[k] = Rehydrated(k)
    BY <2>1, <2>2
  <2> QED BY <1>7, <2>1, <2>3 DEF Rehydrate
<1>8. ASSUME LoadModel PROVE RestTyped' /\ Fits'
  <2>1. model' \in Hashes \cup {None}
    BY <1>8, BytesAreHashes DEF LoadModel, Recorded, Details
  <2> QED BY <1>8, <2>1 DEF LoadModel
<1>9. ASSUME OtherBuildConfigures PROVE RestTyped' /\ Fits'
  BY <1>9 DEF OtherBuildConfigures
<1>10. ASSUME NEW d \in Drafts, UpdateDraft(d) PROVE RestTyped' /\ Fits'
  BY <1>10 DEF UpdateDraft
<1>11. ASSUME SaveProfile PROVE RestTyped' /\ Fits'
  BY <1>11 DEF SaveProfile
<1>12. ASSUME NEW v \in Readable, UpdateConfig(v) PROVE RestTyped' /\ Fits'
  BY <1>12 DEF UpdateConfig
<1>13. ASSUME NEW d \in Profiles, NEW v \in Readable, ImportProfilePackage(d, v) PROVE RestTyped' /\ Fits'
  BY <1>13 DEF ImportProfilePackage, Drafts
<1>14. ASSUME NEW k \in SourceKeys, RemoveSource(k) PROVE RestTyped' /\ Fits'
  <2>1. details' \in [SourceKeys -> Details] /\ \A j \in SourceKeys : details'[j] \in {details[j], NoDetail}
    BY <1>14, NothingTyped DEF RemoveSource
  <2> QED BY <1>14, <2>1, NothingTyped DEF RemoveSource
<1>15. ASSUME NEW p \in Paths, AddIdentify(p) PROVE RestTyped' /\ Fits'
  <2>1. IdentifySource(p) \subseteq SourceKeys
    BY BytesAreHashes
  <2>2. [NoJob EXCEPT !.path = p, !.keys = IdentifySource(p)] \in Jobs
        /\ [NoJob EXCEPT !.path = p, !.keys = IdentifySource(p)].path = p
    BY <2>1, NothingTyped DEF Jobs
  <2>3. job' \in Jobs /\ (pc' = "identified" => job'.path = p) /\ pc' \in {"identified", "adding"}
    BY <1>15, <2>2, NothingTyped DEF AddIdentify
  <2> QED BY <1>15, <2>3 DEF AddIdentify
<1>16. ASSUME AddDigest PROVE RestTyped' /\ Fits'
  <2>1. DigestFile(job.path) \in Hashes /\ job.path \in Paths
    BY <1>16, BytesAreHashes DEF AddDigest, DigestFile
  <2>2. job' \in Jobs /\ job'.path = job.path /\ job'.hash = DigestFile(job.path)
    BY <1>16, <2>1 DEF AddDigest, Jobs
  <2>3. index' \in [Hashes -> Paths \cup {None}]
    BY <1>16, <2>1 DEF AddDigest, RememberSourcePath
  <2> QED BY <1>16, <2>1, <2>2, <2>3 DEF AddDigest
<1>17. ASSUME NEW k \in SourceKeys, AddRegister(k) PROVE RestTyped' /\ Fits'
  <2>1. job' \in Jobs /\ (pc' = "registering" => job'.path = job.path /\ job'.hash = job.hash)
    BY <1>17, NothingTyped DEF AddRegister, Jobs
  <2>2. /\ details' \in [SourceKeys -> Details]
        /\ \A j \in SourceKeys \ {k} : details'[j] = details[j]
        /\ details'[k].path \in Paths
    BY <1>17 DEF AddRegister, Details, Detail
  <2> QED BY <1>17, <2>1, <2>2 DEF AddRegister
<1>18. ASSUME AddFinish PROVE RestTyped' /\ Fits'
  BY <1>18 DEF AddFinish
<1>19. ASSUME AddThrows PROVE RestTyped' /\ Fits'
  BY <1>19, NothingTyped DEF AddThrows
<1>20. ASSUME CompileStart PROVE RestTyped' /\ Fits'
  BY <1>20 DEF CompileStart
<1>21. ASSUME CompileRead PROVE RestTyped' /\ Fits'
  <2>1. \A k \in SourceKeys : BytesOf(k) \in Hashes \cup {None}
    BY BytesAreHashes DEF BytesOf, Details
  <2>2. job' \in Jobs
    BY <1>21, <2>1, NothingTyped DEF CompileRead, Jobs, Inputs, NoJob
  <2> QED BY <1>21, <2>2 DEF CompileRead
<1>22. ASSUME CompileThrows PROVE RestTyped' /\ Fits'
  BY <1>22 DEF CompileThrows
<1>23. ASSUME CompileRecord PROVE RestTyped' /\ Fits'
  <2>1. compiled' \in Seq([profile : Drafts, honest : BOOLEAN, disturbed : BOOLEAN])
    BY <1>23 DEF CompileRecord
  <2> QED BY <1>23, <2>1, NothingTyped DEF CompileRecord
<1>24. ASSUME CompileRecordFails PROVE RestTyped' /\ Fits'
  BY <1>24, NothingTyped DEF CompileRecordFails
<1>25. ASSUME NEW p \in Paths, NEW h \in Contents[p] \cup {None}, Edit(p, h) PROVE RestTyped' /\ Fits'
  <2>1. fs' \in Files
    BY <1>25 DEF Edit, Files
  <2>2. edits' \in 0 .. MaxEdits
    BY <1>25 DEF Edit
  <2> QED BY <1>25, <2>1, <2>2 DEF Edit
<1>26. CASE UNCHANGED vars
  BY <1>26 DEF vars
<1> QED
  BY <1>1, <1>2, <1>3, <1>4, <1>5, <1>6, <1>7, <1>8, <1>9, <1>10, <1>11, <1>12, <1>13, <1>14, <1>15,
    <1>16, <1>17, <1>18, <1>19, <1>20, <1>21, <1>22, <1>23, <1>24, <1>25, <1>26 DEF Next

LEMMA TableTypedNext == ASSUME Typed, [Next]_vars PROVE TableTyped'
<1>0. TableTyped /\ RestTyped /\ Fits
  BY TypedParts
<1> USE <1>0, SessionAssumption
<1> USE DEF TableTyped, memory, Unwritten, Forget, Adding, Writes
<1>1. ASSUME Close PROVE TableTyped'
  BY <1>1 DEF Close
<1>2. ASSUME Crash PROVE TableTyped'
  BY <1>2 DEF Crash
<1>3. ASSUME Create PROVE TableTyped'
  BY <1>3 DEF Create
<1>4. ASSUME Open PROVE TableTyped'
  BY <1>4 DEF Open
<1>5. ASSUME AdoptLegacy PROVE TableTyped'
  BY <1>5, ConfigStep DEF AdoptLegacy, Readable, RestTyped
<1>6. ASSUME AdoptFails PROVE TableTyped'
  BY <1>6 DEF AdoptFails
<1>7. ASSUME Rehydrate PROVE TableTyped'
  BY <1>7 DEF Rehydrate
<1>8. ASSUME LoadModel PROVE TableTyped'
  BY <1>8 DEF LoadModel
<1>9. ASSUME OtherBuildConfigures PROVE TableTyped'
  BY <1>9, ConfigStep, SessionAssumption DEF OtherBuildConfigures, Readable
<1>10. ASSUME NEW d \in Drafts, UpdateDraft(d) PROVE TableTyped'
  BY <1>10 DEF UpdateDraft
<1>11. ASSUME SaveProfile PROVE TableTyped'
  <2>1. UNCHANGED <<store, savedRevision>> \/
          (/\ store' \in Tables /\ Len(store'.profile) = Len(store.profile) + 1
           /\ store'.compiles = store.compiles /\ savedRevision' = Len(store.profile) + 1)
    BY <1>11, ProfileStep DEF SaveProfile
  <2>2. store.profile \in Seq(Profiles)
    BY FieldTypes
  <2> QED BY <1>11, <2>1, <2>2 DEF SaveProfile
<1>12. ASSUME NEW v \in Readable, UpdateConfig(v) PROVE TableTyped'
  BY <1>12, ConfigStep DEF UpdateConfig, Readable
<1>13. ASSUME NEW d \in Profiles, NEW v \in Readable, ImportProfilePackage(d, v) PROVE TableTyped'
  BY <1>13, ConfigStep DEF ImportProfilePackage, Readable
<1>14. ASSUME NEW k \in SourceKeys, RemoveSource(k) PROVE TableTyped'
  <2>1. store' \in Tables /\ store'.profile = store.profile /\ store'.compiles = store.compiles
    BY <1>14, SourceStep
  <2> QED BY <1>14, <2>1 DEF RemoveSource
<1>15. ASSUME NEW p \in Paths, AddIdentify(p) PROVE TableTyped'
  BY <1>15 DEF AddIdentify
<1>16. ASSUME AddDigest PROVE TableTyped'
  BY <1>16 DEF AddDigest
<1>17. ASSUME NEW k \in SourceKeys, AddRegister(k) PROVE TableTyped'
  <2>1. store' \in Tables /\ store'.profile = store.profile /\ store'.compiles = store.compiles
    BY <1>17, SourceStep
  <2> QED BY <1>17, <2>1 DEF AddRegister
<1>18. ASSUME AddFinish PROVE TableTyped'
  BY <1>18 DEF AddFinish
<1>19. ASSUME AddThrows PROVE TableTyped'
  BY <1>19 DEF AddThrows
<1>20. ASSUME CompileStart PROVE TableTyped'
  <2>1. UNCHANGED <<store, savedRevision>> \/
          (/\ store' \in Tables /\ Len(store'.profile) = Len(store.profile) + 1
           /\ store'.compiles = store.compiles /\ savedRevision' = Len(store.profile) + 1)
    BY <1>20, ProfileStep DEF CompileStart
  <2>2. store.profile \in Seq(Profiles)
    BY FieldTypes
  <2> QED BY <1>20, <2>1, <2>2 DEF CompileStart
<1>21. ASSUME CompileRead PROVE TableTyped'
  BY <1>21 DEF CompileRead
<1>22. ASSUME CompileThrows PROVE TableTyped'
  BY <1>22 DEF CompileThrows
<1>23. ASSUME CompileRecord PROVE TableTyped'
  <2>1. /\ store' \in Tables /\ store'.profile = store.profile
        /\ Len(store'.compiles) = Len(store.compiles) + 1
    BY <1>23, CompileStep, FieldTypes
  <2>2. savedRevision' = savedRevision /\ view' = Len(store.compiles) + 1
    BY <1>23 DEF CompileRecord
  <2>3. Len(store.compiles) \in Nat
    BY FieldTypes
  <2>4. savedRevision' \in 0..Len(store'.profile) /\ view' \in 0..Len(store'.compiles)
    BY <2>1, <2>2, <2>3
  <2> QED BY <2>1, <2>4
<1>24. ASSUME CompileRecordFails PROVE TableTyped'
  BY <1>24 DEF CompileRecordFails
<1>25. ASSUME NEW p \in Paths, NEW h \in Contents[p] \cup {None}, Edit(p, h) PROVE TableTyped'
  BY <1>25 DEF Edit
<1>26. CASE UNCHANGED vars
  BY <1>26 DEF vars
<1> QED
  BY <1>1, <1>2, <1>3, <1>4, <1>5, <1>6, <1>7, <1>8, <1>9, <1>10, <1>11, <1>12, <1>13, <1>14, <1>15,
    <1>16, <1>17, <1>18, <1>19, <1>20, <1>21, <1>22, <1>23, <1>24, <1>25, <1>26 DEF Next

LEMMA TypedNext == ASSUME Typed, [Next]_vars PROVE Typed'
<1>1. TableTyped' /\ RestTyped' /\ Fits'
  BY RestTypedNext, TableTypedNext
<1> QED BY <1>1 DEF Typed, TypeOK, TableTyped, RestTyped, Jobs, Details

-----------------------------------------------------------------------------
(* The draft and the revision it was saved as.  A profile more changes     *)
(* nothing about the compiles recorded.                                    *)
LEMMA NamesKept ==
  ASSUME Typed, CompileNamesItsProfile, draft # Blank, Writes(AppendedProfile(store, draft)),
         UNCHANGED compiled
  PROVE  CompileNamesItsProfile'
<1>1. Len(store.profile) \in Nat
  BY FieldTypes DEF Typed, TypeOK
<1>2. /\ Len(store'.profile) = Len(store.profile) + 1 /\ store'.compiles = store.compiles
      /\ \A i \in 1 .. Len(store.profile) : store'.profile[i] = store.profile[i]
  BY ProfileStep
<1>3. ASSUME NEW i \in 1 .. Len(store.compiles)
      PROVE  /\ store.compiles[i] \in 1 .. Len(store'.profile)
             /\ store'.profile[store.compiles[i]] = compiled[i].profile
  BY <1>1, <1>2 DEF CompileNamesItsProfile, KnownRevision
<1> QED BY <1>2, <1>3 DEF CompileNamesItsProfile, KnownRevision

LEMMA DraftNext == ASSUME Typed, DraftIsSaved, [Next]_vars PROVE DraftIsSaved'
<1> USE DEF DraftIsSaved, CompileNamesItsProfile, KnownRevision, memory, Unwritten, Forget, Adding
<1>1. ASSUME Close PROVE DraftIsSaved'
  BY <1>1 DEF Close
<1>2. ASSUME Crash PROVE DraftIsSaved'
  BY <1>2 DEF Crash
<1>3. ASSUME Create PROVE DraftIsSaved'
  BY <1>3 DEF Create
<1>4. ASSUME Open PROVE DraftIsSaved'
  <2>1. savedRevision' = Len(store.profile) /\ Len(store.profile) \in Nat
        /\ (Len(store.profile) # 0 => draft' = store.profile[Len(store.profile)])
        /\ pc' \in {"rehydrating", "adopting"} /\ UNCHANGED <<store, compiled>>
    BY <1>4, FieldTypes DEF Open, Typed, TypeOK
  <2> QED BY <2>1
<1>5. ASSUME AdoptLegacy PROVE DraftIsSaved'
  BY <1>5, ConfigStep DEF AdoptLegacy, Readable, Typed, TypeOK
<1>6. ASSUME AdoptFails PROVE DraftIsSaved'
  BY <1>6 DEF AdoptFails
<1>7. ASSUME Rehydrate PROVE DraftIsSaved'
  BY <1>7 DEF Rehydrate
<1>8. ASSUME LoadModel PROVE DraftIsSaved'
  BY <1>8 DEF LoadModel
<1>9. ASSUME OtherBuildConfigures PROVE DraftIsSaved'
  BY <1>9, ConfigStep, SessionAssumption DEF OtherBuildConfigures, Readable
<1>10. ASSUME NEW d \in Drafts, UpdateDraft(d) PROVE DraftIsSaved'
  BY <1>10 DEF UpdateDraft
<1>11. ASSUME SaveProfile PROVE DraftIsSaved'
  BY <1>11, ProfileStep, NamesKept DEF SaveProfile
<1>12. ASSUME NEW v \in Readable, UpdateConfig(v) PROVE DraftIsSaved'
  BY <1>12, ConfigStep DEF UpdateConfig, Readable
<1>13. ASSUME NEW d \in Profiles, NEW v \in Readable, ImportProfilePackage(d, v) PROVE DraftIsSaved'
  BY <1>13, ConfigStep DEF ImportProfilePackage, Readable
<1>14. ASSUME NEW k \in SourceKeys, RemoveSource(k) PROVE DraftIsSaved'
  BY <1>14, SourceStep DEF RemoveSource
<1>15. ASSUME NEW p \in Paths, AddIdentify(p) PROVE DraftIsSaved'
  BY <1>15 DEF AddIdentify
<1>16. ASSUME AddDigest PROVE DraftIsSaved'
  BY <1>16 DEF AddDigest
<1>17. ASSUME NEW k \in SourceKeys, AddRegister(k) PROVE DraftIsSaved'
  BY <1>17, SourceStep DEF AddRegister
<1>18. ASSUME AddFinish PROVE DraftIsSaved'
  BY <1>18 DEF AddFinish
<1>19. ASSUME AddThrows PROVE DraftIsSaved'
  BY <1>19 DEF AddThrows
<1>20. ASSUME CompileStart PROVE DraftIsSaved'
  <2>1. CASE savedRevision = 0
    <3>1. Writes(AppendedProfile(store, draft)) /\ draft # Blank
      BY <1>20, <2>1 DEF CompileStart
    <3>2. savedRevision' = Len(store.profile) + 1 /\ Len(store.profile) \in Nat
      BY <1>20, <2>1, FieldTypes DEF CompileStart, Typed, TypeOK
    <3>3. CompileNamesItsProfile'
      BY <1>20, <3>1, NamesKept DEF CompileStart
    <3> QED BY <1>20, <3>1, <3>2, <3>3, ProfileStep DEF CompileStart
  <2>2. CASE savedRevision # 0
    BY <1>20, <2>2 DEF CompileStart
  <2> QED BY <2>1, <2>2
<1>21. ASSUME CompileRead PROVE DraftIsSaved'
  BY <1>21 DEF CompileRead
<1>22. ASSUME CompileThrows PROVE DraftIsSaved'
  BY <1>22 DEF CompileThrows
<1>23. ASSUME CompileRecord PROVE DraftIsSaved'
  <2>1. store'.profile = store.profile /\ store'.compiles = Append(store.compiles, savedRevision)
    BY <1>23, CompileStep
  <2>2. /\ compiled' = Append(compiled, compiled'[Len(compiled) + 1])
        /\ compiled \in Seq([profile : Drafts, honest : BOOLEAN, disturbed : BOOLEAN])
        /\ compiled'[Len(compiled) + 1].profile = draft
        /\ pc' = "idle" /\ UNCHANGED <<draft, savedRevision>>
    BY <1>23 DEF CompileRecord, Typed, TypeOK
  <2>3. store.compiles \in Seq(Nat) /\ savedRevision \in 1 .. Len(store.profile)
        /\ store.profile[savedRevision] = draft /\ Len(store.profile) \in Nat
    BY <1>23, FieldTypes DEF CompileRecord, Typed, TypeOK
  <2>4. Len(compiled') = Len(compiled) + 1 /\ Len(store'.compiles) = Len(store.compiles) + 1
        /\ Len(store.compiles) \in Nat
    BY <2>1, <2>2, <2>3
  <2>5. ASSUME NEW i \in 1 .. Len(store'.compiles)
        PROVE  /\ store'.compiles[i] \in 1 .. Len(store'.profile)
               /\ store'.profile[store'.compiles[i]] = compiled'[i].profile
    <3>1. CASE i = Len(store.compiles) + 1
      BY <2>1, <2>2, <2>3, <2>4, <3>1
    <3>2. CASE i \in 1 .. Len(store.compiles)
      <4>1. store'.compiles[i] = store.compiles[i] /\ compiled'[i] = compiled[i]
        <5>1. store'.compiles[i] = store.compiles[i]
          BY <2>1, <2>3, <3>2
        <5>2. Len(compiled) = Len(store.compiles)
          BY <1>23 DEF DraftIsSaved
        <5>3. PICK last : compiled' = Append(compiled, last)
          BY <2>2
        <5> QED BY <2>2, <2>4, <3>2, <5>1, <5>2, <5>3
      <4> QED BY <2>1, <3>2, <4>1
    <3> QED BY <2>4, <3>1, <3>2
  <2> QED BY <2>1, <2>2, <2>3, <2>4, <2>5
<1>24. ASSUME CompileRecordFails PROVE DraftIsSaved'
  BY <1>24 DEF CompileRecordFails
<1>25. ASSUME NEW p \in Paths, NEW h \in Contents[p] \cup {None}, Edit(p, h) PROVE DraftIsSaved'
  BY <1>25 DEF Edit
<1>26. CASE UNCHANGED vars
  BY <1>26 DEF vars
<1> QED
  BY <1>1, <1>2, <1>3, <1>4, <1>5, <1>6, <1>7, <1>8, <1>9, <1>10, <1>11, <1>12, <1>13, <1>14, <1>15,
    <1>16, <1>17, <1>18, <1>19, <1>20, <1>21, <1>22, <1>23, <1>24, <1>25, <1>26 DEF Next

-----------------------------------------------------------------------------
(* The live configuration and the table's.                                 *)
LEMMA ConfigNext == ASSUME Typed, ConfigKept, [Next]_vars PROVE ConfigKept'
<1> USE DEF ConfigKept, LiveConfigIsStored, StoredConfig, memory, Unwritten, Forget, Adding
<1>1. ASSUME Close PROVE ConfigKept'
  BY <1>1 DEF Close
<1>2. ASSUME Crash PROVE ConfigKept'
  BY <1>2 DEF Crash
<1>3. ASSUME Create PROVE ConfigKept'
  BY <1>3, NoneIsNoRow DEF Create, Readable
<1>4. ASSUME Open PROVE ConfigKept'
  BY <1>4, NoneIsNoRow, SessionAssumption DEF Open, Readable, TakeLegacyProjectConfig
<1>5. ASSUME AdoptLegacy PROVE ConfigKept'
  <2>1. config \in Readable /\ Readable \subseteq ConfigVersions
    BY <1>5 DEF Readable, Typed, TypeOK
  <2>2. Writes(WrittenConfig(config)) /\ config' = config /\ pc' \in {"idle", "rehydrating"}
        /\ UNCHANGED origin /\ pc # "closed"
    BY <1>5 DEF AdoptLegacy
  <2>3. StoredConfig' = config
    BY <2>1, <2>2, ConfigStep
  <2>4. origin # "absent"
    BY <2>2
  <2> QED BY <2>1, <2>2, <2>3, <2>4
<1>6. ASSUME AdoptFails PROVE ConfigKept'
  BY <1>6 DEF AdoptFails
<1>7. ASSUME Rehydrate PROVE ConfigKept'
  BY <1>7 DEF Rehydrate
<1>8. ASSUME LoadModel PROVE ConfigKept'
  BY <1>8 DEF LoadModel
<1>9. ASSUME OtherBuildConfigures PROVE ConfigKept'
  BY <1>9, ConfigStep, SessionAssumption DEF OtherBuildConfigures, Readable, Typed, TypeOK
<1>10. ASSUME NEW d \in Drafts, UpdateDraft(d) PROVE ConfigKept'
  BY <1>10 DEF UpdateDraft
<1>11. ASSUME SaveProfile PROVE ConfigKept'
  BY <1>11, ProfileStep DEF SaveProfile
<1>12. ASSUME NEW v \in Readable, UpdateConfig(v) PROVE ConfigKept'
  <2>1. v \in Readable /\ Readable \subseteq ConfigVersions
    BY <1>12 DEF Readable, Typed, TypeOK
  <2>2. Writes(WrittenConfig(v)) /\ config' = v /\ pc' \in {"idle", "rehydrating"}
        /\ UNCHANGED origin /\ pc # "closed"
    BY <1>12 DEF UpdateConfig
  <2>3. StoredConfig' = v
    BY <2>1, <2>2, ConfigStep
  <2>4. origin # "absent"
    BY <2>2
  <2> QED BY <2>1, <2>2, <2>3, <2>4
<1>13. ASSUME NEW d \in Profiles, NEW v \in Readable, ImportProfilePackage(d, v) PROVE ConfigKept'
  <2>1. v \in Readable /\ Readable \subseteq ConfigVersions
    BY <1>13 DEF Readable, Typed, TypeOK
  <2>2. Writes(WrittenConfig(v)) /\ config' = v /\ pc' \in {"idle", "rehydrating"}
        /\ UNCHANGED origin /\ pc # "closed"
    BY <1>13 DEF ImportProfilePackage
  <2>3. StoredConfig' = v
    BY <2>1, <2>2, ConfigStep
  <2>4. origin # "absent"
    BY <2>2
  <2> QED BY <2>1, <2>2, <2>3, <2>4
<1>14. ASSUME NEW k \in SourceKeys, RemoveSource(k) PROVE ConfigKept'
  BY <1>14, SourceStep DEF RemoveSource
<1>15. ASSUME NEW p \in Paths, AddIdentify(p) PROVE ConfigKept'
  BY <1>15 DEF AddIdentify
<1>16. ASSUME AddDigest PROVE ConfigKept'
  BY <1>16 DEF AddDigest
<1>17. ASSUME NEW k \in SourceKeys, AddRegister(k) PROVE ConfigKept'
  BY <1>17, SourceStep DEF AddRegister
<1>18. ASSUME AddFinish PROVE ConfigKept'
  BY <1>18 DEF AddFinish
<1>19. ASSUME AddThrows PROVE ConfigKept'
  BY <1>19 DEF AddThrows
<1>20. ASSUME CompileStart PROVE ConfigKept'
  BY <1>20, ProfileStep DEF CompileStart
<1>21. ASSUME CompileRead PROVE ConfigKept'
  BY <1>21 DEF CompileRead
<1>22. ASSUME CompileThrows PROVE ConfigKept'
  BY <1>22 DEF CompileThrows
<1>23. ASSUME CompileRecord PROVE ConfigKept'
  BY <1>23, CompileStep DEF CompileRecord
<1>24. ASSUME CompileRecordFails PROVE ConfigKept'
  BY <1>24 DEF CompileRecordFails
<1>25. ASSUME NEW p \in Paths, NEW h \in Contents[p] \cup {None}, Edit(p, h) PROVE ConfigKept'
  BY <1>25 DEF Edit
<1>26. CASE UNCHANGED vars
  BY <1>26 DEF vars
<1> QED
  BY <1>1, <1>2, <1>3, <1>4, <1>5, <1>6, <1>7, <1>8, <1>9, <1>10, <1>11, <1>12, <1>13, <1>14, <1>15,
    <1>16, <1>17, <1>18, <1>19, <1>20, <1>21, <1>22, <1>23, <1>24, <1>25, <1>26 DEF Next

-----------------------------------------------------------------------------
(* The compile on show.                                                    *)
LEMMA ShownNext == ASSUME Typed, ShownCompileIsNewest, [Next]_vars PROVE ShownCompileIsNewest'
<1> USE DEF ShownCompileIsNewest, memory, Unwritten, Forget, Adding
<1>1. ASSUME Close PROVE ShownCompileIsNewest'
  BY <1>1 DEF Close
<1>2. ASSUME Crash PROVE ShownCompileIsNewest'
  BY <1>2 DEF Crash
<1>3. ASSUME Create PROVE ShownCompileIsNewest'
  BY <1>3 DEF Create
<1>4. ASSUME Open PROVE ShownCompileIsNewest'
  BY <1>4 DEF Open
<1>5. ASSUME AdoptLegacy PROVE ShownCompileIsNewest'
  BY <1>5, ConfigStep, SessionAssumption DEF AdoptLegacy, Readable, Typed, TypeOK
<1>6. ASSUME AdoptFails PROVE ShownCompileIsNewest'
  BY <1>6 DEF AdoptFails
<1>7. ASSUME Rehydrate PROVE ShownCompileIsNewest'
  BY <1>7 DEF Rehydrate
<1>8. ASSUME LoadModel PROVE ShownCompileIsNewest'
  BY <1>8 DEF LoadModel
<1>9. ASSUME OtherBuildConfigures PROVE ShownCompileIsNewest'
  BY <1>9, ConfigStep, SessionAssumption DEF OtherBuildConfigures, Readable, Typed, TypeOK
<1>10. ASSUME NEW d \in Drafts, UpdateDraft(d) PROVE ShownCompileIsNewest'
  BY <1>10 DEF UpdateDraft
<1>11. ASSUME SaveProfile PROVE ShownCompileIsNewest'
  BY <1>11, ProfileStep DEF SaveProfile
<1>12. ASSUME NEW v \in Readable, UpdateConfig(v) PROVE ShownCompileIsNewest'
  BY <1>12, ConfigStep, SessionAssumption DEF UpdateConfig, Readable, Typed, TypeOK
<1>13. ASSUME NEW d \in Profiles, NEW v \in Readable, ImportProfilePackage(d, v) PROVE ShownCompileIsNewest'
  BY <1>13, ConfigStep, SessionAssumption DEF ImportProfilePackage, Readable, Typed, TypeOK
<1>14. ASSUME NEW k \in SourceKeys, RemoveSource(k) PROVE ShownCompileIsNewest'
  BY <1>14, SourceStep DEF RemoveSource
<1>15. ASSUME NEW p \in Paths, AddIdentify(p) PROVE ShownCompileIsNewest'
  BY <1>15 DEF AddIdentify
<1>16. ASSUME AddDigest PROVE ShownCompileIsNewest'
  BY <1>16 DEF AddDigest
<1>17. ASSUME NEW k \in SourceKeys, AddRegister(k) PROVE ShownCompileIsNewest'
  BY <1>17, SourceStep DEF AddRegister
<1>18. ASSUME AddFinish PROVE ShownCompileIsNewest'
  BY <1>18 DEF AddFinish
<1>19. ASSUME AddThrows PROVE ShownCompileIsNewest'
  BY <1>19 DEF AddThrows
<1>20. ASSUME CompileStart PROVE ShownCompileIsNewest'
  BY <1>20, ProfileStep DEF CompileStart
<1>21. ASSUME CompileRead PROVE ShownCompileIsNewest'
  BY <1>21 DEF CompileRead
<1>22. ASSUME CompileThrows PROVE ShownCompileIsNewest'
  BY <1>22 DEF CompileThrows
<1>23. ASSUME CompileRecord PROVE ShownCompileIsNewest'
  BY <1>23, CompileStep, FieldTypes DEF CompileRecord, Typed, TypeOK
<1>24. ASSUME CompileRecordFails PROVE ShownCompileIsNewest'
  BY <1>24 DEF CompileRecordFails
<1>25. ASSUME NEW p \in Paths, NEW h \in Contents[p] \cup {None}, Edit(p, h) PROVE ShownCompileIsNewest'
  BY <1>25 DEF Edit
<1>26. CASE UNCHANGED vars
  BY <1>26 DEF vars
<1> QED
  BY <1>1, <1>2, <1>3, <1>4, <1>5, <1>6, <1>7, <1>8, <1>9, <1>10, <1>11, <1>12, <1>13, <1>14, <1>15,
    <1>16, <1>17, <1>18, <1>19, <1>20, <1>21, <1>22, <1>23, <1>24, <1>25, <1>26 DEF Next



-----------------------------------------------------------------------------
(* The bytes behind the details, the model and what a compile has read.    *)
LEMMA NothingThere == NoDetail.path = None /\ \A k \in SourceKeys : NoDetails[k].path = None
BY DEF NoDetails, NoDetail, Detail

LEMMA FaithfulNext == ASSUME Typed, Faithful, [Next]_vars PROVE Faithful'
<1> USE DEF Faithful, DetailsTrue, ModelTrue, SettledProvenance, Recorded, world, memory, Unwritten, Adding
<1>1. ASSUME Close PROVE Faithful'
  BY <1>1, NothingThere DEF Close, Forget
<1>2. ASSUME Crash PROVE Faithful'
  BY <1>2, NothingThere DEF Crash, Forget
<1>3. ASSUME Create PROVE Faithful'
  BY <1>3, NothingThere DEF Create
<1>4. ASSUME Open PROVE Faithful'
  BY <1>4, NothingThere DEF Open
<1>5. ASSUME AdoptLegacy PROVE Faithful'
  BY <1>5, ConfigStep, SessionAssumption DEF AdoptLegacy, Readable, Typed, TypeOK
<1>6. ASSUME AdoptFails PROVE Faithful'
  BY <1>6, NothingThere DEF AdoptFails, Forget
<1>7. ASSUME Rehydrate PROVE Faithful'
  <2>1. ASSUME NEW k \in SourceKeys, Recorded(k), Rehydrated(k).path # None
        PROVE  fs[Rehydrated(k).path] = store.sources[k]
    BY <2>1 DEF Rehydrated, DigestFile, Detail, NoDetail
  <2>2. DetailsTrue'
    BY <1>7, <2>1 DEF Rehydrate
  <2> QED BY <1>7, <2>2 DEF Rehydrate
<1>8. ASSUME LoadModel PROVE Faithful'
  <2>1. CASE Recorded(ModelKey) /\ details[ModelKey].status = "ready"
    <3>1. details[ModelKey].path \in Paths /\ details[ModelKey].path # None
      BY <2>1, SessionAssumption DEF Typed, Fits
    <3> QED BY <1>8, <2>1, <3>1, SessionAssumption DEF LoadModel
  <2>2. CASE ~(Recorded(ModelKey) /\ details[ModelKey].status = "ready")
    BY <1>8, <2>2 DEF LoadModel
  <2> QED BY <2>1, <2>2
<1>9. ASSUME OtherBuildConfigures PROVE Faithful'
  BY <1>9, ConfigStep, SessionAssumption DEF OtherBuildConfigures, Readable, Typed, TypeOK
<1>10. ASSUME NEW d \in Drafts, UpdateDraft(d) PROVE Faithful'
  BY <1>10 DEF UpdateDraft
<1>11. ASSUME SaveProfile PROVE Faithful'
  BY <1>11, ProfileStep DEF SaveProfile
<1>12. ASSUME NEW v \in Readable, UpdateConfig(v) PROVE Faithful'
  BY <1>12, ConfigStep, SessionAssumption DEF UpdateConfig, Readable, Typed, TypeOK
<1>13. ASSUME NEW d \in Profiles, NEW v \in Readable, ImportProfilePackage(d, v) PROVE Faithful'
  BY <1>13, ConfigStep, SessionAssumption DEF ImportProfilePackage, Readable, Typed, TypeOK
<1>14. ASSUME NEW k \in SourceKeys, RemoveSource(k) PROVE Faithful'
  <2>1. /\ store'.sources = [store.sources EXCEPT ![k] = None]
        /\ store.sources \in [SourceKeys -> Hashes \cup {None}]
        /\ details \in [SourceKeys -> Details]
    BY <1>14, SourceStep, FieldTypes, TypedParts DEF TableTyped, RestTyped
  <2>2. ~disturbed => DetailsTrue'
    BY <1>14, <2>1, NothingThere DEF RemoveSource
  <2>3. ~disturbed => ModelTrue'
    BY <1>14, <2>1, SessionAssumption DEF RemoveSource
  <2> QED BY <1>14, <2>2, <2>3 DEF RemoveSource
<1>15. ASSUME NEW p \in Paths, AddIdentify(p) PROVE Faithful'
  BY <1>15 DEF AddIdentify
<1>16. ASSUME AddDigest PROVE Faithful'
  <2>1. job'.path = job.path /\ job'.hash = fs[job.path]
    BY <1>16, TypedParts DEF AddDigest, DigestFile, RestTyped, Jobs
  <2> QED BY <1>16, <2>1 DEF AddDigest
<1>17. ASSUME NEW k \in SourceKeys, AddRegister(k) PROVE Faithful'
  <2>0. ~RemoveSource(k)
    BY <1>17 DEF AddRegister, RemoveSource
  <2>1. /\ store'.sources = [store.sources EXCEPT ![k] = job.hash]
        /\ store.sources \in [SourceKeys -> Hashes \cup {None}]
        /\ details \in [SourceKeys -> Details]
    BY <1>17, <2>0, SourceStep, FieldTypes, TypedParts DEF TableTyped, RestTyped
  <2>2. /\ details' = [details EXCEPT ![k] = Detail("ready", job.path)]
        /\ Detail("ready", job.path).path = job.path
        /\ UNCHANGED <<fs, model, disturbed, compiled>>
        /\ pc = "registering" /\ pc' \in {"adding", "registering"}
        /\ (pc' = "registering" => job'.path = job.path /\ job'.hash = job.hash)
    BY <1>17, TypedParts DEF AddRegister, Detail, RestTyped, Jobs
  <2>3. ~disturbed => DetailsTrue'
    BY <2>1, <2>2
  <2> QED BY <2>2, <2>3
<1>18. ASSUME AddFinish PROVE Faithful'
  BY <1>18 DEF AddFinish
<1>19. ASSUME AddThrows PROVE Faithful'
  BY <1>19 DEF AddThrows
<1>20. ASSUME CompileStart PROVE Faithful'
  BY <1>20, ProfileStep DEF CompileStart
<1>21. ASSUME CompileRead PROVE Faithful'
  <2>1. job'.used = [k \in SourceKeys |-> BytesOf(k)]
    BY <1>21 DEF CompileRead, NoJob
  <2>2. ASSUME ~disturbed, NEW k \in SourceKeys PROVE BytesOf(k) = store.sources[k]
    BY <1>21, <2>2 DEF CompileRead, BytesOf
  <2>3. ~disturbed => job'.used = store.sources
    BY <2>1, <2>2, FieldTypes, TypedParts DEF TableTyped
  <2> QED BY <1>21, <2>3 DEF CompileRead
<1>22. ASSUME CompileThrows PROVE Faithful'
  BY <1>22 DEF CompileThrows
<1>23. ASSUME CompileRecord PROVE Faithful'
  <2>1. store'.sources = store.sources
    BY <1>23, CompileStep
  <2>2. /\ compiled \in Seq([profile : Drafts, honest : BOOLEAN, disturbed : BOOLEAN])
        /\ compiled' = Append(compiled, [profile |-> draft, honest |-> job.used = store.sources,
                                          disturbed |-> disturbed])
    BY <1>23 DEF CompileRecord, Typed, TypeOK
  <2>3. ~disturbed => job.used = store.sources
    BY <1>23 DEF CompileRecord
  <2>4. ASSUME NEW i \in 1 .. Len(compiled'), ~compiled'[i].disturbed PROVE compiled'[i].honest
    <3>1. CASE i \in 1 .. Len(compiled)
      BY <2>2, <2>4, <3>1
    <3>2. CASE i = Len(compiled) + 1
      <4> DEFINE row == [profile |-> draft, honest |-> job.used = store.sources, disturbed |-> disturbed]
      <4>1. compiled'[i] = row
        BY <2>2, <3>2
      <4>2. row.disturbed = disturbed /\ row.honest = (job.used = store.sources)
        BY Zenon
      <4> HIDE DEF row
      <4> QED BY <2>3, <2>4, <4>1, <4>2, Zenon
    <3> QED BY <2>2, <3>1, <3>2
  <2> QED BY <1>23, <2>1, <2>4 DEF CompileRecord
<1>24. ASSUME CompileRecordFails PROVE Faithful'
  BY <1>24 DEF CompileRecordFails
<1>25. ASSUME NEW p \in Paths, NEW h \in Contents[p] \cup {None}, Edit(p, h) PROVE Faithful'
  <2>1. CASE pc = "closed"
    BY <1>25, <2>1, NothingThere DEF Edit
  <2>2. CASE pc # "closed"
    BY <1>25, <2>2 DEF Edit
  <2> QED BY <2>1, <2>2
<1>26. CASE UNCHANGED vars
  BY <1>26 DEF vars
<1> QED
  BY <1>1, <1>2, <1>3, <1>4, <1>5, <1>6, <1>7, <1>8, <1>9, <1>10, <1>11, <1>12, <1>13, <1>14, <1>15,
    <1>16, <1>17, <1>18, <1>19, <1>20, <1>21, <1>22, <1>23, <1>24, <1>25, <1>26 DEF Next

-----------------------------------------------------------------------------
LEMMA InitIInv == Init => IInv
<1> SUFFICES ASSUME Init PROVE IInv
  OBVIOUS
<1>1. NewProject \in Tables /\ NewProject.compiles = << >> /\ NewProject.profile = << >>
      /\ NewProject.snapshot = 0 /\ StoredConfig = None
  BY NewProjectSound, SomeConfigKey DEF NewProject, StoredConfig, Init
<1>2. TableTyped
  BY <1>1 DEF Init, TableTyped
<1>3a. RestTyped /\ Fits
  <2>1. fs \in Files /\ legacy \in Readable \cup {None} /\ config \in Readable /\ edits \in 0 .. MaxEdits
    BY SessionAssumption DEF Init, Readable
  <2>2. Fits
    BY NothingTyped DEF Init, Fits
  <2>3. /\ origin \in {"absent", "earlier", "created"} /\ index \in [Hashes -> Paths \cup {None}]
        /\ pc \in Points /\ draft \in Drafts /\ model \in Hashes \cup {None}
        /\ status \in {"never-run", "failed", "done"} /\ disturbed \in BOOLEAN
    BY DEF Init, Points, Drafts
  <2>4. compiled \in Seq([profile : Drafts, honest : BOOLEAN, disturbed : BOOLEAN])
    BY DEF Init
  <2>5. job \in Jobs /\ details \in [SourceKeys -> Details]
    BY NothingTyped DEF Init
  <2> QED BY <2>1, <2>2, <2>3, <2>4, <2>5 DEF RestTyped
<1>3. DraftIsSaved /\ ShownCompileIsNewest
  BY <1>1 DEF Init, DraftIsSaved, CompileNamesItsProfile, ShownCompileIsNewest
<1>4. ConfigKept
  BY <1>1 DEF Init, ConfigKept, LiveConfigIsStored
<1>5. Faithful
  BY NothingThere DEF Init, Faithful, DetailsTrue, ModelTrue, SettledProvenance
<1> QED BY <1>2, <1>3a, <1>3, <1>4, <1>5, TypedParts DEF IInv

LEMMA NextIInv == IInv /\ [Next]_vars => IInv'
BY TypedNext, DraftNext, ConfigNext, ShownNext, FaithfulNext DEF IInv

LEMMA Invariance == Spec => []IInv
BY InitIInv, NextIInv, PTL DEF Spec

(* Every variable of the service, its file and the state file has its      *)
(* type.                                                                   *)
THEOREM TypeCorrect == Spec => []TypeOK
<1>1. IInv => TypeOK
  BY DEF IInv, Typed
<1> QED BY <1>1, Invariance, PTL

(* compileNow: each compile row names the revision of the very profile it  *)
(* was compiled with, through drafts, saves, imports, failures and         *)
(* restarts.                                                               *)
THEOREM CompilesNameTheirProfiles == Spec => []CompileNamesItsProfile
<1>1. IInv => CompileNamesItsProfile
  BY DEF IInv, DraftIsSaved
<1> QED BY <1>1, Invariance, PTL

(* adoptConfig and writeConfig: what the session runs on is what the table *)
(* holds, or the defaults where the table holds nothing it can read.       *)
THEOREM ConfigIsStored == Spec => []LiveConfigIsStored
<1>1. IInv => LiveConfigIsStored
  BY DEF IInv, ConfigKept
<1> QED BY <1>1, Invariance, PTL

(* compileNow: what is shown is the newest compile the project records,    *)
(* and the stored snapshot is that compile's.                              *)
THEOREM NewestCompileShown == Spec => []ShownCompileIsNewest
<1>1. IInv => ShownCompileIsNewest
  BY DEF IInv
<1> QED BY <1>1, Invariance, PTL

(* addSources, rehydrateSources and compileNow: unless a source is touched *)
(* or an add is cut short under the session, a compile read the bytes      *)
(* whose hashes the project records.                                       *)
THEOREM ProvenanceSettles == Spec => []SettledProvenance
<1>1. IInv => SettledProvenance
  BY DEF IInv, Faithful
<1> QED BY <1>1, Invariance, PTL

-----------------------------------------------------------------------------
(* The contract's module defines one whole call as this one does.          *)
LEMMA ContractCall ==
  ASSUME NEW t, NEW u, OneCall(t, u)
  PROVE  Contract!OneCall(t, u)
BY DEF UpsertedSource, RemovedSource, AppendedProfile, PutOverride, RemovedOverride,
       AppendedLearned, AppendedDecision, Touched, SameBut, ConfigWritten,
       CompileWritten, RowWritten, OneCall, Contract!UpsertedSource,
       Contract!RemovedSource, Contract!AppendedProfile, Contract!PutOverride,
       Contract!RemovedOverride, Contract!AppendedLearned, Contract!AppendedDecision,
       Contract!Touched, Contract!SameBut, Contract!ConfigWritten,
       Contract!CompileWritten, Contract!RowWritten, Contract!OneCall

(* Each step of the session is one whole call of the store, or none.       *)
LEMMA StepIsOneCall ==
  ASSUME IInv, [Next]_vars
  PROVE  OneCall(store, store') \/ store' = store
<1>0. store \in Tables /\ Typed
  BY DEF IInv, Typed, TypeOK
<1>1. ASSUME NEW v \in ConfigVersions, Writes(WrittenConfig(v)) PROVE OneCall(store, store')
  BY <1>0, <1>1, ConfigStep DEF OneCall, ConfigWritten
<1>2. ASSUME draft # Blank, Writes(AppendedProfile(store, draft)) PROVE OneCall(store, store')
  BY <1>0, <1>2, ProfileStep DEF OneCall, RowWritten, Writes
<1>3. ASSUME NEW k \in SourceKeys, RemoveSource(k) PROVE OneCall(store, store')
  BY <1>3 DEF OneCall, RowWritten, RemoveSource, Writes
<1>4. ASSUME NEW k \in SourceKeys, AddRegister(k) PROVE OneCall(store, store')
  BY <1>0, <1>4 DEF OneCall, RowWritten, AddRegister, Writes, Typed, Fits
<1>5. ASSUME CompileRecord PROVE OneCall(store, store')
  <2>1. savedRevision \in 1 .. Len(store.profile) /\ store.compiles \in Seq(Nat)
    BY <1>0, <1>5, FieldTypes DEF IInv, DraftIsSaved, CompileRecord, Typed, TypeOK
  <2>2. /\ store'.compiles = Append(store.compiles, savedRevision)
        /\ store'.snapshot = Len(store.compiles) + 1
        /\ SameBut(store, store', {"compiles", "snapshot"}) /\ store'.touches > store.touches
    BY <1>0, <1>5, CompileStep
  <2>3. savedRevision \in Nat
    BY <1>0, FieldTypes DEF Typed, TypeOK
  <2>4. store'.snapshot = Len(store'.compiles)
    BY <2>1, <2>2, <2>3
  <2> QED BY <2>1, <2>2, <2>4 DEF OneCall, CompileWritten
<1>6. CASE UNCHANGED store
  BY <1>6
<1>7. \/ UNCHANGED store
      \/ \E v \in ConfigVersions : Writes(WrittenConfig(v))
      \/ draft # Blank /\ Writes(AppendedProfile(store, draft))
      \/ \E k \in SourceKeys : RemoveSource(k) \/ AddRegister(k)
      \/ CompileRecord
  BY <1>0, SessionAssumption
     DEF Next, vars, Unwritten, Forget, Close, Crash, Edit, Create, Open, AdoptLegacy, AdoptFails,
         Rehydrate, LoadModel, OtherBuildConfigures, UpdateDraft, SaveProfile, UpdateConfig,
         ImportProfilePackage, AddIdentify, AddDigest, AddFinish, AddThrows, CompileStart,
         CompileRead, CompileThrows, CompileRecordFails, Readable, Typed, TypeOK
<1> QED BY <1>1, <1>2, <1>3, <1>4, <1>5, <1>6, <1>7

(* The service uses the store only through whole calls whose rows the      *)
(* store's foreign keys accept: it implements the contract that the store  *)
(* itself is proved to implement.                                          *)
THEOREM SessionKeepsContract == Spec => RespectsStoreContract
<1>1. Init => Contract!Init
  BY DEF Init, NewProject, Contract!Init, Contract!NewProject
<1>2. IInv /\ [Next]_vars => [Contract!Next]_store
  BY StepIsOneCall, ContractCall DEF Contract!Next
<1> QED
  BY <1>1, <1>2, Invariance, PTL DEF Spec, RespectsStoreContract, Contract!Spec
=============================================================================
