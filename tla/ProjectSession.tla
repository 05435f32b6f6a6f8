---------------------------- MODULE ProjectSession ----------------------------
(***************************************************************************)
(* The desktop application's session over one project file: the service    *)
(* of apps/desktop/electron/services/project-session.ts, with the sha256   *)
(* index and the left-over configurations of app-store.ts.                 *)
(*                                                                         *)
(* The session lives in memory, the project in its file, the sources in    *)
(* files anyone may change at any time.  The service runs one call at a    *)
(* time; a call that reads source files is split where it reads them, so   *)
(* that an edit or a crash can come in between.  Calls of the store are    *)
(* atomic here (AtomicProject); a call that only throws changes nothing    *)
(* and is a stuttering step.  The project has one source per role.         *)
(***************************************************************************)
EXTENDS ProjectTables

CONSTANTS
  Paths,        \* paths of source files
  Contents,     \* [Paths -> SUBSET Hashes]: what the file at a path may hold
  Registers,    \* [Hashes -> SUBSET SourceKeys]: the roles identifySource finds
  ModelKey,     \* the extraction cache
  Blank,        \* the draft with no mapping, which cannot be saved or compiled
  Default,      \* defaultProjectConfig()
  Unreadable,   \* configuration rows this build cannot parse
  Legacy,       \* the configuration an older build left in the state file
  MaxTouches,   \* bound on the number of calls that write the file
  MaxEdits      \* bound on the number of edits of source files

ASSUME SessionAssumption ==
  /\ None \notin Paths
  /\ Contents \in [Paths -> SUBSET Hashes]
  /\ Registers \in [Hashes -> SUBSET SourceKeys]
  /\ ModelKey \in SourceKeys
  /\ Blank \notin Profiles
  /\ {Default, Unreadable} \subseteq ConfigVersions
  /\ Default # Unreadable
  /\ Legacy \in (ConfigVersions \ {Unreadable}) \cup {None}
  /\ MaxTouches \in Nat /\ MaxEdits \in Nat

VARIABLES
  (* on disk *)
  store,         \* the project file's content
  origin,        \* "absent", "earlier" (an older build's, migrated) or "created"
  legacy,        \* app-state.json: projectConfigs of this project
  index,         \* app-state.json: sourcePaths, from hash to path
  fs,            \* the bytes of the source files
  edits,         \* how often they have changed
  (* in memory *)
  pc,            \* where the service is: "closed", "idle" or inside a call
  job,           \* what the call has read so far
  draft, config, savedRevision, details, model, view, status,
  (* for the properties only *)
  compiled,      \* of every compile: its draft, and whether it read what it records
  disturbed      \* a source was edited, or an add failed, under this session

world  == <<fs, edits>>
memory == <<draft, config, savedRevision, details, model, view, status>>
vars   == <<store, origin, legacy, index, world, pc, job, memory, compiled, disturbed>>

Readable == ConfigVersions \ {Unreadable}
Drafts   == Profiles \cup {Blank}
Inputs   == [SourceKeys -> Hashes \cup {None}]
Files    == {f \in [Paths -> Hashes \cup {None}] :
               \A p \in Paths : f[p] \in Contents[p] \cup {None}}

Detail(s, p) == [status |-> s, path |-> p]
NoDetail     == Detail("none", None)
NoDetails    == [k \in SourceKeys |-> NoDetail]
NoInputs     == [k \in SourceKeys |-> None]
NoJob        == [path |-> None, keys |-> {}, hash |-> None, used |-> NoInputs]

Init ==
  /\ store = NewProject
  /\ origin \in {"absent", "earlier"}
  /\ legacy = Legacy
  /\ index = [h \in Hashes |-> None]
  /\ fs \in {f \in Files : \A p \in Paths : f[p] # None}
  /\ edits = 0
  /\ pc = "closed"
  /\ job = NoJob
  /\ draft = Blank
  /\ config = Default
  /\ savedRevision = 0
  /\ details = NoDetails
  /\ model = None
  /\ view = 0
  /\ status = "never-run"
  /\ compiled = << >>
  /\ disturbed = FALSE

-----------------------------------------------------------------------------
Unwritten == UNCHANGED <<store, origin, legacy, index, world, compiled>>
Writes(t) == store.touches < MaxTouches /\ store' = t

Recorded(k) == store.sources[k] # None

(* The configuration the table holds: None before the first write.         *)
StoredConfig == store.config[CHOOSE k \in ConfigKeys : TRUE]
WrittenConfig(v) == Touched([store EXCEPT !.config = [k \in ConfigKeys |-> v]])

(* identifySource opens the file and finds the roles its content plays;    *)
(* digestFile reads it once more.  Neither is cached.                      *)
IdentifySource(p) == IF fs[p] = None THEN {} ELSE Registers[fs[p]]
DigestFile(p)     == fs[p]

(* app-store.ts: both persist the state file before they return.           *)
RememberSourcePath(h, p) == index' = [index EXCEPT ![h] = p]
TakeLegacyProjectConfig  == config' = legacy /\ legacy' = None

(* Somebody edits, replaces or deletes a source file.                      *)
Edit(p, h) ==
  /\ edits < MaxEdits
  /\ fs[p] # h
  /\ edits' = edits + 1
  /\ fs' = [fs EXCEPT ![p] = h]
  /\ disturbed' = (disturbed \/ pc # "closed")
  /\ UNCHANGED <<store, origin, legacy, index, pc, job, memory, compiled>>

(* The session is gone: closeSession, or the death of the process.         *)
Forget ==
  /\ pc' = "closed"
  /\ job' = NoJob
  /\ draft' = Blank
  /\ config' = Default
  /\ savedRevision' = 0
  /\ details' = NoDetails
  /\ model' = None
  /\ view' = 0
  /\ status' = "never-run"
  /\ disturbed' = FALSE
  /\ Unwritten

Close == pc = "idle" /\ Forget
Crash == pc # "closed" /\ Forget

-----------------------------------------------------------------------------
(* create: a new file, no profile, the default configuration in memory.    *)
Create ==
  /\ pc = "closed"
  /\ origin = "absent"
  /\ origin' = "created"
  /\ pc' = "idle"
  /\ UNCHANGED <<store, legacy, index, world, job, memory, compiled, disturbed>>

(* open, as far as adoptConfig: the configuration is the table's, or, when *)
(* the table is empty, the one an older build left for this path, which is *)
(* taken out of the state file first; rows that do not parse are left      *)
(* alone.  adopt: the draft is the newest saved profile.                   *)
Open ==
  /\ pc = "closed"
  /\ origin # "absent"
  /\ \/ /\ StoredConfig \in Readable
        /\ config' = StoredConfig /\ pc' = "rehydrating" /\ UNCHANGED legacy
     \/ /\ StoredConfig = Unreadable
        /\ config' = Default /\ pc' = "rehydrating" /\ UNCHANGED legacy
     \/ /\ StoredConfig = None /\ legacy = None
        /\ config' = Default /\ pc' = "rehydrating" /\ UNCHANGED legacy
     \/ /\ StoredConfig = None /\ legacy # None
        /\ TakeLegacyProjectConfig /\ pc' = "adopting"
  /\ savedRevision' = Len(store.profile)
  /\ draft' = IF store.profile = << >> THEN Blank ELSE store.profile[Len(store.profile)]
  /\ UNCHANGED <<store, origin, index, world, job, details, model, view, status, compiled, disturbed>>

(* writeProjectConfig of what was taken; a throw ends the open.            *)
AdoptLegacy ==
  /\ pc = "adopting"
  /\ Writes(WrittenConfig(config))
  /\ pc' = "rehydrating"
  /\ UNCHANGED <<origin, legacy, index, world, job, memory, compiled, disturbed>>

AdoptFails == pc = "adopting" /\ Forget

(* Faulty: the index is believed without digesting the file again.         *)
RehydratedByIndex(k) ==
  LET h == store.sources[k] IN
  IF ~Recorded(k) THEN NoDetail
  ELSE IF index[h] = None \/ fs[index[h]] = None THEN Detail("missing", None)
  ELSE Detail("ready", index[h])

(* rehydrateSources: the index proposes a path, the bytes there decide.    *)
Rehydrated(k) ==
  LET h == store.sources[k] IN
  IF ~Recorded(k) THEN NoDetail
  ELSE IF index[h] = None \/ fs[index[h]] = None THEN Detail("missing", None)
  ELSE IF DigestFile(index[h]) # h THEN Detail("changed", None)
  ELSE IF k \in IdentifySource(index[h]) THEN Detail("ready", index[h])
  ELSE NoDetail

Rehydrate ==
  /\ pc = "rehydrating"
  /\ details' = [k \in SourceKeys |-> Rehydrated(k)]
  /\ pc' = "loading"
  /\ UNCHANGED <<job, draft, config, savedRevision, model, view, status, disturbed>>
  /\ Unwritten

(* loadModel: the handle on the old cache is released, and the file the    *)
(* model row's detail names is opened if it is there.                      *)
LoadModel ==
  /\ pc = "loading"
  /\ model' = IF Recorded(ModelKey) /\ details[ModelKey].status = "ready"
                THEN fs[details[ModelKey].path] ELSE None
  /\ pc' = "idle"
  /\ UNCHANGED <<job, draft, config, savedRevision, details, view, status, disturbed>>
  /\ Unwritten

(* Another build, on another machine, configures the project in a way this *)
(* build cannot read.                                                      *)
OtherBuildConfigures ==
  /\ pc = "closed"
  /\ origin # "absent"
  /\ StoredConfig # Unreadable
  /\ Writes(WrittenConfig(Unreadable))
  /\ UNCHANGED <<origin, legacy, index, world, pc, job, memory, compiled, disturbed>>

-----------------------------------------------------------------------------
(* Faulty: the draft changes and keeps the revision it was saved as.       *)
UpdateDraftKeepingRevision(d) ==
  /\ pc = "idle"
  /\ draft' = d
  /\ UNCHANGED <<pc, job, config, savedRevision, details, model, view, status, disturbed>>
  /\ Unwritten

(* updateDraft: a draft that has been touched has no revision.             *)
UpdateDraft(d) ==
  /\ pc = "idle"
  /\ draft' = d
  /\ savedRevision' = 0
  /\ UNCHANGED <<pc, job, config, details, model, view, status, disturbed>>
  /\ Unwritten

(* Faulty: the revision is the one after the one just saved.               *)
SaveProfileOffByOne ==
  /\ pc = "idle"
  /\ draft # Blank
  /\ Writes(AppendedProfile(store, draft))
  /\ savedRevision' = Len(store.profile) + 2
  /\ UNCHANGED <<origin, legacy, index, world, pc, job, draft, config, details, model, view,
                 status, compiled, disturbed>>

SaveProfile ==
  /\ pc = "idle"
  /\ draft # Blank
  /\ Writes(AppendedProfile(store, draft))
  /\ savedRevision' = Len(store.profile) + 1
  /\ UNCHANGED <<origin, legacy, index, world, pc, job, draft, config, details, model, view,
                 status, compiled, disturbed>>

(* Faulty: only the table is written.                                      *)
UpdateConfigInTable(v) ==
  /\ pc = "idle"
  /\ Writes(WrittenConfig(v))
  /\ UNCHANGED <<origin, legacy, index, world, pc, job, memory, compiled, disturbed>>

(* writeConfig, for updateConfig and the two EXTO template calls.          *)
UpdateConfig(v) ==
  /\ pc = "idle"
  /\ Writes(WrittenConfig(v))
  /\ config' = v
  /\ UNCHANGED <<origin, legacy, index, world, pc, job, draft, savedRevision, details, model,
                 view, status, compiled, disturbed>>

(* importProfilePackage: draft and configuration are replaced together.    *)
ImportProfilePackage(d, v) ==
  /\ pc = "idle"
  /\ Writes(WrittenConfig(v))
  /\ draft' = d
  /\ config' = v
  /\ savedRevision' = 0
  /\ view' = 0
  /\ status' = "never-run"
  /\ UNCHANGED <<origin, legacy, index, world, pc, job, details, model, compiled, disturbed>>

RemoveSource(k) ==
  /\ pc = "idle"
  /\ Writes(RemovedSource(store, k))
  /\ details' = [details EXCEPT ![k] = NoDetail]
  /\ pc' = IF k = ModelKey THEN "loading" ELSE "idle"
  /\ UNCHANGED <<origin, legacy, index, world, job, draft, config, savedRevision, model, view,
                 status, compiled, disturbed>>

-----------------------------------------------------------------------------
(* addSources, one candidate after the other: identified from its bytes,   *)
(* read again for its digest, then one row and one detail per role.        *)
Adding(to) == pc' = to /\ UNCHANGED <<draft, config, savedRevision, model, view, status>>

AddIdentify(p) ==
  /\ pc \in {"idle", "adding"}
  /\ IF IdentifySource(p) # {}
       THEN job' = [NoJob EXCEPT !.path = p, !.keys = IdentifySource(p)] /\ Adding("identified")
       ELSE job' = NoJob /\ Adding("adding")
  /\ UNCHANGED <<details, disturbed>>
  /\ Unwritten

AddDigest ==
  /\ pc = "identified"
  /\ DigestFile(job.path) # None
  /\ job' = [job EXCEPT !.hash = DigestFile(job.path)]
  /\ RememberSourcePath(DigestFile(job.path), job.path)
  /\ Adding("registering")
  /\ UNCHANGED <<store, origin, legacy, world, details, compiled, disturbed>>

AddRegister(k) ==
  /\ pc = "registering"
  /\ k \in job.keys
  /\ Writes(UpsertedSource(store, k, job.hash))
  /\ details' = [details EXCEPT ![k] = Detail("ready", job.path)]
  /\ job' = IF job.keys = {k} THEN NoJob ELSE [job EXCEPT !.keys = @ \ {k}]
  /\ Adding(IF job.keys = {k} THEN "adding" ELSE "registering")
  /\ UNCHANGED <<origin, legacy, index, world, compiled, disturbed>>

AddFinish ==
  /\ pc = "adding"
  /\ Adding("loading")
  /\ UNCHANGED <<job, details, disturbed>>
  /\ Unwritten

(* A read, the state file or the store throws: the model is not reloaded.  *)
AddThrows ==
  /\ pc \in {"adding", "identified", "registering"}
  /\ Adding("idle")
  /\ job' = NoJob
  /\ disturbed' = TRUE
  /\ UNCHANGED details
  /\ Unwritten

-----------------------------------------------------------------------------
(* compileNow: refused while a source is known to have changed, without a  *)
(* model or without mappings; an unsaved draft is saved first.             *)
CompileStart ==
  /\ pc = "idle"
  /\ \A k \in SourceKeys : Recorded(k) => details[k].status # "changed"
  /\ model # None
  /\ draft # Blank
  /\ IF savedRevision = 0
       THEN Writes(AppendedProfile(store, draft)) /\ savedRevision' = Len(store.profile) + 1
       ELSE UNCHANGED <<store, savedRevision>>
  /\ pc' = "compiling"
  /\ UNCHANGED <<origin, legacy, index, world, job, draft, config, details, model, view, status,
                 compiled, disturbed>>

(* The workbooks are read from disk, the model through its open cache.     *)
BytesOf(k) ==
  IF ~Recorded(k) THEN None
  ELSE IF k = ModelKey THEN model
  ELSE IF details[k].path = None THEN None
  ELSE fs[details[k].path]

CompileRead ==
  /\ pc = "compiling"
  /\ \A k \in SourceKeys : Recorded(k) => BytesOf(k) # None
  /\ job' = [NoJob EXCEPT !.used = [k \in SourceKeys |-> BytesOf(k)]]
  /\ pc' = "recording"
  /\ UNCHANGED <<memory, disturbed>>
  /\ Unwritten

(* Faulty: the compile of before stays shown under a failed status.        *)
CompileThrowsShowingView ==
  /\ pc = "compiling"
  /\ status' = "failed"
  /\ pc' = "idle"
  /\ UNCHANGED <<job, draft, config, savedRevision, details, model, view, disturbed>>
  /\ Unwritten

(* A source is missing, or the pipeline throws.                            *)
CompileThrows ==
  /\ pc = "compiling"
  /\ view' = 0
  /\ status' = "failed"
  /\ pc' = "idle"
  /\ UNCHANGED <<job, draft, config, savedRevision, details, model, disturbed>>
  /\ Unwritten

(* Faulty: the compile is recorded and its snapshot is not.                *)
CompileRecordBare ==
  /\ pc = "recording"
  /\ Writes(RecordedCompile(store, savedRevision))
  /\ view' = Len(store.compiles) + 1
  /\ status' = "done"
  /\ compiled' = Append(compiled, [profile   |-> draft,
                                   honest    |-> job.used = store.sources,
                                   disturbed |-> disturbed])
  /\ job' = NoJob
  /\ pc' = "idle"
  /\ UNCHANGED <<origin, legacy, index, world, draft, config, savedRevision, details, model,
                 disturbed>>

(* recordCompile and saveSnapshot, one transaction; then the session shows *)
(* the new compile.                                                        *)
CompileRecord ==
  /\ pc = "recording"
  /\ Writes([Touched(store) EXCEPT !.compiles = Append(@, savedRevision),
                                   !.snapshot = Len(store.compiles) + 1])
  /\ view' = Len(store.compiles) + 1
  /\ status' = "done"
  /\ compiled' = Append(compiled, [profile   |-> draft,
                                   honest    |-> job.used = store.sources,
                                   disturbed |-> disturbed])
  /\ job' = NoJob
  /\ pc' = "idle"
  /\ UNCHANGED <<origin, legacy, index, world, draft, config, savedRevision, details, model,
                 disturbed>>

(* The transaction throws out of compileNow: the last compile stays shown. *)
CompileRecordFails ==
  /\ pc = "recording"
  /\ job' = NoJob
  /\ pc' = "idle"
  /\ UNCHANGED <<memory, disturbed>>
  /\ Unwritten

Next ==
  \/ \E p \in Paths : \E h \in Contents[p] \cup {None} : Edit(p, h)
  \/ Close
  \/ Crash
  \/ Create
  \/ Open
  \/ AdoptLegacy
  \/ AdoptFails
  \/ Rehydrate
  \/ LoadModel
  \/ OtherBuildConfigures
  \/ \E d \in Drafts : UpdateDraft(d)
  \/ SaveProfile
  \/ \E v \in Readable : UpdateConfig(v)
  \/ \E d \in Profiles, v \in Readable : ImportProfilePackage(d, v)
  \/ \E k \in SourceKeys : RemoveSource(k)
  \/ \E p \in Paths : AddIdentify(p)
  \/ AddDigest
  \/ \E k \in SourceKeys : AddRegister(k)
  \/ AddFinish
  \/ AddThrows
  \/ CompileStart
  \/ CompileRead
  \/ CompileThrows
  \/ CompileRecord
  \/ CompileRecordFails

Spec == Init /\ [][Next]_vars

-----------------------------------------------------------------------------
Points == {"closed", "idle", "adopting", "rehydrating", "loading", "adding", "identified",
           "registering", "compiling", "recording"}

TypeOK ==
  /\ store \in Tables
  /\ origin \in {"absent", "earlier", "created"}
  /\ legacy \in Readable \cup {None}
  /\ index \in [Hashes -> Paths \cup {None}]
  /\ fs \in Files
  /\ edits \in 0 .. MaxEdits
  /\ pc \in Points
  /\ job \in [path : Paths \cup {None}, keys : SUBSET SourceKeys,
              hash : Hashes \cup {None}, used : Inputs]
  /\ draft \in Drafts
  /\ config \in Readable
  /\ savedRevision \in 0 .. Len(store.profile)
  /\ details \in [SourceKeys -> [status : {"none", "ready", "missing", "changed"},
                                path : Paths \cup {None}]]
  /\ model \in Hashes \cup {None}
  /\ view \in 0 .. Len(store.compiles)
  /\ status \in {"never-run", "failed", "done"}
  /\ compiled \in Seq([profile : Drafts, honest : BOOLEAN, disturbed : BOOLEAN])
  /\ disturbed \in BOOLEAN

(* compileNow: "the recorded revision is the one that produced this        *)
(* compile, never the one that happened to be saved before the user        *)
(* changed something", through edits of the draft, saves, imports, failed  *)
(* compiles and restarts.                                                  *)
CompileNamesItsProfile ==
  \A i \in 1 .. Len(store.compiles) :
    /\ KnownRevision(store, store.compiles[i])
    /\ store.profile[store.compiles[i]] = compiled[i].profile

(* writeConfig: the live configuration and the table's are the same, so    *)
(* that a project does not come back tomorrow configured differently; a    *)
(* table that is empty or unreadable stands for the defaults.              *)
LiveConfigIsStored ==
  pc \notin {"closed", "adopting"} =>
    config = IF StoredConfig \in Readable THEN StoredConfig ELSE Default

(* What the screens show as the compile is the newest one the project      *)
(* records, and the snapshot is that compile's; "done" is said of nothing  *)
(* else.                                                                   *)
ShownCompileIsNewest ==
  /\ status = "done" <=> view # 0
  /\ view # 0 => view = Len(store.compiles) /\ store.snapshot = view

(* The hashes a compile records are those of the bytes it was computed     *)
(* from, in every session during which no source file was touched and no   *)
(* add was cut short: files that changed while the project was closed are  *)
(* noticed, and adding them again is enough.                               *)
SettledProvenance ==
  \A i \in 1 .. Len(compiled) :
    ~compiled[i].disturbed => compiled[i].honest

(* changedSourceNames: a compile is refused while a source's bytes no      *)
(* longer match the project, as "reading them anyway would put content the *)
(* project never recorded behind an approved compile id".                  *)
ProvenanceHonest ==
  \A i \in 1 .. Len(compiled) : compiled[i].honest

(* app-store.ts: opening a project "carries its configuration into the     *)
(* file exactly once": between calls an older build's configuration is in  *)
(* the state file or the project has one.                                  *)
LegacyConfigSurvives ==
  pc \in {"closed", "idle"} /\ Legacy # None => legacy # None \/ StoredConfig # None

(* adoptConfig: a new file at a path some deleted project once used does   *)
(* not inherit its configuration.                                          *)
CreatedNeverInherits == origin = "created" => pc # "adopting"

(* The session uses the store only through whole calls, and never writes a *)
(* row the store's contract does not allow.                                *)
Contract == INSTANCE AtomicProject WITH durable <- store
RespectsStoreContract == Contract!Spec
=============================================================================
