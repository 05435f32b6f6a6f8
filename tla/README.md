# Matchline in TLA+

Matchline turns a Navisworks model and the spreadsheets that come with it into a commissioning
structure. This directory holds TLA+ models of the parts of it that keep state or run concurrently,
TLC configurations that check them on small instances, and TLAPS proofs of what matters most.
`PROJECT.json` lists components, runs, mutants, hazards, findings and theorems, and maps every
definition to the lines it stands for.

    tlc -workers 2 -config MCProjectStore.cfg MCProjectStore.tla
    tlc -workers 2 -config MCCompilePipeline.cfg MCCompilePipeline.tla
    tlapm ProjectStoreProofs.tla      # and ProjectTablesProofs, ProjectFileProofs,
                                      # ProjectSessionProofs, ExtractionProofs, SsmCompilerProofs,
                                      # FlowAndOrderProofs, CompilePipelineProofs

## 1. The system

    NWD file --(native/extractor + Navisworks plugin)--> record stream --> <sha256>.sqlite cache
    cache + workbooks --(apps/desktop: ProjectService)--> compile --> views, exports
    ProjectService --(packages/project-store)--> <project>.matchline (SQLite)
    ProjectService --(app-store)--> app-state.json

| Part | State it keeps | Operations | What is hard | What makes it correct |
|---|---|---|---|---|
| Project store (`packages/project-store/src/store.ts`, `schema.ts`) | one SQLite file: sources, profiles, learned rules, overrides, decisions, configuration, compiles, snapshot, modified_at; per handle `#db`, `#depth` | the mutators, `withTransaction`, `close`, `openProject` | a throw or a death between statements, a COMMIT that fails, ids handed out again after a rollback | every reader finds the result of whole calls; references resolve; histories only grow; no row is committed without a write of modified_at |
| Project file life cycle (`store.ts`, `backup.ts`) | the file at a path, its `.backup-<v>` copies | create, open, migrate with backup | other processes on a shared folder; death while copying or migrating; unlink after a failed create | an open project stays; the only copy is never migrated; a backup is what its name says and is not overwritten |
| Desktop session (`project-session.ts`) | draft, configuration, saved revision, source details, model handle, the compile on show | create, open, close, save, configure, import, add and remove sources, compile, export | source files edited at any moment; a call half done when it throws; restarts; two files that must agree | a compile records its own profile and the hashes of what it read; memory and table agree |
| Installation state (`app-store.ts`) | app-state.json: recent projects, hash-to-path index, left-over configurations | remember, take, persist | memory changes before the write; a crash between two files | nothing is lost between two files; a stale index entry is noticed |
| Extraction launcher (`native/extractor`) | cache, partial cache, stream; the Navisworks process; the cancel flag | `ExtractionRunner.Run` and what it calls | overlapping launchers, a hung, killed or left-over Navisworks, kills, power loss | no valid-looking cache is incomplete; a cache stays and is of its name; cancel ends the run |
| Navisworks adapter (`native/navisworks-*`) | the stream it writes | one walk of the model | runs in a foreign process that dies or hangs | the terminator is written last |
| IPC gate, grants, dialogs (`electron/ipc`, `security`, `handlers`) | granted paths (at most 512), pending dialogs | call, grant, clear | a dialog that answers after the project closed; a full grant set | only granted paths are read or written |
| Compile service, exports (`services`) | the compile on show | run the engine, preview a drag, write a file | what is said of a drag comes from one compile and happens in the next; settings of now over a compile of before | what was foretold comes true; an export says what the compile says |
| Compile pipeline (`packages/compiler`) | none between compiles; within one, what each package has made for the next | `compileProject`: the packages below in a fixed order | a value that one package reads as absent and another as blank; whose review items reach the queue | what a site stated is used, kept or reported |
| Asset catalogue (`packages/asset-catalog`) | none | filter objects, collapse components, name assets, read properties | objects in objects, two objects with one tag, an untagged shell | no tag gets lost on the way to the assets |
| Identity (`packages/identity`) | none | resolve one spelling over the tiers | several candidates on one tier, a dead rename | no guess is taken for a match |
| Electrical flow (`packages/electrical-flow`) | the drafts of nodes, the frames and stack of Tarjan's search, a breadth-first search, the branches of a walk | read observations, find and explain loops, browse from a source | spellings that turn out to be one node, in any order; loops that share nodes | the result does not depend on the order of the rows; every loop is found and shown by a shortest one |
| Relationship claims (`packages/relationship-claims`) | none | assemble each rung's claims, the dependencies, the log | contradictory statements, ends that no asset carries | nothing stated vanishes |
| System resolver (`packages/system-resolver`) | none | the chain, the join with the MEL | components that disagree | a conflict is reported and settled as the policy says |
| SSM compiler (`packages/ssm-compiler`) | the resolved assets, the statistics, the loops found | climb the parent ladder, fold boundaries, cut loops, arrange the tree | ties, demotions met twice, unknown values, loops of any shape | one parent per asset from the strongest rung that can give one, no loop left, nothing dropped, nobody unexplained |
| Learned rules (`packages/learned-rules`) | the rule set stored in the project | train on a finished export, grade the rules on that export, propose parents | a threshold met by rounding; a grade computed from counts the filtered rules no longer have | a parent is learned only on measured precision, never where two fit alike |
| Scheduling (`packages/scheduling`) | none | startup order of systems, commissioning sequence, milestones | systems waiting in a ring and those behind it; parents in other groups | nothing starts before what it waits for; every asset has its number and its milestone |
| Exports (`packages/exto-export`, `packages/mel-export`) | none | learn codes from a prior registry, fill the upload sheet, order and compare registers | registries that contradict themselves; tags that repeat, are missing or were renamed | a cell nobody stated is filled only by agreement; a comparison tells all that happened |
| Connectivity import (`packages/connectivity-import`, `spreadsheet-import/src/aoa.ts`) | none | tell the family of a sheet, find its header row and its columns, read its rows | banners above the headers, blank rows, headers that two families or none would have, overrides, a file of two families | a row is an observation under its own number, or there is a reason why not |
| Renderer, preload, parity copy | the screens; a frozen older program | | | not modelled |

Parts call each other synchronously. The exceptions are the reason for half of the models here:
files, which other processes and users change; child processes; awaits in the session; dialogs. The
other half is the compile: sequential, but made of loops whose turns depend on each other, over data
that contradicts itself.

## 2. Modules

`ProjectTables` is data: what the file's tables hold, what each mutator makes of them, `OneCall`
(what one whole call may do) and the predicates on the content. `AtomicProject` is the abstract
store: the durable content moves by `OneCall`. `ProjectStore` is one handle over SQLite and
implements it. `ProjectFile` is the path, the backups and the processes. `ProjectSession` is the
service in memory over a store whose calls are atomic, which `ProjectStore` justifies, and itself
implements `AtomicProject`. `Extraction` is the launcher. `CompilePipeline` is one compile, what is exported from it, and the drags that lead to the next: it
extends `SsmCompiler`, `ElectricalFlow` and `Commissioning`, which run step by step, instantiates
`ConnectivityImport`, `AssetCatalog`, `Identity`, `SystemResolver`, `RelationshipClaims`,
`LearnedRules` and `RegisterExports`, which are operators, and shares `EngineValues` with them. `SsmCompiler` is also a
specification by itself, of `compileSnapshot` on any input, and `Commissioning` one of `scheduling`
on any register; `CompilePipeline` implements both, with their variables. `MC*` give the constants
values.
Definitions with a comment that starts "Faulty" are not part of a specification: each is a bug
someone could make, and some property fails with it in place of the definition that follows it.

### ProjectStore

| Model | Code |
|---|---|
| `disk` | the committed rows |
| `work` | the rows this connection's statements read, uncommitted ones included |
| `inTx` | SQLite has a transaction open |
| `call`, `left`, `target` | `#depth` and the position in the caller's body |
| `handle` | `#db` |
| `UpsertSource` ... `RecordDecision` | the mutators of one statement, up to the COMMIT |
| `BeginConfig`, `SaveConfig` | `writeProjectConfig`: one row per key behind one commit |
| `BeginCompile`, `RecordCompile`, `SaveSnapshot` | `compileNow`'s transaction |
| `Throw`, `Commit`, `CommitFails`, `Close`, `Crash`, `Reopen` | the rest of `withTransaction`, `close`, death, `openProject` |

A mutator inside `withTransaction` joins it and its depth 2 can be seen by nobody, so it is one
action. A call refused by `BEGIN` changes nothing and is a stuttering step. `CommitFails` is
SQLITE_BUSY: another process holds a read lock when COMMIT wants the file to itself. SQLite then
keeps the transaction open; the code runs COMMIT outside the `try` that rolls back.

### ProjectFile

`file`, `backup[v]` and SQLite's write `lock` are the shared state; `pc`, `found` and `named` are
where each process is, the version it read to choose the migration steps, and the version it read
to name the copy. Each access to the file system is an action. Files follow Windows, the
application's platform: a file another process has open is not unlinked, and `CreateFails` then
leaves it. `OpenFileStays` depends on that; on a POSIX system the unlink would succeed. The
migration's own transaction is one step, because SQLite makes it one.

### ProjectSession

| Model | Code |
|---|---|
| `store` | the project file |
| `origin` | whether the file was created by this build or is an older one |
| `legacy`, `index` | `projectConfigs` and `sourcePaths` of app-state.json |
| `fs` | bytes of the source files, as hashes |
| `pc`, `job` | where in which call the service is, and what that call has read |
| `draft`, `config`, `savedRevision`, `details`, `model`, `view`, `status` | the session's fields |

A call that reads source files is cut where it reads them: `addSources` into identifying, digesting
and registering each candidate; `open` into adopting, rehydrating and loading; `compileNow` into
saving, reading and recording. In between a file may be edited (`Edit`) and the process may die.
The model handle keeps the bytes it opened (`model`), while workbooks are read again at each
compile. A project has one source per role here. `compiled` and `disturbed` are history: of each
compile, the draft it was computed from, whether the bytes were those it records, and whether a
source was edited or an add cut short under the session.

Left out: learned rules, overrides and decisions, which pass through to the store unchanged;
sources that need attention or an extraction first; exports; and that `open` does not close its
store when `adoptConfig` throws (the handle leaks, no state changes). A clock tick is one call.

### Extraction

`final`, `partial` and `stream` are the three files of each hash, `run[l]` the locals of
`ExtractionRunner.Run`, `child[l]` the Navisworks process that launcher started. A cache is
`whole` when it holds all the objects of its walk, `counted` when its `object_count` is written
(which is what `CacheInspector` checks), `flushed` when `FlushToDisk` has run. An action is a
stretch of code between two points at which another process can change what it goes on to use:
the check of the cache and its deletion are two, the commit, the flush and the rename three.

Files follow Windows: a database SQLite has open can be neither deleted nor renamed; a stream is
opened with delete sharing, so that a plugin may go on writing a file that has lost its name
(`detached`). A launcher that is killed leaves its Navisworks running (no job object ties them),
and the next launcher meets it. Two plugins on one stream write at offsets of their own: what is
there when one ends may be a walk or not, and is converted only if it is. A conversion may always
fail. A loss of power tears the bytes that were not flushed and keeps names as they were.

Assumed: a killed child dies (the code waits for it without limit), and `VerifyRequiredMeta` finds
what the plugin always writes.

### CompilePipeline and the engine

| Model | Code |
|---|---|
| `project` | `CompileProjectInput` with the cache, the sheets of the connectivity workbooks and the rows of the MEL |
| `DetectSheetKind`, `Locate`, `Family` | the detectors of `connectivity-import` and their ladders, as one table |
| `Roles`, `ConnectivityInputs` | `identifyWorkbook` and `connectivityInputs` of the desktop: which files a compile is given, and how often |
| `evidence` | `observations`, each with its place: the workbook, the sheet, the row |
| `stage` | the position in `compileProject` |
| `owner`, `catalog` | the maps of `buildCatalog`: which object represents which asset |
| `systems`, `claims` | what `runChain` and `assembleClaims` return |
| `drafts`, `nodeOf`, `flowStep`, the search's and the ring's variables, `branches` | the locals of `buildFlow`, `findCycles`, `representativeCycle` and `walk` |
| `input`, `walk`, `node`, `demotions`, `reviews` | the argument and locals of `compileSnapshot` and `resolveSubject` |
| `path`, `current`, `settled`, `cycles` | the locals of `findCycles` in `compile.ts` |
| `pending`, `shown` | `hierarchyTree`'s recursion |
| `reviewItems` | the one review queue |
| `RuleSets`, `Learned` | `trainNestingFrom` on each export, `proposeNestings` on the catalogue |
| `Register`, `Block`, `Commission` | the arguments `exportPredecessors` makes of a published compile |
| `register`, `planStep`, `degree`, `ready`, `order` | the argument and locals of `buildPredecessors` |
| `trail`, `visited`, `number` | the locals of `computeSequence` |
| `MelAsset`, `exported`, `ExportExto` | `generatedMelAssets` of the desktop; the rows of the upload sheet |
| `moves`, `SetRelationshipOverride` | the stored overrides of assets dragged since the compile, each with its preview |
| `Recompile` | `compileNow` run again: overrides join the manual statements (one per child, the newest), and nothing of the first compile is left (`Reset`, `DropFlow`) |
| `ReadCatalog`, `RefuseCatalog`, `ResolveSystems`, `ReadFlow`, `RefuseWorkbooks`, `AssembleClaims`, `CompileSnapshot`, `Publish` | the numbered steps of `compileProject` |
| `BuildFlow`, `BrowseFlow` | one turn of a loop in `electrical-flow` |
| `SkipRung` ... `EndWalk` | the outcomes of one rung in `resolveSubject`, and its end |
| `StartPath` ... `EndPath`, `CutCycle` | one turn of the search, one loop cut |

In `SsmCompiler` assets are numbers, in the order of the ids they stand for, because the code visits
and breaks ties in that order. A claim is who, whom and which rung: its evidence and confidence are
carried and decide nothing. The code's `boundary` and `level` values are `Values` or `None`, blank
being `None` (`attributes.ts` makes it so before the compiler sees it).

Text is left to constants: `NormalTag` and `AnatomyKey` give the key under which a spelling is
matched, `Extends` and `Near` relate a spelling to the tags it lengthens by whole segments and to
those a few edits away, `NormalKey` folds the case of a system's key, and `SegmentOf`, `RoleOf` and
`FamilyOf` are what the tag anatomy cuts from a tag. `RoleClass`, `SharedRun`, `Extended`,
`BodyLength`, `Pattern` and `Folded` are what the learned rules measure on tags and descriptions;
`KeyRank`, `TagKey`, `FirstWord`, `UnitRank`, `Gear`, `Electrical` and `Placeholders` are what the
exports and the schedule sort and group by. The runs give them tables that make each tier
fail, succeed and be ambiguous. Object ids come from the order of extraction.

`Reviews` of all packages go into one set: the code sorts and counts them, and no decision reads
them. The rows of the MEL are given, with the project; so are the finished exports and the prior
registries, which a project names.

A sheet is rows of cells. `Reads[t]` are the words that pass the header test `t`, and `named` is the
family the name of the sheet claims: the patterns themselves are left out. `Trimmed` says what
`trim` leaves of a cell with space around its text, and `None` where that is nothing: such a cell says
nothing in a row, and still makes the row count as one of the five that are scanned for headers, which
a cell that is not there (`None`) does not. The cable a row names (`via`) is carried and decides nothing.

A drag is judged on the published tree (`Ancestors`, `Outcome`): it would make a root, close a loop,
nest across a boundary, or nest. The window offers only what is not refused; the service stores any
override but one of an asset under itself, and so does the model. A project allows one drag, or two
before the next compile, and is compiled once more.

The field `touches` of `ProjectTables` stands for `meta.modified_at`. It counts the writes of that row
which the content includes, and says nothing of the instants: these come from an injected clock, in
production the wall clock in milliseconds, which may repeat for two quick mutations and go back when
it is set. So `ChangeIsTouched` says that rows are never committed without a write of `modified_at` in
the same commit; that the instant is a newer one is not claimed, and the code does not give it.

## 3. Runs

| Run | Bounds | Shows |
|---|---|---|
| `store` | 5 mutations, 2 config keys and versions, 2 profiles | `TypeOK`; `ReferencesResolve`; `NeverHalfWritten`: in what is committed the configuration is of one version, the snapshot the newest compile's; `HistoriesOnlyGrow`; `ChangeIsTouched`; `ImplementsAtomicProject` |
| `store_busy` | same | finding: after a failed COMMIT the rows are still there on the handle |
| `file` | 2 processes, versions 1 to 4 | `BackupNamesItsVersion`, `OpenFileStays`, `MigrationIsRecoverable`, `BackupNeverOverwritten` |
| `file_create` | same | finding: a create that fails unlinks a project another process made meanwhile |
| `session` | 5 writing calls, 1 edit, one cache of 2 contents, one workbook of 2, an older build's configuration | `CompileNamesItsProfile`, `LiveConfigIsStored`, `ShownCompileIsNewest`, `SettledProvenance`, `RespectsStoreContract` |
| `session_edited` | 4 calls, 1 edit | finding: a source edited while the project is open is compiled under its old hash |
| `session_legacy` | 2 calls | finding: a crash or a throw loses the older build's configuration |
| `session_inherits` | 2 calls | finding: a created project adopts another's configuration when it is opened again |
| `extract` | 2 launchers, 2 starts, 2 contents, 1 edit, 1 power loss | `ValidCacheIsWhole`, `PartialHasAnOwner`, `ReportedCacheStays`, and under fairness `CancelEnds` |
| `extract_overlap` | 2 starts, no edit | finding: a launcher deletes, as stale, the cache another has published since it looked |
| `extract_edited` | 1 start, 1 edit | finding: a file saved over the input after hashing is cached under the old hash |
| `compile` | the families of `MCCompilePipeline`, 9706 projects of at most four objects | of the snapshot: `SsmTypeOK`, `StrongerRungsSpent`, `BoundariesAreHard`, `EveryClaimKept`, `DemotionsAreCounted`, `LoopsAreCut` (no loop left, and one parent of the weakest rung lost in each), `EveryAssetShown`, `UnresolvedIsExplained`; of the flow: `OrderIsImmaterial`, `FlowIsShown` (loops found, shown by a shortest one, the tree whole); of the compile: `NoGuessedMatch`, `NothingSilent` (`RowsAccountedFor`, `StatementsTraced`, `ConnectivityKept`, `TagsAccountedFor`), `LearnedParentsAreEarned`, `ImplementsItsParts`; of what follows it: `RegistersAreHonest`, `StartupOrderHolds`, `EveryAssetScheduled`, `PreviewsComeTrue` |

Why the bounds are enough. Five mutations let a compile (two of them) follow a save and be
followed by another, and let a rolled-back save's revision be handed out again. In `session`, five
writing calls are an add, a save, a compile, and a second save and compile; one edit is one file
changed at any point of that. Three schema versions give a migration of one step, one of two and a
file from a newer build; two processes give each race between a check and its use. Two starts give
each pair of steps of two launchers, a launcher after a killed one, and a launcher after a
successful one. The second content is there for the edit. Where values are interchangeable, the
session run uses symmetry (it has no liveness property).

`compile` checks one family per part of the engine, each complete within its shape. `Ladders` has
all subsets of two candidates on two rungs, below a manual one, with all ways to locate three assets
in two interchangeable buildings:
ties, agreement, a demotion met again below, unknowns on either side. `Boundaries2` has two
boundaries, each policy, and a manual rung that is not on top. `Rings` has every function from four
assets to parents, with four ways to spread it over a strong and a weak rung: loops of one to four,
two loops, tails. `Feeders` has up to four feeds between four spellings outside the model, and three
larger graphs with loops that share nodes. `Wiring` has up to three of six connections whose ends
are exact, normalised, renamed, suffixed, near or unknown, under three sets of tiers. `Statements`
has stated pairs whose ends mean an asset, several, or none. `Systems3` has chains whose components
agree and disagree, with both policies. `Forests` has every forest of four objects under every
tagging with two tags; `Filters` every combination of filters. `Training` has six finished exports, with
rules just above and just below each threshold, over catalogues in which the proposed parent has a
rival or none. `Startups`, `Blocks` and `Schedules` have systems that wait for each other in chains,
rings and behind rings, parents inside and outside their group, and milestones given once, twice and
to nobody. `Ledgers` has four prior registries, among them one whose agreement is one row short of
what is required, registers whose tags repeat or are missing, and two earlier revisions, compared
under every set of renames that can be claimed. `Drags` has each drag of an asset to each place, in
trees with a loop, a boundary, an override of before and manual statements above or below the site's
table, and each two drags of three assets. `Tabs` has sheets with nine kinds of headers (exact, loose
with and without a column to confirm them, of two families, of a MEL) at the top, under a banner and a
blank row, under a row another family would take for its headers, and in the fifth and sixth row; under
a name that claims a family, alone or with a sheet of another family beside it, and under overrides
that fit and that do not. Below the headers is one row of each kind: good, blank, with equal ends,
without its upstream and without its downstream end, cells of nothing but space and ends that differ in
space alone among them. A fifth asset would add longer loops and
wider ties, which differ from those of four and three only in number; the theorems below cover them.

The pipeline ends at rest (`Rest`), so deadlock is checked in `compile`: an engine stuck half-way
would be found.

Two properties of `extract` hold only where nobody overlaps: `ReportedCacheStays` says so, and
`extract_overlap` shows why. `ValidCacheIsWhole` holds for overlapping launchers as well, except
together with a loss of power: a launcher may flush one file and rename another's. The comment in
`CacheWriter.Commit` that the real name never exists half-written is too strong for overlapping
launchers by the same race; such a file has no count, and the next run discards it.

Fairness. Only `Extraction` assumes any: weak fairness of each launcher's own steps, since a process
that is alive is scheduled, and none of Navisworks, the user or the power. `CancelEnds` is
therefore a property of the launcher's poll loop and not of Navisworks' good will. The compile is one
synchronous call. The store, the file and the session promise their caller nothing about time: every call there ends with the code
that runs it, and their checks are of safety alone.

The system may stop in each model when a bound is reached, so deadlock is not checked where the cfg
says so (`MCExtraction*`); elsewhere closing, crashing or reopening is always possible and deadlock
is checked.

## 4. Proofs

`ProjectStoreProofs` proves of `ProjectStore`, for all values of the constants (any sets of sources,
profiles, rules, decisions, any number of mutations, COMMIT failing or not), from the assumptions
named in `ProjectTables` and `ProjectStore`:

- the type invariant, `ReferencesResolve` and `NeverHalfWritten`;
- the action properties `HistoriesOnlyGrow` and `ChangeIsTouched`;
- `ImplementsAtomicProject`: each step of the handle is one whole call on `disk`, or none;
- that with COMMIT never failing, a handle not in a call has no transaction open.

None of the invariants is inductive alone: that the disk's references resolve after a COMMIT
depends on what the uncommitted rows are. The inductive invariant `IInv` adds `Sound(disk)` (what is
committed is whole) and `CallSound`, which says for each kind of call what `work` is in terms of
`disk`: one row further, the configuration with the keys outside `left` already of the new version,
or the compile recorded with its snapshot to follow. The proof takes one step per action; lemmas say
what each mutator keeps (`UpdateWrites`, `RowWrittenKeeps`) and what appending does to histories.

What the mutators keep of the tables is in `ProjectTablesProofs`, which the session's proofs share.

`ProjectFileProofs` proves of `ProjectFile`, for any number of processes and any schema version, from
`FileAssumption` (nobody and the earlier build are no processes): `TypeOK`, `BackupNamesItsVersion`,
`OpenFileStays`, `MigrationIsRecoverable`, `BackupNeverOverwritten`, and that a project an earlier build
made is never unlinked, not even by the create of `file_create`. The name of a backup is decided from a
version read before the copy is made, so none of these is inductive. `Standing` says why the file is
still there: nobody can have started to create where such a file lies. `Staged` says of each process on
its way to a migration what it can count on: the file is at the version it read, or another process has
migrated it, and then that one's copy is there under the name of that version.

`ProjectSessionProofs` proves of `ProjectSession`, for any paths, contents, profiles and versions of
the configuration, any edits, crashes and throws, from `SessionAssumption` and those of `ProjectTables`:
`TypeOK`, `CompileNamesItsProfile`, `LiveConfigIsStored`, `ShownCompileIsNewest`, `SettledProvenance`
and `RespectsStoreContract`. `IInv` has one part for each: `Typed` adds to the types what a call has
read where it relies on it; `DraftIsSaved`, that a saved revision is the draft's; `ConfigKept`, that
what is live is what the table holds; `Faithful`, that while nothing has disturbed the session each
detail, the open model and what the call under way has read show the bytes the project records. The
service so implements the contract `ProjectStore` is proved to implement, step by step.

`ExtractionProofs` proves of `Extraction`, for any number of launchers, contents, starts, edits and
losses of power, from `ExtractionAssumption` alone: `TypeOK`, `PartialHasAnOwner`,
`ValidCacheIsWhole` and `ReportedCacheStays`. Its `IInv` adds to the first two:

- `HolderConverts`: a partial cache that is open belongs to a launcher that converts to that very
  hash, so that the clean-up which cannot delete a held file leaves it to an owner;
- `ChildFits`: a plugin that writes has a stream under its launcher's hash (a plugin whose stream
  was deleted is `detached`), so that what it writes at the end is a stream;
- `WholeWithoutLoss`: as long as power lasts, a counted cache is whole, under either name. Overlapping
  launchers may rename each other's partial cache, so this has to hold of the partial one too;
- `Alone`: while no two launchers have overlapped, what is flushed and renamed is what that launcher
  wrote itself, so the published file is on the disk and a loss of power cannot tear it.

The steps that only move a launcher on and delete share one lemma (`QuietKeepsSafe`), those that
write a partial cache another (`HoldersAndOwners`). `ReportedCacheStays` needs one more, `ReportedStays`:
as long as nobody overlaps, a cache found stale is stale until it is deleted, and from then on there is
none until the launcher publishes its own.

`SsmCompilerProofs` proves of `SsmCompiler`, for any assets, attributes, claims, levels and ladders,
from `SsmCompilerAssumption` (assets are integers; the absent value is none of them, and no value) and
`NoneIsNoClaim` (nor a claim nor a rung), in four parts:

- types: `SsmTypeOK`, by `Sound`, which adds `Shape`: what is known of the call at each phase, such as
  that a walk is about an asset not yet resolved and that the path is a chain of parents;
- the ladder: `BoundariesAreHard`, `StrongerRungsSpent`, `EveryClaimKept`, `UnresolvedIsExplained` and
  `DemotionsAreCounted`. Each is an invariant of the resolved assets that needs the same said of the
  asset under way: `HardInv`, `SpentInv` (the rungs above the one the walk is on have all been passed),
  `KeptInv`, `ExplainedInv`, `CountInv` (the demotions of the walk are its dependencies of that rule).
  Cutting a loop takes a parent away, which keeps all five;
- the tree: `LoopsAreCut` (`NoLoopLeft` and `OneCutPerLoop`) and `EveryAssetShown`. `LoopsHeld` says that
  any closed set of settled assets (one with all its parents in itself) holds all of a loop found and
  not yet cut, which cutting keeps and which leaves none when there are no more; `ChainInv`, `RingsInv`
  and `CutInv` say that loops are rings of parents, disjoint from each other and from those cut;
  `TreeGrows` says that whatever is neither shown nor pending has its parent in the same state, so that
  what is left when nothing is pending would be a closed set. Least elements (the next asset, the
  first repeated position) come from the well-foundedness of the naturals (`LeastNatural`);
- what a snapshot owes to its input, `SnapshotIsOwedToItsInput`. The ladder is said again of any input, with
  no walk and no phase (`Settles`: the rung that settles an asset and the parent it names), and `IsCompiled`
  says what of a result follows from it: each asset has the parent that settles it (`Decided`), or was
  the weakest of a reported loop of such parents that has no loop inside it (`Loosed`, `IsRing`), and
  no loop is left. `WalkInv` carries the first through the walk; `SmallInv` says that the loops found
  are smallest ones, which a chain is that closes at its first repeated asset. `LoopComes` and
  `ParentComes` then compare two results whose inputs differ in what was stated by hand for some
  assets: a set of settled parents closed under them loses one to a cut, and that loop lies inside it.

`SsmCompiler` may be called again after it has returned; `Reset` puts every variable where `SsmInit`
has it, so each invariant holds after it for the reason it held at first.

`FlowAndOrderProofs` holds two components. Of `Commissioning` it proves, for any register:

- `StartupOrderHolds`. `OrderSound` says that of each system `degree` counts exactly the systems it
  awaits that are not placed, that those at zero are ready, and that whatever a placed system awaits was
  placed before it. When none is ready and some are left, each of those awaits another of them, which is
  what the code reports as left over;
- the numbering. `WalkSound` says that the trail is a chain of parents from a root, that what is entered
  has its parent entered, and what is left its children left; `NumbersSound`, that the numbers of a group
  are 1 to n at any time and whoever has one comes after all that was to come before. That the walk ends
  with everybody numbered needs that parents make no loop (`Rooted`), which the module cannot promise:
  a caller's register decides it;
- the milestones, over every beginning of a schedule: taking one row more takes nothing from anybody.
  This needs `CommissioningAssumption` (the absent tag is no tag and no integer).

Of `ElectricalFlow` it says what each step keeps (`FlowInv`), for any finite graph of feeds between
numbered nodes (`IsGraph`), in three parts:

- Tarjan's search, `SearchInv`. Nodes are numbered in the order they are met (`IndexOK`); what is done
  with is closed, and what was tried was met (`TriedOK`); a node with a frame of its own reaches
  whatever was met after it, and everything on the stack reaches a node with a frame met before it
  (`ReachOK`); a low link is the number of a node on the stack that is reached, and no node belonging to
  the frame was seen to feed an earlier one (`LowOK`). So when a node returns with its own number as
  its low link, what lies above it on the stack is its knot, all that share a loop with it
  (`TopIsKnot`), and the components are the knots of what is done with (`FoundOK`);
- the loop that represents a component. `BreadthInv`: there is a path to every node that was found,
  along `cameFrom`, those that wait are in the order of their lengths and differ by one at most, and a
  node that was expanded has all its neighbours found one step further. A shorter loop would have been
  closed by a node expanded before (`NoneShorter`). `LoopsInv` keeps the inventory: each knot is still to be
  searched, is being searched, or has its one loop;
- the walk. `TreeInv`: whoever waits is fed by one who was entered, at the depth below it, and whatever
  a node that was entered feeds was entered or waits, so that nothing is missing when nobody waits.

`CompilePipelineProofs` composes, from these, `TrimAssumption` (a cell that is not there has no text to
trim), `CompileAssumption` (a project has every field that is read and a
number of drags it allows, which is a bound of the model, a schedule's rows are rows, the
spellings on the sheets that are imported and of the stated parents are spellings, a sheet is rows of
one width and of a known family, the rules are trained on a register; `IsExtracted`: an object comes
after the one it lies in, which the extraction's ordinals give, `model-schema/src/cache.ts:446`, and the
ids of assets are ordered as texts and never meet, which `escapeTagForId` gives), `TextAssumption`
(folded text is text, a cache holds finitely many objects, which are ordinals, and parts of a tag are
measured in integers) and `RegisterAssumption` (a registry and an earlier register have finitely many
rows, and texts are ordered as texts):

- `ImplementsItsParts`: each step of the pipeline is a step of `SsmCompiler` (`SnapshotStep`) and of
  `Commissioning` (`ScheduleStep`), or leaves its variables alone. What is proved of either module for
  any input so holds of every compile and every schedule made from one, whatever the other packages
  derive, and of the compile after a drag: `CompileKeepsPromises` says it in one theorem;
- `EveryAssetScheduled`: what is numbered is what was published (`Handed`), whose parents make no loop
  since the snapshot has cut them, which is the `Rooted` that the numbering asks for;
- `NoGuessedMatch`: `OutcomeByTier` and `FirstTierDecides` say that the fold over the tiers stops at the
  first that reaches a tag or has a rename that leads nowhere, and that its outcome is what that tier
  says; `MatchingSound` carries this through the compile, the review items included;
- `OrderIsImmaterial`: `DraftsSound` says that the drafts at any moment are those of the set of spellings
  read so far, each the best of the spellings on it by a total order, so that the order is lost.
- `LearnedParentsAreEarned`. `FitsBest`: where one asset alone fits best it is the parent, and no other
  fits as well. `Forgets`: the rules are graded while they still hold pairs of families too rare to
  be kept, and answer each row of the register as they do without those, so the grade is that of the
  rules that are kept. `NearestExists`: of the owners around a nested tag that are shown, one is the
  innermost. `LearnedSound` carries all this to the claims that were published.
- `NothingSilent`, part by part. `StatementsTraced`: the claims that `CompileSnapshot` hands over are
  what every statement was turned into, or there is a review item instead (`InputsAreAnswered`), and of
  these the snapshot keeps each (`EveryClaimKept`), keeps the dependencies and obeys the roots that were
  made (`HeardInv`, in `SsmCompilerProofs`). `ConnectivityKept`: each spelling that was read lies on the
  node it means (`PlacedSound`), so that an observation of two matched ends is an edge, and a dependency.
  `TagsAccountedFor`: a component that collapses is represented by the nearest object around it that is
  kept, which exists since objects are extracted in order (`OwnersRepresent`), and two assets never get
  one id (`IdsAreApart`). `RowsAccountedFor`: the rows that are written are numbered without a gap in their
  order (`RowsInTurn`), so that a row is below the headers exactly when enough written rows are above
  it (`TurnAbove`), and what a place in a workbook tells is what stands there (`ToldBySheet`).

- `FlowIsShown`, by `FlowInv`. The composition owes it the graph: the ids that nodes get are finitely
  many and ordered (`NodesSound`, since a node is an asset or a spelling, and each was placed once), and
  an edge has both its ends among them (`GraphIsReady`, by `PlacedSound`);
- `RegistersAreHonest`. The rows of a registry are split by what they say (`TimesSplit`), so that a value has
  nine tenths of them exactly when the tally's first one passes the gate (`AnswersAreAgreed`); of the
  rows with one tag one is printed first (`FirstIsPrinted`), and it alone is compared, so that renames,
  moves, additions and removals are all the differences there are, read either way (`TellsAll`);
- `PreviewsComeTrue`, which relates two compiles of two versions of one project, the first of which the
  state no longer holds. What a snapshot is handed is a function of the project (`InputIsFunction`, step
  by step from the cache to the claims, by `CatalogSound`, `DerivedSound`, `StatedSound` and the invariants
  of the flow), and an override changes of it only the claims and roots stated by hand for the assets that
  were dragged (`OverriddenInput`). `MovesSound` says that what was foretold is true of the compile that is
  shown and, after the next one was started, that there was a compile it was true of, whose project
  differed in the overrides alone. `LoopComes` and `ParentComes` of `SsmCompilerProofs` do the rest.

Model-checked only:

- all liveness (`CancelEnds`): fairness and ENABLED are beyond the prover;
- what a function defined by recursion computes for every input, or a community operator that is one
  (the folds): induction over data is beyond it too. No module uses a recursive operator.

## 5. Not modelled, and the plan

Not modelled: the renderer and preload (pure presentation), the parity copy (frozen), the decoding of
cells, the patterns on header words and sheet names, the columns of a MEL, templates and the writing of workbooks, the comparison
with a client's MEL and the reading of P6 schedules, the labels of the level tree and the text of
descriptions, logging, progress lines and exit codes, the walk inside Navisworks, the IPC gate and its
grants. Of the learned rules, the renaming of a description's class by the masters a client uses
(`learning.ts:286` trains without it) and the shape check of stored rules. These are most of the
repository's lines: a third of them is the parity copy and the screens, and much of the rest reads,
formats and validates. What decides something in the engine is modelled, up to patterns on text.

Where a comment says more than the code does, met while modelling and checked by no run:

- `domain/src/hierarchy-config.ts` describes `review` and `provisional-root` for an asset whose value
  is missing; an asset without a value and without claims is a plain root without an item, because
  only a comparison with a parent reports it.
- `Screen7Relationships.tsx:33` says of manual edits "Always wins", and the panel of
  `SsmTreeView.tsx` that one "outranks every rule"; the ladder is the site's to order (`Boundaries2`
  has one with manual in the middle, where it comes second, and in `Drags` a drag may go unheard).
- `domain/src/resolver-config.ts:59` has keys and descriptions normalised alike; only keys are.
- `learned-rules/src/train.ts` says that re-ordering the rows cannot change the output; where two rows
  have one tag in different systems, the first decides. Shares are rounded to four places before they
  are compared, so 0.89995 passes a gate of 0.9.
- `scheduling/src/predecessors.ts` lists under `cycles` systems that are merely downstream of one,
  and `exports.ts:490` counts them all as precedence cycles. `exportPredecessors` passes no flow
  edges, so the desktop's order is made from dependencies alone.
- `scheduling/src/ladder.ts` explains `no-matching-asset` by a tag or system that no asset has; it is also given
  where every asset of the system has a line of its own. `sequence.ts` and `ladder.ts` are called
  by no handler of the desktop.
- `exports.ts:233`, `compile.ts:577` and `CHANGELOG.md:9` say that a value of the model wins over a learned
  one; the desktop's `generatedMelAssets` (`compile-service.ts:149`) carries neither code nor master
  nor classification, so in its upload sheet the learned value always stands.
- Item masters are learned per tag (`itemmasters.ts:16`): assets that share a tag, or have none, all get
  the master of the last of them.
- Rename hints and `compareWithExistingMel` are not called by the desktop. A child whose parent has no
  tag is printed with its system as its closest parent.
- `shared/schemas.ts:873` says `wouldDemote` means that the fold would demote; the parent of a drag is
  set by hand and never demoted, and the flag is also true where a value is unknown.
- `docs/ENGINE.md:67` says "one observation per row". The desktop registers a file once for each family
  among its sheets (`sources.ts:190`) and hands the whole file to the compile for each registration
  (`project-session.ts:804`), where every sheet is read again: each row of such a file becomes two
  observations and two edges, which `cable.ts:12` reads as parallel cables. `Tabs` has such files.
  Removing one of the registrations does not stop its sheets from being read.
- `detect.ts:162` says that an exact header row outranks a loose one whatever row it is on;
  of each family only the topmost row that fits is remembered (`detect.ts:117`), so a loose banner hides
  an exact header row of the same family below it, which is then read as a row of data.
- The rows a compile skips and the sheets it does not import are in its `connectivityReports`, which
  the desktop shows nowhere; it shows only what `addSources` recognised.
- The previews of several drags are all made from the tree of the last compile: two that are allowed
  can close a loop together, which the next compile cuts and reports. Undoing an override that
  replaced an earlier one does not bring the earlier back.

Done of the first plan: learned rules in place of given proposals, scheduling, the registers, the
import in place of given observations, and the proof that the pipeline implements its parts. Next, in
this order:

1. The parts of the session left out above: exports over a newer configuration, sources that need
   extraction, joined with `Extraction`; `app-state.json` against a failing write.
2. `PathGrants`: grants against open, close and dialogs that answer late; the limit of 512 and what
   falls off.
