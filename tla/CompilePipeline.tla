-------------------------- MODULE CompilePipeline --------------------------
(***************************************************************************)
(* packages/compiler: one compile of one project, from the extraction      *)
(* cache, the workbooks and the site profile to the resolved snapshot and  *)
(* one review queue.  compileProject runs the engine packages in a fixed   *)
(* order, each on what the ones before made; the two with an algorithm of  *)
(* their own run step by step.                                             *)
(*                                                                         *)
(* The snapshot's half is SsmCompiler, whose variables these extend: its   *)
(* Start is taken with the input the other packages derive; so is that of  *)
(* Commissioning, on what was published.  The connectivity workbooks are   *)
(* read here; of the MEL a project has the rows.                           *)
(***************************************************************************)
EXTENDS SsmCompiler, ElectricalFlow, Commissioning

CONSTANTS
  Projects,    \* families of CompileProjectInputs
  Objects,     \* the objects of a cache, by extraction ordinal
  Spellings,   \* tags, as the model or a workbook writes them
  NormalTag, AnatomyKey, Extends, Near,    \* text functions, see Identity
  NormalKey,                               \* and SystemResolver
  Reads,       \* the cells that pass a test of a header
  Trimmed,     \* what is left of cells with space around their text
  SegmentOf, RoleOf, FamilyOf,             \* what the tag anatomy cuts from a tag
  RoleClass, SharedRun, Extended, BodyLength, Pattern,  \* see LearnedRules
  Exports,     \* finished exports, by name, that rules can be trained from
  FirstWord, UnitRank, Gear, Electrical, Placeholders,  \* see RegisterExports
  Registries,  \* prior registries, by name, that item masters are learned from
  Revisions    \* registers of earlier compiles

VARIABLES
  project,     \* the one compiled
  stage,       \* catalog / systems / flow / claims / snapshot / published / refused
  owner,       \* object -> the object that represents its asset
  catalog,     \* asset -> its representative object
  systems,     \* asset -> the claims on its system
  claims,      \* the AssembledClaims
  reviewItems, \* the one review queue
  exported,    \* the rows of the upload sheet, once written
  moves        \* the overrides set since the compile, with what was foretold of each

stageVars == <<project, stage, owner, catalog, systems, claims, reviewItems, exported, moves>>

Model    == INSTANCE AssetCatalog
Import   == INSTANCE ConnectivityImport
Identity == INSTANCE Identity
Resolver == INSTANCE SystemResolver
Sources  == INSTANCE RelationshipClaims
Rules    == INSTANCE LearnedRules
Sheets   == INSTANCE RegisterExports

(* A cache holds finitely many objects; what is measured on tags are       *)
(* numbers, and a text that is not blank is not blank without its case.    *)
IsMeasured(tags) == \A t, u \in tags \ {None} : SharedRun[<<t, u>>] \in Nat
ASSUME TextAssumption ==
  /\ Objects \subseteq Nat /\ IsFiniteSet(Objects)
  /\ "system" \in Keys /\ \A v \in Values : Folded[v] # None
  /\ \A e \in Extended : e[2] \in Int /\ BodyLength[e[2]] \in Nat
  /\ \A e \in DOMAIN Exports :
       IsFiniteSet(DOMAIN Exports[e]) /\ IsMeasured({Exports[e][i].tag : i \in DOMAIN Exports[e]})

(* A register lists finitely many assets by their ids, each with a system  *)
(* or none; no two systems are written alike.                              *)
IsRevision(assets) ==
  /\ IsFiniteSet(DOMAIN assets) /\ DOMAIN assets \subseteq Int
  /\ \A a \in DOMAIN assets : assets[a].system \in Values \cup {None}
ASSUME RegisterAssumption ==
  /\ \A v, w \in Values : UnitRank[v] \in Int /\ (UnitRank[v] = UnitRank[w] => v = w)
  /\ \A r \in DOMAIN Registries : Sheets!IsRegistry(Registries[r])
  /\ \A earlier \in Revisions : IsRevision(earlier)

(* What a site or the model states of parents is spelled out.              *)
StatesParents(p) ==
  /\ \A q \in p.lookup \cup p.prior : {q.child, q.parent} \subseteq Spellings
  /\ \A o \in Objects : p.cache.values[o]["parent"] \in Spellings \cup {None}

(* An object is extracted after the one it lies in, and the ids of assets  *)
(* are ordered as texts and never meet: object:<object>, tag:<tag> and     *)
(* tag:<tag>#<object>, the tag written so that it holds no #.              *)
IsExtracted(cache) ==
  /\ \A o \in Objects : cache.parent[o] \in {q \in Objects : q < o} \cup {None}
  /\ \A o \in Objects : cache.tag[o] \in Int \cup {None}
  /\ \A o, q \in Objects : cache.tag[q] # None =>
       /\ o \notin {cache.tag[q], cache.tag[q] + q}
       /\ cache.tag[o] # None =>
            cache.tag[o] # cache.tag[q] + q /\ (o # q => cache.tag[o] + o # cache.tag[q] + q)

(* A cell that is not there has no text to trim.                           *)
ASSUME TrimAssumption == None \notin DOMAIN Trimmed

(* A project has a schedule and an export to learn from or says it has     *)
(* none, and what its workbooks write is ordered as text.                  *)
ASSUME CompileAssumption ==
  \A family \in Projects : \A p \in family :
    /\ {"cache", "filters", "tiers", "alias", "projection", "assigned", "chain", "mel", "workbooks", "trainedFrom",
        "registry", "lookup", "prior", "manual", "roles", "levels", "ladder", "schedule", "moves"} \subseteq DOMAIN p
    /\ p.moves \in Nat
    /\ StatesParents(p) /\ IsExtracted(p.cache)
    /\ p.schedule # None => IsSchedule(p.schedule)
    /\ p.trainedFrom \in DOMAIN Exports \cup {None}
    /\ p.registry \in DOMAIN Registries \cup {None}
    /\ IsMeasured({p.cache.tag[o] : o \in Objects})
    /\ \A w \in DOMAIN p.workbooks : \A s \in DOMAIN p.workbooks[w] : Import!IsSheet(p.workbooks[w][s])
    /\ ~ Import!MisfitIn(p.workbooks) => Endpoints(Import!Imported(p.workbooks)) \subseteq Int

pipelineVars == <<stageVars, ssmVars, flowVars, planVars>>

CompileInit ==
  /\ project \in UNION Projects /\ stage = "catalog"
  /\ owner = <<>> /\ catalog = <<>> /\ systems = <<>> /\ claims = None /\ reviewItems = {}
  /\ exported = None /\ moves = {}
  /\ SsmInit /\ FlowInit /\ PlanInit
------------------------------------------------------------------------------
(* 1, 2: the assets, and the properties read off their objects.            *)
ReadCatalog ==
  /\ stage = "catalog" /\ Model!UnknownSets(project.cache, project.filters) = {}
  /\ owner' = Model!Owners(project.cache, project.filters)
  /\ catalog' = [a \in {Model!AssetId(project.cache, owner', o) : o \in Model!Representatives(owner')} |->
                   CHOOSE o \in Model!Representatives(owner') :
                     Model!AssetId(project.cache, owner', o) = a]
  /\ stage' = "systems"
  /\ UNCHANGED <<project, exported, moves, systems, claims, reviewItems, ssmVars, flowVars, planVars>>
RefuseCatalog ==
  /\ stage = "catalog" /\ Model!UnknownSets(project.cache, project.filters) # {}
  /\ stage' = "refused"
  /\ UNCHANGED <<project, exported, moves, owner, catalog, systems, claims, reviewItems, ssmVars, flowVars, planVars>>

TagOf(a) == project.cache.tag[catalog[a]]
Field(a, key) == Model!ReadField(project.cache, owner, catalog[a], key)
TagIndex == [a \in {b \in DOMAIN catalog : TagOf(b) # None} |-> TagOf(a)]
ResolveTag(s) == Identity!ResolveOne(TagIndex, project.tiers, project.alias, s)
OfTag(f, a) == IF TagOf(a) = None THEN None ELSE f[TagOf(a)]

(* The discipline as the site spells it in its structure (attributes.ts).  *)
Discipline(a) ==
  LET native == Field(a, "discipline")
  IN  IF native \in DOMAIN project.projection THEN project.projection[native] ELSE native

(* 3, 4: each asset's system, from the chain and the MEL.                  *)
ResolverSubject(a) ==
  [tag |-> TagOf(a), field |-> Field(a, "system"), segment |-> OfTag(SegmentOf, a),
   manual |-> IF a \in DOMAIN project.assigned THEN project.assigned[a] ELSE None]
ResolveSystems ==
  /\ stage = "systems" /\ stage' = "flow"
  /\ systems' = [a \in DOMAIN catalog |->
                   Resolver!RunChain(project.chain, ResolverSubject(a), project.mel)]
  /\ UNCHANGED <<project, exported, moves, owner, catalog, claims, reviewItems, ssmVars, flowVars, planVars>>

(* 5, 6, 7: every spelling of the observations is resolved once, and the   *)
(* flow is built on the outcomes.                                          *)
ReadFlow ==
  /\ stage = "flow" /\ flowStep = "idle" /\ ~ Import!MisfitIn(project.workbooks)
  /\ evidence' = Import!Imported(project.workbooks)
  /\ outcomes' = [s \in Endpoints(evidence') |-> ResolveTag(s)]
  /\ StartFlow
  /\ UNCHANGED <<stageVars, ssmVars, planVars>>
RefuseWorkbooks ==
  /\ stage = "flow" /\ flowStep = "idle" /\ Import!MisfitIn(project.workbooks)
  /\ stage' = "refused"
  /\ UNCHANGED <<project, exported, moves, owner, catalog, systems, claims, reviewItems, ssmVars, flowVars, planVars>>

(* 8: an edge becomes a claim only when both ends are in the model.        *)
FlowEdges ==
  {[from |-> drafts[nodeOf[e.from]].asset, to |-> drafts[nodeOf[e.to]].asset, type |-> e.type] :
     e \in {f \in Edges : None \notin {drafts[nodeOf[f.from]].asset, drafts[nodeOf[f.to]].asset}}}
(* What the learned rules propose, if the profile has any.                 *)
RuleSets == [e \in DOMAIN Exports |-> Rules!Train(Exports[e])]
NestingAsset(a) ==
  [tag |-> TagOf(a), system |-> Resolver!KeyOf(systems[a]), family |-> OfTag(FamilyOf, a),
   description |-> Field(a, "description"), discipline |-> Discipline(a)]
Learned ==
  IF project.trainedFrom = None THEN {}
  ELSE Rules!ProposeNestings(RuleSets[project.trainedFrom],
                             [a \in DOMAIN catalog |-> NestingAsset(a)])
ClaimSubjects ==
  [a \in DOMAIN catalog |->
     [explicit |-> Field(a, "parent"), role |-> OfTag(RoleOf, a), family |-> OfTag(FamilyOf, a)]]
ClaimOptions ==
  [manual |-> project.manual, lookup |-> project.lookup, prior |-> project.prior,
   learned |-> Learned, roles |-> project.roles, edges |-> FlowEdges,
   resolve |-> [s \in Spellings |-> ResolveTag(s).asset]]
AssembleClaims ==
  /\ stage = "flow" /\ flowStep = "built" /\ stage' = "claims"
  /\ claims' =
       [structural   |-> Sources!StructuralClaims(ClaimSubjects, ClaimOptions),
        dependencies |-> Sources!DependencyClaims(ClaimSubjects, ClaimOptions),
        makeRoot     |-> Sources!MakeRoots(ClaimSubjects, ClaimOptions),
        proposals    |-> Sources!Proposals(ClaimSubjects, ClaimOptions),
        skipped      |-> Sources!Skips(ClaimSubjects, ClaimOptions)]
  /\ UNCHANGED <<project, exported, moves, owner, catalog, systems, reviewItems, ssmVars, flowVars, planVars>>

(* 9: the snapshot, from the claims, the attributes and the model tree.    *)
Attributes(a) ==
  [key \in Keys |-> CASE key = "system"     -> Resolver!KeyOf(systems[a])
                     [] key = "discipline" -> Discipline(a)
                     [] OTHER              -> Field(a, key)]
TreeParent(a) ==
  LET o == Model!ModelTreeParent(project.cache, owner, catalog[a])
  IN  IF o = None THEN None ELSE Model!AssetId(project.cache, owner, o)
SnapshotInput ==
  [subjects     |-> DOMAIN catalog,
   attributes   |-> [a \in DOMAIN catalog |-> Attributes(a)],
   modelTree    |-> [a \in DOMAIN catalog |-> TreeParent(a)],
   structural   |-> claims.structural,
   dependencies |-> claims.dependencies,
   makeRoot     |-> claims.makeRoot,
   levels       |-> project.levels,
   ladder       |-> project.ladder]
CompileSnapshot ==
  /\ stage = "claims" /\ stage' = "snapshot"
  /\ input' = SnapshotInput
  /\ Start
  /\ UNCHANGED <<project, exported, moves, owner, catalog, systems, claims, reviewItems, flowVars, planVars>>

(* 10, 11: one review queue.                                               *)
SystemReviews ==
  {[kind |-> "system-conflict", asset |-> a, keys |-> Resolver!ClaimedKeys(systems[a])] :
     a \in {b \in DOMAIN systems : Resolver!InConflict(systems[b], project.policy)}}
(* Faulty: the snapshot's own items are moved into the queue.              *)
PublishEmptying ==
  /\ stage = "snapshot" /\ phase = "done" /\ stage' = "published"
  /\ reviewItems' = Model!CatalogReviews(project.cache, owner)
                    \cup Resolver!MelReviews(project.mel)
                    \cup SystemReviews
                    \cup Identity!IdentityReviews(outcomes)
                    \cup claims.proposals \cup claims.skipped
                    \cup reviews
  /\ reviews' = {}
  /\ UNCHANGED <<project, exported, moves, owner, catalog, systems, claims, input, phase, walkVars, searchVars, cycles,
                 treeVars, flowVars, planVars>>
Publish ==
  /\ stage = "snapshot" /\ phase = "done" /\ stage' = "published"
  /\ reviewItems' = Model!CatalogReviews(project.cache, owner)
                    \cup Resolver!MelReviews(project.mel)
                    \cup SystemReviews
                    \cup Identity!IdentityReviews(outcomes)
                    \cup claims.proposals \cup claims.skipped
                    \cup reviews
  /\ UNCHANGED <<project, exported, moves, owner, catalog, systems, claims, ssmVars, flowVars, planVars>>

(* What the exports schedule: the published assets, the parents that are   *)
(* settled, and what each depends on.                                      *)
Block(a) == <<Field(a, "building"), Discipline(a), Resolver!KeyOf(systems[a])>>
Register ==
  [assets    |-> DOMAIN catalog,
   tag       |-> [a \in DOMAIN catalog |-> TagOf(a)],
   system    |-> [a \in DOMAIN catalog |-> Resolver!KeyOf(systems[a])],
   group     |-> [a \in DOMAIN catalog |-> Block(a)],
   parent    |-> [a \in DOMAIN catalog |-> IF node[a].status = "resolved" THEN node[a].parent ELSE None],
   relations |-> UNION {{[from |-> d.parent, to |-> a] : d \in node[a].dependencies} : a \in DOMAIN node},
   topDown   |-> {Block(a) : a \in {b \in DOMAIN catalog : Discipline(b) \in project.topDown}}]
Commission ==
  /\ stage = "published" /\ branches = <<>> /\ project.schedule # None
  /\ register' = Register
  /\ StartOrder
  /\ UNCHANGED <<stageVars, ssmVars, flowVars>>

(* The register of the desktop: each published asset with what its columns *)
(* say.  What the compiler knows of the model's codes, masters and         *)
(* classifications, the desktop's own reading of a compile leaves out.     *)
ParentTag(a) ==
  IF node[a].status = "resolved" /\ node[a].parent # None THEN TagOf(node[a].parent) ELSE None
MelAsset(a) ==
  [tag |-> TagOf(a), description |-> Field(a, "description"), type |-> Field(a, "type"),
   building |-> Field(a, "building"), discipline |-> Discipline(a), system |-> Resolver!KeyOf(systems[a]),
   parent |-> ParentTag(a), dependencies |-> {TagOf(d.parent) : d \in node[a].dependencies} \ {None},
   status |-> IF Model!IsDuplicate(project.cache, owner, catalog[a])
              THEN "DUPLICATE_MODEL_TAG" ELSE "MODEL_CONFIRMED",
   wbs |-> None, itemMaster |-> None, classification |-> None]
MelAssets == [a \in DOMAIN catalog |-> MelAsset(a)]
RegisterTables == [r \in DOMAIN Registries |-> Sheets!TrainTables(Registries[r])]
DescribedClasses ==
  [a \in DOMAIN catalog |->
     IF project.trainedFrom = None THEN None
     ELSE Rules!Classify(RuleSets[project.trainedFrom], NestingAsset(a))]
ExportExto ==
  /\ stage = "published" /\ branches = <<>> /\ project.registry # None /\ exported = None
  /\ exported' = [a \in DOMAIN catalog |->
                    Sheets!ExtoRow(RegisterTables[project.registry], DescribedClasses, MelAssets, a)]
  /\ UNCHANGED <<project, stage, owner, catalog, systems, claims, reviewItems, moves, ssmVars, flowVars, planVars>>

(* An asset is dragged in the tree: the window says what would become of   *)
(* it, from the compile it shows, and the override is stored and moves     *)
(* nothing until the next compile.  It offers only what is not refused;    *)
(* the service takes anything.                                             *)
HangsUnder(a) == IF node[a].status = "resolved" THEN node[a].parent ELSE None
(* Faulty: only the parent and its own parent are looked at.               *)
NearestAncestors(a) == {a, HangsUnder(a)} \ {None}
Ancestors(a) ==
  {b \in DOMAIN node : \A S \in SUBSET DOMAIN node :
     a \in S /\ (\A x \in S : HangsUnder(x) \in S \cup {None}) => b \in S}
ReparentPreview(child, parent) ==
  IF parent = None THEN "root"
  ELSE IF child \in Ancestors(parent) THEN "loop"
  ELSE IF Outcome(child, parent) # "keep" THEN "across" ELSE "nests"
SetRelationshipOverride(child, parent) ==
  /\ stage = "published" /\ branches = <<>> /\ child # parent
  /\ Cardinality({m \in moves : m.child # child}) < project.moves
  /\ moves' = {m \in moves : m.child # child} \cup
       {[child |-> child, parent |-> parent, preview |-> ReparentPreview(child, parent),
         above |-> IF parent = None THEN {} ELSE Ancestors(parent)]}
  /\ UNCHANGED <<project, stage, owner, catalog, systems, claims, reviewItems, exported,
                 ssmVars, flowVars, planVars>>
(* The next compile, with the overrides among what the site stated.        *)
Moved == {[child |-> m.child, parent |-> m.parent] : m \in moves}
Recompile ==
  /\ stage = "published" /\ branches = <<>> /\ planStep = "off"
  /\ moves # {} /\ project.moves > 0
  /\ project' = [project EXCEPT !.moves = 0,
       !.manual = {o \in @ : \A m \in moves : m.child # o.child} \cup Moved]
  /\ stage' = "catalog" /\ owner' = <<>> /\ catalog' = <<>> /\ systems' = <<>> /\ claims' = None
  /\ reviewItems' = {} /\ exported' = None
  /\ Reset /\ DropFlow
  /\ UNCHANGED <<moves, planVars>>

Rest ==
  /\ stage \in {"published", "refused"} /\ branches = <<>> /\ planStep \in {"off", "planned"}
  /\ UNCHANGED pipelineVars

CompileNext ==
  \/ ReadCatalog \/ RefuseCatalog \/ ResolveSystems \/ ReadFlow \/ RefuseWorkbooks
  \/ BuildFlow /\ UNCHANGED <<stageVars, ssmVars, planVars>>
  \/ AssembleClaims \/ CompileSnapshot
  \/ SsmSteps /\ UNCHANGED <<stageVars, flowVars, planVars>>
  \/ Publish
  \/ /\ stage = "published" /\ planStep \in {"off", "planned"} /\ BrowseFlow
     /\ UNCHANGED <<stageVars, ssmVars, planVars>>
  \/ Commission \/ ExportExto
  \/ \E child \in DOMAIN node, parent \in DOMAIN node \cup {None} : SetRelationshipOverride(child, parent)
  \/ Recompile
  \/ PlanSteps /\ UNCHANGED <<stageVars, ssmVars, flowVars>>
  \/ Rest
CompileSpec == CompileInit /\ [][CompileNext]_pipelineVars
------------------------------------------------------------------------------
(* What the snapshot's half is handed is what SsmCompiler is proved for,   *)
(* and what is scheduled is what Commissioning is proved for.              *)
ImplementsItsParts == SsmSpec /\ PlanSpec

(* No spelling is matched on a guess: it means the one tag that the first  *)
(* tier to reach any reaches, and where that tier reaches several, or is a *)
(* rename to a tag the model lacks, the review queue names it and no later *)
(* tier is asked, though it might have found just one (resolve.ts).        *)
TagsReached(i, s) ==
  LET tier == Identity!TierOrder[i]
  IN  IF tier \in project.tiers
      THEN {TagOf(a) : a \in Identity!Reached(TagIndex, project.alias, tier, s)}
           \cup (IF tier = "alias" /\ s \in DOMAIN project.alias THEN {project.alias[s]} ELSE {})
      ELSE {}
NoGuessedMatch ==
  stage = "published" => \A s \in DOMAIN outcomes, i \in Identity!MatchingTiers :
    TagsReached(i, s) # {} /\ (\A j \in 1..(i - 1) : TagsReached(j, s) = {}) =>
      \/ outcomes[s].asset # None /\ {TagOf(outcomes[s].asset)} = TagsReached(i, s)
      \/ /\ outcomes[s].asset = None
         /\ \E r \in reviewItems : r.kind \in {"ambiguous-suffix", "unresolvable-alias"} /\ r.spelling = s
         /\ ~ \E a \in DOMAIN TagIndex : TagsReached(i, s) = {TagIndex[a]}

(* A statement about a parent is the child's parent, is kept on the child  *)
(* as a claim that lost, made the child a root, or is in the review queue. *)
Traced(source, childRef, parentRef, child, parent) ==
  \/ /\ child \in DOMAIN node
     /\ [subject |-> child, target |-> parent, source |-> source]
          \in node[child].losers \cup {node[child].winner}
  \/ \E r \in reviewItems :
       r.kind = "dead-claim-rule" /\ r.source = source /\ r.child = childRef /\ r.parent = parentRef
StatementsTraced ==
  /\ \A p \in project.lookup :
       Traced("profile-lookup", p.child, p.parent, ResolveTag(p.child).asset, ResolveTag(p.parent).asset)
  /\ \A p \in project.prior :
       Traced("prior-ssm", p.child, p.parent, ResolveTag(p.child).asset, ResolveTag(p.parent).asset)
  /\ \A a \in DOMAIN catalog :
       LET s == Field(a, "parent")
       IN  s # None => Traced("explicit-model", a, s, a, ResolveTag(s).asset)
  /\ \A m \in project.manual :
       \/ m.parent = None /\ m.child \in DOMAIN node /\ node[m.child].parent = None
       \/ Traced("manual", m.child, m.parent, m.child, m.parent)
  /\ \A l \in Learned :
       IF l.grade = "claim" THEN Traced("learned-description", l.child, l.parent, l.child, l.parent)
       ELSE [kind |-> "nesting-proposal", asset |-> l.child, parent |-> l.parent] \in reviewItems
(* Connectivity is always at least a dependency: an observation whose ends *)
(* are two assets is among the load's dependencies, whatever became of it  *)
(* as a parent, and both ends are assets of the model.                     *)
ConnectivityKept ==
  \A o \in evidence :
    LET from == ResolveTag(o.from).asset
        to   == ResolveTag(o.to).asset
    IN  None \notin {from, to} /\ from # to =>
          [parent |-> from, type |-> o.type, rule |-> "connected"] \in node[to].dependencies
(* Collapsing components and dropping duplicates loses no equipment tag:   *)
(* every tag of an object that passed the filters names an asset of its    *)
(* own, names several that are reported, or is reported as absorbed.  An   *)
(* observation that was matched by a tag several assets bear can so be     *)
(* seen for the guess it is.                                               *)
TagsAccountedFor ==
  /\ \A o \in Model!CandidateObjects(project.cache, project.filters) :
       LET t == project.cache.tag[o]
           bearers == {a \in DOMAIN catalog : TagOf(a) = t}
       IN  \/ t = None \/ Cardinality(bearers) = 1
           \/ Cardinality(bearers) > 1 /\ [kind |-> "duplicate-model-tag", tag |-> t] \in reviewItems
           \/ \E r \in reviewItems : r.kind = "absorbed-tagged-component" /\ r.object = o
  /\ \A s \in DOMAIN outcomes : outcomes[s].asset # None =>
       \/ \A a \in DOMAIN catalog \ {outcomes[s].asset} : TagOf(a) # TagOf(outcomes[s].asset)
       \/ [kind |-> "duplicate-model-tag", tag |-> TagOf(outcomes[s].asset)] \in reviewItems

(* The rows of the workbooks and the observations are one for one: a row   *)
(* below the headers of a sheet that is read is, under its own number in   *)
(* the worksheet, what its two cells say, unless one is empty but for      *)
(* space or both say the same; no other row of any sheet is one (rows.ts). *)
RowsAccountedFor ==
  flowStep = "place" /\ unread = evidence => \A w \in DOMAIN project.workbooks : \A s \in DOMAIN project.workbooks[w] :
    LET sheet  == project.workbooks[w][s]
        a      == Import!Applied(sheet)
        isRead == a.kind \in Import!Connectivity /\ a.row # 0
    IN  \A r \in DOMAIN sheet.rows :
          LET told  == {o \in evidence : o.place = <<w, s, r>>}
              above == {q \in 1..(r - 1) : sheet.rows[q] # [c \in DOMAIN sheet.rows[q] |-> None]}
              from  == Import!Trim(sheet.rows[r][a.from])
              to    == Import!Trim(sheet.rows[r][a.to])
          IN  IF isRead /\ Cardinality(above) >= a.row /\ None \notin {from, to} /\ from # to
              THEN Cardinality(told) = 1 /\ \A o \in told : o.from = from /\ o.to = to
              ELSE told = {}

(* Nothing a site stated is lost silently: no parent, no connection, no    *)
(* row and no tag (assemble.ts, catalog.ts, rows.ts).                      *)
NothingSilent ==
  RowsAccountedFor /\ (stage = "published" => StatementsTraced /\ ConnectivityKept /\ TagsAccountedFor)

(* A parent that was learned stands on measured precision: the child       *)
(* continues its parent's tag, or the rules in the profile, asked for the  *)
(* parents of the export they came from, are right as often as a claim has *)
(* to be.  The parent is of the child's system, and no other asset of its  *)
(* kind fits the child as well (policy.ts:4-7, 92-95).                     *)
LearnedClaims ==
  {c \in UNION {node[a].losers \cup {node[a].winner} : a \in DOMAIN node} :
     c # None /\ c.source = "learned-description"}
LearnedParentsAreEarned ==
  stage = "published" => \A c \in LearnedClaims :
    LET rules   == RuleSets[project.trainedFrom]
        class   == [a \in DOMAIN catalog |-> Rules!Classify(rules, NestingAsset(a))]
        system  == [a \in DOMAIN catalog |-> Rules!Fold(Resolver!KeyOf(systems[a]))]
        rivals  == {a \in DOMAIN TagIndex \ {c.subject, c.target} :
                      class[a] = class[c.target] /\ system[a] = system[c.target]}
        like(a) == Rules!Fold(OfTag(FamilyOf, a)) = Rules!Fold(OfTag(FamilyOf, c.subject))
        run(a)  == SharedRun[<<TagOf(c.subject), TagOf(a)>>]
    IN  /\ system[c.target] = system[c.subject] /\ system[c.subject] # None
        /\ \/ <<TagOf(c.subject), TagOf(c.target)>> \in Extended
           \/ /\ Rules!EarnsClaim(Exports[project.trainedFrom], class[c.subject], rules)
              /\ \A a \in rivals : like(a) = like(c.target) => run(a) < run(c.target)

(* The upload sheet puts in a cell nobody stated what the prior registry   *)
(* agrees on and nothing else (itemmasters.ts:24-28, wbs.ts), and what is  *)
(* told of this register and an earlier one, with whatever renames are     *)
(* claimed, is all that happened, read forward or back (diff.ts:20-46).    *)
HintsOf(before, after) ==
  {h \in UNION {[S -> Sheets!Tags(after)] : S \in SUBSET Sheets!Tags(before)} :
     Sheets!HintsApply(h, before, after)}
RegistersAreHonest ==
  exported # None =>
    /\ Sheets!LearnedCellsHold(Registries[project.registry], MelAssets, exported)
    /\ \A earlier \in Revisions :
         /\ \A h \in HintsOf(earlier, MelAssets) : Sheets!AllIsTold(earlier, MelAssets, h)
         /\ \A h \in HintsOf(MelAssets, earlier) : Sheets!AllIsTold(MelAssets, earlier, h)

(* What the window foretold of a drag comes true in the next compile       *)
(* (compile-service.ts:735-840), where no rung above the manual one names  *)
(* a parent: a stated root is one, a parent is kept across any boundary    *)
(* and nothing is demoted, a refusal was for a loop.  The tree foretold    *)
(* from may have moved on: another override set meanwhile may close a loop *)
(* nobody foretold, but no link that had been cut comes back to close one. *)
PreviewsComeTrue ==
  stage = "published" /\ project.moves = 0 => \A m \in moves :
    LET others == {n.child : n \in moves \ {m}}
        closed == {r \in reviewItems : r.kind = "structural-cycle" /\ m.child \in r.assets}
        heard  == \E r \in DOMAIN input.ladder :
                    /\ input.ladder[r] = "manual"
                    /\ \A i \in 1..(r - 1) : Candidates(m.child, i) = {}
    IN  CASE m.preview = "root" -> node[m.child].status = "root" /\ node[m.child].parent = None
          [] m.preview = "loop" -> heard /\ m.above \cap others = {} => closed # {}
          [] OTHER -> heard =>
               \/ HangsUnder(m.child) = m.parent /\ node[m.child].demotedFrom = None
               \/ \E r \in closed : r.assets \cap others # {}

(* Every asset has its place in the register and its milestone: see        *)
(* Commissioning.                                                          *)
EveryAssetScheduled ==
  EveryAssetNumbered /\ (planStep = "planned" => MilestonesHold(project.schedule))
=============================================================================
