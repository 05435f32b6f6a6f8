------------------------ MODULE CompilePipelineProofs ------------------------
(***************************************************************************)
(* What a compile and the schedule made from it guarantee, for any project.*)
(*                                                                         *)
(* First the composition: what compileProject does to the snapshot is a    *)
(* behaviour of SsmCompiler, and what the exports schedule from it one of  *)
(* Commissioning.  So what is proved of either module alone holds of every *)
(* compile, whatever the other packages derive.                            *)
(*                                                                         *)
(* Then what a compile says of the spellings in its workbooks: no guess is *)
(* taken for a match, and the nodes of the flow do not depend on the order *)
(* in which the observations are read.                                     *)
(*                                                                         *)
(* Then what the learned rules propose: a claim has been earned.           *)
(*                                                                         *)
(* Then that nothing stated is lost: the statements about parents, the     *)
(* connections, the tags of the model and the rows of the workbooks.       *)
(*                                                                         *)
(* Then the registers that leave the program: what the cells of an upload  *)
(* sheet hold and what is told of two revisions.                           *)
(*                                                                         *)
(* Then the flow, of which FlowAndOrderProofs knows all but that its nodes *)
(* are finitely many and have ids.                                         *)
(*                                                                         *)
(* Last what the window foretells of a drag: the input of a snapshot is a  *)
(* function of the project, an override changes no other part of it, and   *)
(* of two such snapshots SsmCompilerProofs knows the rest.                 *)
(***************************************************************************)
EXTENDS CompilePipeline, SsmCompilerProofs, FlowAndOrderProofs

(* The composition.                                                        *)
LEMMA PartsStart == CompileInit => SsmInit /\ PlanInit
BY DEF CompileInit

(* The steps that are not about the snapshot leave it alone.               *)
LEMMA SnapshotStep == ASSUME [CompileNext]_pipelineVars PROVE [SsmNext]_ssmVars
<1>1. CASE CompileSnapshot
  BY <1>1 DEF CompileSnapshot, SsmNext
<1>2. CASE SsmSteps
  BY <1>2 DEF SsmNext
<1>3. CASE Recompile
  BY <1>3 DEF Recompile, SsmNext
<1>4. CASE UNCHANGED ssmVars
  BY <1>4
<1>5. (~CompileSnapshot /\ ~SsmSteps /\ ~Recompile) => UNCHANGED ssmVars
  BY DEF CompileNext, pipelineVars, ReadCatalog, RefuseCatalog, ResolveSystems, ReadFlow, RefuseWorkbooks,
         AssembleClaims, Publish, Commission, ExportExto, SetRelationshipOverride, Rest
<1> QED BY <1>1, <1>2, <1>3, <1>4, <1>5

(* The steps before the schedule leave it alone.                           *)
LEMMA ScheduleStep == ASSUME [CompileNext]_pipelineVars PROVE [PlanNext]_planVars
<1>1. CASE Commission
  BY <1>1 DEF Commission, PlanNext
<1>2. CASE PlanSteps
  BY <1>2 DEF PlanNext
<1>3. CASE UNCHANGED planVars
  BY <1>3
<1>4. (~Commission /\ ~PlanSteps) => UNCHANGED planVars
  BY DEF CompileNext, pipelineVars, ReadCatalog, RefuseCatalog, ResolveSystems, ReadFlow, RefuseWorkbooks,
         AssembleClaims, CompileSnapshot, Publish, ExportExto, SetRelationshipOverride,
         Recompile, Rest
<1> QED BY <1>1, <1>2, <1>3, <1>4

(* A compile, as the packages around the snapshot and the schedule run it, *)
(* does to either only what its own specification allows.                  *)
THEOREM PartsImplemented == CompileSpec => ImplementsItsParts
BY PartsStart, SnapshotStep, ScheduleStep, PTL
   DEF CompileSpec, ImplementsItsParts, SsmSpec, PlanSpec

(* What a compile publishes, whatever the catalog, the resolver, the flow  *)
(* and the claims made of the project: parents that respect the boundaries *)
(* and the ladder, every claim kept, no loop, a tree of every asset, a     *)
(* reason for whoever has no parent, and an order of startup that can be   *)
(* followed.                                                               *)
THEOREM CompileKeepsPromises ==
  CompileSpec => [](/\ BoundariesAreHard /\ StrongerRungsSpent /\ EveryClaimKept
                    /\ DemotionsAreCounted /\ UnresolvedIsExplained
                    /\ LoopsAreCut /\ EveryAssetShown
                    /\ StartupOrderHolds)
BY PartsImplemented, BoundariesHold, LadderIsObeyed, ClaimsAreKept, DemotionsAgree,
   NobodyIsLeftWithoutReason, LoopsAreBroken, TreeIsComplete, OrderIsSound, PTL
   DEF ImplementsItsParts

------------------------------------------------------------------------------
(* What is handed from step to step: what is published is the snapshot of  *)
(* the catalog's assets, and what is scheduled is what was published, with *)
(* the parents that the cuts have left.                                    *)
Handed ==
  /\ "schedule" \in DOMAIN project /\ (project.schedule # None => IsSchedule(project.schedule))
  /\ stage \in {"snapshot", "published"} => phase # "idle" /\ input.subjects = DOMAIN catalog
  /\ stage = "published" => phase = "done"
  /\ planStep # "off" => stage = "published" /\ project.schedule # None /\ Rooted

LEMMA HandedStart == CompileInit => Handed
<1> SUFFICES ASSUME CompileInit PROVE Handed
  OBVIOUS
<1>1. "schedule" \in DOMAIN project /\ (project.schedule # None => IsSchedule(project.schedule))
  BY CompileAssumption DEF CompileInit
<1> QED BY <1>1 DEF CompileInit, SsmInit, PlanInit, Handed

LEMMA StepsOfSnapshot == ASSUME SsmSteps PROVE input' = input /\ phase # "done" /\ phase' # "idle"
<1>1. CASE Resolve
  BY <1>1 DEF Resolve, StartWalk, SkipRung, StopAtTie, KeepParent, DemoteParent, StopAtUnknown, EndWalk,
              OnRung, walkFrame
<1>2. CASE Search
  BY <1>2 DEF Search, StartSearch, StartPath, FollowParent, EndPath, EndSearch
<1>3. CASE CutCycle
  BY <1>3 DEF CutCycle
<1>4. CASE Arrange
  BY <1>4 DEF Arrange, StartTree, ShowAsset, EndTree
<1> QED BY <1>1, <1>2, <1>3, <1>4 DEF SsmSteps

LEMMA StepsOfSchedule ==
  ASSUME PlanSteps PROVE planStep # "off" /\ planStep' # "off" /\ register' = register
BY DEF PlanSteps, PlaceSystem, EndOrder, EnterAsset, LeaveAsset, EndNumber

LEMMA RootedCommission == ASSUME Sound, NoLoopLeft, Handed, Commission PROVE Rooted'
<1>1. /\ DOMAIN node = DOMAIN catalog /\ input.subjects = DOMAIN catalog /\ phase = "done"
      /\ register' = Register /\ IsRegister(register')
  BY DEF Commission, StartOrder, Handed, Sound, Shape, Late
<1>2. /\ register'.assets = DOMAIN catalog /\ None \notin DOMAIN catalog
      /\ \A a \in DOMAIN catalog : register'.parent[a] \in {node[a].parent, None}
  BY <1>1 DEF Register, IsRegister
<1>3. ASSUME NEW S \in SUBSET register'.assets, S # {} PROVE \E a \in S : register'.parent[a] \notin S
  <2>1. S \in SUBSET input.subjects /\ ~Closed(S)
    BY <1>1, <1>2, <1>3 DEF NoLoopLeft
  <2>2. PICK a \in S : ParentOf(a) \notin S
    BY <2>1 DEF Closed
  <2>3. node[a].parent \notin S /\ None \notin S
    BY <2>2, <1>1, <1>2, <1>3 DEF ParentOf
  <2> QED BY <2>3, <1>2, <1>3
<1> QED BY <1>3 DEF Rooted

LEMMA HandedNext == ASSUME Sound, NoLoopLeft, Handed, [CompileNext]_pipelineVars PROVE Handed'
<1>1. CASE ReadCatalog \/ RefuseCatalog \/ ResolveSystems \/ RefuseWorkbooks \/ AssembleClaims
  BY <1>1 DEF Handed, ReadCatalog, RefuseCatalog, ResolveSystems, RefuseWorkbooks, AssembleClaims,
              ssmVars, planVars, Rooted
<1>2. CASE CompileSnapshot
  <2>1. /\ input'.subjects = DOMAIN catalog /\ phase' = "resolve" /\ stage = "claims" /\ stage' = "snapshot"
        /\ UNCHANGED <<project, catalog, planStep>>
    BY <1>2 DEF CompileSnapshot, SnapshotInput, Start, planVars
  <2> QED BY <2>1 DEF Handed
<1>3. CASE SsmSteps /\ UNCHANGED <<stageVars, flowVars, planVars>>
  <2>1. UNCHANGED <<project, stage, catalog, planStep, register, input>> /\ phase # "done" /\ phase' # "idle"
    BY <1>3, StepsOfSnapshot DEF stageVars, planVars
  <2> QED BY <2>1 DEF Handed
<1>4. CASE Publish
  <2>1. /\ stage = "snapshot" /\ phase = "done" /\ stage' = "published"
        /\ UNCHANGED <<project, catalog, planStep, register, input, phase>>
    BY <1>4 DEF Publish, ssmVars, planVars
  <2> QED BY <2>1 DEF Handed
<1>5. CASE Commission
  <2>1. /\ stage = "published" /\ project.schedule # None
        /\ UNCHANGED <<project, stage, catalog, input, phase>>
    BY <1>5 DEF Commission, stageVars, ssmVars
  <2>2. Rooted'
    BY <1>5, RootedCommission
  <2> QED BY <2>1, <2>2 DEF Handed
<1>6. CASE Recompile
  <2>1. /\ planStep' = "off" /\ stage' = "catalog"
        /\ DOMAIN project' = DOMAIN project /\ project'.schedule = project.schedule
    BY <1>6 DEF Recompile, planVars, Handed
  <2> QED BY <2>1 DEF Handed
<1>7. CASE PlanSteps /\ UNCHANGED <<stageVars, ssmVars, flowVars>>
  <2>1. planStep # "off" /\ register' = register /\ UNCHANGED <<project, stage, catalog, input, phase>>
    BY <1>7, StepsOfSchedule DEF stageVars, ssmVars
  <2> QED BY <2>1 DEF Handed, Rooted
<1>8. CASE UNCHANGED <<project, stage, catalog, input, phase, planStep, register>>
  BY <1>8 DEF Handed, Rooted
<1>9. CASE BuildFlow /\ UNCHANGED <<stageVars, ssmVars, planVars>>
  BY <1>8, <1>9 DEF stageVars, ssmVars, planVars
<1>10. CASE BrowseFlow /\ UNCHANGED <<stageVars, ssmVars, planVars>>
  BY <1>8, <1>10 DEF stageVars, ssmVars, planVars
<1>11. ASSUME NEW child, NEW parent, SetRelationshipOverride(child, parent) PROVE Handed'
  BY <1>8, <1>11 DEF SetRelationshipOverride, ssmVars, planVars
<1>12. CASE ReadFlow \/ ExportExto \/ Rest \/ UNCHANGED pipelineVars
  BY <1>8, <1>12 DEF ReadFlow, ExportExto, Rest, stageVars, ssmVars, planVars, pipelineVars
<1> QED BY <1>1, <1>2, <1>3, <1>4, <1>5, <1>6, <1>7, <1>9, <1>10, <1>11, <1>12 DEF CompileNext

LEMMA AlwaysHanded == CompileSpec => []Handed
<1>1. Sound /\ NoLoopLeft /\ Handed /\ [CompileNext]_pipelineVars => Handed'
  BY HandedNext
<1>2. CompileSpec => []Sound /\ []NoLoopLeft
  BY PartsImplemented, AlwaysSound, LoopsAreGone, PTL DEF ImplementsItsParts
<1> QED BY <1>1, <1>2, HandedStart, PTL DEF CompileSpec

(* Every asset that is scheduled has its number: a group is numbered from  *)
(* one without a gap, parents on their side of their children.  The ladder *)
(* of milestones holds for every beginning of the schedule: a fuller one   *)
(* takes nothing away, rows that are no milestones only fill gaps, and a   *)
(* row that is not used says why.  This asks of the parents that they make *)
(* no loop, so it stands on the cuts of the snapshot.                      *)
THEOREM EveryoneIsScheduled == CompileSpec => []EveryAssetScheduled
<1>1. PlanInit => NumberSound
  BY DEF PlanInit, NumberSound
<1>2. NumberSound /\ [CompileNext]_pipelineVars => NumberSound'
  BY ScheduleStep, NumberNext
<1>3. Handed /\ NumberSound => EveryAssetScheduled
  <2> SUFFICES ASSUME Handed, NumberSound PROVE EveryAssetScheduled
    OBVIOUS
  <2>1. EveryAssetNumbered
    BY NumbersHold DEF Handed
  <2>2. ASSUME planStep = "planned" PROVE MilestonesHold(project.schedule)
    <3>1. IsRegister(register)
      BY <2>2 DEF NumberSound
    <3>2. IsSchedule(project.schedule)
      BY <2>2 DEF Handed
    <3> QED BY <3>1, <3>2, LadderHolds
  <2> QED BY <2>1, <2>2 DEF EveryAssetScheduled
<1> QED BY <1>1, <1>2, <1>3, PartsStart, AlwaysHanded, PTL DEF CompileSpec

------------------------------------------------------------------------------
(* Identity: the first tier that reaches a tag, or has a rename that leads *)
(* to none, decides.                                                       *)
TierReaches(i, s) ==
  LET tier == Identity!TierOrder[i]
  IN  /\ tier \in project.tiers
      /\ \/ Identity!Reached(TagIndex, project.alias, tier, s) # {}
         \/ Identity!DeadAlias(TagIndex, project.alias, tier, s)

LEMMA TierNames ==
  /\ Identity!MatchingTiers \subseteq Nat
  /\ \A i \in Identity!MatchingTiers :
       Identity!TierOrder[i] \in {"exact", "normalized", "alias", "anatomy", "suffix-unambiguous"}
BY DEF Identity!MatchingTiers, Identity!TierOrder

(* What a tier reaches are tagged assets; the one a rename leads to have   *)
(* its tag.                                                                *)
LEMMA ReachedAssets ==
  ASSUME NEW tier \in {"exact", "normalized", "alias", "anatomy", "suffix-unambiguous"}, NEW s,
         NEW found, found = Identity!Reached(TagIndex, project.alias, tier, s)
  PROVE  /\ found \subseteq DOMAIN TagIndex
         /\ tier = "alias" /\ s \in DOMAIN project.alias =>
              \A a \in DOMAIN TagIndex : a \in found <=> TagIndex[a] = project.alias[s]
         /\ tier = "alias" /\ s \notin DOMAIN project.alias => found = {}
<1> HIDE DEF TagIndex
<1>1. CASE tier = "exact"
  BY <1>1 DEF Identity!Reached
<1>2. CASE tier = "normalized"
  BY <1>2 DEF Identity!Reached
<1>3. CASE tier = "alias"
  BY <1>3 DEF Identity!Reached
<1>4. CASE tier = "anatomy"
  BY <1>4 DEF Identity!Reached
<1>5. CASE tier = "suffix-unambiguous"
  BY <1>5 DEF Identity!Reached
<1> QED BY <1>1, <1>2, <1>3, <1>4, <1>5

LEMMA TagsAreReached ==
  ASSUME NEW i \in Identity!MatchingTiers, NEW s,
         NEW found, found = Identity!Reached(TagIndex, project.alias, Identity!TierOrder[i], s)
  PROVE  /\ TagsReached(i, s) # {} <=> TierReaches(i, s)
         /\ TierReaches(i, s) /\ found # {} => TagsReached(i, s) = {TagOf(a) : a \in found}
         /\ TierReaches(i, s) /\ found = {} =>
              \A a \in DOMAIN TagIndex : TagsReached(i, s) # {TagIndex[a]}
<1> DEFINE tier == Identity!TierOrder[i]
           renamed == tier = "alias" /\ s \in DOMAIN project.alias
<1>1. \A a \in DOMAIN TagIndex : TagIndex[a] = TagOf(a)
  BY DEF TagIndex
<1>2. tier \in {"exact", "normalized", "alias", "anatomy", "suffix-unambiguous"}
  BY TierNames
<1>3. /\ found \subseteq DOMAIN TagIndex
      /\ renamed => \A a \in DOMAIN TagIndex : a \in found <=> TagIndex[a] = project.alias[s]
  BY <1>2, ReachedAssets
<1>4. TierReaches(i, s) <=> tier \in project.tiers /\ (found # {} \/ renamed)
  BY DEF TierReaches, Identity!DeadAlias
<1>5. TagsReached(i, s) =
        IF tier \in project.tiers
        THEN {TagOf(a) : a \in found} \cup (IF renamed THEN {project.alias[s]} ELSE {})
        ELSE {}
  BY DEF TagsReached
<1> HIDE DEF tier, renamed
<1>6. TagsReached(i, s) # {} <=> TierReaches(i, s)
  BY <1>4, <1>5
<1>7. ASSUME TierReaches(i, s), found # {} PROVE TagsReached(i, s) = {TagOf(a) : a \in found}
  <2>1. renamed => project.alias[s] \in {TagOf(a) : a \in found}
    BY <1>1, <1>3, <1>7
  <2> QED BY <2>1, <1>4, <1>5, <1>7
<1>8. ASSUME TierReaches(i, s), found = {}, NEW a \in DOMAIN TagIndex PROVE TagsReached(i, s) # {TagIndex[a]}
  <2>1. renamed /\ TagsReached(i, s) = {project.alias[s]}
    BY <1>4, <1>5, <1>8
  <2>2. TagIndex[a] # project.alias[s]
    BY <2>1, <1>3, <1>8
  <2> QED BY <2>1, <2>2
<1> QED BY <1>6, <1>7, <1>8

LEMMA SameCount == \A S : Identity!Cardinality(S) = Cardinality(S)
BY DEF Identity!Cardinality, Cardinality

(* The outcome, by the first tier that decides.                            *)
Deciding(s) == {i \in Identity!MatchingTiers : TierReaches(i, s)}
FirstTier(s) == CHOOSE i \in Deciding(s) : \A j \in Deciding(s) : i <= j

LEMMA OutcomeByTier ==
  ASSUME NEW s, NEW outcome, outcome = ResolveTag(s),
         NEW found, found = Identity!Reached(TagIndex, project.alias, Identity!TierOrder[FirstTier(s)], s)
  PROVE  /\ Deciding(s) = {} => outcome.asset = None
         /\ Deciding(s) # {} /\ found = {} =>
              outcome.asset = None /\ outcome.refusal = "unresolvable-alias"
         /\ Deciding(s) # {} /\ found # {} /\ Cardinality({TagIndex[a] : a \in found}) > 1 =>
              outcome.asset = None /\ outcome.refusal = "ambiguous-suffix"
         /\ Deciding(s) # {} /\ found # {} /\ ~(Cardinality({TagIndex[a] : a \in found}) > 1) =>
              outcome.tier = FirstTier(s) /\ outcome.asset = CHOOSE a \in found : \A b \in found : a <= b
<1> DEFINE deciding == {i \in Identity!MatchingTiers :
                          /\ Identity!TierOrder[i] \in project.tiers
                          /\ \/ Identity!Reached(TagIndex, project.alias, Identity!TierOrder[i], s) # {}
                             \/ Identity!DeadAlias(TagIndex, project.alias, Identity!TierOrder[i], s)}
           tier == CHOOSE i \in deciding : \A j \in deciding : i <= j
           reached == Identity!Reached(TagIndex, project.alias, Identity!TierOrder[tier], s)
           several == Identity!Cardinality({TagIndex[a] : a \in reached}) > 1
           first == CHOOSE a \in reached : \A b \in reached : a <= b
           refused(kind) == [asset |-> None, tier |-> None, refusal |-> kind]
           match == [asset |-> first, tier |-> tier, refusal |-> ""]
<1>1. ResolveTag(s) =
        IF deciding = {} THEN
          IF "fuzzy-proposal" \in project.tiers /\ \E a \in DOMAIN TagIndex : <<s, TagIndex[a]>> \in Near
          THEN refused("fuzzy-identity") ELSE refused("")
        ELSE IF reached = {} THEN refused("unresolvable-alias")
        ELSE IF several THEN refused("ambiguous-suffix") ELSE match
  BY Zenon DEF ResolveTag, Identity!ResolveOne
<1>2. deciding = Deciding(s)
  BY DEF TierReaches, Deciding
<1>3. tier = FirstTier(s)
  BY <1>2 DEF FirstTier
<1>4. reached = found
  BY <1>3
<1>5. several <=> Cardinality({TagIndex[a] : a \in found}) > 1
  BY <1>4, SameCount
<1>6. first = CHOOSE a \in found : \A b \in found : a <= b
  BY <1>4
<1>7. /\ match.asset = first /\ match.tier = tier
      /\ \A kind : refused(kind).asset = None /\ refused(kind).refusal = kind
  OBVIOUS
<1> HIDE DEF deciding, tier, reached, several, first, match, refused
<1> QED BY <1>1, <1>2, <1>3, <1>4, <1>5, <1>6, <1>7

LEMMA FirstTierDecides ==
  ASSUME NEW s, Deciding(s) # {}
  PROVE  FirstTier(s) \in Deciding(s) /\ \A i \in Deciding(s) : FirstTier(s) <= i
<1>1. Deciding(s) \subseteq Nat
  BY DEF Deciding, Identity!MatchingTiers
<1>2. \E i \in Deciding(s) : \A j \in Deciding(s) : i <= j
  BY <1>1, LeastNatural
<1> QED BY <1>2 DEF FirstTier

LEMMA OutcomeOf ==
  ASSUME NEW s, NEW i \in Identity!MatchingTiers, TierReaches(i, s),
         \A j \in 1..(i - 1) : ~TierReaches(j, s),
         NEW found, found = Identity!Reached(TagIndex, project.alias, Identity!TierOrder[i], s),
         NEW outcome, outcome = ResolveTag(s)
  PROVE  /\ found = {} => outcome.asset = None /\ outcome.refusal = "unresolvable-alias"
         /\ found # {} /\ Cardinality({TagIndex[a] : a \in found}) > 1 =>
              outcome.asset = None /\ outcome.refusal = "ambiguous-suffix"
         /\ found # {} /\ ~(Cardinality({TagIndex[a] : a \in found}) > 1) =>
              outcome.asset = CHOOSE a \in found : \A b \in found : a <= b
<1>1. i \in Deciding(s)
  BY DEF Deciding
<1>2. FirstTier(s) \in Deciding(s) /\ FirstTier(s) <= i
  BY <1>1, FirstTierDecides
<1>3. FirstTier(s) \in Nat /\ FirstTier(s) > 0 /\ i \in Nat /\ TierReaches(FirstTier(s), s)
  BY <1>2 DEF Deciding, Identity!MatchingTiers
<1>4. FirstTier(s) = i
  BY <1>2, <1>3
<1> QED BY <1>1, <1>4, OutcomeByTier

(* The tier of a match is one of the five.                                 *)
LEMMA TierOfMatch ==
  ASSUME NEW s, NEW outcome, outcome = ResolveTag(s), outcome.asset # None PROVE outcome.tier \in 1..5
<1>1. Deciding(s) # {} /\ outcome.tier = FirstTier(s)
  BY OutcomeByTier
<1>2. FirstTier(s) \in Identity!MatchingTiers
  BY <1>1, FirstTierDecides DEF Deciding
<1> QED BY <1>1, <1>2 DEF Identity!MatchingTiers

(* The tree is built one asset at a time, so a finished compile is finite. *)
LEMMA ShownIsFinite == SsmSpec => []IsFiniteSet(shown)
<1>1. SsmInit => IsFiniteSet(shown)
  BY FS_EmptySet DEF SsmInit
<1>2. IsFiniteSet(shown) /\ [SsmNext]_ssmVars => IsFiniteSet(shown)'
  <2> SUFFICES ASSUME IsFiniteSet(shown), [SsmNext]_ssmVars PROVE IsFiniteSet(shown')
    OBVIOUS
  <2>1. CASE ShowAsset
    BY <2>1, FS_AddElement DEF ShowAsset
  <2>2. CASE shown' = shown
    BY <2>2
  <2>3. CASE Reset
    BY <2>3, FS_EmptySet DEF Reset
  <2>4. CASE Resolve
    BY <2>4, <2>2 DEF Resolve, StartWalk, SkipRung, StopAtTie, KeepParent, DemoteParent, StopAtUnknown,
                      EndWalk, walkFrame, treeVars
  <2>5. CASE Search
    BY <2>5, <2>2 DEF Search, StartSearch, StartPath, FollowParent, EndPath, EndSearch, treeVars
  <2>6. CASE Start \/ CutCycle \/ StartTree \/ EndTree \/ UNCHANGED ssmVars
    BY <2>6, <2>2 DEF Start, CutCycle, StartTree, EndTree, treeVars, ssmVars
  <2> QED BY <2>1, <2>3, <2>4, <2>5, <2>6 DEF SsmNext, SsmSteps, Arrange
<1> QED BY <1>1, <1>2, PTL DEF SsmSpec

(* While nothing is compiled anew, every spelling of the observations is   *)
(* what Identity makes of it, and what was refused is in the queue.        *)
Matched == outcomes = [s \in Endpoints(evidence) |-> ResolveTag(s)]
MatchingSound ==
  /\ stage \in {"claims", "snapshot", "published"} => Matched
  /\ stage = "flow" => flowStep = "idle" \/ Matched
  /\ stage \in {"catalog", "systems"} => flowStep = "idle"
  /\ stage = "published" => Identity!IdentityReviews(outcomes) \subseteq reviewItems

LEMMA StepsOfFlow ==
  ASSUME BuildFlow \/ BrowseFlow
  PROVE  /\ evidence' = evidence /\ outcomes' = outcomes
         /\ flowStep' = "idle" <=> flowStep = "idle"
BY DEF BuildFlow, PlaceObservation, EndPlace, StartRoot, TrySuccessor, Return, EndTarjan, StartLoop,
       ExpandLoop, CloseLoop, EndLoops, BrowseFlow, StartBrowse, EnterNode, SkipEntered, graphVars

LEMMA MatchedStays ==
  ASSUME UNCHANGED <<project, catalog, evidence, outcomes>> PROVE Matched' = Matched
BY DEF Matched, ResolveTag, TagIndex, TagOf

LEMMA MatchingNext == ASSUME MatchingSound, [CompileNext]_pipelineVars PROVE MatchingSound'
<1>1. CASE ReadCatalog \/ RefuseCatalog \/ RefuseWorkbooks \/ ResolveSystems
  BY <1>1 DEF MatchingSound, ReadCatalog, RefuseCatalog, RefuseWorkbooks, ResolveSystems, flowVars
<1>2. CASE Recompile
  BY <1>2 DEF MatchingSound, Recompile, DropFlow
<1>3. CASE ReadFlow
  <2>1. /\ UNCHANGED <<project, catalog, stage>> /\ stage = "flow"
        /\ outcomes' = [s \in Endpoints(evidence') |-> ResolveTag(s)]
    BY <1>3 DEF ReadFlow, stageVars
  <2>2. \A s : ResolveTag(s)' = ResolveTag(s)
    BY <2>1 DEF ResolveTag, TagIndex, TagOf
  <2>3. Matched'
    BY <2>1, <2>2 DEF Matched, Endpoints
  <2> QED BY <2>1, <2>3 DEF MatchingSound
<1>4. CASE BuildFlow /\ UNCHANGED <<stageVars, ssmVars, planVars>>
  <2>1. /\ UNCHANGED <<project, catalog, stage, reviewItems, evidence, outcomes>>
        /\ flowStep' = "idle" <=> flowStep = "idle"
    BY <1>4, StepsOfFlow DEF stageVars
  <2> QED BY <2>1, MatchedStays DEF MatchingSound
<1>5. CASE BrowseFlow /\ UNCHANGED <<stageVars, ssmVars, planVars>>
  <2>1. /\ UNCHANGED <<project, catalog, stage, reviewItems, evidence, outcomes>>
        /\ flowStep' = "idle" <=> flowStep = "idle"
    BY <1>5, StepsOfFlow DEF stageVars
  <2> QED BY <2>1, MatchedStays DEF MatchingSound
<1>6. CASE AssembleClaims
  <2>1. /\ stage = "flow" /\ flowStep = "built" /\ stage' = "claims"
        /\ UNCHANGED <<project, catalog, evidence, outcomes, flowStep>>
    BY <1>6 DEF AssembleClaims, flowVars
  <2> QED BY <2>1, MatchedStays DEF MatchingSound
<1>7. CASE CompileSnapshot
  <2>1. /\ stage = "claims" /\ stage' = "snapshot"
        /\ UNCHANGED <<project, catalog, evidence, outcomes, flowStep>>
    BY <1>7 DEF CompileSnapshot, flowVars
  <2> QED BY <2>1, MatchedStays DEF MatchingSound
<1>8. CASE Publish
  <2>1. /\ stage = "snapshot" /\ stage' = "published"
        /\ Identity!IdentityReviews(outcomes) \subseteq reviewItems'
        /\ UNCHANGED <<project, catalog, evidence, outcomes, flowStep>>
    BY <1>8 DEF Publish, flowVars
  <2>2. Identity!IdentityReviews(outcomes)' = Identity!IdentityReviews(outcomes)
    BY <2>1
  <2> QED BY <2>1, <2>2, MatchedStays DEF MatchingSound
<1>9. CASE UNCHANGED <<project, catalog, stage, reviewItems, evidence, outcomes, flowStep>>
  BY <1>9, MatchedStays DEF MatchingSound
<1>10. ASSUME NEW child, NEW parent, SetRelationshipOverride(child, parent) PROVE MatchingSound'
  BY <1>9, <1>10 DEF SetRelationshipOverride, flowVars
<1>11. CASE SsmSteps /\ UNCHANGED <<stageVars, flowVars, planVars>>
  BY <1>9, <1>11 DEF stageVars, flowVars
<1>12. CASE PlanSteps /\ UNCHANGED <<stageVars, ssmVars, flowVars>>
  BY <1>9, <1>12 DEF stageVars, flowVars
<1>13. CASE Commission \/ ExportExto \/ Rest \/ UNCHANGED pipelineVars
  BY <1>9, <1>13 DEF Commission, ExportExto, Rest, stageVars, flowVars, pipelineVars
<1> QED BY <1>1, <1>2, <1>3, <1>4, <1>5, <1>6, <1>7, <1>8, <1>10, <1>11, <1>12, <1>13 DEF CompileNext

LEMMA AlwaysMatched == CompileSpec => []MatchingSound
<1>1. CompileInit => MatchingSound
  BY DEF CompileInit, FlowInit, MatchingSound
<1>2. MatchingSound /\ [CompileNext]_pipelineVars => MatchingSound'
  BY MatchingNext
<1> QED BY <1>1, <1>2, PTL DEF CompileSpec

(* No spelling is matched on a guess: whatever the tiers in use, the model *)
(* and the renames, a spelling means the one tag the first tier to reach   *)
(* any reaches, and where that tier reaches several, or its rename leads   *)
(* to no asset, the review queue says so and no later tier is asked.       *)
THEOREM NothingIsGuessed == CompileSpec => []NoGuessedMatch
<1>1. ASSUME Sound, EveryAssetShown, IsFiniteSet(shown), Handed, MatchingSound PROVE NoGuessedMatch
  <2> SUFFICES ASSUME stage = "published", NEW s \in DOMAIN outcomes, NEW i \in Identity!MatchingTiers,
                      TagsReached(i, s) # {}, \A j \in 1..(i - 1) : TagsReached(j, s) = {}
               PROVE  \/ outcomes[s].asset # None /\ {TagOf(outcomes[s].asset)} = TagsReached(i, s)
                      \/ /\ outcomes[s].asset = None
                         /\ \E r \in reviewItems :
                              r.kind \in {"ambiguous-suffix", "unresolvable-alias"} /\ r.spelling = s
                         /\ ~ \E a \in DOMAIN TagIndex : TagsReached(i, s) = {TagIndex[a]}
    BY DEF NoGuessedMatch
  <2> DEFINE found == Identity!Reached(TagIndex, project.alias, Identity!TierOrder[i], s)
             tags  == {TagIndex[a] : a \in found}
  <2>1. /\ DOMAIN TagIndex \subseteq DOMAIN catalog /\ IsFiniteSet(DOMAIN TagIndex)
        /\ DOMAIN TagIndex \subseteq Int /\ None \notin DOMAIN TagIndex
        /\ \A a \in DOMAIN TagIndex : TagIndex[a] = TagOf(a)
    <3>1. DOMAIN catalog = shown /\ DOMAIN catalog \subseteq Assets
      BY <1>1 DEF Handed, EveryAssetShown, Sound, SsmTypeOK, IsCompileInput
    <3>2. DOMAIN TagIndex \subseteq DOMAIN catalog /\ \A a \in DOMAIN TagIndex : TagIndex[a] = TagOf(a)
      BY DEF TagIndex
    <3> HIDE DEF TagIndex
    <3>3. IsFiniteSet(DOMAIN TagIndex)
      BY <3>1, <3>2, <1>1, FS_Subset
    <3> QED BY <3>1, <3>2, <3>3, SsmCompilerAssumption
  <2>2. found \subseteq DOMAIN TagIndex
    BY TierNames, ReachedAssets
  <2>3. /\ TierReaches(i, s) /\ \A j \in 1..(i - 1) : ~TierReaches(j, s)
        /\ found # {} => TagsReached(i, s) = {TagOf(a) : a \in found}
        /\ found = {} => \A a \in DOMAIN TagIndex : TagsReached(i, s) # {TagIndex[a]}
    <3>1. 1..(i - 1) \subseteq Identity!MatchingTiers
      BY DEF Identity!MatchingTiers
    <3>2. TierReaches(i, s)
      BY TagsAreReached
    <3>3. ASSUME NEW j \in 1..(i - 1) PROVE ~TierReaches(j, s)
      BY <3>1, <3>3, TagsAreReached
    <3> QED BY <3>2, <3>3, TagsAreReached
  <2>4. found # {} => TagsReached(i, s) = tags
    BY <2>1, <2>2, <2>3
  <2>5. outcomes[s] = ResolveTag(s)
    BY <1>1 DEF MatchingSound, Matched
  <2> HIDE DEF found
  <2>6. /\ found = {} => outcomes[s].asset = None /\ outcomes[s].refusal = "unresolvable-alias"
        /\ found # {} /\ Cardinality(tags) > 1 =>
             outcomes[s].asset = None /\ outcomes[s].refusal = "ambiguous-suffix"
        /\ found # {} /\ ~(Cardinality(tags) > 1) =>
             outcomes[s].asset = CHOOSE a \in found : \A b \in found : a <= b
    <3>1. TierReaches(i, s) /\ \A j \in 1..(i - 1) : ~TierReaches(j, s)
      BY <2>3
    <3>2. found = Identity!Reached(TagIndex, project.alias, Identity!TierOrder[i], s)
      BY DEF found
    <3> QED BY <2>5, <3>1, <3>2, OutcomeOf
  <2>7. ASSUME outcomes[s].refusal \in {"ambiguous-suffix", "unresolvable-alias"}
        PROVE  \E r \in reviewItems : r.kind \in {"ambiguous-suffix", "unresolvable-alias"} /\ r.spelling = s
    <3>1. [kind |-> outcomes[s].refusal, spelling |-> s] \in reviewItems
      BY <2>7, <1>1 DEF MatchingSound, Identity!IdentityReviews
    <3> QED BY <3>1, <2>7
  <2> HIDE DEF TagIndex
  <2>8. CASE found = {}
    BY <2>3, <2>6, <2>7, <2>8
  <2>9. CASE found # {} /\ Cardinality(tags) > 1
    <3>1. ASSUME NEW t, tags = {t} PROVE FALSE
      <4>1. Cardinality({t}) = 1
        BY FS_Singleton
      <4> HIDE DEF tags
      <4> QED BY <4>1, <2>9, <3>1
    <3> QED BY <3>1, <2>4, <2>6, <2>7, <2>9
  <2>10. CASE found # {} /\ ~(Cardinality(tags) > 1)
    <3>1. IsFiniteSet(found) /\ found \subseteq Int
      BY <2>1, <2>2, FS_Subset
    <3>2. IsFiniteSet(tags)
      <4> DEFINE f == [a \in found |-> TagIndex[a]]
      <4>1. f \in Surjection(found, tags)
        BY DEF Surjection
      <4> QED BY <4>1, <3>1, FS_Surjection
    <3>3. \E a \in found : \A b \in found : a <= b
      BY <3>1, <2>10, LeastInteger
    <3>4. outcomes[s].asset \in found
      BY <3>3, <2>6, <2>10
    <3>5. TagIndex[outcomes[s].asset] \in tags
      BY <3>4
    <3>6. Cardinality(tags) = 1
      <4>1. Cardinality(tags) \in Nat /\ (Cardinality(tags) = 0 <=> tags = {})
        BY <3>2, FS_CardinalityType, FS_EmptySet
      <4> HIDE DEF tags
      <4> QED BY <4>1, <3>5, <2>10
    <3>7. tags = {TagIndex[outcomes[s].asset]}
      <4>1. \E t : tags = {t}
        BY <3>2, <3>6, FS_Singleton
      <4> QED BY <4>1, <3>5
    <3> QED BY <3>4, <3>7, <2>1, <2>2, <2>4, <2>10
  <2> QED BY <2>8, <2>9, <2>10
<1>2. CompileSpec => []Sound /\ []EveryAssetShown /\ []IsFiniteSet(shown)
  BY PartsImplemented, AlwaysSound, TreeIsComplete, ShownIsFinite, PTL DEF ImplementsItsParts
<1> QED BY <1>1, <1>2, AlwaysHanded, AlwaysMatched, PTL
------------------------------------------------------------------------------
(* The electrical flow: what a draft says of the spellings joined in it.   *)
DraftHolds(d, n, tags) ==
  /\ d.tags = tags /\ d.display \in tags
  /\ \A s \in tags : \/ SpellingRank(d.display) < SpellingRank(s)
                     \/ SpellingRank(d.display) = SpellingRank(s) /\ d.display <= s
  /\ d.rank = SpellingRank(d.display) /\ d.tier = d.rank
  /\ d.asset = IF \E s \in tags : IsMatched(s) THEN n ELSE None
  /\ d.status = IF \E s \in tags : IsMatched(s) THEN "model-confirmed" ELSE UnmatchedStatus(n)
On(n, read) == {s \in read : NodeId(s) = n}
DraftsHold(map, read) ==
  /\ DOMAIN map = {NodeId(s) : s \in read}
  /\ \A n \in DOMAIN map : DraftHolds(map[n], n, On(n, read))

(* Spellings are ordered, and so are the tiers that match them.            *)
IsSpelling(s) == s \in Int /\ (IsMatched(s) => outcomes[s].tier \in 1..5)

LEMMA RankType ==
  ASSUME NEW s, IsSpelling(s)
  PROVE  SpellingRank(s) \in 1..7 /\ (IsMatched(s) <=> SpellingRank(s) < 7) /\ NodeId(s) # None
BY CommissioningAssumption DEF IsSpelling, SpellingRank, UnmatchedRank, NodeId, IsMatched

LEMMA DraftIsNew ==
  ASSUME NEW s, IsSpelling(s) PROVE DraftHolds(NewDraft(s), NodeId(s), {s})
<1>1. SpellingRank(s) \in Int /\ s \in Int
  BY RankType DEF IsSpelling
<1>2. outcomes[s].asset = IF IsMatched(s) THEN NodeId(s) ELSE None
  BY DEF NodeId, IsMatched
<1>3. ~IsMatched(s) => NodeId(s) = s
  BY DEF NodeId
<1>4. /\ NewDraft(s).tags = {s} /\ NewDraft(s).asset = outcomes[s].asset
      /\ NewDraft(s).tier = SpellingRank(s) /\ NewDraft(s).display = s /\ NewDraft(s).rank = SpellingRank(s)
      /\ NewDraft(s).status = IF IsMatched(s) THEN "model-confirmed" ELSE UnmatchedStatus(s)
  BY DEF NewDraft
<1>5. (\E t \in {s} : IsMatched(t)) <=> IsMatched(s)
  OBVIOUS
<1> HIDE DEF NewDraft
<1> QED BY <1>1, <1>2, <1>3, <1>4, <1>5 DEF DraftHolds

LEMMA DraftIsJoined ==
  ASSUME NEW d, NEW n, NEW tags, \A t \in tags : IsSpelling(t), DraftHolds(d, n, tags),
         NEW s, IsSpelling(s), NodeId(s) = n
  PROVE  DraftHolds(JoinDraft(d, s), n, tags \cup {s})
<1> DEFINE j == JoinDraft(d, s)
           closer == \/ SpellingRank(s) < d.rank
                     \/ SpellingRank(s) = d.rank /\ s < d.display
           promoted == IsMatched(s) /\ d.asset = None
<1>1. /\ j.tags = d.tags \cup {s}
      /\ j.asset = IF promoted THEN outcomes[s].asset ELSE d.asset
      /\ j.status = IF promoted THEN "model-confirmed" ELSE d.status
      /\ j.tier = IF SpellingRank(s) < d.tier THEN SpellingRank(s) ELSE d.tier
      /\ j.display = IF closer THEN s ELSE d.display
      /\ j.rank = IF closer THEN SpellingRank(s) ELSE d.rank
  BY DEF JoinDraft
<1>2. /\ s \in Int /\ SpellingRank(s) \in Int /\ d.display \in tags
      /\ \A t \in tags : t \in Int /\ SpellingRank(t) \in Int
  BY RankType DEF DraftHolds, IsSpelling
<1>3. /\ d.tags = tags /\ d.rank = SpellingRank(d.display) /\ d.tier = d.rank
      /\ \A t \in tags : \/ SpellingRank(d.display) < SpellingRank(t)
                         \/ SpellingRank(d.display) = SpellingRank(t) /\ d.display <= t
  BY DEF DraftHolds
<1>4. /\ d.asset = IF \E t \in tags : IsMatched(t) THEN n ELSE None
      /\ d.status = IF \E t \in tags : IsMatched(t) THEN "model-confirmed" ELSE UnmatchedStatus(n)
  BY DEF DraftHolds
<1>5. n # None /\ (IsMatched(s) => outcomes[s].asset = n)
  BY RankType DEF NodeId
<1> HIDE DEF j
<1>6. /\ j.display \in tags \cup {s} /\ j.rank = SpellingRank(j.display) /\ j.tier = j.rank
      /\ \A t \in tags \cup {s} : \/ SpellingRank(j.display) < SpellingRank(t)
                                  \/ SpellingRank(j.display) = SpellingRank(t) /\ j.display <= t
  <2>1. \A t \in tags : t \in Int /\ SpellingRank(t) \in Int
    BY <1>2
  <2>2. CASE closer
    <3>1. j.display = s /\ j.rank = SpellingRank(s)
      BY <2>2, <1>1
    <3>2. j.tier = SpellingRank(s)
      BY <2>2, <1>1, <1>2, <1>3
    <3>3. ASSUME NEW t \in tags
          PROVE  SpellingRank(s) < SpellingRank(t) \/ (SpellingRank(s) = SpellingRank(t) /\ s <= t)
      BY <2>1, <2>2, <1>2, <1>3
    <3>4. SpellingRank(s) = SpellingRank(s) /\ s <= s
      BY <1>2
    <3>5. ASSUME NEW t \in tags \cup {s}
          PROVE  \/ SpellingRank(j.display) < SpellingRank(t)
                 \/ SpellingRank(j.display) = SpellingRank(t) /\ j.display <= t
      <4>1. CASE t = s
        BY <4>1, <3>1, <3>4
      <4>2. CASE t \in tags
        BY <4>2, <3>1, <3>3
      <4> QED BY <4>1, <4>2
    <3>6. j.display \in tags \cup {s} /\ j.rank = SpellingRank(j.display) /\ j.tier = j.rank
      BY <3>1, <3>2
    <3> QED BY <3>5, <3>6
  <2>3. CASE ~closer
    <3>1. j.display = d.display /\ j.rank = d.rank
      BY <2>3, <1>1
    <3>2. j.tier = d.rank
      BY <2>3, <1>1, <1>2, <1>3
    <3>3. \/ SpellingRank(d.display) < SpellingRank(s)
          \/ SpellingRank(d.display) = SpellingRank(s) /\ d.display <= s
      BY <2>3, <2>1, <1>2, <1>3
    <3>4. ASSUME NEW t \in tags \cup {s}
          PROVE  \/ SpellingRank(j.display) < SpellingRank(t)
                 \/ SpellingRank(j.display) = SpellingRank(t) /\ j.display <= t
      <4>1. CASE t = s
        BY <4>1, <3>1, <3>3
      <4>2. CASE t \in tags
        BY <4>2, <3>1, <1>3
      <4> QED BY <4>1, <4>2
    <3>5. j.display \in tags \cup {s} /\ j.rank = SpellingRank(j.display) /\ j.tier = j.rank
      BY <3>1, <3>2, <1>2, <1>3
    <3> QED BY <3>4, <3>5
  <2> QED BY <2>2, <2>3
<1>7. (\E t \in tags \cup {s} : IsMatched(t)) <=> (IsMatched(s) \/ \E t \in tags : IsMatched(t))
  OBVIOUS
<1>8. /\ j.asset = IF \E t \in tags \cup {s} : IsMatched(t) THEN n ELSE None
      /\ j.status = IF \E t \in tags \cup {s} : IsMatched(t) THEN "model-confirmed" ELSE UnmatchedStatus(n)
  BY <1>1, <1>4, <1>5, <1>7
<1> QED BY <1>1, <1>3, <1>6, <1>8 DEF j, DraftHolds

LEMMA EndIsPlaced ==
  ASSUME NEW map, NEW read, \A t \in read : IsSpelling(t), DraftsHold(map, read), NEW s, IsSpelling(s)
  PROVE  DraftsHold(PlaceEnd(map, s), read \cup {s})
<1>1. DOMAIN map = {NodeId(t) : t \in read} /\ \A n \in DOMAIN map : DraftHolds(map[n], n, On(n, read))
  BY DEF DraftsHold
<1>2. /\ DOMAIN PlaceEnd(map, s) = DOMAIN map \cup {NodeId(s)}
      /\ \A n \in DOMAIN map \ {NodeId(s)} : PlaceEnd(map, s)[n] = map[n]
      /\ PlaceEnd(map, s)[NodeId(s)] =
           IF NodeId(s) \in DOMAIN map THEN JoinDraft(map[NodeId(s)], s) ELSE NewDraft(s)
  BY DEF PlaceEnd
<1>3. /\ On(NodeId(s), read \cup {s}) = On(NodeId(s), read) \cup {s}
      /\ \A n : n # NodeId(s) => On(n, read \cup {s}) = On(n, read)
      /\ NodeId(s) \notin DOMAIN map => On(NodeId(s), read) = {}
      /\ \A t \in On(NodeId(s), read) : IsSpelling(t)
  BY <1>1 DEF On
<1>4. DraftHolds(PlaceEnd(map, s)[NodeId(s)], NodeId(s), On(NodeId(s), read \cup {s}))
  <2>1. CASE NodeId(s) \in DOMAIN map
    BY <2>1, <1>1, <1>2, <1>3, DraftIsJoined
  <2>2. CASE NodeId(s) \notin DOMAIN map
    <3>1. On(NodeId(s), read \cup {s}) = {s}
      BY <2>2, <1>3
    <3> QED BY <3>1, <2>2, <1>2, DraftIsNew
  <2> QED BY <2>1, <2>2
<1>5. \A n \in DOMAIN PlaceEnd(map, s) : DraftHolds(PlaceEnd(map, s)[n], n, On(n, read \cup {s}))
  BY <1>1, <1>2, <1>3, <1>4
<1>6. DOMAIN PlaceEnd(map, s) = {NodeId(t) : t \in read \cup {s}}
  BY <1>1, <1>2
<1> QED BY <1>5, <1>6 DEF DraftsHold
(* While the observations are placed, the drafts are those of the ends of  *)
(* the observations that were read, in whatever order they were.           *)
DraftsSound ==
  /\ "workbooks" \in DOMAIN project
  /\ ~ Import!MisfitIn(project.workbooks) => Endpoints(Import!Imported(project.workbooks)) \subseteq Int
  /\ flowStep = "idle" => drafts = <<>>
  /\ flowStep # "idle" =>
       /\ unread \subseteq evidence /\ \A s \in Endpoints(evidence) : IsSpelling(s)
       /\ DraftsHold(drafts, Endpoints(evidence \ unread))
  /\ flowStep \notin {"idle", "place"} => unread = {}

LEMMA ObservationIsPlaced ==
  ASSUME NEW read, NEW o, \A s \in read \cup {o.from, o.to} : IsSpelling(s), DraftsHold(drafts, read)
  PROVE  DraftsHold(PlaceEnd(PlaceEnd(drafts, o.from), o.to), read \cup {o.from} \cup {o.to})
<1>1. DraftsHold(PlaceEnd(drafts, o.from), read \cup {o.from})
  BY EndIsPlaced
<1> HIDE DEF PlaceEnd
<1> QED BY <1>1, EndIsPlaced

LEMMA DraftsStay ==
  ASSUME UNCHANGED <<evidence, outcomes, drafts, unread>>
  PROVE  /\ \A read : DraftsHold(drafts, read)' = DraftsHold(drafts, read)
         /\ \A s : IsSpelling(s)' = IsSpelling(s)
BY DEF DraftsHold, DraftHolds, On, IsSpelling, IsMatched, NodeId, SpellingRank, UnmatchedStatus

LEMMA DraftsPlace == ASSUME DraftsSound, PlaceObservation, UNCHANGED project PROVE DraftsSound'
<1>1. PICK o \in unread : /\ unread' = unread \ {o}
                          /\ drafts' = PlaceEnd(PlaceEnd(drafts, o.from), o.to)
  BY DEF PlaceObservation
<1>2. flowStep = "place" /\ UNCHANGED <<evidence, outcomes, flowStep>>
  BY DEF PlaceObservation
<1> DEFINE read == Endpoints(evidence \ unread)
<1>3. /\ unread \subseteq evidence /\ \A s \in Endpoints(evidence) : IsSpelling(s)
      /\ DraftsHold(drafts, read)
  BY <1>2 DEF DraftsSound
<1>4. /\ Endpoints(evidence' \ unread') = read \cup {o.from} \cup {o.to}
      /\ read \cup {o.from, o.to} \subseteq Endpoints(evidence)
  BY <1>1, <1>2, <1>3 DEF Endpoints
<1> HIDE DEF read
<1>5. DraftsHold(drafts', read \cup {o.from} \cup {o.to})
  <2>1. \A s \in read \cup {o.from, o.to} : IsSpelling(s)
    BY <1>3, <1>4
  <2>2. DraftsHold(PlaceEnd(PlaceEnd(drafts, o.from), o.to), read \cup {o.from} \cup {o.to})
    BY <2>1, <1>3, ObservationIsPlaced
  <2> QED BY <2>2, <1>1
<1>6. DraftsHold(drafts, Endpoints(evidence \ unread))'
        <=> DraftsHold(drafts', Endpoints(evidence' \ unread'))
  BY <1>2 DEF DraftsHold, DraftHolds, On, IsMatched, NodeId, SpellingRank, UnmatchedStatus, Endpoints
<1>7. \A s : IsSpelling(s)' = IsSpelling(s)
  BY <1>2 DEF IsSpelling, IsMatched
<1>8. unread' \subseteq evidence' /\ (\A s \in Endpoints(evidence) : IsSpelling(s))'
  BY <1>1, <1>2, <1>3, <1>7 DEF Endpoints
<1> QED BY <1>2, <1>4, <1>5, <1>6, <1>8 DEF DraftsSound

LEMMA DraftsRead == ASSUME DraftsSound, ReadFlow PROVE DraftsSound'
<1>1. /\ UNCHANGED project /\ flowStep = "idle" /\ flowStep' = "place"
      /\ unread' = evidence' /\ drafts' = <<>>
      /\ evidence' = Import!Imported(project.workbooks)
      /\ outcomes' = [s \in Endpoints(evidence') |-> ResolveTag(s)]
      /\ ~ Import!MisfitIn(project.workbooks)
  BY DEF ReadFlow, StartFlow, stageVars, DraftsSound
<1>2. \A s \in Endpoints(evidence') : IsSpelling(s)'
  <2> SUFFICES ASSUME NEW s \in Endpoints(evidence') PROVE IsSpelling(s)'
    OBVIOUS
  <2>1. s \in Int
    BY <1>1 DEF DraftsSound
  <2>2. outcomes'[s] = ResolveTag(s)
    BY <1>1
  <2>3. outcomes'[s].asset # None => outcomes'[s].tier \in 1..5
    BY <2>2, TierOfMatch
  <2> QED BY <2>1, <2>3 DEF IsSpelling, IsMatched
<1>3. DraftsHold(drafts, Endpoints(evidence \ unread))'
  <2>1. Endpoints(evidence' \ unread') = {} /\ DOMAIN drafts' = {}
    BY <1>1 DEF Endpoints
  <2> QED BY <2>1 DEF DraftsHold, Endpoints
<1>4. (\A s \in Endpoints(evidence) : IsSpelling(s))'
  BY <1>2 DEF Endpoints
<1> QED BY <1>1, <1>3, <1>4 DEF DraftsSound

LEMMA DraftsNext == ASSUME DraftsSound, [CompileNext]_pipelineVars PROVE DraftsSound'
<1>1. CASE ReadFlow
  BY <1>1, DraftsRead
<1>2. CASE PlaceObservation /\ UNCHANGED <<stageVars, ssmVars, planVars>>
  BY <1>2, DraftsPlace DEF stageVars
<1>3. CASE Recompile
  <2>1. flowStep' = "idle" /\ drafts' = <<>> /\ DOMAIN project' = DOMAIN project
        /\ project'.workbooks = project.workbooks
    BY <1>3 DEF Recompile, DropFlow, DraftsSound
  <2> QED BY <2>1 DEF DraftsSound
<1>4. ASSUME UNCHANGED <<project, evidence, outcomes, unread, drafts>>, flowStep' = "idle" <=> flowStep = "idle",
             flowStep' \in {"idle", "place"} \/ unread = {}
      PROVE  DraftsSound'
  BY <1>4, DraftsStay DEF DraftsSound, Endpoints
<1>5. ASSUME UNCHANGED <<project, flowVars>> PROVE DraftsSound'
  BY <1>4, <1>5 DEF flowVars, DraftsSound
<1>6. CASE BuildFlow /\ UNCHANGED <<stageVars, ssmVars, planVars>>
  <2>1. \/ PlaceObservation
        \/ /\ UNCHANGED <<evidence, outcomes, unread, drafts>> /\ (flowStep' = "idle" <=> flowStep = "idle")
           /\ flowStep' = flowStep \/ unread = {} \/ flowStep \notin {"idle", "place"}
    BY <1>6 DEF BuildFlow, EndPlace, StartRoot, TrySuccessor, Return, EndTarjan, StartLoop, ExpandLoop,
                CloseLoop, EndLoops, graphVars
  <2>2. UNCHANGED project
    BY <1>6 DEF stageVars
  <2>3. flowStep \notin {"idle", "place"} => unread = {}
    BY DEF DraftsSound
  <2> QED BY <2>1, <2>2, <2>3, <1>2, <1>4, <1>6
<1>7. CASE BrowseFlow /\ UNCHANGED <<stageVars, ssmVars, planVars>>
  <2>1. UNCHANGED <<project, evidence, outcomes, unread, drafts, flowStep>>
    BY <1>7 DEF BrowseFlow, StartBrowse, EnterNode, SkipEntered, graphVars, stageVars
  <2> QED BY <2>1, <1>4 DEF DraftsSound
<1>8. ASSUME NEW child, NEW parent, SetRelationshipOverride(child, parent) PROVE DraftsSound'
  BY <1>5, <1>8 DEF SetRelationshipOverride
<1>9. CASE SsmSteps /\ UNCHANGED <<stageVars, flowVars, planVars>>
  BY <1>5, <1>9 DEF stageVars
<1>10. CASE PlanSteps /\ UNCHANGED <<stageVars, ssmVars, flowVars>>
  BY <1>5, <1>10 DEF stageVars
<1>11. CASE \/ ReadCatalog \/ RefuseCatalog \/ ResolveSystems \/ RefuseWorkbooks \/ AssembleClaims
            \/ CompileSnapshot \/ Publish
  BY <1>5, <1>11 DEF ReadCatalog, RefuseCatalog, ResolveSystems, RefuseWorkbooks, AssembleClaims,
                     CompileSnapshot, Publish
<1>12. CASE Commission \/ ExportExto \/ Rest \/ UNCHANGED pipelineVars
  BY <1>5, <1>12 DEF Commission, ExportExto, Rest, stageVars, pipelineVars
<1> QED BY <1>1, <1>3, <1>6, <1>7, <1>8, <1>9, <1>10, <1>11, <1>12 DEF CompileNext

(* Of any spellings joined in a node, one is shown: the first of those     *)
(* with the best tier.                                                     *)
LEMMA DraftShows ==
  ASSUME NEW d, NEW n, NEW tags, \A s \in tags : IsSpelling(s), DraftHolds(d, n, tags),
         NEW best, best = {s \in tags : \A t \in tags : SpellingRank(s) <= SpellingRank(t)}
  PROVE  d.display = Min(best)
<1>1. /\ d.display \in tags
      /\ \A s \in tags : \/ SpellingRank(d.display) < SpellingRank(s)
                         \/ SpellingRank(d.display) = SpellingRank(s) /\ d.display <= s
      /\ \A s \in tags : s \in Int /\ SpellingRank(s) \in Int
  BY RankType DEF DraftHolds, IsSpelling
<1>2. d.display \in best /\ \A s \in best : s \in Int /\ d.display <= s
  BY <1>1
<1>3. \A x \in best : (\A y \in best : x <= y) => x = d.display
  BY <1>2
<1> HIDE <1>1
<1> QED BY <1>2, <1>3 DEF Min

(* Which observation arrives first decides nothing of the flow: a node     *)
(* stands for all the spellings on it, with the badge, the asset, the tier *)
(* and the spelling shown that they give together.  The order of reading   *)
(* is any.                                                                 *)
THEOREM OrderDecidesNothing == CompileSpec => []OrderIsImmaterial
<1>1. CompileInit => DraftsSound
  BY CompileAssumption DEF CompileInit, FlowInit, DraftsSound
<1>2. DraftsSound /\ [CompileNext]_pipelineVars => DraftsSound'
  BY DraftsNext
<1>3. ASSUME DraftsSound PROVE OrderIsImmaterial
  <2> SUFFICES ASSUME flowStep \notin {"idle", "place"}, NEW n \in DOMAIN drafts
               PROVE  LET tags == {s \in Endpoints(evidence) : NodeId(s) = n}
                          best == {s \in tags : \A t \in tags : SpellingRank(s) <= SpellingRank(t)}
                          sure == {s \in tags : IsMatched(s)}
                      IN  /\ drafts[n].tags = tags
                          /\ drafts[n].display = Min(best)
                          /\ drafts[n].asset = IF sure = {} THEN None ELSE n
                          /\ sure # {} => drafts[n].tier = outcomes[Min(best)].tier
                          /\ drafts[n].status = IF sure # {} THEN "model-confirmed" ELSE UnmatchedStatus(n)
    BY DEF OrderIsImmaterial
  <2> DEFINE tags == {s \in Endpoints(evidence) : NodeId(s) = n}
             best == {s \in tags : \A t \in tags : SpellingRank(s) <= SpellingRank(t)}
             sure == {s \in tags : IsMatched(s)}
  <2>0. /\ tags = {s \in Endpoints(evidence) : NodeId(s) = n}
        /\ best = {s \in tags : \A t \in tags : SpellingRank(s) <= SpellingRank(t)}
        /\ sure = {s \in tags : IsMatched(s)}
    OBVIOUS
  <2> HIDE DEF tags, best, sure
  <2>1. DraftHolds(drafts[n], n, tags) /\ \A s \in tags : IsSpelling(s)
    <3>1. evidence \ unread = evidence
      BY <1>3 DEF DraftsSound
    <3> QED BY <2>0, <3>1, <1>3 DEF DraftsSound, DraftsHold, On
  <2>2. drafts[n].display = Min(best) /\ drafts[n].display \in tags
    BY <2>0, <2>1, DraftShows DEF DraftHolds
  <2>3. sure # {} <=> \E s \in tags : IsMatched(s)
    BY <2>0
  <2>4. ASSUME sure # {} PROVE drafts[n].tier = outcomes[drafts[n].display].tier
    <3>1. PICK s \in tags : IsMatched(s)
      BY <2>3, <2>4
    <3>2. SpellingRank(drafts[n].display) <= SpellingRank(s) /\ drafts[n].tier = SpellingRank(drafts[n].display)
      BY <2>1, RankType DEF DraftHolds
    <3>3. SpellingRank(drafts[n].display) < 7
      BY <3>1, <3>2, <2>1, <2>2, RankType
    <3>4. IsMatched(drafts[n].display)
      BY <3>3, <2>1, <2>2, RankType
    <3> QED BY <3>2, <3>4 DEF SpellingRank
  <2>5. /\ drafts[n].tags = tags
        /\ drafts[n].display = Min(best)
        /\ drafts[n].asset = IF sure = {} THEN None ELSE n
        /\ sure # {} => drafts[n].tier = outcomes[Min(best)].tier
        /\ drafts[n].status = IF sure # {} THEN "model-confirmed" ELSE UnmatchedStatus(n)
    BY <2>1, <2>2, <2>3, <2>4 DEF DraftHolds
  <2> QED BY <2>5 DEF tags, best, sure
<1> QED BY <1>1, <1>2, <1>3, PTL DEF CompileSpec

------------------------------------------------------------------------------
(* Learned rules.  Who fits a child best: of the contenders none fits      *)
(* better, and whoever fits as well is the same asset.                     *)
Weighable(item, peers, model) ==
  \A p \in peers : Rules!Run(item, p) \in Nat /\ Rules!Pairs(model, item.class, p.class) \in Nat
FitsBest(p, item, peers, model) ==
  /\ item.class \in model.childOnly
  /\ p \in Rules!Contenders(item, peers, model)
  /\ Rules!Pairs(model, item.class, p.class) >= Rules!MinAffinity
  /\ \A q \in Rules!Contenders(item, peers, model) :
       ~Rules!Better(item, q, p, model) /\ (~Rules!Better(item, p, q, model) => q.id = p.id)

(* Fitting better is an order, and fitting as well an equivalence.         *)
LEMMA BetterIsOrder ==
  ASSUME NEW item, NEW peers, NEW model, Weighable(item, peers, model),
         NEW p \in peers, NEW q \in peers, NEW r \in peers
  PROVE  /\ Rules!Better(item, p, q, model) => ~Rules!Better(item, q, p, model)
         /\ ~Rules!Better(item, p, q, model) /\ ~Rules!Better(item, q, r, model) => ~Rules!Better(item, p, r, model)
<1>1. \A x \in {p, q, r} : /\ Rules!SameFamily(item, x) \in {0, 1} /\ Rules!Run(item, x) \in Nat
                           /\ Rules!Pairs(model, item.class, x.class) \in Nat
  BY DEF Weighable, Rules!SameFamily
<1> QED BY <1>1 DEF Rules!Better

(* The policy's answer in these terms.                                     *)
LEMMA FitsAlone ==
  ASSUME NEW item, NEW peers, NEW model, Weighable(item, peers, model), NEW p \in peers
  PROVE  Rules!Fits(p, item, peers, model) <=> FitsBest(p, item, peers, model)
<1> DEFINE C == Rules!Contenders(item, peers, model)
           B == Rules!Best(item, peers, model)
           Over(x, y) == Rules!Better(item, x, y, model)
<1>1. C \subseteq peers /\ B = {x \in C : \A q \in C : ~Over(q, x)}
  BY DEF Rules!Contenders, Rules!Best
<1>2. \A x, y, z \in peers : /\ Over(x, y) => ~Over(y, x)
                             /\ ~Over(x, y) /\ ~Over(y, z) => ~Over(x, z)
  BY BetterIsOrder
<1>3. ASSUME p \in B PROVE B = {x \in C : ~Over(p, x)}
  <2> HIDE DEF Over, C, B
  <2> QED BY <1>1, <1>2, <1>3
<1> HIDE DEF Over
<1>4. p \in B <=> p \in C /\ \A q \in C : ~Over(q, p)
  BY <1>1
<1>5. ASSUME p \in B PROVE (\A q \in B : q.id = p.id) <=> (\A q \in C : ~Over(p, q) => q.id = p.id)
  <2> HIDE DEF C, B
  <2> QED BY <1>3, <1>5
<1>6. Rules!Fits(p, item, peers, model) <=>
        /\ item.class \in model.childOnly /\ p \in B
        /\ Rules!Pairs(model, item.class, p.class) >= Rules!MinAffinity
        /\ \A q \in B : q.id = p.id
  BY DEF Rules!Fits
<1>7. FitsBest(p, item, peers, model) <=>
        /\ item.class \in model.childOnly /\ p \in C
        /\ Rules!Pairs(model, item.class, p.class) >= Rules!MinAffinity
        /\ \A q \in C : ~Over(q, p) /\ (~Over(p, q) => q.id = p.id)
  BY DEF FitsBest, Over
<1> HIDE DEF C, B
<1> QED BY <1>4, <1>5, <1>6, <1>7

(* A model that forgets the pairs seen too seldom answers alike.           *)
Forgets(less, more) ==
  /\ less.childOnly = more.childOnly /\ less.capable = more.capable
  /\ \A c, d : Rules!Pairs(less, c, d) =
       IF Rules!Pairs(more, c, d) >= Rules!MinAffinity THEN Rules!Pairs(more, c, d) ELSE 0

(* A pair that is forgotten was no parent's, and to be beaten by one that  *)
(* is kept it need not be counted.                                         *)
LEMMA WeighedAlike ==
  ASSUME NEW item, NEW peers, NEW less, NEW more, Forgets(less, more), Weighable(item, peers, more)
  PROVE  /\ Weighable(item, peers, less)
         /\ \A p \in peers : FitsBest(p, item, peers, less) <=> FitsBest(p, item, peers, more)
<1>1. Weighable(item, peers, less)
  BY DEF Weighable, Forgets
<1>2. Rules!Contenders(item, peers, less) = Rules!Contenders(item, peers, more)
  BY DEF Rules!Contenders, Forgets
<1>3. ASSUME NEW p \in peers PROVE FitsBest(p, item, peers, less) <=> FitsBest(p, item, peers, more)
  <2> DEFINE L(x) == Rules!Pairs(less, item.class, x.class)
             M(x) == Rules!Pairs(more, item.class, x.class)
  <2>1. \A x \in peers : M(x) \in Nat /\ L(x) = IF M(x) >= 3 THEN M(x) ELSE 0
    BY DEF Weighable, Forgets, Rules!MinAffinity
  <2>2. \A x \in peers : Rules!Better(item, x, p, less) <=>
          \/ Rules!SameFamily(item, x) > Rules!SameFamily(item, p)
          \/ /\ Rules!SameFamily(item, x) = Rules!SameFamily(item, p)
             /\ Rules!Run(item, x) > Rules!Run(item, p) \/ (Rules!Run(item, x) = Rules!Run(item, p) /\ L(x) > L(p))
    BY DEF Rules!Better
  <2>3. \A x \in peers : Rules!Better(item, x, p, more) <=>
          \/ Rules!SameFamily(item, x) > Rules!SameFamily(item, p)
          \/ /\ Rules!SameFamily(item, x) = Rules!SameFamily(item, p)
             /\ Rules!Run(item, x) > Rules!Run(item, p) \/ (Rules!Run(item, x) = Rules!Run(item, p) /\ M(x) > M(p))
    BY DEF Rules!Better
  <2>4. \A x \in peers : Rules!Better(item, p, x, less) <=>
          \/ Rules!SameFamily(item, p) > Rules!SameFamily(item, x)
          \/ /\ Rules!SameFamily(item, p) = Rules!SameFamily(item, x)
             /\ Rules!Run(item, p) > Rules!Run(item, x) \/ (Rules!Run(item, p) = Rules!Run(item, x) /\ L(p) > L(x))
    BY DEF Rules!Better
  <2>5. \A x \in peers : Rules!Better(item, p, x, more) <=>
          \/ Rules!SameFamily(item, p) > Rules!SameFamily(item, x)
          \/ /\ Rules!SameFamily(item, p) = Rules!SameFamily(item, x)
             /\ Rules!Run(item, p) > Rules!Run(item, x) \/ (Rules!Run(item, p) = Rules!Run(item, x) /\ M(p) > M(x))
    BY DEF Rules!Better
  <2> HIDE DEF L, M
  <2>6. M(p) >= 3 => \A x \in peers : (L(x) > L(p) <=> M(x) > M(p)) /\ (L(p) > L(x) <=> M(p) > M(x))
    BY <2>1
  <2>7. M(p) >= 3 => \A x \in peers :
          /\ Rules!Better(item, x, p, less) <=> Rules!Better(item, x, p, more)
          /\ Rules!Better(item, p, x, less) <=> Rules!Better(item, p, x, more)
    BY <2>2, <2>3, <2>4, <2>5, <2>6
  <2>8. L(p) >= 3 <=> M(p) >= 3
    BY <2>1
  <2>9. Rules!Contenders(item, peers, more) \subseteq peers /\ less.childOnly = more.childOnly
    BY DEF Rules!Contenders, Forgets
  <2>10. \A m \in {less, more} : FitsBest(p, item, peers, m) <=>
           /\ item.class \in m.childOnly /\ p \in Rules!Contenders(item, peers, m)
           /\ Rules!Pairs(m, item.class, p.class) >= 3
           /\ \A q \in Rules!Contenders(item, peers, m) :
                ~Rules!Better(item, q, p, m) /\ (~Rules!Better(item, p, q, m) => q.id = p.id)
    BY DEF FitsBest, Rules!MinAffinity
  <2>11. L(p) = Rules!Pairs(less, item.class, p.class) /\ M(p) = Rules!Pairs(more, item.class, p.class)
    BY DEF L, M
  <2> QED BY <2>7, <2>8, <2>9, <2>10, <2>11, <1>2
<1> QED BY <1>1, <1>3

(* At most one id fits best.                                               *)
LEMMA OneFits ==
  ASSUME NEW item, NEW peers, NEW model, NEW p, NEW q,
         FitsBest(p, item, peers, model), FitsBest(q, item, peers, model)
  PROVE  p.id = q.id
BY DEF FitsBest

(* So the rules that are kept answer as those they were graded by.         *)
LEMMA PickedAlike ==
  ASSUME NEW item, NEW peers, NEW less, NEW more, Forgets(less, more), Weighable(item, peers, more)
  PROVE  Rules!PickParent(item, peers, less) = Rules!PickParent(item, peers, more)
<1> DEFINE F(m) == \E p \in peers : Rules!Fits(p, item, peers, m)
           W(m) == CHOOSE p \in peers : Rules!Fits(p, item, peers, m)
<1>1. \A p \in peers : Rules!Fits(p, item, peers, less) <=> Rules!Fits(p, item, peers, more)
  BY WeighedAlike, FitsAlone
<1>2. F(less) <=> F(more)
  BY <1>1
<1>3. ASSUME F(less) PROVE W(less).id = W(more).id
  <2>1. W(less) \in peers /\ Rules!Fits(W(less), item, peers, less)
    BY <1>3
  <2>2. W(more) \in peers /\ Rules!Fits(W(more), item, peers, more)
    BY <1>2, <1>3
  <2> HIDE DEF W
  <2>3. FitsBest(W(less), item, peers, more) /\ FitsBest(W(more), item, peers, more)
    BY <2>1, <2>2, <1>1, FitsAlone
  <2> QED BY <2>3, OneFits
<1> QED BY <1>2, <1>3 DEF Rules!PickParent

(* Training.                                                               *)
TagsIn(rows) == {rows[i].tag : i \in DOMAIN rows}
Trainable(rows) == IsFiniteSet(DOMAIN rows) /\ IsMeasured(TagsIn(rows))

(* An export has so many links, and a pair is seen in so many of them.     *)
LEMMA LinksAreFinite == ASSUME NEW rows, IsFiniteSet(DOMAIN rows) PROVE IsFiniteSet(Rules!Links(rows))
<1> DEFINE D == DOMAIN rows
           S == [child : D, parent : D]
           f == [x \in D \X D |-> [child |-> x[1], parent |-> x[2]]]
<1>1. IsFiniteSet(D \X D)
  BY FS_Product
<1>2. f \in Surjection(D \X D, S)
  <2>1. f \in [D \X D -> S]
    OBVIOUS
  <2>2. ASSUME NEW s \in S PROVE \E x \in D \X D : f[x] = s
    <3>1. <<s.child, s.parent>> \in D \X D /\ f[<<s.child, s.parent>>] = s
      BY <2>2
    <3> QED BY <3>1
  <2> HIDE DEF f
  <2> QED BY <2>1, <2>2 DEF Surjection
<1> HIDE DEF f
<1>3. IsFiniteSet(S)
  BY <1>1, <1>2, FS_Surjection
<1> QED BY <1>3, FS_Subset DEF Rules!Links

LEMMA RulesCount == \A S : Rules!Cardinality(S) = Cardinality(S)
BY DEF Rules!Cardinality, Cardinality

LEMMA TrainedWeighs ==
  ASSUME NEW rows, Trainable(rows)
  PROVE  /\ \A c, d : Rules!Pairs(Rules!LiveModel(rows), c, d) \in Nat
         /\ Forgets(Rules!Train(rows), Rules!LiveModel(rows))
<1> DEFINE O == Rules!Observed(rows)
           L == Rules!LiveModel(rows)
           T == Rules!Train(rows)
<1>1. IsFiniteSet(Rules!Links(rows))
  BY LinksAreFinite DEF Trainable
<1>2. \A x \in DOMAIN O : O[x] \in Nat
  BY <1>1, FS_Subset, FS_CardinalityType, RulesCount DEF Rules!Observed
<1>3. /\ L.childOnly = T.childOnly /\ L.capable = T.capable /\ L.affinity = O
      /\ T.affinity = [x \in Rules!Repeated(rows) |-> O[x]]
  BY DEF Rules!LiveModel, Rules!Train
<1>4. Rules!Repeated(rows) = {x \in DOMAIN O : O[x] >= 3}
  BY DEF Rules!Repeated, Rules!MinAffinity
<1> HIDE DEF O, L, T
<1>5. \A c, d : /\ Rules!Pairs(L, c, d) = IF <<c, d>> \in DOMAIN O THEN O[<<c, d>>] ELSE 0
                /\ Rules!Pairs(T, c, d) = IF <<c, d>> \in Rules!Repeated(rows) THEN O[<<c, d>>] ELSE 0
  BY <1>3 DEF Rules!Pairs
<1>6. ASSUME NEW c, NEW d PROVE Rules!Pairs(L, c, d) \in Nat
  <2>1. CASE <<c, d>> \in DOMAIN O
    BY <2>1, <1>2, <1>5
  <2>2. CASE <<c, d>> \notin DOMAIN O
    BY <2>2, <1>5
  <2> QED BY <2>1, <2>2
<1>7. \A c, d : Rules!Pairs(T, c, d) = IF Rules!Pairs(L, c, d) >= 3 THEN Rules!Pairs(L, c, d) ELSE 0
  BY <1>2, <1>4, <1>5
<1>8. Forgets(T, L)
  BY <1>3, <1>7 DEF Forgets, Rules!MinAffinity
<1> QED BY <1>6, <1>8 DEF L, T

(* The replay of an export on itself, with all pairs and with those kept.  *)
LEMMA SameReplay ==
  ASSUME NEW rows, Trainable(rows), NEW l \in Rules!Links(rows)
  PROVE  Rules!Replay(rows, l, Rules!Train(rows)) = Rules!Replay(rows, l, Rules!LiveModel(rows))
<1> DEFINE item == Rules!RowItem(rows[l.child])
           peers == Rules!RowPeers(rows, l.child)
<1>1. l.child \in DOMAIN rows /\ item.tag \in TagsIn(rows)
  BY DEF Rules!Links, Rules!RowItem, TagsIn
<1>2. \A p \in peers : p.tag \in TagsIn(rows)
  BY DEF Rules!RowPeers, Rules!RowItem, TagsIn
<1>3. \A p \in peers : Rules!Run(item, p) \in Nat
  <2> HIDE DEF item, peers
  <2> QED BY <1>1, <1>2 DEF Trainable, IsMeasured, Rules!Run
<1>4. Weighable(item, peers, Rules!LiveModel(rows))
  BY <1>3, TrainedWeighs DEF Weighable
<1> HIDE DEF item, peers
<1>5. Rules!PickParent(item, peers, Rules!Train(rows)) = Rules!PickParent(item, peers, Rules!LiveModel(rows))
  BY <1>4, TrainedWeighs, PickedAlike
<1> QED BY <1>5 DEF Rules!Replay, item, peers

(* A grade is the grade of the rules that are stored with it.              *)
LEMMA GradesHold ==
  ASSUME NEW rows, Trainable(rows), NEW c, c \in DOMAIN Rules!Grades(rows), Rules!Grades(rows)[c] = "claim"
  PROVE  Rules!EarnsClaim(rows, c, Rules!Train(rows))
<1>1. Rules!EarnsClaim(rows, c, Rules!LiveModel(rows))
  BY DEF Rules!Grades
<1>2. Rules!Predicted(rows, c, Rules!Train(rows)) = Rules!Predicted(rows, c, Rules!LiveModel(rows))
  BY SameReplay DEF Rules!Predicted
<1>3. Rules!Correct(rows, c, Rules!Train(rows)) = Rules!Correct(rows, c, Rules!LiveModel(rows))
  <2>1. \A l \in Rules!Predicted(rows, c, Rules!LiveModel(rows)) : l \in Rules!Links(rows)
    BY DEF Rules!Predicted
  <2> QED BY <1>2, <2>1, SameReplay DEF Rules!Correct
<1> QED BY <1>1, <1>2, <1>3 DEF Rules!EarnsClaim

(* Containment: of the tags that a child's tag continues one is the        *)
(* nearest.                                                                *)
Smallest(f) == \E x \in DOMAIN f : \A y \in DOMAIN f : f[x] <= f[y]
LEMMA HasSmallest ==
  ASSUME NEW f, IsFiniteSet(DOMAIN f), DOMAIN f # {}, \A x \in DOMAIN f : f[x] \in Int
  PROVE  Smallest(f)
<1> DEFINE S == DOMAIN f
<1> DEFINE T == {f[x] : x \in S}
<1>1. [x \in S |-> f[x]] \in Surjection(S, T)
  BY DEF Surjection
<1>2. IsFiniteSet(T)
  BY <1>1, FS_Surjection
<1>3. T \subseteq Int /\ T # {}
  OBVIOUS
<1>4. PICK t \in T : \A u \in T : t <= u
  <2> HIDE DEF T
  <2> QED BY <1>2, <1>3, LeastInteger
<1>5. PICK x \in S : f[x] = t
  OBVIOUS
<1> QED BY <1>4, <1>5 DEF Smallest

IsContained(item, peers) ==
  \A p \in peers : p.id \in Int /\ (p \in Rules!Containers(item, peers) => p.tag \in Int /\ BodyLength[p.tag] \in Nat)

LEMMA NearestExists ==
  ASSUME NEW item, NEW peers, IsFiniteSet(peers), IsContained(item, peers), Rules!Containers(item, peers) # {}
  PROVE  \E p \in peers : Rules!IsNearestContainer(p, item, peers)
<1> DEFINE C == Rules!Containers(item, peers)
           length == [p \in C |-> -BodyLength[p.tag]]
<1>1. IsFiniteSet(C) /\ C # {} /\ C \subseteq peers
  BY FS_Subset DEF Rules!Containers
<1>2. \A p \in C : p.tag \in Int /\ BodyLength[p.tag] \in Nat /\ p.id \in Int
  BY <1>1 DEF IsContained
<1> HIDE DEF C
<1>3. DOMAIN length = C /\ \A q \in C : length[q] \in Int
  BY <1>2
<1>4. PICK x \in C : \A q \in C : length[x] <= length[q]
  <2> HIDE DEF length
  <2> QED BY <1>1, <1>3, HasSmallest DEF Smallest
<1>5. \A q \in C : BodyLength[q.tag] <= BodyLength[x.tag]
  BY <1>2, <1>4
<1> DEFINE D == {q \in C : BodyLength[q.tag] = BodyLength[x.tag]}
           tag == [q \in D |-> q.tag]
<1>6. IsFiniteSet(D) /\ D # {} /\ DOMAIN tag = D /\ \A q \in D : tag[q] \in Int
  BY <1>1, <1>2, FS_Subset
<1>7. PICK y \in D : \A q \in D : tag[y] <= tag[q]
  <2> HIDE DEF D, tag
  <2> QED BY <1>6, HasSmallest DEF Smallest
<1> DEFINE E == {q \in D : q.tag = y.tag}
           id == [q \in E |-> q.id]
<1>8. IsFiniteSet(E) /\ E # {} /\ DOMAIN id = E /\ \A q \in E : id[q] \in Int
  BY <1>2, <1>6, FS_Subset
<1>9. PICK z \in E : \A q \in E : id[z] <= id[q]
  <2> HIDE DEF E, id
  <2> QED BY <1>8, HasSmallest DEF Smallest
<1>10. \A q \in C : \/ BodyLength[q.tag] < BodyLength[z.tag]
                    \/ /\ BodyLength[q.tag] = BodyLength[z.tag]
                       /\ z.tag < q.tag \/ (z.tag = q.tag /\ z.id <= q.id)
  BY <1>2, <1>5, <1>7, <1>9
<1>11. z \in C
  OBVIOUS
<1> QED BY <1>1, <1>10, <1>11 DEF Rules!IsNearestContainer, C

(* Proposals, from assets whose tags were measured.                        *)
Proposable(assets) ==
  /\ IsFiniteSet(DOMAIN assets) /\ DOMAIN assets \subseteq Int
  /\ \A a \in DOMAIN assets : assets[a].system \in Values \cup {None}
  /\ IsMeasured({assets[a].tag : a \in DOMAIN assets})

(* What a proposal worth a claim stands on.                                *)
ClassIn(rules, assets, a) == Rules!Classify(rules, assets[a])
RivalsIn(rules, assets, l) ==
  {a \in DOMAIN assets \ {l.child, l.parent} :
     /\ assets[a].tag # None
     /\ ClassIn(rules, assets, a) = ClassIn(rules, assets, l.parent)
     /\ Rules!Fold(assets[a].system) = Rules!Fold(assets[l.parent].system)}
LikeChild(assets, l, a) == Rules!Fold(assets[a].family) = Rules!Fold(assets[l.child].family)
Earned(rows, rules, assets, l) ==
  /\ {l.child, l.parent} \subseteq DOMAIN assets
  /\ assets[l.child].system # None /\ assets[l.parent].system # None
  /\ Rules!Fold(assets[l.parent].system) = Rules!Fold(assets[l.child].system)
  /\ \/ <<assets[l.child].tag, assets[l.parent].tag>> \in Extended
     \/ /\ Rules!EarnsClaim(rows, ClassIn(rules, assets, l.child), rules)
        /\ \A a \in RivalsIn(rules, assets, l) :
             LikeChild(assets, l, a) = LikeChild(assets, l, l.parent) =>
               SharedRun[<<assets[l.child].tag, assets[a].tag>>]
                 < SharedRun[<<assets[l.child].tag, assets[l.parent].tag>>]

(* The peers of an asset are other assets of its system.                   *)
LEMMA PeersAreFinite ==
  ASSUME NEW rules, NEW assets, Proposable(assets), NEW a \in DOMAIN assets
  PROVE  IsFiniteSet(Rules!AssetPeers(rules, assets, a))
<1> DEFINE S == Rules!Partition(assets, a) \ {a}
           item(b) == Rules!AssetItem(rules, assets, b)
           f == [b \in S |-> item(b)]
           T == {item(b) : b \in S}
<1>1. IsFiniteSet(S)
  BY FS_Subset DEF Proposable, Rules!Partition
<1> HIDE DEF S, item
<1>2. f \in Surjection(S, T)
  BY DEF Surjection
<1>3. IsFiniteSet(T)
  BY <1>1, <1>2, FS_Surjection
<1> QED BY <1>3 DEF Rules!AssetPeers, T, S, item

LEMMA PeersOf ==
  ASSUME NEW rules, NEW assets, NEW a \in DOMAIN assets
  PROVE  /\ \A p \in Rules!AssetPeers(rules, assets, a) :
              /\ p.id \in DOMAIN assets \ {a}
              /\ p = Rules!AssetItem(rules, assets, p.id)
              /\ assets[p.id].system # None /\ Rules!Fold(assets[p.id].system) = Rules!Fold(assets[a].system)
         /\ \A b \in DOMAIN assets \ {a} :
              assets[b].system # None /\ Rules!Fold(assets[b].system) = Rules!Fold(assets[a].system)
                => Rules!AssetItem(rules, assets, b) \in Rules!AssetPeers(rules, assets, a)
BY DEF Rules!AssetPeers, Rules!Partition, Rules!AssetItem

LEMMA ItemFields ==
  ASSUME NEW rules, NEW assets, NEW b
  PROVE  LET i == Rules!AssetItem(rules, assets, b)
         IN  /\ i.id = b /\ i.tag = assets[b].tag /\ i.class = ClassIn(rules, assets, b)
             /\ i.family = Rules!Fold(assets[b].family)
BY DEF Rules!AssetItem, ClassIn

(* A container is earned by its tag.                                       *)
LEMMA ContainerPicked ==
  ASSUME NEW rules, NEW assets, Proposable(assets), NEW a \in DOMAIN assets,
         Rules!Containers(Rules!AssetItem(rules, assets, a), Rules!AssetPeers(rules, assets, a)) # {}
  PROVE  LET pick == Rules!PickParent(Rules!AssetItem(rules, assets, a), Rules!AssetPeers(rules, assets, a), rules)
         IN  /\ pick.rule = "containment" /\ pick.parent \in DOMAIN assets \ {a}
             /\ assets[pick.parent].system # None
             /\ Rules!Fold(assets[pick.parent].system) = Rules!Fold(assets[a].system)
             /\ <<assets[a].tag, assets[pick.parent].tag>> \in Extended
<1> DEFINE item == Rules!AssetItem(rules, assets, a)
           peers == Rules!AssetPeers(rules, assets, a)
           near == CHOOSE p \in peers : Rules!IsNearestContainer(p, item, peers)
<1>1. IsContained(item, peers)
  <2>1. \A p \in peers : p.id \in Int
    BY PeersOf DEF Proposable
  <2>2. \A p \in Rules!Containers(item, peers) : p.tag \in Int /\ BodyLength[p.tag] \in Nat
    <3> HIDE DEF item, peers
    <3>1. \A p \in Rules!Containers(item, peers) : <<item.tag, p.tag>> \in Extended
      BY DEF Rules!Containers
    <3> QED BY <3>1, TextAssumption
  <2> HIDE DEF item, peers
  <2> QED BY <2>1, <2>2 DEF IsContained
<1>2. \E p \in peers : Rules!IsNearestContainer(p, item, peers)
  BY <1>1, PeersAreFinite, NearestExists
<1>3. near \in peers /\ Rules!IsNearestContainer(near, item, peers)
  <2> HIDE DEF item, peers
  <2> QED BY <1>2
<1>4. Rules!PickParent(item, peers, rules) = [rule |-> "containment", parent |-> near.id]
  BY DEF Rules!PickParent
<1> HIDE DEF near
<1>5. <<item.tag, near.tag>> \in Extended
  BY <1>3 DEF Rules!IsNearestContainer, Rules!Containers
<1>6. /\ near.id \in DOMAIN assets \ {a} /\ near = Rules!AssetItem(rules, assets, near.id)
      /\ assets[near.id].system # None /\ Rules!Fold(assets[near.id].system) = Rules!Fold(assets[a].system)
  BY <1>3, PeersOf
<1>7. item.tag = assets[a].tag /\ near.tag = assets[near.id].tag
  BY <1>6, ItemFields
<1> QED BY <1>4, <1>5, <1>6, <1>7

(* Who fits best has no rival.                                             *)
LEMMA FitHasNoRival ==
  ASSUME NEW rules, NEW assets, Proposable(assets), \A c, d : Rules!Pairs(rules, c, d) \in Nat,
         NEW a \in DOMAIN assets, NEW p \in Rules!AssetPeers(rules, assets, a),
         Rules!Fits(p, Rules!AssetItem(rules, assets, a), Rules!AssetPeers(rules, assets, a), rules),
         NEW r \in RivalsIn(rules, assets, [child |-> a, parent |-> p.id]),
         LikeChild(assets, [child |-> a, parent |-> p.id], r) = LikeChild(assets, [child |-> a, parent |-> p.id], p.id)
  PROVE  SharedRun[<<assets[a].tag, assets[r].tag>>] < SharedRun[<<assets[a].tag, assets[p.id].tag>>]
<1> DEFINE item == Rules!AssetItem(rules, assets, a)
           peers == Rules!AssetPeers(rules, assets, a)
           rival == Rules!AssetItem(rules, assets, r)
<1>1. /\ p.id \in DOMAIN assets \ {a} /\ p = Rules!AssetItem(rules, assets, p.id)
      /\ assets[p.id].system # None /\ Rules!Fold(assets[p.id].system) = Rules!Fold(assets[a].system)
  BY PeersOf
<1>2. /\ r \in DOMAIN assets \ {a, p.id} /\ assets[r].tag # None
      /\ ClassIn(rules, assets, r) = ClassIn(rules, assets, p.id)
      /\ Rules!Fold(assets[r].system) = Rules!Fold(assets[p.id].system)
      /\ (Rules!Fold(assets[r].family) = Rules!Fold(assets[a].family)) =
         (Rules!Fold(assets[p.id].family) = Rules!Fold(assets[a].family))
  BY DEF RivalsIn, LikeChild
<1>3. assets[r].system # None
  BY <1>1, <1>2, TextAssumption, SsmCompilerAssumption DEF Proposable, Rules!Fold
<1>4. rival \in peers
  BY <1>1, <1>2, <1>3, PeersOf
<1>5. /\ item.tag = assets[a].tag /\ item.family = Rules!Fold(assets[a].family)
      /\ rival.id = r /\ rival.tag = assets[r].tag /\ rival.class = ClassIn(rules, assets, r)
      /\ rival.family = Rules!Fold(assets[r].family)
      /\ p.tag = assets[p.id].tag /\ p.class = ClassIn(rules, assets, p.id)
      /\ p.family = Rules!Fold(assets[p.id].family)
  BY <1>1, ItemFields
<1>6. Weighable(item, peers, rules)
  <2>1. \A q \in peers : q.tag \in {assets[b].tag : b \in DOMAIN assets}
    BY PeersOf, ItemFields
  <2>2. item.tag \in {assets[b].tag : b \in DOMAIN assets}
    BY <1>5
  <2> HIDE DEF item, peers
  <2> QED BY <2>1, <2>2 DEF Weighable, Proposable, IsMeasured, Rules!Run
<1>7. FitsBest(p, item, peers, rules)
  BY <1>6, FitsAlone
<1>8. Rules!SameFamily(item, rival) = Rules!SameFamily(item, p)
  BY <1>2, <1>5 DEF Rules!SameFamily
<1>9. Rules!Pairs(rules, item.class, rival.class) = Rules!Pairs(rules, item.class, p.class)
  BY <1>2, <1>5
<1> HIDE DEF item, peers, rival
<1>10. p \in peers /\ p.class \in rules.capable /\ Rules!Run(item, p) >= 1
  BY <1>7 DEF FitsBest, Rules!Contenders
<1>11. Rules!Run(item, p) \in Nat /\ Rules!Run(item, rival) \in Nat
       /\ Rules!Pairs(rules, item.class, p.class) \in Nat
  BY <1>4, <1>6, <1>10 DEF Weighable
<1>12. Rules!Run(item, rival) < Rules!Run(item, p)
  <2> SUFFICES ASSUME Rules!Run(item, rival) >= Rules!Run(item, p) PROVE FALSE
    BY <1>11
  <2>1. rival \in Rules!Contenders(item, peers, rules)
    BY <1>2, <1>4, <1>5, <1>10, <1>11 DEF Rules!Contenders
  <2>2. ~Rules!Better(item, rival, p, rules)
    BY <1>7, <2>1 DEF FitsBest
  <2>3. Rules!Run(item, rival) = Rules!Run(item, p)
    BY <2>2, <1>8, <1>11 DEF Rules!Better
  <2>4. Rules!SameFamily(item, p) \in {0, 1}
    BY DEF Rules!SameFamily
  <2>5. ~Rules!Better(item, p, rival, rules)
    BY <2>3, <2>4, <1>8, <1>9, <1>11 DEF Rules!Better
  <2>6. rival.id = p.id
    BY <1>7, <2>1, <2>5 DEF FitsBest
  <2> QED BY <2>6, <1>2, <1>5
<1>13. item.tag # None /\ p.tag # None
  BY <1>10 DEF Rules!Run
<1>14. /\ Rules!Run(item, p) = SharedRun[<<item.tag, p.tag>>]
       /\ Rules!Run(item, rival) = SharedRun[<<item.tag, rival.tag>>]
  BY <1>2, <1>5, <1>13 DEF Rules!Run
<1> QED BY <1>5, <1>12, <1>14

(* Without a container the policy's answer is who fits.                    *)
LEMMA FitPicked ==
  ASSUME NEW rules, NEW assets, NEW a \in DOMAIN assets,
         Rules!Containers(Rules!AssetItem(rules, assets, a), Rules!AssetPeers(rules, assets, a)) = {},
         Rules!PickParent(Rules!AssetItem(rules, assets, a), Rules!AssetPeers(rules, assets, a), rules) # None
  PROVE  \E p \in Rules!AssetPeers(rules, assets, a) :
           /\ Rules!Fits(p, Rules!AssetItem(rules, assets, a), Rules!AssetPeers(rules, assets, a), rules)
           /\ Rules!PickParent(Rules!AssetItem(rules, assets, a), Rules!AssetPeers(rules, assets, a), rules)
                = [rule |-> "role-affinity", parent |-> p.id]
<1> DEFINE item == Rules!AssetItem(rules, assets, a)
           peers == Rules!AssetPeers(rules, assets, a)
           best == CHOOSE p \in peers : Rules!Fits(p, item, peers, rules)
<1>1. \E p \in peers : Rules!Fits(p, item, peers, rules)
  BY DEF Rules!PickParent
<1> HIDE DEF item, peers
<1>2. best \in peers /\ Rules!Fits(best, item, peers, rules)
  BY <1>1
<1>3. Rules!PickParent(item, peers, rules) = [rule |-> "role-affinity", parent |-> best.id]
  BY <1>1 DEF Rules!PickParent, item, peers
<1> HIDE DEF best
<1> QED BY <1>2, <1>3 DEF item, peers

(* A proposal of the grade of a claim stands on its tag or on the export.  *)
LEMMA ProposalsAreEarned ==
  ASSUME NEW rows, Trainable(rows), NEW assets, Proposable(assets),
         NEW l \in Rules!ProposeNestings(Rules!Train(rows), assets), l.grade = "claim"
  PROVE  Earned(rows, Rules!Train(rows), assets, l)
<1> DEFINE rules == Rules!Train(rows)
           item(a) == Rules!AssetItem(rules, assets, a)
           peers(a) == Rules!AssetPeers(rules, assets, a)
           pick(a) == Rules!PickParent(item(a), peers(a), rules)
<1>1. PICK a \in DOMAIN assets :
        /\ assets[a].system # None /\ pick(a) # None
        /\ l = [child |-> a, parent |-> pick(a).parent, rule |-> pick(a).rule,
                grade |-> IF pick(a).rule = "containment" THEN "claim"
                          ELSE Rules!GradeOf(rules, item(a).class)]
  BY DEF Rules!ProposeNestings
<1>2. l.child = a /\ l.parent = pick(a).parent
      /\ l.grade = IF pick(a).rule = "containment" THEN "claim" ELSE Rules!GradeOf(rules, item(a).class)
  <2> HIDE DEF pick, item, peers, rules
  <2> QED BY <1>1
<1>3. CASE Rules!Containers(item(a), peers(a)) # {}
  <2>1. /\ pick(a).rule = "containment" /\ pick(a).parent \in DOMAIN assets \ {a}
        /\ assets[pick(a).parent].system # None
        /\ Rules!Fold(assets[pick(a).parent].system) = Rules!Fold(assets[a].system)
        /\ <<assets[a].tag, assets[pick(a).parent].tag>> \in Extended
    BY <1>3, ContainerPicked
  <2> HIDE DEF pick, item, peers, rules
  <2> QED BY <1>1, <1>2, <2>1 DEF Earned, rules
<1>4. CASE Rules!Containers(item(a), peers(a)) = {}
  <2>1. PICK p \in peers(a) :
          Rules!Fits(p, item(a), peers(a), rules) /\ pick(a) = [rule |-> "role-affinity", parent |-> p.id]
    BY <1>1, <1>4, FitPicked
  <2>2. p.id \in DOMAIN assets \ {a} /\ assets[p.id].system # None
        /\ Rules!Fold(assets[p.id].system) = Rules!Fold(assets[a].system)
    BY PeersOf
  <2>3. l.child = a /\ l.parent = p.id /\ Rules!GradeOf(rules, item(a).class) = "claim"
    <3> HIDE DEF pick, item, peers, rules
    <3> QED BY <1>2, <2>1
  <2>4. item(a).class = ClassIn(rules, assets, a)
    BY ItemFields
  <2>5. Rules!EarnsClaim(rows, ClassIn(rules, assets, a), rules)
    <3>1. rules.grades = Rules!Grades(rows)
      BY DEF Rules!Train
    <3>2. ClassIn(rules, assets, a) \in DOMAIN Rules!Grades(rows)
          /\ Rules!Grades(rows)[ClassIn(rules, assets, a)] = "claim"
      <4> HIDE DEF rules, item
      <4> QED BY <2>3, <2>4, <3>1 DEF Rules!GradeOf
    <3> QED BY <3>2, GradesHold
  <2>6. \A c, d : Rules!Pairs(rules, c, d) \in Nat
    <3>1. \A c, d : Rules!Pairs(Rules!LiveModel(rows), c, d) \in Nat
      BY TrainedWeighs
    <3>2. Forgets(rules, Rules!LiveModel(rows))
      BY TrainedWeighs
    <3> HIDE DEF rules
    <3> QED BY <3>1, <3>2 DEF Forgets
  <2> DEFINE m == [child |-> a, parent |-> p.id]
  <2>7. \A r \in RivalsIn(rules, assets, m) : LikeChild(assets, m, r) = LikeChild(assets, m, p.id) =>
          SharedRun[<<assets[a].tag, assets[r].tag>>] < SharedRun[<<assets[a].tag, assets[p.id].tag>>]
    BY <2>1, <2>6, FitHasNoRival
  <2>8. RivalsIn(rules, assets, l) = RivalsIn(rules, assets, m)
        /\ \A r : LikeChild(assets, l, r) = LikeChild(assets, m, r)
    BY <2>3 DEF RivalsIn, LikeChild
  <2> HIDE DEF pick, item, peers, rules, m
  <2> QED BY <1>1, <2>2, <2>3, <2>5, <2>7, <2>8 DEF Earned, rules
<1> QED BY <1>3, <1>4

(* A claim that a rule's proposal was worth, and what it stands on: the    *)
(* catalog and the systems do not change until the next compile.           *)
IsLearned(c) == \E l \in Learned : l.grade = "claim" /\ c.subject = l.child /\ c.target = l.parent
LearnedSound ==
  /\ {"cache", "trainedFrom"} \subseteq DOMAIN project /\ project.trainedFrom \in DOMAIN Exports \cup {None}
  /\ IsMeasured({project.cache.tag[o] : o \in Objects})
  /\ \A a \in DOMAIN catalog : catalog[a] \in Objects
  /\ stage \in {"claims", "snapshot", "published"} =>
       \A c \in claims.structural : c.source = "learned-description" => IsLearned(c)
  /\ stage \in {"snapshot", "published"} =>
       /\ input.structural = claims.structural
       /\ \A a \in DOMAIN catalog : Resolver!KeyOf(systems[a]) \in Values \cup {None}

(* Of the claims on parents, the learned ones are proposals of that grade. *)
LEMMA ClaimsOfRules ==
  ASSUME NEW subjects, NEW opts, NEW c \in Sources!StructuralClaims(subjects, opts), c.source = "learned-description"
  PROVE  \E l \in opts.learned : l.grade = "claim" /\ c.subject = l.child /\ c.target = l.parent
<1>1. PICK i \in Sources!Usable(Sources!PairInputs(subjects, opts), DOMAIN subjects)
                  \cup Sources!ByAsset("flow-family", Sources!Anchored(subjects, opts))
                  \cup Sources!ByAsset("family-role",
                         Sources!RolePairs(subjects, opts) \ Sources!Anchored(subjects, opts)) :
        c = Sources!ClaimOf(i)
  BY DEF Sources!StructuralClaims
<1>2. c.source = i.source /\ c.subject = i.child /\ c.target = i.parent
  BY <1>1 DEF Sources!ClaimOf
<1>3. \A source, pairs : \A x \in Sources!ByAsset(source, pairs) :
        x.source = source /\ \E p \in pairs : x.child = p.child /\ x.parent = p.parent
  BY DEF Sources!ByAsset, Sources!Stated
<1>4. \A source, pairs, resolve : \A x \in Sources!ByTag(source, pairs, resolve) : x.source = source
  BY DEF Sources!ByTag, Sources!Stated
<1>5. \A resolve : \A x \in Sources!Explicit(subjects, resolve) : x.source = "explicit-model"
  BY DEF Sources!Explicit, Sources!Stated
<1>6. i \in Sources!PairInputs(subjects, opts)
  <2>1. i.source = "learned-description"
    BY <1>2
  <2>2. i \notin Sources!ByAsset("flow-family", Sources!Anchored(subjects, opts))
    BY <2>1, <1>3
  <2>3. i \notin Sources!ByAsset("family-role", Sources!RolePairs(subjects, opts) \ Sources!Anchored(subjects, opts))
    BY <2>1, <1>3
  <2> QED BY <1>1, <2>2, <2>3 DEF Sources!Usable
<1>7. i \in Sources!ByAsset("learned-description", {l \in opts.learned : l.grade = "claim"})
  <2>1. i.source = "learned-description"
    BY <1>2
  <2>2. i \notin Sources!ByAsset("manual", Sources!Parenting(opts))
    BY <2>1, <1>3
  <2>3. i \notin Sources!Explicit(subjects, opts.resolve)
    BY <2>1, <1>5
  <2>4. i \notin Sources!ByTag("profile-lookup", opts.lookup, opts.resolve)
        /\ i \notin Sources!ByTag("prior-ssm", opts.prior, opts.resolve)
    BY <2>1, <1>4
  <2> QED BY <1>6, <2>2, <2>3, <2>4 DEF Sources!PairInputs
<1> QED BY <1>2, <1>3, <1>7

(* What the rules propose, and for which objects, stays for the compile.   *)
LEMMA LearnedStays ==
  ASSUME UNCHANGED <<project, owner, catalog, systems>> PROVE Learned' = Learned
<1>1. \A a : NestingAsset(a)' = NestingAsset(a)
  BY DEF NestingAsset, TagOf, Field, OfTag, Discipline
<1> QED BY <1>1 DEF Learned, RuleSets

LEMMA CatalogOfObjects ==
  ASSUME ReadCatalog PROVE \A a \in DOMAIN catalog' : catalog'[a] \in Objects
<1>1. DOMAIN owner' \subseteq Objects
  BY DEF ReadCatalog, Model!Owners, Model!CandidateObjects
<1>2. Model!Representatives(owner') \subseteq Objects
  BY <1>1 DEF Model!Representatives
<1> DEFINE R == Model!Representatives(owner')
           id(o) == Model!AssetId(project.cache, owner', o)
<1>3. catalog' = [a \in {id(o) : o \in R} |-> CHOOSE o \in R : id(o) = a]
  BY DEF ReadCatalog
<1> HIDE DEF R, id
<1>4. \A a \in DOMAIN catalog' : catalog'[a] \in R
  BY <1>3
<1> QED BY <1>2, <1>4 DEF R

LEMMA LearnedStart == CompileInit => LearnedSound
<1> SUFFICES ASSUME CompileInit PROVE LearnedSound
  OBVIOUS
<1>1. /\ {"cache", "trainedFrom"} \subseteq DOMAIN project /\ project.trainedFrom \in DOMAIN Exports \cup {None}
      /\ IsMeasured({project.cache.tag[o] : o \in Objects})
  BY CompileAssumption DEF CompileInit
<1> QED BY <1>1 DEF CompileInit, LearnedSound

LEMMA LearnedNext == ASSUME LearnedSound, [CompileNext]_pipelineVars PROVE LearnedSound'
<1>1. CASE ReadCatalog
  <2>1. stage' = "systems" /\ UNCHANGED project
    BY <1>1 DEF ReadCatalog
  <2> QED BY <1>1, <2>1, CatalogOfObjects DEF LearnedSound
<1>2. CASE RefuseCatalog \/ ResolveSystems \/ RefuseWorkbooks
  BY <1>2 DEF LearnedSound, RefuseCatalog, ResolveSystems, RefuseWorkbooks
<1>3. CASE AssembleClaims
  <2>1. /\ claims'.structural = Sources!StructuralClaims(ClaimSubjects, ClaimOptions)
        /\ stage' = "claims" /\ UNCHANGED <<project, owner, catalog, systems>>
    BY <1>3 DEF AssembleClaims
  <2>2. ClaimOptions.learned = Learned /\ Learned' = Learned
    BY <2>1, LearnedStays DEF ClaimOptions
  <2>3. \A c \in claims'.structural : c.source = "learned-description" => IsLearned(c)'
    BY <2>1, <2>2, ClaimsOfRules DEF IsLearned
  <2> QED BY <2>1, <2>3 DEF LearnedSound
<1>4. CASE CompileSnapshot
  <2>1. /\ input' = SnapshotInput /\ IsCompileInput(input')
        /\ stage = "claims" /\ stage' = "snapshot" /\ UNCHANGED <<project, owner, catalog, systems, claims>>
    BY <1>4 DEF CompileSnapshot, Start
  <2>2. input'.structural = claims.structural /\ input'.subjects = DOMAIN catalog
        /\ input'.attributes = [a \in DOMAIN catalog |-> Attributes(a)]
    BY <2>1 DEF SnapshotInput
  <2>3. \A a \in DOMAIN catalog : Attributes(a) \in [Keys -> Values \cup {None}]
    BY <2>1, <2>2 DEF IsCompileInput
  <2>4. \A a : Attributes(a)["system"] = Resolver!KeyOf(systems[a])
    BY TextAssumption DEF Attributes
  <2>5. \A a \in DOMAIN catalog : Resolver!KeyOf(systems[a]) \in Values \cup {None}
    BY <2>3, <2>4, TextAssumption
  <2>6. \A c : IsLearned(c)' <=> IsLearned(c)
    BY <2>1, LearnedStays DEF IsLearned
  <2> QED BY <2>1, <2>2, <2>5, <2>6 DEF LearnedSound
<1>5. ASSUME UNCHANGED <<project, stage, owner, catalog, systems, claims, input>> PROVE LearnedSound'
  <2>1. \A c : IsLearned(c)' <=> IsLearned(c)
    BY <1>5, LearnedStays DEF IsLearned
  <2> QED BY <1>5, <2>1 DEF LearnedSound
<1>6. CASE SsmSteps /\ UNCHANGED <<stageVars, flowVars, planVars>>
  BY <1>5, <1>6, StepsOfSnapshot DEF stageVars
<1>7. CASE Publish
  <2>1. /\ stage = "snapshot" /\ stage' = "published"
        /\ UNCHANGED <<project, owner, catalog, systems, claims, input>>
    BY <1>7 DEF Publish, ssmVars
  <2>2. \A c : IsLearned(c)' <=> IsLearned(c)
    BY <2>1, LearnedStays DEF IsLearned
  <2> QED BY <2>1, <2>2 DEF LearnedSound
<1>8. CASE Recompile
  <2>1. /\ stage' = "catalog" /\ catalog' = <<>> /\ DOMAIN project' = DOMAIN project
        /\ ("cache" \in DOMAIN project => project'.cache = project.cache)
        /\ ("trainedFrom" \in DOMAIN project => project'.trainedFrom = project.trainedFrom)
    BY <1>8 DEF Recompile
  <2>2. project'.cache = project.cache /\ project'.trainedFrom = project.trainedFrom /\ DOMAIN catalog' = {}
    BY <2>1 DEF LearnedSound
  <2>3. IsMeasured({project'.cache.tag[o] : o \in Objects})
    BY <2>2 DEF LearnedSound
  <2> QED BY <2>1, <2>2, <2>3 DEF LearnedSound
<1>9. CASE \/ ReadFlow \/ Commission \/ ExportExto \/ Rest \/ UNCHANGED pipelineVars
           \/ (PlanSteps \/ BuildFlow \/ BrowseFlow) /\ UNCHANGED <<stageVars, ssmVars>>
  BY <1>5, <1>9 DEF ReadFlow, Commission, ExportExto, Rest, stageVars, ssmVars, pipelineVars
<1>10. ASSUME NEW child, NEW parent, SetRelationshipOverride(child, parent) PROVE LearnedSound'
  BY <1>5, <1>10 DEF SetRelationshipOverride, ssmVars
<1> QED BY <1>1, <1>2, <1>3, <1>4, <1>6, <1>7, <1>8, <1>9, <1>10 DEF CompileNext

(* The claims on the published assets are those the compile was given.     *)
LEMMA LearnedClaimIsEarned ==
  ASSUME stage = "published", LearnedSound, Handed, Sound, EveryClaimKept, EveryAssetShown, IsFiniteSet(shown),
         NEW c \in LearnedClaims
  PROVE  LET rules  == RuleSets[project.trainedFrom]
             assets == [a \in DOMAIN catalog |-> NestingAsset(a)]
         IN  /\ Proposable(assets) /\ project.trainedFrom # None
             /\ Earned(Exports[project.trainedFrom], rules, assets, [child |-> c.subject, parent |-> c.target])
<1> DEFINE rules == RuleSets[project.trainedFrom]
           assets == [a \in DOMAIN catalog |-> NestingAsset(a)]
<1>1. /\ phase = "done" /\ input.subjects = DOMAIN catalog /\ IsCompileInput(input)
      /\ DOMAIN node = DOMAIN catalog /\ shown = DOMAIN catalog
  BY DEF Handed, Sound, Shape, Late, EveryAssetShown, SsmTypeOK
<1>2. Proposable(assets)
  <2>1. IsFiniteSet(DOMAIN catalog) /\ DOMAIN catalog \subseteq Int
    BY <1>1, SsmCompilerAssumption DEF IsCompileInput
  <2>2. \A a \in DOMAIN catalog : assets[a].system \in Values \cup {None}
    BY DEF LearnedSound, NestingAsset
  <2>3. \A a \in DOMAIN catalog : assets[a].tag \in {project.cache.tag[o] : o \in Objects}
    BY DEF LearnedSound, NestingAsset, TagOf
  <2>4. IsMeasured({project.cache.tag[o] : o \in Objects}) /\ DOMAIN assets = DOMAIN catalog
    BY DEF LearnedSound
  <2> HIDE DEF assets
  <2>5. IsMeasured({assets[a].tag : a \in DOMAIN assets})
    BY <2>3, <2>4 DEF IsMeasured
  <2> QED BY <2>1, <2>2, <2>4, <2>5 DEF Proposable
<1>3. c \in input.structural /\ c.source = "learned-description"
  <2>1. PICK a \in DOMAIN node : c \in node[a].losers \cup {node[a].winner} /\ c # None
    BY DEF LearnedClaims
  <2>2. c \in Pool(a) /\ c.source = "learned-description"
    BY <2>1 DEF EveryClaimKept, LearnedClaims
  <2> QED BY <2>2 DEF Pool
<1>4. PICK l \in Learned : l.grade = "claim" /\ c.subject = l.child /\ c.target = l.parent
  BY <1>3 DEF LearnedSound, IsLearned
<1>5. project.trainedFrom \in DOMAIN Exports /\ project.trainedFrom # None
      /\ l \in Rules!ProposeNestings(rules, assets)
  BY <1>4 DEF Learned, LearnedSound
<1>6. rules = Rules!Train(Exports[project.trainedFrom])
  BY <1>5 DEF RuleSets
<1>7. Trainable(Exports[project.trainedFrom])
  BY <1>5, TextAssumption DEF Trainable, TagsIn
<1> HIDE DEF rules, assets
<1>8. Earned(Exports[project.trainedFrom], rules, assets, l)
  BY <1>2, <1>4, <1>5, <1>6, <1>7, ProposalsAreEarned
<1>9. Earned(Exports[project.trainedFrom], rules, assets, [child |-> c.subject, parent |-> c.target])
  BY <1>4, <1>8 DEF Earned, RivalsIn, LikeChild
<1> QED BY <1>2, <1>5, <1>9 DEF rules, assets

(* A parent that was learned stands on measured precision and has no       *)
(* rival: the child continues its tag, or the rules the profile keeps are  *)
(* right often enough on the export they were trained from and no other    *)
(* asset of the parent's kind and system fits the child as well.           *)
THEOREM LearnedParentsEarnTheirPlace == CompileSpec => []LearnedParentsAreEarned
<1>1. LearnedSound /\ [CompileNext]_pipelineVars => LearnedSound'
  BY LearnedNext
<1>2. Handed /\ LearnedSound /\ Sound /\ EveryClaimKept /\ EveryAssetShown /\ IsFiniteSet(shown) => LearnedParentsAreEarned
  <2> SUFFICES ASSUME Handed, LearnedSound, Sound, EveryClaimKept, EveryAssetShown, IsFiniteSet(shown),
                      stage = "published", NEW c \in LearnedClaims
               PROVE  LET rules   == RuleSets[project.trainedFrom]
                          class   == [a \in DOMAIN catalog |-> Rules!Classify(rules, NestingAsset(a))]
                          system  == [a \in DOMAIN catalog |-> Rules!Fold(Resolver!KeyOf(systems[a]))]
                          rivals  == {a \in DOMAIN TagIndex \ {c.subject, c.target} :
                                        class[a] = class[c.target] /\ system[a] = system[c.target]}
                          like(a) == Rules!Fold(OfTag(FamilyOf, a)) = Rules!Fold(OfTag(FamilyOf, c.subject))
                          run(a)  == SharedRun[<<TagOf(c.subject), TagOf(a)>>]
                      IN  /\ system[c.target] = system[c.subject] /\ system[c.subject] # None
                          /\ \/ <<TagOf(c.subject), TagOf(c.target)>> \in Extended
                             \/ /\ Rules!EarnsClaim(Exports[project.trainedFrom], class[c.subject], rules)
                                /\ \A a \in rivals : like(a) = like(c.target) => run(a) < run(c.target)
    BY DEF LearnedParentsAreEarned
  <2> DEFINE rules == RuleSets[project.trainedFrom]
             assets == [a \in DOMAIN catalog |-> NestingAsset(a)]
             l == [child |-> c.subject, parent |-> c.target]
  <2>1. Proposable(assets) /\ Earned(Exports[project.trainedFrom], rules, assets, l)
    BY LearnedClaimIsEarned
  <2>2. \A a \in DOMAIN catalog :
          /\ assets[a].tag = TagOf(a) /\ assets[a].system = Resolver!KeyOf(systems[a])
          /\ assets[a].family = OfTag(FamilyOf, a) /\ assets[a] = NestingAsset(a)
    BY DEF NestingAsset
  <2>3. DOMAIN assets = DOMAIN catalog /\ l.child = c.subject /\ l.parent = c.target
    OBVIOUS
  <2>4. DOMAIN TagIndex = {a \in DOMAIN catalog : TagOf(a) # None}
    BY DEF TagIndex
  <2> HIDE DEF rules, assets, l
  <2>5. {c.subject, c.target} \subseteq DOMAIN catalog
    BY <2>1, <2>3 DEF Earned
  <2>6. /\ Rules!Fold(Resolver!KeyOf(systems[c.target])) = Rules!Fold(Resolver!KeyOf(systems[c.subject]))
        /\ Rules!Fold(Resolver!KeyOf(systems[c.subject])) # None
    <3>1. assets[c.subject].system # None /\ assets[c.subject].system \in Values
      BY <2>1, <2>3, <2>5 DEF Earned, Proposable
    <3>2. Rules!Fold(assets[c.subject].system) # None
      BY <3>1, TextAssumption DEF Rules!Fold
    <3> QED BY <3>2, <2>1, <2>2, <2>3, <2>5 DEF Earned
  <2>7. \/ <<TagOf(c.subject), TagOf(c.target)>> \in Extended
        \/ /\ Rules!EarnsClaim(Exports[project.trainedFrom], Rules!Classify(rules, NestingAsset(c.subject)), rules)
           /\ \A a \in DOMAIN TagIndex \ {c.subject, c.target} :
                /\ Rules!Classify(rules, NestingAsset(a)) = Rules!Classify(rules, NestingAsset(c.target))
                /\ Rules!Fold(Resolver!KeyOf(systems[a])) = Rules!Fold(Resolver!KeyOf(systems[c.target]))
                /\ (Rules!Fold(OfTag(FamilyOf, a)) = Rules!Fold(OfTag(FamilyOf, c.subject))) =
                   (Rules!Fold(OfTag(FamilyOf, c.target)) = Rules!Fold(OfTag(FamilyOf, c.subject)))
                => SharedRun[<<TagOf(c.subject), TagOf(a)>>] < SharedRun[<<TagOf(c.subject), TagOf(c.target)>>]
    BY <2>1, <2>2, <2>3, <2>4, <2>5 DEF Earned, RivalsIn, LikeChild, ClassIn
  <2> QED BY <2>4, <2>5, <2>6, <2>7 DEF rules
<1>3. CompileSpec => []Sound /\ []EveryClaimKept /\ []EveryAssetShown /\ []IsFiniteSet(shown)
  BY PartsImplemented, AlwaysSound, ClaimsAreKept, TreeIsComplete, ShownIsFinite, PTL DEF ImplementsItsParts
<1> QED BY <1>1, <1>2, <1>3, AlwaysHanded, LearnedStart, PTL DEF CompileSpec
------------------------------------------------------------------------------
(* An input of the claims is answered: it is usable and becomes a claim of *)
(* its source, or it is skipped under the references it was written with.  *)
Answered(i, subjects, opts) ==
  \/ i.child \in DOMAIN subjects /\ Sources!ClaimOf(i) \in Sources!StructuralClaims(subjects, opts)
  \/ Sources!Skipped(i.source, Sources!Refusal(i, DOMAIN subjects), i.childRef, i.parentRef)
       \in Sources!Skips(subjects, opts)

LEMMA InputsAreAnswered ==
  ASSUME NEW subjects, NEW opts, NEW i \in Sources!PairInputs(subjects, opts)
  PROVE  Answered(i, subjects, opts)
<1> DEFINE all == Sources!PairInputs(subjects, opts) \cup Sources!ProposalInputs(opts) \cup Sources!EdgeInputs(opts)
           known == DOMAIN subjects
<1>1. CASE Sources!Refusal(i, known) = ""
  <2>1. i.child \in known
    BY <1>1 DEF Sources!Refusal
  <2>2. i \in Sources!Usable(Sources!PairInputs(subjects, opts), known)
    BY <1>1 DEF Sources!Usable
  <2> QED BY <2>1, <2>2 DEF Answered, Sources!StructuralClaims
<1>2. CASE Sources!Refusal(i, known) # ""
  <2>1. i \in all \ Sources!Usable(all, known)
    BY <1>2 DEF Sources!Usable
  <2> QED BY <2>1 DEF Answered, Sources!Skips
<1> QED BY <1>1, <1>2

(* What was stated is among the inputs.                                    *)
LEMMA StatedByHand ==
  ASSUME NEW subjects, NEW opts, NEW m \in opts.manual, m.parent # None
  PROVE  Sources!Stated("manual", m.child, m.parent, m.child, m.parent) \in Sources!PairInputs(subjects, opts)
BY DEF Sources!PairInputs, Sources!ByAsset, Sources!Parenting

LEMMA StatedByTag ==
  ASSUME NEW subjects, NEW opts
  PROVE  /\ \A p \in opts.lookup :
              Sources!Stated("profile-lookup", p.child, p.parent, opts.resolve[p.child], opts.resolve[p.parent])
                \in Sources!PairInputs(subjects, opts)
         /\ \A p \in opts.prior :
              Sources!Stated("prior-ssm", p.child, p.parent, opts.resolve[p.child], opts.resolve[p.parent])
                \in Sources!PairInputs(subjects, opts)
BY DEF Sources!PairInputs, Sources!ByTag

LEMMA StatedByModel ==
  ASSUME NEW subjects, NEW opts, NEW a \in DOMAIN subjects, subjects[a].explicit # None
  PROVE  Sources!Stated("explicit-model", a, subjects[a].explicit, a, opts.resolve[subjects[a].explicit])
           \in Sources!PairInputs(subjects, opts)
BY DEF Sources!PairInputs, Sources!Explicit

LEMMA StatedByRules ==
  ASSUME NEW subjects, NEW opts, NEW l \in opts.learned, l.grade = "claim"
  PROVE  Sources!Stated("learned-description", l.child, l.parent, l.child, l.parent) \in Sources!PairInputs(subjects, opts)
BY DEF Sources!PairInputs, Sources!ByAsset

LEMMA RootsAreAnswered ==
  ASSUME NEW subjects, NEW opts, NEW m \in opts.manual, m.parent = None
  PROVE  \/ m.child \in DOMAIN subjects /\ m.child \in Sources!MakeRoots(subjects, opts)
         \/ Sources!Skipped("manual", "unknown-child-asset", m.child, None) \in Sources!Skips(subjects, opts)
BY DEF Sources!Rooting, Sources!Parenting, Sources!MakeRoots, Sources!Skips

LEMMA ProposalsAreQueued ==
  ASSUME NEW subjects, NEW opts, NEW l \in opts.learned, l.grade = "proposal",
         {l.child, l.parent} \subseteq DOMAIN subjects, l.child # l.parent, None \notin DOMAIN subjects
  PROVE  [kind |-> "nesting-proposal", asset |-> l.child, parent |-> l.parent] \in Sources!Proposals(subjects, opts)
<1> DEFINE i == Sources!Stated("learned-description", l.child, l.parent, l.child, l.parent)
<1>1. i \in Sources!ProposalInputs(opts)
  BY DEF Sources!ProposalInputs, Sources!ByAsset
<1>2. i.child = l.child /\ i.parent = l.parent
  BY DEF Sources!Stated
<1> HIDE DEF i
<1>3. Sources!Refusal(i, DOMAIN subjects) = ""
  BY <1>2 DEF Sources!Refusal
<1>4. i \in Sources!Usable(Sources!ProposalInputs(opts), DOMAIN subjects)
  BY <1>1, <1>3 DEF Sources!Usable
<1> QED BY <1>2, <1>4 DEF Sources!Proposals

LEMMA EdgesAreDependencies ==
  ASSUME NEW subjects, NEW opts, NEW e \in opts.edges, {e.from, e.to} \subseteq DOMAIN subjects, e.from # e.to
  PROVE  [subject |-> e.to, target |-> e.from, type |-> e.type] \in Sources!DependencyClaims(subjects, opts)
BY DEF Sources!DependencyClaims

(* What the rules propose is about two assets, of one grade or the other.  *)
LEMMA ProposalsArePairs ==
  ASSUME NEW rows, NEW assets, Proposable(assets), NEW l \in Rules!ProposeNestings(Rules!Train(rows), assets)
  PROVE  {l.child, l.parent} \subseteq DOMAIN assets /\ l.child # l.parent /\ l.grade \in {"claim", "proposal"}
<1> DEFINE rules == Rules!Train(rows)
           item(a) == Rules!AssetItem(rules, assets, a)
           peers(a) == Rules!AssetPeers(rules, assets, a)
           pick(a) == Rules!PickParent(item(a), peers(a), rules)
<1>1. PICK a \in DOMAIN assets :
        /\ pick(a) # None
        /\ l = [child |-> a, parent |-> pick(a).parent, rule |-> pick(a).rule,
                grade |-> IF pick(a).rule = "containment" THEN "claim"
                          ELSE Rules!GradeOf(rules, item(a).class)]
  BY DEF Rules!ProposeNestings
<1>2. l.child = a /\ l.parent = pick(a).parent
      /\ l.grade = IF pick(a).rule = "containment" THEN "claim" ELSE Rules!GradeOf(rules, item(a).class)
  <2> HIDE DEF pick, item, peers, rules
  <2> QED BY <1>1
<1>3. pick(a).parent \in DOMAIN assets \ {a}
  <2>1. CASE Rules!Containers(item(a), peers(a)) # {}
    BY <2>1, ContainerPicked
  <2>2. CASE Rules!Containers(item(a), peers(a)) = {}
    <3>1. PICK p \in peers(a) : pick(a) = [rule |-> "role-affinity", parent |-> p.id]
      BY <1>1, <2>2, FitPicked
    <3>2. p.id \in DOMAIN assets \ {a}
      BY PeersOf
    <3>3. pick(a).parent = p.id
      <4> HIDE DEF pick, peers
      <4> QED BY <3>1
    <3> HIDE DEF pick
    <3> QED BY <3>2, <3>3
  <2> QED BY <2>1, <2>2
<1>4. Rules!GradeOf(rules, item(a).class) \in {"claim", "proposal"}
  <2>1. rules.grades = Rules!Grades(rows)
    BY DEF Rules!Train
  <2>2. \A c \in DOMAIN Rules!Grades(rows) : Rules!Grades(rows)[c] \in {"claim", "proposal"}
    BY DEF Rules!Grades
  <2> HIDE DEF rules, item
  <2> QED BY <2>1, <2>2 DEF Rules!GradeOf
<1> HIDE DEF pick, item, peers, rules
<1> QED BY <1>1, <1>2, <1>3, <1>4

(* The steps of a compile that change what the claims are made from, or    *)
(* what has become of them; every other step leaves all of that alone.     *)
Aside ==
  /\ UNCHANGED <<project, stage, owner, catalog, systems, claims, reviewItems>>
  /\ UNCHANGED ssmVars /\ UNCHANGED graphVars /\ flowStep' = flowStep
LEMMA StepKinds ==
  ASSUME [CompileNext]_pipelineVars
  PROVE  \/ ReadCatalog \/ RefuseCatalog \/ ResolveSystems \/ ReadFlow \/ RefuseWorkbooks
         \/ AssembleClaims \/ CompileSnapshot \/ Publish \/ Recompile \/ Aside
         \/ BuildFlow /\ UNCHANGED <<stageVars, ssmVars>>
         \/ SsmSteps /\ UNCHANGED <<stageVars, flowVars>>
<1>1. CASE BrowseFlow /\ UNCHANGED <<stageVars, ssmVars, planVars>>
  BY <1>1 DEF Aside, BrowseFlow, StartBrowse, EnterNode, SkipEntered, stageVars
<1>2. CASE PlanSteps /\ UNCHANGED <<stageVars, ssmVars, flowVars>>
  BY <1>2 DEF Aside, stageVars, flowVars, graphVars
<1>3. CASE Commission \/ ExportExto
  BY <1>3 DEF Commission, ExportExto, Aside, stageVars, flowVars, graphVars
<1>4. CASE Rest \/ UNCHANGED pipelineVars
  BY <1>4 DEF Rest, Aside, pipelineVars, stageVars, flowVars, graphVars
<1>5. ASSUME NEW child, NEW parent, SetRelationshipOverride(child, parent) PROVE Aside
  BY <1>5 DEF SetRelationshipOverride, Aside, flowVars, graphVars
<1> QED BY <1>1, <1>2, <1>3, <1>4, <1>5 DEF CompileNext

(* The claims are what the sources make of the project, the catalog, the   *)
(* systems and the flow.                                                   *)
ClaimsMade ==
  /\ claims.structural = Sources!StructuralClaims(ClaimSubjects, ClaimOptions)
  /\ claims.dependencies = Sources!DependencyClaims(ClaimSubjects, ClaimOptions)
  /\ claims.makeRoot = Sources!MakeRoots(ClaimSubjects, ClaimOptions)
  /\ claims.proposals = Sources!Proposals(ClaimSubjects, ClaimOptions)
  /\ claims.skipped = Sources!Skips(ClaimSubjects, ClaimOptions)
LEMMA ClaimsStay ==
  ASSUME UNCHANGED <<project, owner, catalog, systems, evidence, drafts, nodeOf>>
  PROVE  ClaimSubjects' = ClaimSubjects /\ ClaimOptions' = ClaimOptions
<1>1. Learned' = Learned
  BY LearnedStays
<1>2. FlowEdges' = FlowEdges
  BY DEF FlowEdges, Edges
<1>3. \A s : ResolveTag(s)' = ResolveTag(s)
  BY DEF ResolveTag, TagIndex, TagOf
<1>4. ClaimSubjects' = ClaimSubjects
  BY DEF ClaimSubjects, Field, OfTag, TagOf
<1> QED BY <1>1, <1>2, <1>3, <1>4 DEF ClaimOptions

StatedSound ==
  /\ {"lookup", "prior", "cache"} \subseteq DOMAIN project /\ StatesParents(project)
  /\ DOMAIN owner \subseteq Objects
  /\ stage \in {"claims", "snapshot", "published"} => ClaimsMade /\ flowStep = "built"
  /\ stage \in {"snapshot", "published"} =>
       /\ input.structural = claims.structural /\ input.makeRoot = claims.makeRoot
       /\ input.dependencies = claims.dependencies
  /\ stage = "published" =>
       claims.proposals \cup claims.skipped \cup Model!CatalogReviews(project.cache, owner) \subseteq reviewItems

LEMMA StatedStart == CompileInit => StatedSound
<1> SUFFICES ASSUME CompileInit PROVE StatedSound
  OBVIOUS
<1>1. {"lookup", "prior", "cache"} \subseteq DOMAIN project /\ StatesParents(project)
  BY CompileAssumption DEF CompileInit
<1>2. stage = "catalog" /\ DOMAIN owner = {}
  BY EmptyFunction DEF CompileInit
<1> QED BY <1>1, <1>2 DEF StatedSound

LEMMA StatedNext == ASSUME StatedSound, [CompileNext]_pipelineVars PROVE StatedSound'
<1>1. CASE ReadCatalog
  <2>1. stage' = "systems" /\ UNCHANGED project /\ DOMAIN owner' \subseteq Objects
    BY <1>1 DEF ReadCatalog, Model!Owners, Model!CandidateObjects
  <2> QED BY <2>1 DEF StatedSound, StatesParents
<1>2. CASE RefuseCatalog \/ ResolveSystems \/ RefuseWorkbooks \/ ReadFlow
  <2>1. stage' \in {"refused", "flow"} /\ UNCHANGED <<project, owner>>
    BY <1>2 DEF RefuseCatalog, ResolveSystems, RefuseWorkbooks, ReadFlow, stageVars
  <2> QED BY <2>1 DEF StatedSound, StatesParents
<1>3. CASE AssembleClaims
  <2>1. /\ claims'.structural = Sources!StructuralClaims(ClaimSubjects, ClaimOptions)
        /\ claims'.dependencies = Sources!DependencyClaims(ClaimSubjects, ClaimOptions)
        /\ claims'.makeRoot = Sources!MakeRoots(ClaimSubjects, ClaimOptions)
        /\ claims'.proposals = Sources!Proposals(ClaimSubjects, ClaimOptions)
        /\ claims'.skipped = Sources!Skips(ClaimSubjects, ClaimOptions)
    BY <1>3 DEF AssembleClaims
  <2>2. /\ stage' = "claims" /\ UNCHANGED <<project, owner, catalog, systems, evidence, drafts, nodeOf>>
        /\ flowStep' = "built"
    BY <1>3 DEF AssembleClaims, flowVars
  <2>3. ClaimsMade'
    BY <2>1, <2>2, ClaimsStay DEF ClaimsMade
  <2> QED BY <2>2, <2>3 DEF StatedSound, StatesParents
<1>4. ASSUME UNCHANGED <<project, owner, catalog, systems, claims, evidence, drafts, nodeOf, flowStep>>,
             stage \in {"claims", "snapshot", "published"}
      PROVE  ClaimsMade' /\ flowStep' = "built" /\ DOMAIN owner' \subseteq Objects
             /\ {"lookup", "prior", "cache"} \subseteq DOMAIN project' /\ StatesParents(project')
  <2>1. ClaimsMade'
    BY <1>4, ClaimsStay DEF StatedSound, ClaimsMade
  <2> QED BY <1>4, <2>1 DEF StatedSound, StatesParents
<1>5. CASE CompileSnapshot
  <2>1. /\ stage = "claims" /\ stage' = "snapshot" /\ input' = SnapshotInput
        /\ UNCHANGED <<project, owner, catalog, systems, claims, evidence, drafts, nodeOf, flowStep>>
    BY <1>5 DEF CompileSnapshot, flowVars
  <2>2. /\ input'.structural = claims'.structural /\ input'.makeRoot = claims'.makeRoot
        /\ input'.dependencies = claims'.dependencies
    BY <2>1 DEF SnapshotInput
  <2> QED BY <2>1, <2>2, <1>4 DEF StatedSound, StatesParents
<1>6. CASE Publish
  <2>1. /\ stage = "snapshot" /\ stage' = "published" /\ input' = input
        /\ UNCHANGED <<project, owner, catalog, systems, claims, evidence, drafts, nodeOf, flowStep>>
        /\ claims.proposals \cup claims.skipped \cup Model!CatalogReviews(project.cache, owner) \subseteq reviewItems'
    BY <1>6 DEF Publish, ssmVars, flowVars
  <2> QED BY <2>1, <1>4 DEF StatedSound, StatesParents
<1>7. CASE Recompile
  <2>1. /\ stage' = "catalog" /\ owner' = <<>> /\ DOMAIN project' = DOMAIN project
        /\ project'.cache = project.cache /\ project'.lookup = project.lookup /\ project'.prior = project.prior
    BY <1>7 DEF Recompile, StatedSound
  <2>2. DOMAIN owner' = {}
    BY <2>1, EmptyFunction
  <2> QED BY <2>1, <2>2 DEF StatedSound, StatesParents
<1>8. CASE Aside
  <2>1. UNCHANGED <<project, stage, owner, catalog, systems, claims, reviewItems, input, evidence, drafts, nodeOf, flowStep>>
    BY <1>8 DEF Aside, ssmVars, graphVars
  <2> QED BY <2>1, <1>4 DEF StatedSound, StatesParents
<1>9. CASE SsmSteps /\ UNCHANGED <<stageVars, flowVars>>
  <2>1. UNCHANGED <<project, stage, owner, catalog, systems, claims, reviewItems, input, evidence, drafts, nodeOf, flowStep>>
    BY <1>9, StepsOfSnapshot DEF stageVars, flowVars
  <2> QED BY <2>1, <1>4 DEF StatedSound, StatesParents
<1>10. CASE BuildFlow /\ UNCHANGED <<stageVars, ssmVars>>
  <2>1. UNCHANGED <<project, owner, stage>>
    BY <1>10 DEF stageVars
  <2>2. flowStep = "built" => UNCHANGED <<evidence, drafts, nodeOf, flowStep>>
    BY <1>10 DEF BuildFlow, PlaceObservation, EndPlace, StartRoot, TrySuccessor, Return, EndTarjan, StartLoop,
                 ExpandLoop, CloseLoop, EndLoops, graphVars
  <2>3. CASE stage \in {"claims", "snapshot", "published"}
    <3>1. UNCHANGED <<project, stage, owner, catalog, systems, claims, reviewItems, input, evidence, drafts, nodeOf, flowStep>>
      BY <1>10, <2>2, <2>3 DEF StatedSound, stageVars, ssmVars
    <3> QED BY <3>1, <1>4 DEF StatedSound, StatesParents
  <2>4. CASE stage \notin {"claims", "snapshot", "published"}
    BY <2>1, <2>4 DEF StatedSound, StatesParents
  <2> QED BY <2>3, <2>4
<1> QED BY <1>1, <1>2, <1>3, <1>5, <1>6, <1>7, <1>8, <1>9, <1>10, StepKinds

(* The observations are those of the workbooks, and each spelling that was *)
(* read lies on the node it means.                                         *)
PlacedSound ==
  /\ "workbooks" \in DOMAIN project
  /\ flowStep # "idle" =>
       /\ evidence = Import!Imported(project.workbooks) /\ ~ Import!MisfitIn(project.workbooks)
       /\ unread \subseteq evidence
       /\ \A s \in Endpoints(evidence \ unread) : s \in DOMAIN nodeOf /\ nodeOf[s] = NodeId(s)
  /\ flowStep \notin {"idle", "place"} => unread = {}

LEMMA PlacedStays ==
  ASSUME UNCHANGED <<evidence, outcomes, nodeOf, unread>>
  PROVE  (\A s \in Endpoints(evidence \ unread) : s \in DOMAIN nodeOf /\ nodeOf[s] = NodeId(s))'
           <=> (\A s \in Endpoints(evidence \ unread) : s \in DOMAIN nodeOf /\ nodeOf[s] = NodeId(s))
BY DEF Endpoints, NodeId, IsMatched

LEMMA PlacedObservation == ASSUME PlacedSound, PlaceObservation, UNCHANGED project PROVE PlacedSound'
<1>1. PICK o \in unread :
        /\ unread' = unread \ {o}
        /\ nodeOf' = [s \in DOMAIN nodeOf \cup {o.from, o.to} |->
                        IF s \in {o.from, o.to} THEN NodeId(s) ELSE nodeOf[s]]
  BY DEF PlaceObservation
<1>2. flowStep = "place" /\ UNCHANGED <<evidence, outcomes, flowStep>>
  BY DEF PlaceObservation
<1>3. Endpoints(evidence' \ unread') \subseteq Endpoints(evidence \ unread) \cup {o.from, o.to}
  BY <1>1, <1>2 DEF Endpoints
<1>4. \A s : NodeId(s)' = NodeId(s)
  BY <1>2 DEF NodeId, IsMatched
<1>5. \A s \in Endpoints(evidence \ unread) \cup {o.from, o.to} : s \in DOMAIN nodeOf' /\ nodeOf'[s] = NodeId(s)
  <2>1. \A s \in Endpoints(evidence \ unread) : s \in DOMAIN nodeOf /\ nodeOf[s] = NodeId(s)
    BY <1>2 DEF PlacedSound
  <2> QED BY <2>1, <1>1
<1>6. (\A s \in Endpoints(evidence \ unread) : s \in DOMAIN nodeOf /\ nodeOf[s] = NodeId(s))'
  BY <1>3, <1>4, <1>5 DEF Endpoints
<1> QED BY <1>1, <1>2, <1>6 DEF PlacedSound

LEMMA PlacedNext == ASSUME PlacedSound, [CompileNext]_pipelineVars PROVE PlacedSound'
<1>1. CASE ReadFlow
  <2>1. /\ UNCHANGED project /\ flowStep' = "place" /\ unread' = evidence'
        /\ evidence' = Import!Imported(project.workbooks) /\ ~ Import!MisfitIn(project.workbooks)
    BY <1>1 DEF ReadFlow, StartFlow, stageVars
  <2>2. Endpoints(evidence \ unread)' = {}
    BY <2>1 DEF Endpoints
  <2> QED BY <2>1, <2>2 DEF PlacedSound
<1>2. CASE Recompile
  <2>1. flowStep' = "idle" /\ DOMAIN project' = DOMAIN project
    BY <1>2 DEF Recompile, DropFlow
  <2> QED BY <2>1 DEF PlacedSound
<1>3. ASSUME UNCHANGED <<project, evidence, outcomes, nodeOf, unread, flowStep>> PROVE PlacedSound'
  BY <1>3, PlacedStays DEF PlacedSound
<1>4. CASE BuildFlow /\ UNCHANGED <<stageVars, ssmVars>>
  <2>1. UNCHANGED project
    BY <1>4 DEF stageVars
  <2>2. \/ PlaceObservation
        \/ /\ UNCHANGED <<evidence, outcomes, nodeOf, unread>>
           /\ flowStep # "idle" => flowStep' # "idle"
           /\ flowStep' # "idle" => flowStep # "idle"
           /\ flowStep' \notin {"idle", "place"} => unread = {} \/ flowStep \notin {"idle", "place"}
    BY <1>4 DEF BuildFlow, EndPlace, StartRoot, TrySuccessor, Return, EndTarjan, StartLoop, ExpandLoop,
                CloseLoop, EndLoops, graphVars
  <2> QED BY <2>1, <2>2, PlacedObservation, PlacedStays DEF PlacedSound
<1>5. CASE Aside
  BY <1>3, <1>5 DEF Aside, graphVars
<1>6. CASE SsmSteps /\ UNCHANGED <<stageVars, flowVars>>
  BY <1>3, <1>6 DEF stageVars, flowVars
<1>7. CASE \/ ReadCatalog \/ RefuseCatalog \/ ResolveSystems \/ RefuseWorkbooks \/ AssembleClaims
           \/ CompileSnapshot \/ Publish
  BY <1>3, <1>7 DEF ReadCatalog, RefuseCatalog, ResolveSystems, RefuseWorkbooks, AssembleClaims,
                     CompileSnapshot, Publish, flowVars
<1> QED BY <1>1, <1>2, <1>4, <1>5, <1>6, <1>7, StepKinds

LEMMA AlwaysPlaced == CompileSpec => []PlacedSound
<1>1. CompileInit => PlacedSound
  BY CompileAssumption DEF CompileInit, FlowInit, PlacedSound
<1>2. PlacedSound /\ [CompileNext]_pipelineVars => PlacedSound'
  BY PlacedNext
<1> QED BY <1>1, <1>2, PTL DEF CompileSpec

LEMMA AlwaysDrafted == CompileSpec => []DraftsSound
<1>1. CompileInit => DraftsSound
  BY CompileAssumption DEF CompileInit, FlowInit, DraftsSound
<1>2. DraftsSound /\ [CompileNext]_pipelineVars => DraftsSound'
  BY DraftsNext
<1> QED BY <1>1, <1>2, PTL DEF CompileSpec

LEMMA AlwaysStated == CompileSpec => []StatedSound
<1>1. StatedSound /\ [CompileNext]_pipelineVars => StatedSound'
  BY StatedNext
<1> QED BY <1>1, StatedStart, PTL DEF CompileSpec

LEMMA AlwaysLearned == CompileSpec => []LearnedSound
<1>1. LearnedSound /\ [CompileNext]_pipelineVars => LearnedSound'
  BY LearnedNext
<1> QED BY <1>1, LearnedStart, PTL DEF CompileSpec

(* What the model states of a parent is spelled out, as what it reads is.  *)
LEMMA ParentsAreSpelled ==
  ASSUME StatedSound, NEW a PROVE Field(a, "parent") \in Spellings \cup {None}
<1> DEFINE stating == {p \in Model!ObjectsOf(owner, catalog[a]) : project.cache.values[p]["parent"] # None}
<1>1. stating \subseteq Objects /\ Objects \subseteq Nat
  BY TextAssumption DEF StatedSound, Model!ObjectsOf
<1>2. Field(a, "parent") = IF stating = {} THEN None
        ELSE project.cache.values[CHOOSE p \in stating : \A q \in stating : p <= q]["parent"]
  BY DEF Field, Model!ReadField
<1>3. \A p \in Objects : project.cache.values[p]["parent"] \in Spellings \cup {None}
  BY DEF StatedSound, StatesParents
<1>4. ASSUME stating # {} PROVE (CHOOSE p \in stating : \A q \in stating : p <= q) \in Objects
  <2>1. \E p \in stating : \A q \in stating : p <= q
    BY <1>1, <1>4, LeastNatural
  <2> HIDE DEF stating
  <2> QED BY <1>1, <2>1
<1> HIDE DEF stating
<1> QED BY <1>2, <1>3, <1>4

(* What was published, in short.                                           *)
IsPublished == stage = "published" /\ Handed /\ Sound /\ StatedSound /\ HeardInv /\ EveryClaimKept

LEMMA PublishedFacts ==
  ASSUME IsPublished
  PROVE  /\ DOMAIN node = DOMAIN catalog /\ input.subjects = DOMAIN catalog /\ None \notin DOMAIN catalog
         /\ DOMAIN ClaimSubjects = DOMAIN catalog /\ IsCompileInput(input) /\ DOMAIN catalog \subseteq Assets
         /\ ClaimsMade /\ input.structural = claims.structural /\ input.makeRoot = claims.makeRoot
         /\ input.dependencies = claims.dependencies
         /\ claims.skipped \subseteq reviewItems /\ claims.proposals \subseteq reviewItems
<1>1. phase = "done" /\ input.subjects = DOMAIN catalog /\ IsCompileInput(input) /\ DOMAIN node = DOMAIN catalog
  BY DEF IsPublished, Handed, Sound, Shape, Late, SsmTypeOK
<1>2. None \notin DOMAIN catalog /\ DOMAIN catalog \subseteq Assets
  BY <1>1, SsmCompilerAssumption DEF IsCompileInput
<1>3. DOMAIN ClaimSubjects = DOMAIN catalog
  BY DEF ClaimSubjects
<1> QED BY <1>1, <1>2, <1>3 DEF IsPublished, StatedSound

(* A statement that was answered by a claim is on its child, and one that  *)
(* was skipped is in the queue.                                            *)
LEMMA InputsAreTraced ==
  ASSUME IsPublished, NEW i \in Sources!PairInputs(ClaimSubjects, ClaimOptions)
  PROVE  Traced(i.source, i.childRef, i.parentRef, i.child, i.parent)
<1>1. Answered(i, ClaimSubjects, ClaimOptions)
  BY InputsAreAnswered
<1>2. CASE i.child \in DOMAIN ClaimSubjects /\ Sources!ClaimOf(i) \in Sources!StructuralClaims(ClaimSubjects, ClaimOptions)
  <2> DEFINE c == [subject |-> i.child, target |-> i.parent, source |-> i.source]
  <2>1. c \in input.structural /\ i.child \in DOMAIN node
    BY <1>2, PublishedFacts DEF ClaimsMade, Sources!ClaimOf
  <2>2. c \in Pool(i.child)
    BY <2>1 DEF Pool
  <2>3. node[i.child].losers = Pool(i.child) \ {node[i.child].winner}
    BY <2>1 DEF IsPublished, EveryClaimKept
  <2> QED BY <2>1, <2>2, <2>3 DEF Traced
<1>3. CASE Sources!Skipped(i.source, Sources!Refusal(i, DOMAIN ClaimSubjects), i.childRef, i.parentRef)
             \in Sources!Skips(ClaimSubjects, ClaimOptions)
  <2> DEFINE r == Sources!Skipped(i.source, Sources!Refusal(i, DOMAIN ClaimSubjects), i.childRef, i.parentRef)
  <2>1. r \in reviewItems
    BY <1>3, PublishedFacts DEF ClaimsMade
  <2>2. r.kind = "dead-claim-rule" /\ r.source = i.source /\ r.child = i.childRef /\ r.parent = i.parentRef
    BY DEF Sources!Skipped
  <2> HIDE DEF r
  <2> QED BY <2>1, <2>2 DEF Traced
<1> QED BY <1>1, <1>2, <1>3 DEF Answered

LEMMA StatedFields ==
  ASSUME NEW source, NEW childRef, NEW parentRef, NEW child, NEW parent
  PROVE  LET i == Sources!Stated(source, childRef, parentRef, child, parent)
         IN  i.source = source /\ i.childRef = childRef /\ i.parentRef = parentRef /\ i.child = child /\ i.parent = parent
BY DEF Sources!Stated

LEMMA StatedIsTraced ==
  ASSUME IsPublished, NEW source, NEW childRef, NEW parentRef, NEW child, NEW parent,
         Sources!Stated(source, childRef, parentRef, child, parent) \in Sources!PairInputs(ClaimSubjects, ClaimOptions)
  PROVE  Traced(source, childRef, parentRef, child, parent)
<1> DEFINE i == Sources!Stated(source, childRef, parentRef, child, parent)
<1>1. Traced(i.source, i.childRef, i.parentRef, i.child, i.parent)
  BY InputsAreTraced
<1>2. i.source = source /\ i.childRef = childRef /\ i.parentRef = parentRef /\ i.child = child /\ i.parent = parent
  BY StatedFields
<1> HIDE DEF i
<1> QED BY <1>1, <1>2

LEMMA OptionFields ==
  /\ ClaimOptions.manual = project.manual /\ ClaimOptions.lookup = project.lookup /\ ClaimOptions.prior = project.prior
  /\ ClaimOptions.learned = Learned /\ ClaimOptions.edges = FlowEdges
  /\ \A s \in Spellings : ClaimOptions.resolve[s] = ResolveTag(s).asset
BY DEF ClaimOptions

(* What the rules propose is of two assets of this catalog.                *)
LEMMA LearnedIsPaired ==
  ASSUME IsPublished, LearnedSound, IsFiniteSet(DOMAIN catalog), NEW l \in Learned
  PROVE  {l.child, l.parent} \subseteq DOMAIN catalog /\ l.child # l.parent /\ l.grade \in {"claim", "proposal"}
<1> DEFINE assets == [a \in DOMAIN catalog |-> NestingAsset(a)]
<1>1. DOMAIN catalog \subseteq Int
  BY PublishedFacts, SsmCompilerAssumption
<1>2. \A a \in DOMAIN catalog : assets[a].system \in Values \cup {None}
  BY DEF LearnedSound, NestingAsset, IsPublished
<1>3. \A a \in DOMAIN catalog : assets[a].tag \in {project.cache.tag[o] : o \in Objects}
  BY DEF LearnedSound, NestingAsset, TagOf
<1>4. IsMeasured({project.cache.tag[o] : o \in Objects}) /\ DOMAIN assets = DOMAIN catalog
  BY DEF LearnedSound
<1>5. project.trainedFrom \in DOMAIN Exports /\ l \in Rules!ProposeNestings(RuleSets[project.trainedFrom], assets)
  BY DEF Learned, LearnedSound
<1> HIDE DEF assets
<1>6. IsMeasured({assets[a].tag : a \in DOMAIN assets})
  BY <1>3, <1>4 DEF IsMeasured
<1>7. Proposable(assets)
  BY <1>1, <1>2, <1>4, <1>6 DEF Proposable
<1>8. RuleSets[project.trainedFrom] = Rules!Train(Exports[project.trainedFrom])
  BY <1>5 DEF RuleSets
<1> QED BY <1>4, <1>5, <1>7, <1>8, ProposalsArePairs

(* Every statement about a parent can be found again: on the asset it is   *)
(* of, or in the review queue.                                             *)
LEMMA StatementsAreTraced ==
  ASSUME IsPublished, LearnedSound, IsFiniteSet(DOMAIN catalog) PROVE StatementsTraced
<1> DEFINE subjects == ClaimSubjects
           opts == ClaimOptions
<1>1. ASSUME NEW p \in project.lookup \cup project.prior
      PROVE  /\ ClaimOptions.resolve[p.child] = ResolveTag(p.child).asset
             /\ ClaimOptions.resolve[p.parent] = ResolveTag(p.parent).asset
  <2>1. p.child \in Spellings /\ p.parent \in Spellings
    BY <1>1 DEF IsPublished, StatedSound, StatesParents
  <2> QED BY <2>1, OptionFields
<1>2. ASSUME NEW p \in project.lookup
      PROVE  Traced("profile-lookup", p.child, p.parent, ResolveTag(p.child).asset, ResolveTag(p.parent).asset)
  BY <1>1, <1>2, StatedByTag, OptionFields, StatedIsTraced
<1>3. ASSUME NEW p \in project.prior
      PROVE  Traced("prior-ssm", p.child, p.parent, ResolveTag(p.child).asset, ResolveTag(p.parent).asset)
  BY <1>1, <1>3, StatedByTag, OptionFields, StatedIsTraced
<1>4. ASSUME NEW a \in DOMAIN catalog, Field(a, "parent") # None
      PROVE  Traced("explicit-model", a, Field(a, "parent"), a, ResolveTag(Field(a, "parent")).asset)
  <2>1. Field(a, "parent") \in Spellings
    BY <1>4, ParentsAreSpelled DEF IsPublished
  <2>2. a \in DOMAIN ClaimSubjects /\ ClaimSubjects[a].explicit = Field(a, "parent")
    BY DEF ClaimSubjects
  <2>3. ClaimOptions.resolve[Field(a, "parent")] = ResolveTag(Field(a, "parent")).asset
    BY <2>1, OptionFields
  <2>4. Sources!Stated("explicit-model", a, Field(a, "parent"), a, ResolveTag(Field(a, "parent")).asset)
          \in Sources!PairInputs(ClaimSubjects, ClaimOptions)
    BY <1>4, <2>2, <2>3, StatedByModel
  <2> QED BY <2>4, StatedIsTraced
<1>5. ASSUME NEW m \in project.manual
      PROVE  \/ m.parent = None /\ m.child \in DOMAIN node /\ node[m.child].parent = None
             \/ Traced("manual", m.child, m.parent, m.child, m.parent)
  <2>1. CASE m.parent # None
    BY <2>1, OptionFields, StatedByHand, StatedIsTraced
  <2>2. CASE m.parent = None
    <3>1. \/ m.child \in DOMAIN subjects /\ m.child \in Sources!MakeRoots(subjects, opts)
          \/ Sources!Skipped("manual", "unknown-child-asset", m.child, None) \in Sources!Skips(subjects, opts)
      BY <2>2, OptionFields, RootsAreAnswered
    <3>2. CASE m.child \in DOMAIN subjects /\ m.child \in Sources!MakeRoots(subjects, opts)
      <4>1. m.child \in DOMAIN node /\ m.child \in input.makeRoot
        BY <3>2, PublishedFacts DEF ClaimsMade
      <4> QED BY <2>2, <4>1 DEF IsPublished, HeardInv, Heard
    <3>3. CASE Sources!Skipped("manual", "unknown-child-asset", m.child, None) \in Sources!Skips(subjects, opts)
      <4> DEFINE r == Sources!Skipped("manual", "unknown-child-asset", m.child, None)
      <4>1. r \in reviewItems
        BY <3>3, PublishedFacts DEF ClaimsMade
      <4>2. r.kind = "dead-claim-rule" /\ r.source = "manual" /\ r.child = m.child /\ r.parent = m.parent
        BY <2>2 DEF Sources!Skipped
      <4> HIDE DEF r
      <4> QED BY <4>1, <4>2 DEF Traced
    <3> QED BY <3>1, <3>2, <3>3
  <2> QED BY <2>1, <2>2
<1>6. ASSUME NEW l \in Learned
      PROVE  IF l.grade = "claim" THEN Traced("learned-description", l.child, l.parent, l.child, l.parent)
             ELSE [kind |-> "nesting-proposal", asset |-> l.child, parent |-> l.parent] \in reviewItems
  <2>1. CASE l.grade = "claim"
    BY <2>1, OptionFields, StatedByRules, StatedIsTraced
  <2>2. CASE l.grade # "claim"
    <3>1. {l.child, l.parent} \subseteq DOMAIN catalog /\ l.child # l.parent /\ l.grade = "proposal"
      BY <2>2, LearnedIsPaired
    <3>2. [kind |-> "nesting-proposal", asset |-> l.child, parent |-> l.parent]
            \in Sources!Proposals(ClaimSubjects, ClaimOptions)
      BY <3>1, PublishedFacts, OptionFields, ProposalsAreQueued
    <3> QED BY <2>2, <3>2, PublishedFacts DEF ClaimsMade
  <2> QED BY <2>1, <2>2
<1> QED BY <1>2, <1>3, <1>4, <1>5, <1>6 DEF StatementsTraced

(* A match is a tagged asset.                                              *)
LEMMA MatchIsAsset ==
  ASSUME IsFiniteSet(DOMAIN catalog), DOMAIN catalog \subseteq Int,
         NEW s, NEW outcome, outcome = ResolveTag(s), outcome.asset # None
  PROVE  outcome.asset \in DOMAIN TagIndex
<1> DEFINE tier == Identity!TierOrder[FirstTier(s)]
           found == Identity!Reached(TagIndex, project.alias, tier, s)
<1>1. DOMAIN TagIndex \subseteq DOMAIN catalog
  BY DEF TagIndex
<1> HIDE DEF TagIndex
<1>2. IsFiniteSet(DOMAIN TagIndex) /\ DOMAIN TagIndex \subseteq Int
  BY <1>1, FS_Subset
<1>3. /\ Deciding(s) # {} /\ found # {}
      /\ outcome.asset = CHOOSE a \in found : \A b \in found : a <= b
  BY OutcomeByTier
<1>4. FirstTier(s) \in Identity!MatchingTiers
  BY <1>3, FirstTierDecides DEF Deciding
<1>5. found \subseteq DOMAIN TagIndex
  <2>1. tier \in {"exact", "normalized", "alias", "anatomy", "suffix-unambiguous"}
    BY <1>4, TierNames
  <2> HIDE DEF tier
  <2> QED BY <2>1, ReachedAssets
<1> HIDE DEF found
<1>6. IsFiniteSet(found) /\ found \subseteq Int
  BY <1>2, <1>5, FS_Subset
<1>7. \E a \in found : \A b \in found : a <= b
  BY <1>3, <1>6, LeastInteger
<1> QED BY <1>3, <1>5, <1>7

(* The node of a matched spelling is its asset, and stands for it.         *)
LEMMA NodeOfMatch ==
  ASSUME stage = "published", StatedSound, MatchingSound, DraftsSound, PlacedSound,
         NEW s \in Endpoints(evidence), ResolveTag(s).asset # None
  PROVE  nodeOf[s] = ResolveTag(s).asset /\ drafts[nodeOf[s]].asset = ResolveTag(s).asset
<1>1. flowStep = "built" /\ evidence \ unread = evidence
  BY DEF StatedSound, PlacedSound
<1>2. outcomes[s] = ResolveTag(s)
  BY DEF MatchingSound, Matched
<1>3. IsMatched(s) /\ NodeId(s) = ResolveTag(s).asset
  BY <1>2 DEF IsMatched, NodeId
<1>4. nodeOf[s] = NodeId(s)
  BY <1>1 DEF PlacedSound
<1>5. NodeId(s) \in DOMAIN drafts /\ DraftHolds(drafts[NodeId(s)], NodeId(s), On(NodeId(s), Endpoints(evidence)))
  BY <1>1 DEF DraftsSound, DraftsHold
<1>6. s \in On(NodeId(s), Endpoints(evidence))
  BY DEF On
<1>7. drafts[NodeId(s)].asset = NodeId(s)
  BY <1>3, <1>5, <1>6 DEF DraftHolds
<1> QED BY <1>3, <1>4, <1>7

(* An observation between two assets becomes an edge, a claim and a        *)
(* dependency in turn, and is dropped on none of the ways.                 *)
LEMMA ConnectionsAreKept ==
  ASSUME IsPublished, MatchingSound, DraftsSound, PlacedSound, IsFiniteSet(DOMAIN catalog)
  PROVE  ConnectivityKept
<1> SUFFICES ASSUME NEW o \in evidence, NEW from, from = ResolveTag(o.from).asset,
                    NEW to, to = ResolveTag(o.to).asset, None \notin {from, to}, from # to
             PROVE  [parent |-> from, type |-> o.type, rule |-> "connected"] \in node[to].dependencies
  BY DEF ConnectivityKept
<1>1. o.from \in Endpoints(evidence) /\ o.to \in Endpoints(evidence)
  BY DEF Endpoints
<1>2. /\ nodeOf[o.from] = from /\ drafts[nodeOf[o.from]].asset = from
      /\ nodeOf[o.to] = to /\ drafts[nodeOf[o.to]].asset = to
  BY <1>1, NodeOfMatch DEF IsPublished
<1>3. o \in Edges
  BY <1>2 DEF Edges
<1>4. [from |-> from, to |-> to, type |-> o.type] \in FlowEdges
  BY <1>2, <1>3 DEF FlowEdges
<1>5. {from, to} \subseteq DOMAIN catalog
  <2>1. DOMAIN catalog \subseteq Int
    BY PublishedFacts, SsmCompilerAssumption
  <2>2. DOMAIN TagIndex \subseteq DOMAIN catalog
    BY DEF TagIndex
  <2> QED BY <2>1, <2>2, MatchIsAsset
<1>6. [subject |-> to, target |-> from, type |-> o.type] \in Sources!DependencyClaims(ClaimSubjects, ClaimOptions)
  <2> DEFINE e == [from |-> from, to |-> to, type |-> o.type]
  <2>1. e \in ClaimOptions.edges
    BY <1>4, OptionFields
  <2>2. {e.from, e.to} \subseteq DOMAIN ClaimSubjects /\ e.from # e.to
    BY <1>5, PublishedFacts
  <2>3. [subject |-> e.to, target |-> e.from, type |-> e.type] \in Sources!DependencyClaims(ClaimSubjects, ClaimOptions)
    <3> HIDE DEF e
    <3> QED BY <2>1, <2>2, EdgesAreDependencies
  <2> QED BY <2>3
<1>7. [subject |-> to, target |-> from, type |-> o.type] \in input.dependencies /\ to \in DOMAIN node
  BY <1>5, <1>6, PublishedFacts DEF ClaimsMade
<1>8. [parent |-> from, type |-> o.type, rule |-> "connected"] \in Connections(to)
  BY <1>7 DEF Connections
<1> QED BY <1>7, <1>8 DEF IsPublished, HeardInv, Heard

(* What an object lies in was extracted before it, and lies in all that    *)
(* lies around it.                                                         *)
LEMMA AroundIsBefore ==
  ASSUME NEW cache, IsExtracted(cache), NEW o \in Objects, NEW p \in Model!Around(cache, o) PROVE p \in Objects /\ p < o
<1> DEFINE T == {q \in Objects : q <= o}
<1>1. Objects \subseteq Nat
  BY TextAssumption
<1>2. p \in Objects /\ p # o
  <2>1. p \in Objects \ {o}
    BY Zenon DEF Model!Around
  <2> QED BY <2>1
<1>3. o \in T /\ \A q \in T : cache.parent[q] \in T \cup {None}
  <2>1. ASSUME NEW q \in T PROVE cache.parent[q] \in T \cup {None}
    <3>1. cache.parent[q] \in {x \in Objects : x < q} \cup {None}
      BY DEF IsExtracted
    <3>2. q \in Nat /\ q <= o /\ o \in Nat
      BY <1>1
    <3>3. CASE cache.parent[q] = None
      BY <3>3
    <3>4. CASE cache.parent[q] \in {x \in Objects : x < q}
      <4>1. cache.parent[q] \in Objects /\ cache.parent[q] < q
        BY <3>4
      <4>2. cache.parent[q] \in Nat
        BY <1>1, <4>1
      <4>3. cache.parent[q] <= o
        BY <3>2, <4>1, <4>2
      <4> QED BY <4>1, <4>3
    <3> QED BY <3>1, <3>3, <3>4
  <2>2. o \in T
    BY <1>1
  <2> QED BY <2>1, <2>2
<1>4. p \in T
  <2>1. T \in SUBSET Objects
    OBVIOUS
  <2> HIDE DEF T
  <2> QED BY <1>3, <2>1 DEF Model!Around
<1> QED BY <1>1, <1>2, <1>4
LEMMA AroundWithin ==
  ASSUME NEW cache, IsExtracted(cache), NEW o \in Objects, NEW p \in Model!Around(cache, o),
         NEW q \in Model!Around(cache, p)
  PROVE  q \in Model!Around(cache, o)
<1>1. p \in Objects /\ p < o
  BY AroundIsBefore
<1>2. q \in Objects /\ q < p
  BY <1>1, AroundIsBefore
<1>3. q # o
  BY <1>1, <1>2, TextAssumption
<1>4. ASSUME NEW T \in SUBSET Objects, o \in T, \A x \in T : cache.parent[x] \in T \cup {None} PROVE q \in T
  <2>1. p \in T
    BY <1>4 DEF Model!Around
  <2> QED BY <1>4, <2>1 DEF Model!Around
<1> QED BY <1>2, <1>3, <1>4 DEF Model!Around

(* Numbers below a bound have a greatest.                                  *)
LEMMA GreatestBelow ==
  ASSUME NEW S, S \subseteq Nat, S # {}, NEW n \in Nat, \A x \in S : x < n
  PROVE  \E m \in S : \A x \in S : x <= m
<1> DEFINE T == {n - x : x \in S}
<1>1. T \subseteq Nat /\ T # {}
  OBVIOUS
<1>2. PICK t \in T : \A y \in T : t <= y
  <2> HIDE DEF T
  <2> QED BY <1>1, LeastNatural
<1>3. PICK m \in S : t = n - m
  OBVIOUS
<1>4. ASSUME NEW x \in S PROVE x <= m
  <2>1. t <= n - x
    BY <1>2
  <2> QED BY <1>3, <2>1
<1> QED BY <1>4

(* A candidate that was absorbed has one around it that was not, and is    *)
(* represented by the nearest of them.                                     *)
LEMMA OwnersRepresent ==
  ASSUME NEW cache, NEW filters, IsExtracted(cache), NEW owner0, owner0 = Model!Owners(cache, filters)
  PROVE  /\ DOMAIN owner0 = Model!CandidateObjects(cache, filters)
         /\ \A o \in DOMAIN owner0 : owner0[o] \in DOMAIN owner0 /\ owner0[owner0[o]] = owner0[o]
<1> DEFINE candidates == Model!CandidateObjects(cache, filters)
           survivors  == {o \in candidates : Model!Survives(cache, filters, o)}
           around(o)  == Model!Around(cache, o)
<1>1. candidates \subseteq Objects /\ Objects \subseteq Nat
  BY TextAssumption DEF Model!CandidateObjects
<1>2. owner0 = [o \in candidates |-> IF o \in survivors THEN o ELSE Model!NearestAncestor(cache, survivors, o)]
  BY DEF Model!Owners
<1>3. ASSUME NEW o \in candidates, o \notin survivors PROVE Model!NearestAncestor(cache, survivors, o) \in survivors
  <2>1. /\ filters.collapse /\ cache.class[o] \notin filters.separate
        /\ around(o) \cap candidates # {}
    BY <1>3 DEF Model!Survives
  <2>2. PICK p \in around(o) \cap candidates : \A q \in around(o) \cap candidates : p <= q
    <3>1. around(o) \cap candidates \subseteq Nat
      BY <1>1
    <3> HIDE DEF around, candidates
    <3> QED BY <2>1, <3>1, LeastNatural
  <2>3. \A q \in around(p) : q \in around(o) /\ q \in Objects /\ q < p
    BY <1>1, AroundWithin, AroundIsBefore
  <2>4. around(p) \cap candidates = {}
    <3> SUFFICES ASSUME NEW q \in around(p) \cap candidates PROVE FALSE
      OBVIOUS
    <3>1. q \in around(o) /\ q < p /\ q \in Nat /\ p \in Nat
      BY <1>1, <2>2, <2>3
    <3>2. p <= q
      BY <2>2, <3>1
    <3> QED BY <3>1, <3>2
  <2>5. p \in survivors
    BY <2>2, <2>4 DEF Model!Survives
  <2> DEFINE above == around(o) \cap survivors
  <2>6. \A x \in above : x < o
    BY <1>1, AroundIsBefore
  <2>7. above \subseteq Nat /\ above # {} /\ o \in Nat
    BY <1>1, <2>2, <2>5
  <2>8. Model!NearestAncestor(cache, survivors, o) =
          IF above = {} THEN None ELSE CHOOSE x \in above : \A q \in above : q <= x
    BY DEF Model!NearestAncestor
  <2>9. above \subseteq survivors
    OBVIOUS
  <2> HIDE DEF above, survivors
  <2>10. \E x \in above : \A q \in above : q <= x
    BY <2>6, <2>7, GreatestBelow
  <2> QED BY <2>7, <2>8, <2>9, <2>10
<1>4. survivors \subseteq candidates
  OBVIOUS
<1> HIDE DEF candidates, survivors
<1>5. DOMAIN owner0 = candidates
  BY <1>2
<1>6. \A o \in candidates : owner0[o] \in survivors
  BY <1>2, <1>3
<1>7. \A o \in survivors : owner0[o] = o
  BY <1>2, <1>4
<1> QED BY <1>4, <1>5, <1>6, <1>7 DEF candidates

(* The catalog: its assets are named apart, and each is one object that    *)
(* represents itself.                                                      *)
CatalogSound ==
  /\ {"cache", "filters"} \subseteq DOMAIN project /\ IsExtracted(project.cache)
  /\ stage \notin {"catalog", "refused"} =>
       /\ owner = Model!Owners(project.cache, project.filters)
       /\ catalog = [a \in {Model!AssetId(project.cache, owner, o) : o \in Model!Representatives(owner)} |->
                       CHOOSE o \in Model!Representatives(owner) : Model!AssetId(project.cache, owner, o) = a]
LEMMA CatalogStart == CompileInit => CatalogSound
BY CompileAssumption DEF CompileInit, CatalogSound
LEMMA CatalogNext == ASSUME CatalogSound, [CompileNext]_pipelineVars PROVE CatalogSound'
<1>1. CASE ReadCatalog
  BY <1>1 DEF ReadCatalog, CatalogSound
<1>2. CASE RefuseCatalog \/ RefuseWorkbooks
  <2>1. stage' = "refused" /\ UNCHANGED project
    BY <1>2 DEF RefuseCatalog, RefuseWorkbooks
  <2> QED BY <2>1 DEF CatalogSound
<1>3. CASE Recompile
  <2>1. /\ stage' = "catalog" /\ DOMAIN project' = DOMAIN project
        /\ project'.cache = project.cache /\ project'.filters = project.filters
    BY <1>3 DEF Recompile, CatalogSound
  <2> QED BY <2>1 DEF CatalogSound
<1>4. ASSUME UNCHANGED <<project, owner, catalog>>, stage' = stage \/ stage \notin {"catalog", "refused"}
      PROVE  CatalogSound'
  BY <1>4 DEF CatalogSound
<1>5. CASE ResolveSystems \/ AssembleClaims \/ CompileSnapshot \/ Publish
  BY <1>4, <1>5 DEF ResolveSystems, AssembleClaims, CompileSnapshot, Publish
<1>6. CASE \/ ReadFlow \/ Aside \/ (BuildFlow /\ UNCHANGED <<stageVars, ssmVars>>)
           \/ (SsmSteps /\ UNCHANGED <<stageVars, flowVars>>)
  BY <1>4, <1>6 DEF ReadFlow, Aside, stageVars
<1> QED BY <1>1, <1>2, <1>3, <1>5, <1>6, StepKinds
LEMMA AlwaysCataloged == CompileSpec => []CatalogSound
<1>1. CatalogSound /\ [CompileNext]_pipelineVars => CatalogSound'
  BY CatalogNext
<1> QED BY <1>1, CatalogStart, PTL DEF CompileSpec

(* No two assets share an id, because only duplicates carry their object   *)
(* and no tag is written like one that does.                               *)
LEMMA IdsAreApart ==
  ASSUME NEW cache, NEW owner0, IsExtracted(cache), DOMAIN owner0 \subseteq Objects,
         NEW o \in Model!Representatives(owner0), NEW q \in Model!Representatives(owner0),
         Model!AssetId(cache, owner0, o) = Model!AssetId(cache, owner0, q)
  PROVE  o = q
<1> SUFFICES ASSUME o # q PROVE FALSE
  OBVIOUS
<1>1. o \in Objects /\ q \in Objects
  BY DEF Model!Representatives
<1>2. \A x, y \in Objects : cache.tag[y] # None =>
       /\ x \notin {cache.tag[y], cache.tag[y] + y}
       /\ cache.tag[x] # None => cache.tag[x] # cache.tag[y] + y /\ (x # y => cache.tag[x] + x # cache.tag[y] + y)
  BY DEF IsExtracted
<1>3. cache.tag[o] # None /\ cache.tag[o] = cache.tag[q] =>
        Model!IsDuplicate(cache, owner0, o) /\ Model!IsDuplicate(cache, owner0, q)
  BY DEF Model!IsDuplicate
<1>4. CASE cache.tag[o] = None
  BY <1>1, <1>2, <1>4 DEF Model!AssetId
<1>5. CASE cache.tag[q] = None
  BY <1>1, <1>2, <1>5 DEF Model!AssetId
<1>6. CASE cache.tag[o] # None /\ cache.tag[q] # None
  <2>1. /\ cache.tag[o] # cache.tag[q] + q /\ cache.tag[q] # cache.tag[o] + o /\ cache.tag[o] + o # cache.tag[q] + q
    BY <1>1, <1>2, <1>6
  <2> QED BY <1>3, <1>6, <2>1 DEF Model!AssetId
<1> QED BY <1>4, <1>5, <1>6

(* So the catalog and the objects that represent themselves are one for    *)
(* one.                                                                    *)
LEMMA AssetsOfCatalog ==
  ASSUME CatalogSound, stage \notin {"catalog", "refused"}
  PROVE  /\ \A a \in DOMAIN catalog :
              /\ catalog[a] \in Model!Representatives(owner)
              /\ Model!AssetId(project.cache, owner, catalog[a]) = a
         /\ \A o \in Model!Representatives(owner) :
              /\ Model!AssetId(project.cache, owner, o) \in DOMAIN catalog
              /\ catalog[Model!AssetId(project.cache, owner, o)] = o
<1> DEFINE reps == Model!Representatives(owner)
           id(o) == Model!AssetId(project.cache, owner, o)
<1>1. catalog = [a \in {id(o) : o \in reps} |-> CHOOSE o \in reps : id(o) = a]
  BY DEF CatalogSound
<1>2. \A o, q \in reps : id(o) = id(q) => o = q
  <2>1. IsExtracted(project.cache) /\ owner = Model!Owners(project.cache, project.filters)
    BY DEF CatalogSound
  <2>2. DOMAIN owner = Model!CandidateObjects(project.cache, project.filters)
    BY <2>1, OwnersRepresent
  <2>3. DOMAIN owner \subseteq Objects
    BY <2>2 DEF Model!CandidateObjects
  <2> QED BY <2>1, <2>3, IdsAreApart
<1> HIDE DEF reps, id
<1>3. \A a \in DOMAIN catalog : catalog[a] \in reps /\ id(catalog[a]) = a
  BY <1>1
<1>4. \A o \in reps : id(o) \in DOMAIN catalog
  BY <1>1
<1>5. \A o \in reps : catalog[id(o)] = o
  BY <1>2, <1>3, <1>4
<1> QED BY <1>3, <1>4, <1>5 DEF reps, id

LEMMA PairsCountTwo == ASSUME NEW x, NEW y, x # y PROVE Cardinality({x, y}) = 2
<1>1. IsFiniteSet({x}) /\ Cardinality({x}) = 1
  BY FS_Singleton
<1>2. Cardinality({x} \cup {y}) = Cardinality({x}) + 1
  BY <1>1, FS_AddElement
<1>3. {x} \cup {y} = {x, y}
  OBVIOUS
<1> QED BY <1>1, <1>2, <1>3

(* A tag of an object that passed the filters is borne by the asset that   *)
(* owns the object, or is not and was absorbed; several that bear it are   *)
(* duplicates.                                                             *)
LEMMA TagsAreAccountedFor ==
  ASSUME IsPublished, MatchingSound, CatalogSound, StatedSound, IsFiniteSet(DOMAIN catalog)
  PROVE  TagsAccountedFor
<1> DEFINE cache == project.cache
           reps == Model!Representatives(owner)
           id(o) == Model!AssetId(cache, owner, o)
<1>1. stage = "published" /\ owner = Model!Owners(cache, project.filters) /\ IsExtracted(cache)
  BY DEF IsPublished, CatalogSound
<1>2. /\ DOMAIN owner = Model!CandidateObjects(cache, project.filters)
      /\ \A o \in DOMAIN owner : owner[o] \in reps
  BY <1>1, OwnersRepresent DEF Model!Representatives
<1>3. /\ \A a \in DOMAIN catalog : catalog[a] \in reps /\ id(catalog[a]) = a
      /\ \A o \in reps : id(o) \in DOMAIN catalog /\ catalog[id(o)] = o
  BY <1>1, AssetsOfCatalog
<1>4. Model!CatalogReviews(cache, owner) \subseteq reviewItems
  BY <1>1 DEF StatedSound
<1>5. ASSUME NEW o \in reps, NEW p \in reps, o # p, cache.tag[o] # None, cache.tag[o] = cache.tag[p]
      PROVE  [kind |-> "duplicate-model-tag", tag |-> cache.tag[o]] \in reviewItems
  <2>1. Model!IsDuplicate(cache, owner, o)
    BY <1>5 DEF Model!IsDuplicate
  <2> QED BY <1>4, <2>1 DEF Model!CatalogReviews
<1>6. ASSUME NEW o \in DOMAIN owner, cache.tag[o] # None, cache.tag[owner[o]] # cache.tag[o]
      PROVE  \E r \in reviewItems : r.kind = "absorbed-tagged-component" /\ r.object = o
  <2> DEFINE r == [kind |-> "absorbed-tagged-component", tag |-> cache.tag[o], object |-> o]
  <2>1. r \in Model!CatalogReviews(cache, owner)
    BY <1>6 DEF Model!CatalogReviews
  <2>2. r.kind = "absorbed-tagged-component" /\ r.object = o
    OBVIOUS
  <2> HIDE DEF r, cache
  <2> QED BY <1>4, <2>1, <2>2
<1>7. \A a \in DOMAIN catalog : TagOf(a) = cache.tag[catalog[a]]
  BY DEF TagOf
<1> HIDE DEF cache, reps, id
<1>8. ASSUME NEW o \in DOMAIN owner, cache.tag[o] # None, cache.tag[owner[o]] = cache.tag[o],
             NEW bearers, bearers = {a \in DOMAIN catalog : TagOf(a) = cache.tag[o]}
      PROVE  \/ Cardinality(bearers) = 1
             \/ Cardinality(bearers) > 1 /\ [kind |-> "duplicate-model-tag", tag |-> cache.tag[o]] \in reviewItems
  <2> DEFINE w == owner[o]
  <2>1. w \in reps /\ id(w) \in DOMAIN catalog /\ catalog[id(w)] = w
    BY <1>2, <1>3
  <2>2. id(w) \in bearers /\ cache.tag[w] = cache.tag[o]
    BY <1>7, <1>8, <2>1
  <2>3. IsFiniteSet(bearers) /\ bearers \subseteq DOMAIN catalog
    BY <1>8, FS_Subset
  <2> HIDE DEF w
  <2>4. CASE \A b \in bearers : b = id(w)
    <3>1. bearers = {id(w)}
      BY <2>2, <2>4
    <3> QED BY <3>1, FS_Singleton
  <2>5. ASSUME NEW b \in bearers, b # id(w)
        PROVE  Cardinality(bearers) > 1 /\ [kind |-> "duplicate-model-tag", tag |-> cache.tag[o]] \in reviewItems
    <3>1. b \in DOMAIN catalog /\ cache.tag[catalog[b]] = cache.tag[o]
      BY <1>7, <1>8
    <3>2. catalog[b] \in reps /\ catalog[b] # w
      BY <1>3, <2>5, <3>1
    <3>3. [kind |-> "duplicate-model-tag", tag |-> cache.tag[w]] \in reviewItems
      BY <1>5, <1>8, <2>1, <2>2, <3>1, <3>2
    <3>4. Cardinality({b, id(w)}) = 2 /\ {b, id(w)} \subseteq bearers
      BY <2>2, <2>5, PairsCountTwo
    <3>5. Cardinality({b, id(w)}) <= Cardinality(bearers) /\ Cardinality(bearers) \in Nat
      BY <2>3, <3>4, FS_Subset, FS_CardinalityType
    <3> QED BY <2>2, <3>3, <3>4, <3>5
  <2> QED BY <2>4, <2>5
<1>9. ASSUME NEW o \in Model!CandidateObjects(cache, project.filters)
      PROVE  LET t == cache.tag[o]
                 bearers == {a \in DOMAIN catalog : TagOf(a) = t}
             IN  \/ t = None \/ Cardinality(bearers) = 1
                 \/ Cardinality(bearers) > 1 /\ [kind |-> "duplicate-model-tag", tag |-> t] \in reviewItems
                 \/ \E r \in reviewItems : r.kind = "absorbed-tagged-component" /\ r.object = o
  <2>1. o \in DOMAIN owner
    BY <1>2
  <2>2. CASE cache.tag[o] # None /\ cache.tag[owner[o]] # cache.tag[o]
    BY <1>6, <2>1, <2>2
  <2>3. CASE cache.tag[o] # None /\ cache.tag[owner[o]] = cache.tag[o]
    BY <1>8, <2>1, <2>3
  <2> QED BY <2>2, <2>3
<1>10. ASSUME NEW s \in DOMAIN outcomes, NEW m, m = outcomes[s].asset, m # None,
              NEW a \in DOMAIN catalog \ {m}, TagOf(a) = TagOf(m)
       PROVE  [kind |-> "duplicate-model-tag", tag |-> TagOf(m)] \in reviewItems
  <2>1. outcomes[s] = ResolveTag(s)
    BY <1>1 DEF IsPublished, StatedSound, MatchingSound, Matched
  <2>2. DOMAIN catalog \subseteq Int
    BY PublishedFacts, SsmCompilerAssumption
  <2>3. m \in DOMAIN TagIndex
    BY <1>10, <2>1, <2>2, MatchIsAsset
  <2>4. m \in DOMAIN catalog /\ TagOf(m) # None
    BY <2>3 DEF TagIndex
  <2>5. catalog[m] \in reps /\ catalog[a] \in reps /\ catalog[m] # catalog[a]
    BY <1>3, <1>10, <2>4
  <2> QED BY <1>5, <1>7, <1>10, <2>4, <2>5
<1> QED BY <1>9, <1>10 DEF TagsAccountedFor, cache

LEMMA ImportPlace == ASSUME NEW w, NEW s, NEW r PROVE Append(<<w, s>>, r) = <<w, s, r>>
<1> DEFINE S == {w, s, r}
           a == Append(<<w, s>>, r)
<1>1. <<w, s>> \in Seq(S) /\ Len(<<w, s>>) = 2 /\ r \in S /\ <<w, s, r>> \in Seq(S) /\ Len(<<w, s, r>>) = 3
  OBVIOUS
<1>2. a \in Seq(S) /\ Len(a) = 3 /\ a[1] = w /\ a[2] = s /\ a[3] = r
  BY <1>1
<1> HIDE DEF a
<1>3. a = [i \in 1..3 |-> a[i]]
  BY <1>2
<1> DEFINE b == <<w, s, r>>
<1>4. b \in Seq(S) /\ Len(b) = 3 /\ b[1] = w /\ b[2] = s /\ b[3] = r
  BY <1>1
<1> HIDE DEF b
<1>5. b = [i \in 1..3 |-> b[i]]
  BY <1>4
<1>6. \A i \in 1..3 : a[i] = b[i]
  BY <1>2, <1>4
<1>7. a = b
  BY <1>3, <1>5, <1>6
<1> QED BY <1>7 DEF a, b

LEMMA ImportCount == \A S : Import!Cardinality(S) = Cardinality(S)
BY DEF Import!Cardinality, Cardinality

(* A sheet is rows of one width.                                           *)
LEMMA SheetShape ==
  ASSUME NEW sheet, Import!IsSheet(sheet)
  PROVE  \E n \in Nat, width \in Nat \ {0} :
           /\ DOMAIN sheet.rows = 1..n
           /\ \A r \in 1..n : sheet.rows[r] = [c \in 1..width |-> sheet.rows[r][c]]
<1> DEFINE n == Len(sheet.rows)
           widthOf(r) == Len(sheet.rows[r])
<1>1. n \in Nat /\ DOMAIN sheet.rows = 1..n
  BY DEF Import!IsSheet
<1>2. \A r \in 1..n : /\ widthOf(r) \in Nat \ {0} /\ widthOf(r) = widthOf(1)
                      /\ sheet.rows[r] = [c \in 1..widthOf(r) |-> sheet.rows[r][c]]
  BY <1>1 DEF Import!IsSheet
<1> HIDE DEF n, widthOf
<1>3. CASE n = 0
  <2>1. \A r \in 1..n : FALSE
    BY <1>3
  <2>2. 1 \in Nat \ {0}
    OBVIOUS
  <2> QED BY <1>1, <2>1, <2>2
<1>4. CASE n # 0
  <2>1. 1 \in 1..n
    BY <1>1, <1>4
  <2>2. widthOf(1) \in Nat \ {0}
    BY <1>2, <2>1
  <2>3. \A r \in 1..n : sheet.rows[r] = [c \in 1..widthOf(1) |-> sheet.rows[r][c]]
    BY <1>2
  <2> QED BY <1>1, <2>2, <2>3
<1> QED BY <1>3, <1>4

(* The turn of a row among those that hold anything tells them apart.      *)
Turn(sheet, r) == Cardinality({q \in Import!Written(sheet) : q <= r})
LEMMA WrittenRows ==
  ASSUME NEW sheet, Import!IsSheet(sheet)
  PROVE  Import!Written(sheet) \subseteq Nat \ {0} /\ IsFiniteSet(Import!Written(sheet))
<1>1. PICK n \in Nat : DOMAIN sheet.rows = 1..n
  BY SheetShape
<1>2. IsFiniteSet(1..n)
  BY <1>1, FS_Interval
<1>3. Import!Written(sheet) \subseteq 1..n
  BY <1>1 DEF Import!Written
<1> QED BY <1>1, <1>2, <1>3, FS_Subset
LEMMA TurnsRise ==
  ASSUME NEW sheet, Import!IsSheet(sheet), NEW r \in Import!Written(sheet)
  PROVE  /\ Turn(sheet, r) \in Nat
         /\ \A q \in Import!Written(sheet) : r < q => Turn(sheet, r) # Turn(sheet, q)
<1> DEFINE upTo(n) == {q \in Import!Written(sheet) : q <= n}
<1>1. \A n : IsFiniteSet(upTo(n))
  BY WrittenRows, FS_Subset
<1>2. Turn(sheet, r) \in Nat
  BY <1>1, FS_CardinalityType DEF Turn
<1>3. ASSUME NEW q \in Import!Written(sheet), r < q PROVE Turn(sheet, r) # Turn(sheet, q)
  <2>1. r \in Nat /\ q \in Nat /\ Import!Written(sheet) \subseteq Nat
    BY WrittenRows
  <2>2. upTo(r) \in SUBSET upTo(q) /\ q \in upTo(q) /\ q \notin upTo(r)
    BY <1>3, <2>1
  <2>3. upTo(r) # upTo(q)
    BY <2>2
  <2> HIDE DEF upTo
  <2>4. Cardinality(upTo(q)) # Cardinality(upTo(r))
    BY <1>1, <2>2, <2>3, FS_Subset
  <2> QED BY <2>4 DEF Turn, upTo
<1> QED BY <1>2, <1>3

(* The rows that hold anything, counted, are told apart by their turn.     *)
LEMMA RowsInTurn ==
  ASSUME NEW sheet, Import!IsSheet(sheet), NEW nums, nums = Import!RowNums(sheet)
  PROVE  /\ \A i \in DOMAIN nums : i \in Nat /\ nums[i] \in Import!Written(sheet) /\ Turn(sheet, nums[i]) = i
         /\ \A r \in Import!Written(sheet) : Turn(sheet, r) \in DOMAIN nums /\ nums[Turn(sheet, r)] = r
<1> DEFINE W == Import!Written(sheet)
           turn == [r \in W |-> Import!Cardinality({q \in W : q <= r})]
           t == [r \in W |-> Turn(sheet, r)]
<1>1. turn = t
  BY ImportCount DEF Turn
<1>2. nums = [i \in {turn[r] : r \in DOMAIN turn} |-> CHOOSE r \in W : turn[r] = i]
  BY DEF Import!RowNums, Import!Range
<1>3. nums = [i \in {t[r] : r \in DOMAIN t} |-> CHOOSE r \in W : t[r] = i]
  <2> HIDE DEF turn, t, W
  <2> QED BY <1>1, <1>2
<1>4. nums = [i \in {Turn(sheet, r) : r \in W} |-> CHOOSE r \in W : Turn(sheet, r) = i]
  <2>1. DOMAIN t = W /\ \A r \in W : t[r] = Turn(sheet, r)
    OBVIOUS
  <2>2. {t[r] : r \in DOMAIN t} = {Turn(sheet, r) : r \in W}
    BY <2>1
  <2>3. \A i : (CHOOSE r \in W : t[r] = i) = (CHOOSE r \in W : Turn(sheet, r) = i)
    BY <2>1
  <2> HIDE DEF t, W
  <2> QED BY <1>3, <2>2, <2>3
<1>5. \A r, q \in W : Turn(sheet, r) = Turn(sheet, q) => r = q
  <2>1. W \subseteq Nat
    BY WrittenRows
  <2> QED BY <2>1, TurnsRise
<1>6. \A r \in W : Turn(sheet, r) \in Nat
  BY TurnsRise
<1> HIDE DEF W, turn, t
<1>7. \A i \in DOMAIN nums : nums[i] \in W /\ Turn(sheet, nums[i]) = i
  BY <1>4
<1>8. \A r \in W : Turn(sheet, r) \in DOMAIN nums
  BY <1>4
<1>9. \A r \in W : nums[Turn(sheet, r)] = r
  BY <1>5, <1>7, <1>8
<1>10. \A i \in DOMAIN nums : i \in Nat
  BY <1>6, <1>7
<1> QED BY <1>7, <1>8, <1>9, <1>10 DEF W

(* A row has its turn after those above it that hold anything.             *)
Holds(row) == row # [c \in DOMAIN row |-> None]
LEMMA WrittenHolds ==
  ASSUME NEW sheet, Import!IsSheet(sheet), NEW q \in DOMAIN sheet.rows
  PROVE  q \in Import!Written(sheet) <=> Holds(sheet.rows[q])
<1> DEFINE row == sheet.rows[q]
<1>1. PICK width \in Nat \ {0} : row = [c \in 1..width |-> row[c]]
  BY SheetShape
<1>2. q \in Import!Written(sheet) <=> {row[c] : c \in DOMAIN row} # {None}
  BY DEF Import!Written, Import!Range
<1> HIDE DEF row
<1>3. 1 \in DOMAIN row /\ DOMAIN row = 1..width
  BY <1>1
<1>4. {row[c] : c \in DOMAIN row} = {None} <=> \A c \in DOMAIN row : row[c] = None
  BY <1>3
<1>5. (\A c \in DOMAIN row : row[c] = None) <=> row = [c \in DOMAIN row |-> None]
  <2>1. ASSUME \A c \in DOMAIN row : row[c] = None PROVE row = [c \in DOMAIN row |-> None]
    BY <1>1, <1>3, <2>1
  <2> QED BY <2>1
<1> QED BY <1>2, <1>4, <1>5 DEF row, Holds

(* The turn of a row is one more than the rows above it that hold          *)
(* anything.                                                               *)
LEMMA TurnAbove ==
  ASSUME NEW sheet, Import!IsSheet(sheet), NEW r \in Import!Written(sheet), NEW above,
         above = {q \in 1..(r - 1) : Holds(sheet.rows[q])}
  PROVE  Cardinality(above) \in Nat /\ Turn(sheet, r) = Cardinality(above) + 1
<1> DEFINE W == Import!Written(sheet)
<1>1. PICK n \in Nat : DOMAIN sheet.rows = 1..n
  BY SheetShape
<1>2. r \in 1..n /\ r \in Nat
  BY <1>1 DEF Import!Written
<1>3. \A q \in DOMAIN sheet.rows : q \in W <=> Holds(sheet.rows[q])
  BY WrittenHolds
<1>4. above \subseteq W /\ \A q \in W : q < r => q \in above
  <2>1. \A q \in 1..(r - 1) : q \in DOMAIN sheet.rows
    BY <1>1, <1>2
  <2>2. above \subseteq W
    BY <1>3, <2>1
  <2>3. ASSUME NEW q \in W, q < r PROVE q \in above
    <3>1. q \in DOMAIN sheet.rows /\ q \in 1..(r - 1)
      BY <1>1, <1>2, <2>3 DEF Import!Written
    <3> QED BY <1>3, <3>1
  <2> QED BY <2>2, <2>3
<1>5. W \subseteq Nat /\ IsFiniteSet(above)
  BY <1>4, WrittenRows, FS_Subset
<1>6. r \notin above /\ above \subseteq 1..(r - 1)
  BY <1>2
<1> HIDE DEF W
<1>7. {q \in W : q <= r} = above \cup {r}
  <2>1. \A q \in above : q \in W /\ q <= r
    BY <1>2, <1>4, <1>6
  <2>2. \A q \in W : q <= r => q \in above \/ q = r
    BY <1>2, <1>4, <1>5
  <2>3. r \in W /\ r <= r
    BY <1>2 DEF W
  <2> QED BY <2>1, <2>2, <2>3
<1>8. Cardinality(above \cup {r}) = Cardinality(above) + 1 /\ Cardinality(above) \in Nat
  BY <1>5, <1>6, FS_AddElement, FS_CardinalityType
<1> QED BY <1>7, <1>8 DEF Turn, W

(* The candidate that is picked is one of them.                            *)
LEMMA FoundExactly ==
  ASSUME NEW kind, NEW headers, NEW f \in Import!DetectColumns(kind, headers) PROVE f.exact \in BOOLEAN
<1>1. CASE kind = "mel"
  <2> DEFINE strong == Import!Carries(headers, "equipment tag", {})
  <2>0. f \in Import!DetectMel(headers)
    BY <1>1 DEF Import!DetectColumns
  <2>1. f = [from |-> None, to |-> None, exact |-> strong]
    <3>1. f \in IF strong \/ Import!IsMel(headers, {t \in Import!MelDetails : Import!Carries(headers, t, {})})
                THEN {[from |-> None, to |-> None, exact |-> strong]} ELSE {}
      BY <2>0, Zenon DEF Import!DetectMel
    <3> HIDE DEF strong
    <3> QED BY <3>1
  <2>2. Import!Carries(headers, "equipment tag", {}) \in BOOLEAN
    BY DEF Import!Carries
  <2>3. f.exact = strong
    <3> HIDE DEF strong
    <3> QED BY <2>1
  <2> QED BY <2>2, <2>3
<1>2. CASE kind # "mel"
  <2> DEFINE family == Import!Family[kind]
  <2>1. PICK e \in {x \in Import!Ends(family, headers) : Import!IsTrusted(family, headers, x)} :
          f = [from |-> e[family.from].at, to |-> e[family.to].at, exact |-> e[1].exact /\ e[2].exact]
    BY <1>2 DEF Import!DetectColumns, Import!DetectPair
  <2>2. f.exact = (e[1].exact /\ e[2].exact)
    <3> HIDE DEF family
    <3> QED BY <2>1
  <2> QED BY <2>2
<1> QED BY <1>1, <1>2

LEMMA CandidatesAre ==
  ASSUME NEW sheet, Import!IsSheet(sheet), NEW c \in Import!ScanCandidates(sheet)
  PROVE  c.order \in 1..4 /\ c.row \in Nat /\ c.row <= 5 /\ c.found.exact \in BOOLEAN
<1>1. PICK k \in DOMAIN Import!DetectorOrder, i \in {n \in DOMAIN Import!RowNums(sheet) : n <= Import!HeaderScanRows} :
        \E f \in Import!DetectColumns(Import!DetectorOrder[k], Import!AoaRow(sheet, i)) :
          c = [order |-> k, row |-> i, found |-> f]
  BY DEF Import!ScanCandidates
<1>0. PICK f \in Import!DetectColumns(Import!DetectorOrder[k], Import!AoaRow(sheet, i)) :
        c = [order |-> k, row |-> i, found |-> f]
  BY <1>1
<1>2. c.order = k /\ c.row = i /\ c.found = f
  BY <1>0
<1>3. k \in 1..4
  BY DEF Import!DetectorOrder
<1>4. i \in Nat /\ i <= 5
  BY RowsInTurn DEF Import!HeaderScanRows
<1>5. f.exact \in BOOLEAN
  BY FoundExactly
<1> QED BY <1>2, <1>3, <1>4, <1>5

LEMMA CandidateIsPicked ==
  ASSUME NEW candidates, candidates # {},
         \A c \in candidates : c.order \in 1..4 /\ c.row \in Nat /\ c.row <= 5 /\ c.found.exact \in BOOLEAN
  PROVE  Import!PickCandidate(candidates) \in candidates
<1> DEFINE score(c) == (IF c.found.exact THEN 0 ELSE 100) + 10 * c.row + c.order
           scores == {score(c) : c \in candidates}
<1>1. \A c \in candidates : score(c) \in Nat
  OBVIOUS
<1>2. scores \subseteq Nat /\ scores # {}
  BY <1>1
<1>3. PICK x \in scores : \A y \in scores : x <= y
  <2> HIDE DEF scores
  <2> QED BY <1>2, LeastNatural
<1>4. PICK c \in candidates : \A d \in candidates : score(c) <= score(d)
  BY <1>3
<1>5. ASSUME NEW d \in candidates PROVE Import!Outranks(c, d)
  <2>1. score(c) <= score(d)
    BY <1>4
  <2> QED BY <2>1 DEF Import!Outranks
<1> HIDE DEF score, scores
<1> QED BY <1>5 DEF Import!PickCandidate

(* Whatever its headers, a sheet is of a known family or of none.          *)
LEMMA SheetIsOfKind ==
  ASSUME NEW sheet, Import!IsSheet(sheet), NEW a, a = Import!Applied(sheet)
  PROVE  a.kind \in Import!Connectivity \cup {"mel", "unknown"}
<1> DEFINE candidates == {c \in Import!ScanCandidates(sheet) : sheet.named \in {None, Import!DetectorOrder[c.order]}}
           best == Import!PickCandidate(candidates)
<1>1. CASE sheet.override # None
  BY <1>1 DEF Import!Applied, Import!IsSheet
<1>2. ASSUME candidates # {} PROVE Import!As(best).kind \in Import!Connectivity \cup {"mel", "unknown"}
  <2>1. best \in candidates
    BY <1>2, CandidateIsPicked, CandidatesAre
  <2>2. best.order \in 1..4
    BY <2>1, CandidatesAre
  <2> HIDE DEF best, candidates
  <2> QED BY <2>2 DEF Import!As, Import!Mapping, Import!DetectorOrder, Import!Connectivity
<1>3. CASE sheet.override = None /\ best # None /\ candidates # {}
  BY <1>2, <1>3 DEF Import!Applied, Import!DetectSheetKind
<1>4. CASE sheet.override = None /\ best = None
  <2>1. a.kind = IF sheet.named = None THEN "unknown" ELSE sheet.named
    BY <1>4 DEF Import!Applied, Import!DetectSheetKind, Import!Mapping
  <2> QED BY <2>1 DEF Import!IsSheet
<1>5. candidates = {} => best = None
  BY DEF Import!PickCandidate
<1> QED BY <1>1, <1>3, <1>4, <1>5

(* What a row of a sheet that is read says.                                *)
Telling(sheet, a, place, r) ==
  [from |-> Import!Trim(sheet.rows[r][a.from]), to |-> Import!Trim(sheet.rows[r][a.to]), kind |-> Import!Shape[a.kind].kind,
   type |-> Import!Shape[a.kind].type, place |-> Import!Append(place, r)]
Tells(sheet, a, r) ==
  /\ r \in Import!Written(sheet) /\ Turn(sheet, r) > a.row
  /\ Import!SkipReason(Import!Trim(sheet.rows[r][a.from]), Import!Trim(sheet.rows[r][a.to])) = ""
SaysOnly(sheet, a, place) ==
  \A o \in Import!SheetObservations(sheet, a, place) : \E r \in DOMAIN sheet.rows :
    Tells(sheet, a, r) /\ o = Telling(sheet, a, place, r)
SaysAll(sheet, a, place) ==
  \A r \in DOMAIN sheet.rows : Tells(sheet, a, r) =>
    Telling(sheet, a, place, r) \in Import!SheetObservations(sheet, a, place)
LEMMA RowsThatTell ==
  ASSUME NEW sheet, Import!IsSheet(sheet), NEW a, NEW place, Import!NotImportedReason(a) = ""
  PROVE  SaysOnly(sheet, a, place) /\ SaysAll(sheet, a, place)
<1> DEFINE nums == Import!RowNums(sheet)
           line(r) == [from |-> Import!Trim(sheet.rows[r][a.from]), to |-> Import!Trim(sheet.rows[r][a.to]), row |-> r]
           said(x) == [from |-> x.from, to |-> x.to, kind |-> Import!Shape[a.kind].kind,
                       type |-> Import!Shape[a.kind].type, place |-> Import!Append(place, x.row)]
           lines == {line(nums[i]) : i \in {n \in DOMAIN nums : n > a.row}}
           kept == {x \in lines : Import!SkipReason(x.from, x.to) = ""}
           rows == {q \in DOMAIN sheet.rows : Tells(sheet, a, q)}
<1>1. Import!RelationRows(sheet, a) = lines
  BY DEF Import!RelationRows, Import!AoaRow
<1>2. Import!SheetObservations(sheet, a, place) = {said(x) : x \in kept}
  BY <1>1 DEF Import!SheetObservations
<1>3. \A r : said(line(r)) = Telling(sheet, a, place, r) /\ line(r).from = Import!Trim(sheet.rows[r][a.from])
             /\ line(r).to = Import!Trim(sheet.rows[r][a.to])
  BY DEF Telling
<1>4. ASSUME NEW x \in kept PROVE \E r \in rows : x = line(r)
  <2>1. PICK i \in DOMAIN nums : i > a.row /\ x = line(nums[i])
    BY <1>4
  <2>2. nums[i] \in Import!Written(sheet) /\ Turn(sheet, nums[i]) = i
    BY RowsInTurn
  <2>3. nums[i] \in DOMAIN sheet.rows
    BY <2>2 DEF Import!Written
  <2>4. Import!SkipReason(Import!Trim(sheet.rows[nums[i]][a.from]), Import!Trim(sheet.rows[nums[i]][a.to])) = ""
    <3>1. Import!SkipReason(x.from, x.to) = ""
      BY <1>4
    <3> HIDE DEF line
    <3> QED BY <1>3, <2>1, <3>1
  <2>5. nums[i] \in rows
    BY <2>1, <2>2, <2>3, <2>4 DEF Tells
  <2> QED BY <2>1, <2>5
<1>5. ASSUME NEW r \in rows PROVE line(r) \in kept
  <2>1. Turn(sheet, r) \in DOMAIN nums /\ nums[Turn(sheet, r)] = r /\ Turn(sheet, r) > a.row
    BY RowsInTurn DEF Tells
  <2>2. line(r) \in lines
    BY <2>1
  <2>3. Import!SkipReason(line(r).from, line(r).to) = ""
    BY <1>3 DEF Tells
  <2> HIDE DEF line, lines
  <2> QED BY <2>2, <2>3
<1> HIDE DEF line, said, kept, rows
<1>6. {said(x) : x \in kept} = {Telling(sheet, a, place, r) : r \in rows}
  <2>1. ASSUME NEW x \in kept PROVE \E r \in rows : said(x) = Telling(sheet, a, place, r)
    <3>1. PICK r \in rows : x = line(r)
      BY <1>4
    <3> QED BY <1>3, <3>1
  <2>2. ASSUME NEW r \in rows PROVE \E x \in kept : said(x) = Telling(sheet, a, place, r)
    BY <1>3, <1>5
  <2> QED BY <2>1, <2>2
<1> QED BY <1>2, <1>6 DEF rows, SaysOnly, SaysAll

(* What the workbooks say, and that it stays.                              *)
SheetsSound ==
  /\ "workbooks" \in DOMAIN project
  /\ \A w \in DOMAIN project.workbooks : \A s \in DOMAIN project.workbooks[w] : Import!IsSheet(project.workbooks[w][s])
LEMMA AlwaysSheets == CompileSpec => []SheetsSound
<1>1. CompileInit => SheetsSound
  BY CompileAssumption DEF CompileInit, SheetsSound
<1>2. SheetsSound /\ [CompileNext]_pipelineVars => SheetsSound'
  <2> SUFFICES ASSUME SheetsSound, [CompileNext]_pipelineVars PROVE SheetsSound'
    OBVIOUS
  <2>1. CASE Recompile
    <3>1. DOMAIN project' = DOMAIN project /\ project'.workbooks = project.workbooks
      BY <2>1 DEF Recompile, SheetsSound
    <3> QED BY <3>1 DEF SheetsSound
  <2>2. CASE UNCHANGED project
    BY <2>2 DEF SheetsSound
  <2>3. Recompile \/ UNCHANGED project
    BY StepKinds DEF ReadCatalog, RefuseCatalog, ResolveSystems, ReadFlow, RefuseWorkbooks, AssembleClaims,
                     CompileSnapshot, Publish, Aside, stageVars
  <2> QED BY <2>1, <2>2, <2>3
<1> QED BY <1>1, <1>2, PTL DEF CompileSpec

(* No other sheet and no other row says anything at the place of a row.    *)
Told(w, s, r) == {o \in evidence : o.place = <<w, s, r>>}
Due(sheet, a, w, s, r) ==
  IF Import!NotImportedReason(a) = "" /\ Tells(sheet, a, r) THEN {Telling(sheet, a, <<w, s>>, r)} ELSE {}
LEMMA ToldBySheet ==
  ASSUME PlacedSound, SheetsSound, flowStep = "place",
         NEW w \in DOMAIN project.workbooks, NEW s \in DOMAIN project.workbooks[w],
         NEW sheet, sheet = project.workbooks[w][s], NEW a, a = Import!Applied(sheet),
         NEW r \in DOMAIN sheet.rows
  PROVE  Told(w, s, r) = Due(sheet, a, w, s, r)
<1> DEFINE books == project.workbooks
           told == {o \in evidence : o.place = <<w, s, r>>}
           by(v, u) == Import!SheetObservations(books[v][u], Import!Applied(books[v][u]), <<v, u>>)
<1>1. evidence = UNION {UNION {by(v, u) : u \in DOMAIN books[v]} : v \in DOMAIN books}
  BY DEF PlacedSound, Import!Imported
<1>2. \A v \in DOMAIN books : \A u \in DOMAIN books[v] : Import!IsSheet(books[v][u])
  BY DEF SheetsSound
<1>3. ASSUME NEW v \in DOMAIN books, NEW u \in DOMAIN books[v], NEW o \in by(v, u)
      PROVE  LET other == books[v][u]
                 b     == Import!Applied(other)
             IN  Import!NotImportedReason(b) = "" /\ \E q \in DOMAIN other.rows :
                   Tells(other, b, q) /\ o = Telling(other, b, <<v, u>>, q) /\ o.place = <<v, u, q>>
  <2> DEFINE other == books[v][u]
             b == Import!Applied(other)
  <2>1. Import!NotImportedReason(b) = ""
    BY <1>3 DEF Import!SheetObservations
  <2>3. PICK q \in DOMAIN other.rows : Tells(other, b, q) /\ o = Telling(other, b, <<v, u>>, q)
    <3>1. Import!IsSheet(other) /\ o \in Import!SheetObservations(other, b, <<v, u>>)
      BY <1>2, <1>3
    <3> HIDE DEF other, b, by, told, books
    <3>2. SaysOnly(other, b, <<v, u>>)
      BY <2>1, <3>1, RowsThatTell
    <3> QED BY <3>1, <3>2 DEF SaysOnly
  <2>4. o.place = <<v, u, q>>
    BY <2>3, ImportPlace DEF Telling
  <2> QED BY <2>1, <2>3, <2>4
<1>4. ASSUME NEW o \in told
      PROVE  Import!NotImportedReason(a) = "" /\ Tells(sheet, a, r) /\ o = Telling(sheet, a, <<w, s>>, r)
  <2>1. PICK v \in DOMAIN books : \E u \in DOMAIN books[v] : o \in by(v, u)
    <3> HIDE DEF by, books
    <3> QED BY <1>1
  <2>2. PICK u \in DOMAIN books[v] : o \in by(v, u)
    BY <2>1
  <2> DEFINE other == books[v][u]
             b == Import!Applied(other)
  <2>3. PICK q \in DOMAIN other.rows : Tells(other, b, q) /\ o = Telling(other, b, <<v, u>>, q) /\ o.place = <<v, u, q>>
    BY <1>3, <2>2
  <2>4. Import!NotImportedReason(b) = ""
    BY <1>3, <2>2
  <2>5. v = w /\ u = s /\ q = r
    <3>1. <<v, u, q>> = <<w, s, r>>
      BY <2>3
    <3> QED BY <3>1
  <2> QED BY <2>3, <2>4, <2>5
<1>5. ASSUME Import!NotImportedReason(a) = "", Tells(sheet, a, r) PROVE Telling(sheet, a, <<w, s>>, r) \in told
  <2>1. Telling(sheet, a, <<w, s>>, r) \in by(w, s)
    <3>1. by(w, s) = Import!SheetObservations(sheet, a, <<w, s>>) /\ Import!IsSheet(sheet)
      BY <1>2
    <3>3. Telling(sheet, a, <<w, s>>, r) \in Import!SheetObservations(sheet, a, <<w, s>>)
      BY <1>5, <3>1, RowsThatTell DEF SaysAll
    <3> QED BY <3>1, <3>3
  <2>2. Telling(sheet, a, <<w, s>>, r) \in evidence
    <3>1. w \in DOMAIN books /\ s \in DOMAIN books[w]
      OBVIOUS
    <3> DEFINE t == Telling(sheet, a, <<w, s>>, r)
               inBook(v) == UNION {by(v, u) : u \in DOMAIN books[v]}
    <3>2. t \in by(w, s)
      BY <2>1
    <3>3. evidence = UNION {inBook(v) : v \in DOMAIN books}
      BY <1>1
    <3>4. t \in inBook(w)
      <4> HIDE DEF by, t
      <4>1. by(w, s) \in {by(w, u) : u \in DOMAIN books[w]}
        OBVIOUS
      <4> QED BY <3>2, <4>1
    <3>5. t \in evidence
      <4> HIDE DEF inBook, books, t
      <4> QED BY <3>1, <3>3, <3>4
    <3> QED BY <3>5
  <2>3. Telling(sheet, a, <<w, s>>, r).place = <<w, s, r>>
    BY ImportPlace DEF Telling
  <2> QED BY <2>2, <2>3
<1>6. Told(w, s, r) = told
  BY DEF Told
<1> HIDE DEF told
<1> QED BY <1>4, <1>5, <1>6 DEF Due

LEMMA SameWidth ==
  ASSUME NEW sheet, Import!IsSheet(sheet)
  PROVE  \A q, r \in DOMAIN sheet.rows : DOMAIN sheet.rows[q] = DOMAIN sheet.rows[r]
<1>1. PICK n \in Nat, width \in Nat \ {0} :
        /\ DOMAIN sheet.rows = 1..n
        /\ \A q \in 1..n : sheet.rows[q] = [c \in 1..width |-> sheet.rows[q][c]]
  BY SheetShape
<1>2. \A q \in DOMAIN sheet.rows : DOMAIN sheet.rows[q] = 1..width
  BY <1>1
<1> QED BY <1>2

RowsAbove(sheet, r) == {q \in 1..(r - 1) : Holds(sheet.rows[q])}
Answers(told, above, from, to, a) ==
  IF /\ a.kind \in Import!Connectivity /\ a.row # 0
     /\ Cardinality(above) >= a.row /\ None \notin {from, to} /\ from # to
  THEN Cardinality(told) = 1 /\ \A o \in told : o.from = from /\ o.to = to
  ELSE told = {}

(* A row says what its two cells say, where it says anything at all.       *)
LEMMA RowIsAccountedFor ==
  ASSUME PlacedSound, SheetsSound, flowStep = "place",
         NEW w \in DOMAIN project.workbooks, NEW s \in DOMAIN project.workbooks[w],
         NEW sheet, sheet = project.workbooks[w][s], NEW a, a = Import!Applied(sheet),
         NEW r \in DOMAIN sheet.rows
  PROVE  Answers(Told(w, s, r), RowsAbove(sheet, r),
                 Import!Trim(sheet.rows[r][a.from]), Import!Trim(sheet.rows[r][a.to]), a)
<1> DEFINE above == RowsAbove(sheet, r)
           told == Told(w, s, r)
           from == Import!Trim(sheet.rows[r][a.from])
           to == Import!Trim(sheet.rows[r][a.to])
<1>0. /\ above = RowsAbove(sheet, r) /\ told = Told(w, s, r) /\ from = Import!Trim(sheet.rows[r][a.from])
      /\ to = Import!Trim(sheet.rows[r][a.to])
  OBVIOUS
<1> HIDE DEF above, told, from, to
<1>1. Import!IsSheet(sheet) /\ ~Import!Misfits(sheet, a)
  BY DEF SheetsSound, PlacedSound, Import!MisfitIn
<1>2. a.kind \in Import!Connectivity \cup {"mel", "unknown"}
  BY <1>1, SheetIsOfKind
<1>3. Import!NotImportedReason(a) = "" <=> a.kind \in Import!Connectivity /\ a.row # 0
  BY <1>2 DEF Import!NotImportedReason, Import!Connectivity
<1>4. told = IF Import!NotImportedReason(a) = "" /\ Tells(sheet, a, r)
             THEN {Telling(sheet, a, <<w, s>>, r)} ELSE {}
  <2>1. Told(w, s, r) = Due(sheet, a, w, s, r)
    BY ToldBySheet
  <2> QED BY <1>0, <2>1 DEF Due
<1>5. Import!SkipReason(from, to) = "" <=> None \notin {from, to} /\ from # to
  BY DEF Import!SkipReason
<1>6. ASSUME Import!NotImportedReason(a) = ""
      PROVE  /\ a.row \in Nat /\ a.row # 0
             /\ from # None => r \in Import!Written(sheet)
  <2>1. a.row \in DOMAIN Import!RowNums(sheet) /\ a.from \in DOMAIN Import!AoaRow(sheet, a.row)
    BY <1>1, <1>6 DEF Import!Misfits
  <2>2. a.row \in Nat /\ Import!RowNums(sheet)[a.row] \in Import!Written(sheet)
    BY <1>1, <2>1, RowsInTurn
  <2>4. \A q, p \in DOMAIN sheet.rows : DOMAIN sheet.rows[q] = DOMAIN sheet.rows[p]
    BY <1>1, SameWidth
  <2>5. a.from \in DOMAIN sheet.rows[r]
    <3>1. Import!RowNums(sheet)[a.row] \in DOMAIN sheet.rows
      BY <2>2 DEF Import!Written
    <3> QED BY <2>1, <2>4, <3>1 DEF Import!AoaRow
  <2>6. ASSUME from # None PROVE r \in Import!Written(sheet)
    <3> DEFINE cell == sheet.rows[r][a.from]
    <3>1. cell \in Import!Range(sheet.rows[r])
      BY <2>5 DEF Import!Range
    <3>2. cell # None
      BY <1>0, <2>6, TrimAssumption DEF Import!Trim
    <3>3. Import!Range(sheet.rows[r]) # {None}
      BY <3>1, <3>2
    <3> QED BY <3>3 DEF Import!Written
  <2> QED BY <1>3, <1>6, <2>2, <2>6
<1>7. ASSUME r \in Import!Written(sheet) PROVE Cardinality(above) \in Nat /\ Turn(sheet, r) = Cardinality(above) + 1
  BY <1>0, <1>1, <1>7, TurnAbove DEF RowsAbove
<1>8. ASSUME Import!NotImportedReason(a) = "" /\ Tells(sheet, a, r) PROVE Answers(told, above, from, to, a)
  <2>1. Cardinality(above) >= a.row
    <3>1. a.row \in Nat
      BY <1>6, <1>8
    <3>2. Cardinality(above) \in Nat /\ Cardinality(above) + 1 > a.row
      <4>1. r \in Import!Written(sheet) /\ Turn(sheet, r) > a.row
        BY <1>8 DEF Tells
      <4> QED BY <1>7, <4>1
    <3> QED BY <3>1, <3>2
  <2>2. None \notin {from, to} /\ from # to
    BY <1>0, <1>5, <1>8 DEF Tells
  <2>3. told = {Telling(sheet, a, <<w, s>>, r)}
    BY <1>4, <1>8
  <2>4. Cardinality(told) = 1
    BY <2>3, FS_Singleton
  <2>5. Telling(sheet, a, <<w, s>>, r).from = from /\ Telling(sheet, a, <<w, s>>, r).to = to
    BY <1>0 DEF Telling
  <2> QED BY <1>3, <1>8, <2>1, <2>2, <2>3, <2>4, <2>5 DEF Answers
<1>9. ASSUME ~(Import!NotImportedReason(a) = "" /\ Tells(sheet, a, r)) PROVE Answers(told, above, from, to, a)
  <2>1. told = {}
    BY <1>4, <1>9
  <2>2. ASSUME a.kind \in Import!Connectivity, a.row # 0, Cardinality(above) >= a.row, None \notin {from, to}, from # to
        PROVE  FALSE
    <3>1. Import!NotImportedReason(a) = "" /\ Import!SkipReason(from, to) = ""
      BY <1>3, <1>5, <2>2
    <3>2. r \in Import!Written(sheet) /\ a.row \in Nat
      BY <1>6, <2>2, <3>1
    <3>3. Turn(sheet, r) > a.row
      BY <1>7, <2>2, <3>2
    <3> QED BY <1>0, <1>9, <3>1, <3>2, <3>3 DEF Tells
  <2> QED BY <2>1, <2>2 DEF Answers
<1>10. Answers(told, above, from, to, a)
  BY <1>8, <1>9
<1> QED BY <1>0, <1>10

LEMMA RowsAreAccountedFor == ASSUME PlacedSound, SheetsSound PROVE RowsAccountedFor
<1> SUFFICES ASSUME flowStep = "place",
                    NEW w \in DOMAIN project.workbooks, NEW s \in DOMAIN project.workbooks[w],
                    NEW r \in DOMAIN project.workbooks[w][s].rows
             PROVE  LET sheet  == project.workbooks[w][s]
                        a      == Import!Applied(sheet)
                        isRead == a.kind \in Import!Connectivity /\ a.row # 0
                        told  == {o \in evidence : o.place = <<w, s, r>>}
                        above == {q \in 1..(r - 1) : Holds(sheet.rows[q])}
                        from  == Import!Trim(sheet.rows[r][a.from])
                        to    == Import!Trim(sheet.rows[r][a.to])
                    IN  IF isRead /\ Cardinality(above) >= a.row /\ None \notin {from, to} /\ from # to
                        THEN Cardinality(told) = 1 /\ \A o \in told : o.from = from /\ o.to = to
                        ELSE told = {}
  BY Zenon DEF RowsAccountedFor, Holds
<1> DEFINE sheet == project.workbooks[w][s]
           a == Import!Applied(sheet)
<1>1. sheet = project.workbooks[w][s] /\ a = Import!Applied(sheet) /\ r \in DOMAIN sheet.rows
  OBVIOUS
<1>2. Answers(Told(w, s, r), RowsAbove(sheet, r),
                 Import!Trim(sheet.rows[r][a.from]), Import!Trim(sheet.rows[r][a.to]), a)
  <2> HIDE DEF sheet, a
  <2> QED BY <1>1, RowIsAccountedFor
<1> QED BY <1>2 DEF Answers, RowsAbove, Told

(* At the end of a compile, what the site and the model stated is told.    *)
LEMMA PublishedIsTold ==
  ASSUME IsPublished, LearnedSound, MatchingSound, DraftsSound, PlacedSound, CatalogSound,
         EveryAssetShown, IsFiniteSet(shown)
  PROVE  StatementsTraced /\ ConnectivityKept /\ TagsAccountedFor
<1>1. phase = "done"
  BY DEF IsPublished, Handed
<1>2. shown = DOMAIN catalog
  BY <1>1, PublishedFacts DEF EveryAssetShown
<1>3. IsFiniteSet(DOMAIN catalog) /\ StatedSound
  BY <1>2 DEF IsPublished
<1> QED BY <1>3, StatementsAreTraced, ConnectionsAreKept, TagsAreAccountedFor

(* Nothing a site stated is lost silently, whatever the project: a row of  *)
(* its workbooks is an observation or has no two ends to tell of; an       *)
(* observation between two assets is a dependency; a parent stated by      *)
(* anyone is the parent, a claim that lost, a root or in the review queue; *)
(* and a tag names one asset or is reported.                               *)
THEOREM NothingIsLost == CompileSpec => []NothingSilent
<1> DEFINE Known == Handed /\ Sound /\ StatedSound /\ HeardInv /\ EveryClaimKept /\ LearnedSound /\ MatchingSound
                    /\ DraftsSound /\ PlacedSound /\ CatalogSound /\ SheetsSound /\ EveryAssetShown /\ IsFiniteSet(shown)
<1>1. Known => NothingSilent
  BY PublishedIsTold, RowsAreAccountedFor DEF NothingSilent, IsPublished
<1>2. CompileSpec => []Sound /\ []EveryClaimKept /\ []EveryAssetShown /\ []IsFiniteSet(shown) /\ []HeardInv
  BY PartsImplemented, AlwaysSound, ClaimsAreKept, TreeIsComplete, ShownIsFinite, AlwaysHeard, PTL DEF ImplementsItsParts
<1> QED BY <1>1, <1>2, AlwaysHanded, AlwaysStated, AlwaysLearned, AlwaysMatched, AlwaysDrafted, AlwaysPlaced,
           AlwaysCataloged, AlwaysSheets, PTL
------------------------------------------------------------------------------
(* How often the rows of a set occur: a sum over the set, taken one row    *)
(* after another.  Each beginning of the sum is known of all sets up to a  *)
(* size, so that it is of all.                                             *)
First(s) == CHOOSE x \in s : TRUE
IsTally(f, D) == f = [s \in D |-> IF s = {} THEN 0 ELSE First(s).times + f[s \ {First(s)}]]
Upto(S, n) == {s \in SUBSET S : Cardinality(s) <= n}
LEMMA TimesByTally ==
  ASSUME NEW rows PROVE Sheets!Times(rows) = (CHOOSE f : IsTally(f, SUBSET rows))[rows]
BY DEF Sheets!Times, Sheets!MapThenSumSet, Sheets!MapThenFoldSet, IsTally, First

LEMMA OneLess ==
  ASSUME NEW S, IsFiniteSet(S), NEW s \in SUBSET S, s # {}
  PROVE  /\ First(s) \in s /\ IsFiniteSet(s) /\ IsFiniteSet(s \ {First(s)})
         /\ Cardinality(s) \in Nat /\ Cardinality(s) > 0
         /\ Cardinality(s \ {First(s)}) = Cardinality(s) - 1
<1>1. First(s) \in s
  BY DEF First
<1>2. IsFiniteSet(s) /\ Cardinality(s) \in Nat /\ Cardinality(s) # 0
  BY FS_Subset, FS_CardinalityType, FS_EmptySet
<1> QED BY <1>1, <1>2, FS_RemoveElement

LEMMA TallyExists == ASSUME NEW S, IsFiniteSet(S) PROVE \E f : IsTally(f, SUBSET S)
<1> DEFINE Bad == {n \in Nat : ~ \E f : IsTally(f, Upto(S, n))}
<1>1. \A s \in SUBSET S : IsFiniteSet(s) /\ Cardinality(s) \in Nat /\ (Cardinality(s) = 0 => s = {})
  BY FS_Subset, FS_CardinalityType, FS_EmptySet
<1>2. Bad = {}
  <2>1. SUFFICES ASSUME Bad # {} PROVE FALSE
    OBVIOUS
  <2>2. PICK n \in Bad : \A m \in Bad : n <= m
    BY <2>1, LeastNatural
  <2>3. CASE n = 0
    <3>1. \A s \in Upto(S, 0) : s = {}
      BY <1>1 DEF Upto
    <3>2. IsTally([s \in Upto(S, 0) |-> 0], Upto(S, 0))
      BY <3>1 DEF IsTally
    <3> QED BY <2>3, <3>2
  <2>4. CASE n # 0
    <3>1. n - 1 \in Nat /\ n - 1 \notin Bad
      BY <2>2, <2>4
    <3>2. PICK g : IsTally(g, Upto(S, n - 1))
      BY <3>1
    <3> DEFINE f == [s \in Upto(S, n) |-> IF s = {} THEN 0 ELSE First(s).times + g[s \ {First(s)}]]
    <3>3. \A s \in Upto(S, n - 1) : s \in Upto(S, n) /\ f[s] = g[s]
      <4>1. ASSUME NEW s \in Upto(S, n - 1) PROVE s \in Upto(S, n)
        <5>1. s \in SUBSET S /\ Cardinality(s) <= n - 1 /\ Cardinality(s) \in Nat
          BY <1>1, <4>1 DEF Upto
        <5> QED BY <2>2, <5>1 DEF Upto
      <4>2. ASSUME NEW s \in Upto(S, n - 1) PROVE g[s] = IF s = {} THEN 0 ELSE First(s).times + g[s \ {First(s)}]
        BY <3>2, <4>2 DEF IsTally
      <4> QED BY <4>1, <4>2
    <3>4. \A s \in Upto(S, n) : s # {} => s \ {First(s)} \in Upto(S, n - 1)
      <4>1. SUFFICES ASSUME NEW s \in Upto(S, n), s # {} PROVE s \ {First(s)} \in Upto(S, n - 1)
        OBVIOUS
      <4>2. s \in SUBSET S /\ Cardinality(s) <= n
        BY <4>1 DEF Upto
      <4>3. Cardinality(s \ {First(s)}) = Cardinality(s) - 1 /\ Cardinality(s) \in Nat
        BY <4>1, <4>2, OneLess
      <4> QED BY <4>2, <4>3 DEF Upto
    <3>5. \A s \in Upto(S, n) : s # {} => f[s \ {First(s)}] = g[s \ {First(s)}]
      BY <3>3, <3>4
    <3>6. IsTally(f, Upto(S, n))
      BY <3>5 DEF IsTally
    <3> QED BY <3>6
  <2> QED BY <2>3, <2>4
<1>3. Upto(S, Cardinality(S)) = SUBSET S
  BY <1>1, FS_Subset DEF Upto
<1>4. Cardinality(S) \in Nat
  BY FS_CardinalityType
<1>5. \A n \in Nat : \E f : IsTally(f, Upto(S, n))
  BY <1>2
<1>6. \E f : IsTally(f, Upto(S, Cardinality(S)))
  BY <1>4, <1>5
<1> QED BY <1>3, <1>6

LEMMA TalliesAgree ==
  ASSUME NEW S, IsFiniteSet(S), NEW T \in SUBSET S, NEW f, NEW g, IsTally(f, SUBSET S), IsTally(g, SUBSET T)
  PROVE  \A s \in SUBSET T : f[s] = g[s]
<1> DEFINE Bad == {Cardinality(s) : s \in {t \in SUBSET T : f[t] # g[t]}}
<1>1. SUFFICES ASSUME Bad # {} PROVE FALSE
  OBVIOUS
<1>2. Bad \subseteq Nat
  BY FS_Subset, FS_CardinalityType
<1>3. PICK n \in Bad : \A m \in Bad : n <= m
  BY <1>1, <1>2, LeastNatural
<1>4. PICK s \in SUBSET T : f[s] # g[s] /\ Cardinality(s) = n
  OBVIOUS
<1>5. s # {}
  BY <1>4 DEF IsTally
<1>6. Cardinality(s \ {First(s)}) = n - 1 /\ n \in Nat
  BY <1>4, <1>5, OneLess
<1>7. f[s \ {First(s)}] = g[s \ {First(s)}]
  BY <1>3, <1>6
<1>8. f[s] = First(s).times + f[s \ {First(s)}] /\ g[s] = First(s).times + g[s \ {First(s)}]
  BY <1>5 DEF IsTally
<1> QED BY <1>4, <1>7, <1>8

LEMMA TimesOf ==
  ASSUME NEW S, IsFiniteSet(S)
  PROVE  /\ Sheets!Times({}) = 0
         /\ S # {} => Sheets!Times(S) = First(S).times + Sheets!Times(S \ {First(S)})
<1> DEFINE tally(D) == CHOOSE f : IsTally(f, SUBSET D)
<1>1. \A D \in SUBSET S : IsTally(tally(D), SUBSET D) /\ Sheets!Times(D) = tally(D)[D]
  BY FS_Subset, TallyExists, TimesByTally
<1> HIDE DEF tally
<1>2. Sheets!Times({}) = 0
  BY <1>1 DEF IsTally
<1>3. ASSUME S # {} PROVE Sheets!Times(S) = First(S).times + Sheets!Times(S \ {First(S)})
  <2>1. tally(S)[S] = First(S).times + tally(S)[S \ {First(S)}]
    BY <1>1, <1>3 DEF IsTally
  <2>2. tally(S)[S \ {First(S)}] = tally(S \ {First(S)})[S \ {First(S)}]
    <3>1. IsTally(tally(S), SUBSET S) /\ IsTally(tally(S \ {First(S)}), SUBSET (S \ {First(S)}))
      BY <1>1
    <3>2. S \ {First(S)} \in SUBSET S /\ S \ {First(S)} \in SUBSET (S \ {First(S)})
      OBVIOUS
    <3>3. PICK f, g : f = tally(S) /\ g = tally(S \ {First(S)})
      OBVIOUS
    <3>4. \A s \in SUBSET (S \ {First(S)}) : f[s] = g[s]
      <4>1. PICK T : T = S \ {First(S)}
        OBVIOUS
      <4>2. IsTally(f, SUBSET S) /\ IsTally(g, SUBSET T) /\ T \in SUBSET S
        BY <3>1, <3>3, <4>1
      <4>3. \A s \in SUBSET T : f[s] = g[s]
        BY <4>2, TalliesAgree, SMTT(60)
      <4> QED BY <4>1, <4>3
    <3> QED BY <3>2, <3>3, <3>4
  <2> QED BY <1>1, <2>1, <2>2
<1> QED BY <1>2, <1>3

LEMMA TimesType ==
  ASSUME NEW S, IsFiniteSet(S), \A r \in S : r.times \in Nat
  PROVE  Sheets!Times(S) \in Nat /\ (S # {} /\ (\A r \in S : r.times # 0) => Sheets!Times(S) # 0)
<1> DEFINE Bad == {Cardinality(s) : s \in {t \in SUBSET S : Sheets!Times(t) \notin Nat}}
<1>1. Bad \subseteq Nat
  BY FS_Subset, FS_CardinalityType
<1>2. ASSUME Bad # {} PROVE FALSE
  <2>1. PICK n \in Bad : \A m \in Bad : n <= m
    BY <1>1, <1>2, LeastNatural
  <2>2. PICK s \in SUBSET S : Sheets!Times(s) \notin Nat /\ Cardinality(s) = n
    OBVIOUS
  <2>3. IsFiniteSet(s)
    BY FS_Subset
  <2>4. s # {} /\ Sheets!Times(s) = First(s).times + Sheets!Times(s \ {First(s)})
    <3>1. Sheets!Times({}) = 0
      BY <2>3, TimesOf
    <3>2. s # {}
      BY <2>2, <3>1
    <3> QED BY <2>3, <3>2, TimesOf
  <2>5. First(s) \in S /\ Cardinality(s \ {First(s)}) = n - 1 /\ n \in Nat
    BY <2>2, <2>4, OneLess
  <2>6. Sheets!Times(s \ {First(s)}) \in Nat
    <3>1. n - 1 \notin Bad
      BY <2>1, <2>5
    <3> QED BY <2>5, <3>1
  <2> QED BY <2>2, <2>4, <2>5, <2>6
<1>3. \A s \in SUBSET S : Sheets!Times(s) \in Nat
  BY <1>2
<1>4. ASSUME S # {}, \A r \in S : r.times # 0 PROVE Sheets!Times(S) # 0
  <2>1. Sheets!Times(S) = First(S).times + Sheets!Times(S \ {First(S)})
    BY <1>4, TimesOf
  <2>2. First(S) \in S /\ Sheets!Times(S \ {First(S)}) \in Nat
    BY <1>3, <1>4 DEF First
  <2> QED BY <1>4, <2>1, <2>2
<1> QED BY <1>3, <1>4

(* Whichever row is taken, it counts for what it says.                     *)
LEMMA TimesLess ==
  ASSUME NEW S, IsFiniteSet(S), \A r \in S : r.times \in Nat, NEW x \in S
  PROVE  Sheets!Times(S) = x.times + Sheets!Times(S \ {x})
<1> DEFINE Wrong(t) == \E y \in t : Sheets!Times(t) # y.times + Sheets!Times(t \ {y})
           Bad == {Cardinality(s) : s \in {t \in SUBSET S : Wrong(t)}}
<1>1. Bad \subseteq Nat
  BY FS_Subset, FS_CardinalityType
<1>2. SUFFICES ASSUME Bad # {} PROVE FALSE
  OBVIOUS
<1>3. PICK n \in Bad : \A m \in Bad : n <= m
  BY <1>1, <1>2, LeastNatural
<1>4. PICK s \in SUBSET S : Wrong(s) /\ Cardinality(s) = n
  OBVIOUS
<1>5. PICK y \in s : Sheets!Times(s) # y.times + Sheets!Times(s \ {y})
  BY <1>4
<1> DEFINE f == First(s)
<1>6. Sheets!Times(s) = f.times + Sheets!Times(s \ {f})
  BY <1>5, FS_Subset, TimesOf
<1>7. f \in s /\ Cardinality(s \ {f}) = n - 1 /\ n \in Nat
  BY <1>4, <1>5, OneLess
<1> HIDE DEF f
<1>8. ~ Wrong(s \ {f})
  <2>1. n - 1 \notin Bad
    BY <1>3, <1>7
  <2> QED BY <1>7, <2>1
<1>9. y # f /\ y \in s \ {f} /\ f \in s \ {y}
  BY <1>5, <1>6, <1>7
<1>10. Sheets!Times(s \ {f}) = y.times + Sheets!Times((s \ {f}) \ {y})
  BY <1>8, <1>9
<1>11. Sheets!Times(s \ {y}) = f.times + Sheets!Times((s \ {y}) \ {f})
  <2>1. Cardinality(s \ {y}) = n - 1
    BY <1>4, <1>5, FS_Subset, FS_RemoveElement
  <2>2. n - 1 \notin Bad
    BY <1>3, <1>7
  <2> QED BY <1>9, <2>1, <2>2
<1>12. (s \ {f}) \ {y} = (s \ {y}) \ {f}
  OBVIOUS
<1>13. Sheets!Times((s \ {f}) \ {y}) \in Nat
  BY FS_Subset, TimesType
<1>14. f.times \in Nat /\ y.times \in Nat
  BY <1>7
<1> DEFINE rest == Sheets!Times((s \ {f}) \ {y})
<1>15. Sheets!Times(s) = f.times + (y.times + rest) /\ Sheets!Times(s \ {y}) = f.times + rest /\ rest \in Nat
  BY <1>6, <1>10, <1>11, <1>12, <1>13
<1> HIDE DEF rest
<1>16. Sheets!Times(s) = y.times + (f.times + rest)
  BY <1>14, <1>15
<1> QED BY <1>5, <1>15, <1>16

LEMMA TimesSplit ==
  ASSUME NEW S, IsFiniteSet(S), \A r \in S : r.times \in Nat, NEW T \in SUBSET S
  PROVE  Sheets!Times(S) = Sheets!Times(T) + Sheets!Times(S \ T)
<1> DEFINE Wrong(t) == Sheets!Times(S) # Sheets!Times(t) + Sheets!Times(S \ t)
           Bad == {Cardinality(s) : s \in {t \in SUBSET S : Wrong(t)}}
<1>1. Bad \subseteq Nat
  BY FS_Subset, FS_CardinalityType
<1>2. SUFFICES ASSUME Bad # {} PROVE FALSE
  OBVIOUS
<1>3. PICK n \in Bad : \A m \in Bad : n <= m
  BY <1>1, <1>2, LeastNatural
<1>4. PICK s \in SUBSET S : Wrong(s) /\ Cardinality(s) = n
  OBVIOUS
<1>5. s # {}
  <2>1. ASSUME s = {} PROVE FALSE
    <3>1. Sheets!Times({}) = 0 /\ S \ {} = S /\ Sheets!Times(S) \in Nat
      BY TimesOf, TimesType
    <3>2. Sheets!Times(S) # Sheets!Times({}) + Sheets!Times(S \ {})
      BY <1>4, <2>1
    <3> QED BY <3>1, <3>2
  <2> QED BY <2>1
<1>6. PICK x \in s : TRUE
  BY <1>5
<1>7. Cardinality(s \ {x}) = n - 1 /\ n \in Nat
  BY <1>1, <1>4, <1>6, FS_Subset, FS_RemoveElement
<1>8. ~ Wrong(s \ {x})
  <2>1. n - 1 \notin Bad
    <3>1. n \in Nat
      BY <1>7
    <3> HIDE DEF Bad
    <3> QED BY <1>3, <3>1
  <2> QED BY <1>7, <2>1
<1>9. Sheets!Times(s) = x.times + Sheets!Times(s \ {x})
  BY <1>6, FS_Subset, TimesLess
<1>10. S \ (s \ {x}) = (S \ s) \cup {x} /\ (S \ (s \ {x})) \ {x} = S \ s /\ x \in S \ (s \ {x})
  BY <1>6
<1>11. Sheets!Times(S \ (s \ {x})) = x.times + Sheets!Times(S \ s)
  <2>1. IsFiniteSet(S \ (s \ {x}))
    BY FS_Subset
  <2> QED BY <1>10, <2>1, TimesLess
<1>12. Sheets!Times(s \ {x}) \in Nat /\ Sheets!Times(S \ s) \in Nat /\ x.times \in Nat
  BY <1>6, FS_Subset, TimesType
<1> QED BY <1>4, <1>8, <1>9, <1>11, <1>12

LEMMA AtLeast ==
  ASSUME NEW A \in Nat, NEW B \in Nat, B > 0, NEW q \in Int, q = A \div B, NEW k \in Nat
  PROVE  q >= k <=> A >= k * B
<1>1. PICK r \in Int : r = A % B
  OBVIOUS
<1>2. A = q * B + r /\ 0 <= r /\ r < B
  BY <1>1
<1>3. ASSUME q >= k PROVE A >= k * B
  <2>1. PICK d \in Nat : q = k + d
    BY <1>3
  <2>2. q * B = k * B + d * B /\ d * B >= 0
    BY <2>1
  <2> QED BY <1>2, <2>2
<1>4. ASSUME q < k PROVE A < k * B
  <2>1. PICK d \in Nat : k = q + 1 + d
    BY <1>4
  <2>2. k * B = q * B + B + d * B /\ d * B >= 0
    BY <2>1
  <2> QED BY <1>2, <2>2
<1> QED BY <1>3, <1>4

LEMMA ShareClears ==
  ASSUME NEW c \in Nat, NEW t \in Nat, t > 0
  PROVE  Sheets!Share(c, t) >= Sheets!Gate <=> 20000 * c >= 17999 * t
<1> DEFINE A == 20000 * c + t
           B == 2 * t
<1>1. A \in Nat /\ B \in Nat /\ B > 0 /\ A \div B \in Int
  OBVIOUS
<1>2. A \div B >= 9000 <=> A >= 9000 * B
  <2> HIDE DEF A, B
  <2> QED BY <1>1, AtLeast
<1>3. A >= 9000 * B <=> 20000 * c >= 17999 * t
  OBVIOUS
<1>4. Sheets!Share(c, t) = A \div B /\ Sheets!Gate = 9000
  BY DEF Sheets!Share, Sheets!Gate
<1> HIDE DEF A, B
<1> QED BY <1>2, <1>3, <1>4

(* The rows filed under an asset's key are those that speak of the asset.  *)
LEMMA FiledIsEvidence ==
  ASSUME NEW registry, NEW rung \in Sheets!Rungs, NEW x
  PROVE  /\ Sheets!Key(rung, x) # None =>
              Sheets!Filed(registry, rung, Sheets!Key(rung, x)) = Sheets!Evidence(registry, rung, x)
         /\ Sheets!Key(rung, x) = None => Sheets!Evidence(registry, rung, x) = {}
         /\ \A r \in Sheets!Evidence(registry, rung, x) : Sheets!Answer(rung, r) # None
<1>1. ASSUME NEW r \in registry, Sheets!Key(rung, x) # None, Sheets!Key(rung, r) = Sheets!Key(rung, x)
      PROVE  Sheets!Teaches(rung, r) <=> r \in Sheets!Evidence(registry, rung, x)
  BY <1>1 DEF Sheets!Teaches, Sheets!Evidence, Sheets!Answer, Sheets!IsSuspect
<1>2. ASSUME Sheets!Key(rung, x) # None
      PROVE  Sheets!Filed(registry, rung, Sheets!Key(rung, x)) = Sheets!Evidence(registry, rung, x)
  <2>1. \A r \in Sheets!Evidence(registry, rung, x) : r \in registry /\ Sheets!Key(rung, r) = Sheets!Key(rung, x)
    BY DEF Sheets!Evidence
  <2> QED BY <1>1, <1>2, <2>1 DEF Sheets!Filed
<1>3. Sheets!Key(rung, x) = None => Sheets!Evidence(registry, rung, x) = {}
  BY DEF Sheets!Evidence
<1>4. \A r \in Sheets!Evidence(registry, rung, x) : Sheets!Answer(rung, r) # None
  BY DEF Sheets!Evidence, Sheets!Answer
<1> QED BY <1>2, <1>3, <1>4

(* An answer is given where nine rows in ten agree, and it is theirs.      *)
LEMMA AnswersAreAgreed ==
  ASSUME NEW registry, Sheets!IsRegistry(registry), NEW rung \in Sheets!Rungs, NEW x
  PROVE  LET tables == Sheets!TrainTables(registry)
             agreed == Sheets!Agreed(registry, rung, x)
         IN  /\ Sheets!Clears(tables, rung, x) <=> agreed # {}
             /\ agreed # {} => tables[rung][Sheets!Key(rung, x)].answer \in agreed
             /\ None \notin agreed
<1> DEFINE key     == Sheets!Key(rung, x)
           rows    == Sheets!Evidence(registry, rung, x)
           says(v) == {r \in rows : Sheets!Answer(rung, r) = v}
           answers == {Sheets!Answer(rung, r) : r \in rows}
           total   == Sheets!Times(rows)
           count(v) == Sheets!Times(says(v))
           top     == CHOOSE v \in answers : Sheets!IsDominant(registry, rung, key, v)
           tables  == Sheets!TrainTables(registry)
           agreed  == Sheets!Agreed(registry, rung, x)
<1>1. /\ rows \subseteq registry /\ IsFiniteSet(rows) /\ \A r \in rows : r.times \in Nat \ {0}
      /\ answers \subseteq Int /\ None \notin answers
  <2>1. rows \subseteq registry
    BY DEF Sheets!Evidence
  <2>2. \A r \in rows : Sheets!Answer(rung, r) \in Int
    BY <2>1, FiledIsEvidence DEF Sheets!IsRegistry, Sheets!Answer
  <2>3. None \notin Int
    BY CommissioningAssumption
  <2>4. IsFiniteSet(rows) /\ \A r \in rows : r.times \in Nat \ {0}
    <3>1. IsFiniteSet(registry) /\ \A r \in registry : r.times \in Nat \ {0}
      BY DEF Sheets!IsRegistry, Sheets!IsFiniteSet, IsFiniteSet
    <3> HIDE DEF rows
    <3> QED BY <2>1, <3>1, FS_Subset
  <2>5. answers \subseteq Int /\ None \notin answers
    BY <2>2, <2>3
  <2> QED BY <2>1, <2>4, <2>5
<1>2. agreed = {v \in answers : 20000 * count(v) >= 17999 * total}
  BY DEF Sheets!Agreed
<1>3. rows # {} => key # None /\ Sheets!Filed(registry, rung, key) = rows
  BY FiledIsEvidence
<1>4. \A v : says(v) \subseteq rows /\ count(v) \in Nat
  <2>1. \A v : says(v) \in SUBSET rows
    OBVIOUS
  <2>2. \A v : IsFiniteSet(says(v)) /\ \A r \in says(v) : r.times \in Nat
    BY <1>1, <2>1, FS_Subset
  <2> QED BY <2>1, <2>2, TimesType
<1>5. total \in Nat /\ (rows # {} => total > 0)
  <2>1. total \in Nat /\ (rows # {} => total # 0)
    BY <1>1, TimesType
  <2> QED BY <2>1
<1>6. \A v, w : v # w => count(v) + count(w) <= total
  <2> SUFFICES ASSUME NEW v, NEW w, v # w PROVE count(v) + count(w) <= total
    OBVIOUS
  <2>1. total = count(v) + Sheets!Times(rows \ says(v))
    BY <1>1, <1>4, TimesSplit
  <2>2. says(w) \subseteq rows \ says(v) /\ IsFiniteSet(rows \ says(v)) /\ \A r \in rows \ says(v) : r.times \in Nat
    BY <1>1, FS_Subset
  <2>3. Sheets!Times(rows \ says(v)) = count(w) + Sheets!Times((rows \ says(v)) \ says(w))
    BY <2>2, TimesSplit
  <2>4. Sheets!Times((rows \ says(v)) \ says(w)) \in Nat
    BY <2>2, FS_Subset, TimesType
  <2>5. count(v) \in Nat /\ count(w) \in Nat
    BY <1>4
  <2> HIDE DEF count, total
  <2> QED BY <2>1, <2>3, <2>4, <2>5
<1> HIDE DEF says
<1>7. key \in DOMAIN tables[rung] <=> rows # {}
  <2>1. DOMAIN tables[rung] = {Sheets!Key(rung, r) : r \in {s \in registry : Sheets!Teaches(rung, s)}}
    BY DEF Sheets!TrainTables, Sheets!Table
  <2>2. ASSUME rows # {} PROVE key \in DOMAIN tables[rung]
    <3>1. PICK r \in rows : TRUE
      BY <2>2
    <3>2. r \in registry /\ Sheets!Teaches(rung, r) /\ Sheets!Key(rung, r) = key
      BY <1>3, <3>1 DEF Sheets!Filed
    <3> QED BY <2>1, <3>2
  <2>3. ASSUME key \in DOMAIN tables[rung] PROVE rows # {}
    <3>1. PICK r \in registry : Sheets!Teaches(rung, r) /\ Sheets!Key(rung, r) = key
      BY <2>1, <2>3
    <3>2. key # None
      BY <3>1 DEF Sheets!Teaches
    <3> QED BY <3>1, <3>2, FiledIsEvidence DEF Sheets!Filed
  <2> QED BY <2>2, <2>3
<1>8. ASSUME rows # {}
      PROVE  /\ tables[rung][key].answer = top
             /\ tables[rung][key].confidence = Sheets!Share(count(top), total)
             /\ \A v : Sheets!IsDominant(registry, rung, key, v) <=>
                  \A r \in rows : \/ count(v) > count(Sheets!Answer(rung, r))
                                  \/ count(v) = count(Sheets!Answer(rung, r)) /\ v <= Sheets!Answer(rung, r)
  <2>1. Sheets!Filed(registry, rung, key) = rows /\ \A v : Sheets!Voting(registry, rung, key, v) = says(v)
    BY <1>3, <1>8 DEF Sheets!Voting, says
  <2>2. tables[rung][key] = Sheets!Entry(registry, rung, key)
    BY <1>7, <1>8 DEF Sheets!TrainTables, Sheets!Table
  <2>3. Sheets!Entry(registry, rung, key) = [answer |-> top, confidence |-> Sheets!Share(count(top), total)]
    BY <2>1 DEF Sheets!Entry
  <2>4. \A v : Sheets!IsDominant(registry, rung, key, v) <=>
                  \A r \in rows : \/ count(v) > count(Sheets!Answer(rung, r))
                                  \/ count(v) = count(Sheets!Answer(rung, r)) /\ v <= Sheets!Answer(rung, r)
    BY <2>1 DEF Sheets!IsDominant
  <2> QED BY <2>2, <2>3, <2>4
<1>9. ASSUME rows # {}, 20000 * count(top) >= 17999 * total PROVE top \in agreed
  <2>1. count(top) # 0
    BY <1>4, <1>5, <1>9
  <2>2. says(top) # {}
    <3>1. Sheets!Times({}) = 0
      BY <1>1, TimesOf
    <3> QED BY <2>1, <3>1
  <2>3. top \in answers
    BY <2>2 DEF says
  <2> HIDE DEF top, answers, agreed
  <2> QED BY <1>2, <1>9, <2>3
<1>10. ASSUME NEW v \in agreed PROVE rows # {} /\ top = v
  <2>1. v \in answers /\ 20000 * count(v) >= 17999 * total /\ rows # {}
    BY <1>2
  <2>2. \A w \in answers : w # v => count(v) > count(w)
    <3> SUFFICES ASSUME NEW w \in answers, w # v PROVE count(v) > count(w)
      OBVIOUS
    <3>1. count(v) + count(w) <= total /\ count(v) \in Nat /\ count(w) \in Nat /\ total \in Nat /\ total > 0
      BY <1>4, <1>5, <1>6, <2>1
    <3> HIDE DEF count, total
    <3> QED BY <2>1, <3>1
  <2>3. \A r \in rows : Sheets!Answer(rung, r) \in answers
    OBVIOUS
  <2>4. v \in Int /\ count(v) \in Nat
    <3>1. count(v) \in Nat
      BY <1>4
    <3>2. v \in Int
      <4> HIDE DEF answers
      <4> QED BY <1>1, <2>1
    <3> QED BY <3>1, <3>2
  <2>5. Sheets!IsDominant(registry, rung, key, v)
    <3>1. SUFFICES ASSUME NEW r \in rows
                   PROVE  \/ count(v) > count(Sheets!Answer(rung, r))
                          \/ count(v) = count(Sheets!Answer(rung, r)) /\ v <= Sheets!Answer(rung, r)
      <4> HIDE DEF count, rows, key
      <4> QED BY <1>8, <2>1
    <3>2. CASE Sheets!Answer(rung, r) = v
      <4> HIDE DEF count
      <4> QED BY <2>4, <3>2
    <3>3. CASE Sheets!Answer(rung, r) # v
      <4> HIDE DEF count, answers
      <4> QED BY <2>2, <2>3, <3>3
    <3> QED BY <3>2, <3>3
  <2>6. top \in answers /\ Sheets!IsDominant(registry, rung, key, top)
    BY <2>1, <2>5
  <2>7. PICK r \in rows : Sheets!Answer(rung, r) = v
    BY <2>1
  <2>8. count(top) >= count(v)
    <3>1. count(top) \in Nat /\ count(v) \in Nat
      BY <1>4
    <3> HIDE DEF count, answers, rows, top
    <3> QED BY <1>8, <2>1, <2>6, <2>7, <3>1
  <2>9. ASSUME top # v PROVE FALSE
    <3>1. count(v) > count(top) /\ count(top) \in Nat /\ count(v) \in Nat
      BY <1>4, <2>2, <2>6, <2>9
    <3> HIDE DEF count, top
    <3> QED BY <2>8, <3>1
  <2> QED BY <2>1, <2>9
<1>11. Sheets!Clears(tables, rung, x) <=> rows # {} /\ Sheets!Share(count(top), total) >= Sheets!Gate
  <2> HIDE DEF count, top, rows, tables, total
  <2> QED BY <1>7, <1>8 DEF Sheets!Clears
<1>12. rows # {} => (Sheets!Share(count(top), total) >= Sheets!Gate <=> 20000 * count(top) >= 17999 * total)
  <2>1. count(top) \in Nat
    BY <1>4
  <2> HIDE DEF count, top, rows, total
  <2> QED BY <1>5, <2>1, ShareClears
<1>13. None \notin agreed
  <2> HIDE DEF answers, agreed
  <2> QED BY <1>1, <1>2
<1>14. agreed # {} => rows # {} /\ top \in agreed /\ 20000 * count(top) >= 17999 * total
  <2> SUFFICES ASSUME agreed # {} PROVE rows # {} /\ top \in agreed /\ 20000 * count(top) >= 17999 * total
    OBVIOUS
  <2>1. PICK v \in agreed : TRUE
    OBVIOUS
  <2>2. rows # {} /\ top = v
    BY <1>10
  <2>3. top \in agreed
    BY <2>2
  <2> HIDE DEF top
  <2> QED BY <1>2, <2>2, <2>3
<1>15. /\ Sheets!Clears(tables, rung, x) <=> agreed # {}
       /\ agreed # {} => tables[rung][key].answer \in agreed
  <2> HIDE DEF count, top, rows, tables, total, agreed, answers
  <2> QED BY <1>8, <1>9, <1>11, <1>12, <1>14
<1> QED BY <1>13, <1>15

LEMMA MasterIsEarned ==
  ASSUME NEW registry, Sheets!IsRegistry(registry), NEW x
  PROVE  LET m == Sheets!AssignItemMaster(Sheets!TrainTables(registry), x)
         IN  IF Sheets!Earned(registry, x) = {} THEN m = None ELSE m # None /\ m \in Sheets!Earned(registry, x)
<1> DEFINE tables == Sheets!TrainTables(registry)
           class  == Sheets!Agreed(registry, "class", x)
           text   == Sheets!Agreed(registry, "description", x)
<1>1. /\ Sheets!Clears(tables, "class", x) <=> class # {}
      /\ class # {} => tables["class"][Sheets!Key("class", x)].answer \in class
      /\ None \notin class
  BY AnswersAreAgreed DEF Sheets!Rungs
<1>2. /\ Sheets!Clears(tables, "description", x) <=> text # {}
      /\ text # {} => tables["description"][Sheets!Key("description", x)].answer \in text
      /\ None \notin text
  BY AnswersAreAgreed DEF Sheets!Rungs
<1>3. Sheets!Earned(registry, x) = IF class # {} THEN class ELSE text
  BY DEF Sheets!Earned
<1>4. Sheets!AssignItemMaster(tables, x) =
        IF class # {} THEN tables["class"][Sheets!Key("class", x)].answer
        ELSE IF text # {} THEN tables["description"][Sheets!Key("description", x)].answer ELSE None
  <2> HIDE DEF tables, class, text
  <2> QED BY <1>1, <1>2 DEF Sheets!AssignItemMaster
<1>5. LET m == Sheets!AssignItemMaster(tables, x)
      IN  IF Sheets!Earned(registry, x) = {} THEN m = None ELSE m # None /\ m \in Sheets!Earned(registry, x)
  <2> HIDE DEF tables, class, text
  <2> QED BY <1>1, <1>2, <1>3, <1>4
<1> QED BY <1>5

LEMMA CodeIsAgreed ==
  ASSUME NEW registry, Sheets!IsRegistry(registry), NEW x
  PROVE  LET code   == Sheets!AssignWbs(Sheets!TrainTables(registry), x)
             agreed == Sheets!Agreed(registry, "system", x)
         IN  code \in IF agreed = {} THEN {None} ELSE agreed
<1> DEFINE tables == Sheets!TrainTables(registry)
           agreed == Sheets!Agreed(registry, "system", x)
<1>1. /\ Sheets!Clears(tables, "system", x) <=> agreed # {}
      /\ agreed # {} => tables["system"][Sheets!Key("system", x)].answer \in agreed
  BY AnswersAreAgreed DEF Sheets!Rungs
<1>2. Sheets!AssignWbs(tables, x) \in IF agreed = {} THEN {None} ELSE agreed
  <2> HIDE DEF tables, agreed
  <2> QED BY <1>1 DEF Sheets!AssignWbs
<1> QED BY <1>2

(* A cell nobody stated holds what the registry agrees on, and is empty    *)
(* where it does not.                                                      *)
LEMMA CellsHold ==
  ASSUME NEW registry, Sheets!IsRegistry(registry), NEW classes, NEW assets,
         IsFiniteSet(DOMAIN assets), DOMAIN assets \subseteq Int, NEW rows,
         rows = [a \in DOMAIN assets |-> Sheets!ExtoRow(Sheets!TrainTables(registry), classes, assets, a)]
  PROVE  Sheets!LearnedCellsHold(registry, assets, rows)
<1> DEFINE tables == Sheets!TrainTables(registry)
<1>1. SUFFICES ASSUME NEW a \in DOMAIN assets
               PROVE  LET codes   == Sheets!Agreed(registry, "system", assets[a])
                          masters == UNION {Sheets!Earned(registry, Sheets!Keyed(assets[b])) : b \in Sheets!Bearers(assets, a)}
                      IN  /\ assets[a].wbs = None =>
                               rows[a].wbs \in (IF codes = {} THEN {None} ELSE codes)
                          /\ assets[a].itemMaster = None =>
                               rows[a].itemMaster \in (IF masters = {} THEN {None} ELSE masters)
  BY DEF Sheets!LearnedCellsHold
<1> DEFINE codes   == Sheets!Agreed(registry, "system", assets[a])
           earned(b) == Sheets!Earned(registry, Sheets!Keyed(assets[b]))
           bearers == Sheets!Bearers(assets, a)
           masters == UNION {earned(b) : b \in bearers}
           master(b) == Sheets!AssignItemMaster(tables, Sheets!Keyed(assets[b]))
           assigned == {b \in bearers : master(b) # None}
<1>2. /\ rows[a].wbs = Sheets!OrElse(assets[a].wbs, Sheets!AssignWbs(tables, assets[a]))
      /\ rows[a].itemMaster = Sheets!OrElse(assets[a].itemMaster, Sheets!LearnedMaster(tables, assets, a))
  BY DEF Sheets!ExtoRow
<1>3. assets[a].wbs = None => rows[a].wbs \in (IF codes = {} THEN {None} ELSE codes)
  <2>1. Sheets!AssignWbs(tables, assets[a]) \in (IF codes = {} THEN {None} ELSE codes)
    BY CodeIsAgreed
  <2> HIDE DEF tables, codes
  <2> QED BY <1>2, <2>1 DEF Sheets!OrElse
<1>4. \A b : IF earned(b) = {} THEN master(b) = None ELSE master(b) # None /\ master(b) \in earned(b)
  BY MasterIsEarned
<1>5. Sheets!LearnedMaster(tables, assets, a) = IF assigned = {} THEN None ELSE master(Sheets!Max(assigned))
  BY DEF Sheets!LearnedMaster
<1>6. assigned # {} => Sheets!Max(assigned) \in assigned
  <2> SUFFICES ASSUME assigned # {} PROVE Sheets!Max(assigned) \in assigned
    OBVIOUS
  <2>1. assigned \in SUBSET DOMAIN assets
    BY DEF Sheets!Bearers
  <2>2. IsFiniteSet(assigned) /\ assigned \subseteq Int
    <3> HIDE DEF assigned
    <3> QED BY <2>1, FS_Subset
  <2> HIDE DEF assigned
  <2>3. \E x \in assigned : \A y \in assigned : x >= y
    BY <2>2, GreatestInteger
  <2> QED BY <2>3 DEF Sheets!Max
<1>7. Sheets!LearnedMaster(tables, assets, a) \in (IF masters = {} THEN {None} ELSE masters)
  <2> HIDE DEF earned, master
  <2>1. CASE assigned = {}
    <3>1. \A b \in bearers : earned(b) = {}
      BY <1>4, <2>1
    <3>2. masters = {}
      BY <3>1
    <3> HIDE DEF masters, assigned
    <3> QED BY <1>5, <2>1, <3>2
  <2>2. CASE assigned # {}
    <3>1. PICK b : b = Sheets!Max(assigned)
      OBVIOUS
    <3>2. b \in bearers /\ master(b) # None
      BY <1>6, <2>2, <3>1
    <3>3. master(b) \in earned(b)
      BY <1>4, <3>2
    <3>4. master(b) \in masters
      BY <3>2, <3>3
    <3>5. Sheets!LearnedMaster(tables, assets, a) = master(b)
      BY <1>5, <2>2, <3>1
    <3> HIDE DEF masters
    <3> QED BY <3>4, <3>5
  <2> QED BY <2>1, <2>2
<1>8. assets[a].itemMaster = None => rows[a].itemMaster \in (IF masters = {} THEN {None} ELSE masters)
  <2> HIDE DEF masters, tables
  <2> QED BY <1>2, <1>7 DEF Sheets!OrElse
<1> QED BY <1>3, <1>8

(* Of the rows with one tag there is a first as printed.                   *)
LEMMA FirstIsPrinted ==
  ASSUME NEW assets, IsRevision(assets), NEW t \in Sheets!Tags(assets)
  PROVE  \E a \in Sheets!WithTag(assets, t) :
           \A b \in Sheets!WithTag(assets, t) : Sheets!PrintedBefore(assets, a, b)
<1> DEFINE W == Sheets!WithTag(assets, t)
           system(a) == assets[a].system
           T == {a \in W : system(a) # None}
           rank == [a \in T |-> UnitRank[system(a)]]
           R == {rank[a] : a \in T}
<1>1. W \subseteq DOMAIN assets /\ W # {}
  BY DEF Sheets!WithTag, Sheets!Tags
<1>2. IsFiniteSet(W) /\ W \subseteq Int /\ \A a \in W : system(a) \in Values \cup {None}
  BY <1>1, FS_Subset DEF IsRevision
<1>3. \A a, b : Sheets!PrintedBefore(assets, a, b) <=>
        IF system(a) = system(b) THEN a <= b
        ELSE system(b) = None \/ (system(a) # None /\ UnitRank[system(a)] < UnitRank[system(b)])
  BY DEF Sheets!PrintedBefore
<1> HIDE DEF W, system
<1>4. CASE T = {}
  <2>1. PICK a \in W : \A b \in W : a <= b
    BY <1>1, <1>2, LeastInteger
  <2>2. \A b \in W : system(b) = None
    BY <1>4
  <2> QED BY <1>3, <2>1, <2>2 DEF W
<1>5. CASE T # {}
  <2>1. IsFiniteSet(T) /\ T \subseteq W
    BY <1>2, FS_Subset
  <2>2. rank \in Surjection(T, R)
    <3> HIDE DEF T
    <3> QED BY DEF Surjection
  <2>3. IsFiniteSet(R)
    <3> HIDE DEF rank, R
    <3> QED BY <2>1, <2>2, FS_Surjection
  <2>4. \A a \in T : system(a) \in Values /\ rank[a] = UnitRank[system(a)] /\ rank[a] \in Int
    BY <1>2, RegisterAssumption
  <2>5. R \subseteq Int /\ R # {}
    <3> HIDE DEF rank, T
    <3> QED BY <2>4, <1>5
  <2>6. PICK r \in R : \A q \in R : r <= q
    <3> HIDE DEF R
    <3> QED BY <2>3, <2>5, LeastInteger
  <2> DEFINE F == {a \in T : rank[a] = r}
  <2>7. IsFiniteSet(F) /\ F \subseteq Int /\ F # {}
    <3>1. F \subseteq T
      OBVIOUS
    <3>2. F # {}
      <4> HIDE DEF rank, T
      <4>1. r \in R
        BY <2>6
      <4> QED BY <4>1
    <3> HIDE DEF F, T, rank
    <3> QED BY <1>2, <2>1, <3>1, <3>2, FS_Subset
  <2>8. PICK a \in F : \A b \in F : a <= b
    <3> HIDE DEF F
    <3> QED BY <2>7, LeastInteger
  <2>9. a \in T /\ a \in W /\ rank[a] = r /\ system(a) # None
    BY <2>8
  <2>10. ASSUME NEW b \in W PROVE Sheets!PrintedBefore(assets, a, b)
    <3>1. CASE system(b) = None
      BY <1>3, <2>9, <3>1
    <3>2. CASE system(b) = system(a)
      <4>1. b \in T
        BY <2>9, <3>2
      <4>2. rank[b] = rank[a]
        BY <4>1, <2>9, <3>2, <2>4
      <4>3. a <= b
        BY <4>1, <4>2, <2>8, <2>9
      <4> QED BY <1>3, <3>2, <4>3
    <3>3. CASE system(b) # None /\ system(b) # system(a)
      <4>1. b \in T
        BY <3>3
      <4>2. rank[b] # rank[a]
        <5> HIDE DEF rank, T
        <5> QED BY <4>1, <2>9, <2>4, <3>3, RegisterAssumption
      <4>3. rank[a] <= rank[b]
        <5> HIDE DEF rank, T
        <5>1. rank[b] \in R
          BY <4>1
        <5> QED BY <5>1, <2>6, <2>9
      <4>4. UnitRank[system(a)] < UnitRank[system(b)]
        <5> HIDE DEF rank, T
        <5> QED BY <4>1, <4>2, <4>3, <2>4, <2>9
      <4> QED BY <1>3, <3>3, <4>4, <2>9
    <3> QED BY <3>1, <3>2, <3>3
  <2> QED BY <2>9, <2>10 DEF W
<1> QED BY <1>4, <1>5

(* So the row that is compared under a tag bears it.                       *)
LEMMA RowsBearTheirTag ==
  ASSUME NEW assets, IsRevision(assets)
  PROVE  /\ DOMAIN Sheets!FirstRows(assets) = Sheets!Tags(assets)
         /\ \A t \in Sheets!Tags(assets) : Sheets!FirstRows(assets)[t].tag = t
<1>1. ASSUME NEW t \in Sheets!Tags(assets) PROVE Sheets!FirstRows(assets)[t].tag = t
  <2> DEFINE W == Sheets!WithTag(assets, t)
             first == CHOOSE a \in W : \A b \in W : Sheets!PrintedBefore(assets, a, b)
  <2>1. Sheets!FirstRows(assets)[t] = assets[first]
    BY DEF Sheets!FirstRows
  <2>2. \E a \in W : \A b \in W : Sheets!PrintedBefore(assets, a, b)
    BY FirstIsPrinted
  <2>3. \A a \in W : assets[a].tag = t
    BY DEF Sheets!WithTag
  <2> HIDE DEF W
  <2>4. first \in W
    BY <2>2
  <2> QED BY <2>1, <2>3, <2>4
<1> QED BY <1>1 DEF Sheets!FirstRows

(* A tag was another before exactly where a hint says so.                  *)
LEMMA HintsRead ==
  ASSUME NEW earlier, NEW later, NEW renamed, Sheets!HintsApply(renamed, earlier, later), NEW t
  PROVE  LET s == Sheets!PreviousTag(renamed, t)
         IN  IF \E u \in DOMAIN renamed : renamed[u] = t
             THEN /\ s \in DOMAIN renamed /\ renamed[s] = t /\ s # t
                  /\ s \in Sheets!Tags(earlier) \ Sheets!Tags(later)
                  /\ t \in Sheets!Tags(later) \ Sheets!Tags(earlier)
             ELSE s = t
<1>1. CASE \E u \in DOMAIN renamed : renamed[u] = t
  <2>1. Sheets!PreviousTag(renamed, t) = CHOOSE u \in DOMAIN renamed : renamed[u] = t
    BY <1>1 DEF Sheets!PreviousTag
  <2>2. PICK s : s = Sheets!PreviousTag(renamed, t)
    OBVIOUS
  <2>3. s \in DOMAIN renamed /\ renamed[s] = t
    BY <1>1, <2>1, <2>2
  <2>4. s \in Sheets!Tags(earlier) \ Sheets!Tags(later) /\ t \in Sheets!Tags(later) \ Sheets!Tags(earlier)
    BY <2>3 DEF Sheets!HintsApply
  <2> QED BY <1>1, <2>2, <2>3, <2>4
<1>2. CASE ~ \E u \in DOMAIN renamed : renamed[u] = t
  BY <1>2 DEF Sheets!PreviousTag
<1> QED BY <1>1, <1>2

(* What is told of two registers is all that happened.                     *)
LEMMA TellsAll ==
  ASSUME NEW earlier, NEW later, NEW renamed, IsRevision(earlier), IsRevision(later),
         Sheets!HintsApply(renamed, earlier, later)
  PROVE  Sheets!AllIsTold(earlier, later, renamed)
<1> DEFINE before == Sheets!FirstRows(earlier)
           after  == Sheets!FirstRows(later)
           prev(t) == Sheets!PreviousTag(renamed, t)
           P == Sheets!Tags(earlier)
           C == Sheets!Tags(later)
           kept == {t \in C : prev(t) \in P}
           diff == Sheets!DiffRevisions(earlier, later, renamed)
           fields == Sheets!Compared
           hinted == {t \in C : \E u \in DOMAIN renamed : renamed[u] = t}
<1>1. /\ DOMAIN before = P /\ \A t \in P : before[t].tag = t
      /\ DOMAIN after = C /\ \A t \in C : after[t].tag = t
  BY RowsBearTheirTag
<1>2. /\ diff.added = {after[t] : t \in C \ kept}
      /\ diff.removed = {before[t] : t \in P \ (C \cup DOMAIN renamed)}
      /\ diff.renamed = {[tag |-> t, before |-> prev(t)] : t \in {u \in kept : prev(u) # u}}
      /\ diff.changed = {[tag |-> c[1], field |-> c[2], before |-> before[prev(c[1])][c[2]],
                          after |-> after[c[1]][c[2]]] :
                           c \in {d \in kept \X fields : before[prev(d[1])][d[2]] # after[d[1]][d[2]]}}
      /\ diff.gained = UNION {{[tag |-> t, on |-> d] :
                                d \in after[t].dependencies \ before[prev(t)].dependencies} : t \in kept}
      /\ diff.lost = UNION {{[tag |-> t, on |-> d] :
                                d \in before[prev(t)].dependencies \ after[t].dependencies} : t \in kept}
      /\ diff.conflicts = {t \in C : ~(Sheets!Reasons(later, t) \subseteq Sheets!Reasons(earlier, prev(t)))}
  <2>1. DOMAIN before = P /\ DOMAIN after = C
    BY <1>1
  <2> QED BY <2>1 DEF Sheets!DiffRevisions
<1>3. /\ DOMAIN renamed \subseteq P \ C
      /\ \A t : IF \E u \in DOMAIN renamed : renamed[u] = t
                THEN prev(t) \in DOMAIN renamed /\ renamed[prev(t)] = t /\ prev(t) # t /\ prev(t) \in P \ C /\ t \in C \ P
                ELSE prev(t) = t
      /\ \A s, t \in DOMAIN renamed : renamed[s] = renamed[t] => s = t
  BY HintsRead DEF Sheets!HintsApply
<1> DEFINE reasons(t) == Sheets!Reasons(later, t)
           past(t) == Sheets!Reasons(earlier, t)
<1>4. \A t : t \notin P => past(t) = {}
  <2> SUFFICES ASSUME NEW t, t \notin P PROVE past(t) = {}
    OBVIOUS
  <2>1. Sheets!WithTag(earlier, t) = {}
    BY DEF Sheets!WithTag, Sheets!Tags
  <2>2. Sheets!Cardinality({}) = 0
    BY FS_EmptySet DEF Sheets!Cardinality, Cardinality
  <2> QED BY <2>1, <2>2 DEF Sheets!Reasons
<1> DEFINE gone == {x.tag : x \in diff.removed} \cup {r.before : r \in diff.renamed}
           new == {x.tag : x \in diff.added}
           tags == (P \ gone) \cup new \cup {r.tag : r \in diff.renamed}
           was(t)  == before[IF \E r \in diff.renamed : r.tag = t
                        THEN (CHOOSE r \in diff.renamed : r.tag = t).before ELSE t]
           now(t, f) == IF \E c \in diff.changed : c.tag = t /\ c.field = f
                   THEN (CHOOSE c \in diff.changed : c.tag = t /\ c.field = f).after ELSE was(t)[f]
<1> HIDE DEF before, after, prev, P, C, fields, reasons, past, diff
<1>5. new = C \ kept /\ {x.tag : x \in diff.removed} = P \ (C \cup DOMAIN renamed)
  <2>1. \A t \in C \ kept : after[t].tag = t
    BY <1>1
  <2>2. \A t \in P \ (C \cup DOMAIN renamed) : before[t].tag = t
    BY <1>1
  <2> HIDE DEF kept
  <2> QED BY <1>2, <2>1, <2>2
<1>6. \A t \in kept : prev(t) # t <=> t \in hinted
  BY <1>3
<1>7. hinted \subseteq kept /\ \A s \in DOMAIN renamed : renamed[s] \in hinted /\ prev(renamed[s]) = s
  BY <1>3
<1>8. diff.renamed = {[tag |-> t, before |-> prev(t)] : t \in hinted}
  <2>1. {u \in kept : prev(u) # u} = hinted
    BY <1>6, <1>7
  <2> HIDE DEF kept, hinted
  <2> QED BY <1>2, <2>1
<1>9. {r.tag : r \in diff.renamed} = hinted /\ {r.before : r \in diff.renamed} = DOMAIN renamed
  <2>1. \A t \in hinted : prev(t) \in DOMAIN renamed
    BY <1>3
  <2> HIDE DEF hinted
  <2>2. \A r \in diff.renamed : r.tag \in hinted /\ r.before = prev(r.tag)
    BY <1>8
  <2>3. ASSUME NEW t \in hinted PROVE \E r \in diff.renamed : r.tag = t /\ r.before = prev(t)
    <3>1. [tag |-> t, before |-> prev(t)] \in diff.renamed
      BY <1>8
    <3> QED BY <3>1
  <2>4. {r.tag : r \in diff.renamed} = hinted
    BY <2>2, <2>3
  <2>5. {r.before : r \in diff.renamed} = DOMAIN renamed
    <3>1. \A r \in diff.renamed : r.before \in DOMAIN renamed
      BY <2>1, <2>2
    <3>2. ASSUME NEW s \in DOMAIN renamed PROVE \E r \in diff.renamed : r.before = s
      BY <1>7, <2>3
    <3> QED BY <3>1, <3>2
  <2> QED BY <2>4, <2>5
<1>10. gone = P \ C /\ {x.tag : x \in diff.removed} \cap {r.before : r \in diff.renamed} = {}
  <2> HIDE DEF new, kept, hinted
  <2> QED BY <1>3, <1>5, <1>9
<1>11. tags = C
  <2>1. kept \subseteq P \cup hinted /\ kept \subseteq C /\ C \cap P \subseteq kept
    BY <1>3
  <2> HIDE DEF gone, new, kept
  <2> QED BY <1>5, <1>7, <1>9, <1>10, <2>1
<1>12. \A t \in C : was(t) = before[prev(t)]
  <2> SUFFICES ASSUME NEW t \in C PROVE was(t) = before[prev(t)]
    OBVIOUS
  <2>1. CASE t \in hinted
    <3> DEFINE r == CHOOSE x \in diff.renamed : x.tag = t
    <3>1. [tag |-> t, before |-> prev(t)] \in diff.renamed
      BY <1>8, <2>1
    <3>2. r \in diff.renamed /\ r.tag = t
      BY <3>1
    <3> HIDE DEF r, hinted
    <3>3. r.before = prev(t)
      BY <1>8, <3>2
    <3>4. was(t) = before[r.before]
      BY <3>1 DEF r
    <3> QED BY <3>3, <3>4
  <2>2. CASE t \notin hinted
    <3>1. ~ \E r \in diff.renamed : r.tag = t
      BY <1>9, <2>2
    <3>2. prev(t) = t
      BY <1>3, <2>2
    <3> HIDE DEF hinted
    <3> QED BY <3>1, <3>2
  <2> QED BY <2>1, <2>2
<1> HIDE DEF was
<1>13. ASSUME NEW t \in kept, NEW f \in fields PROVE now(t, f) = after[t][f]
  <2> DEFINE held == before[prev(t)][f]
  <2>0. was(t) = before[prev(t)]
    BY <1>12
  <2>1. \A c \in diff.changed : c.tag = t /\ c.field = f => c.after = after[t][f] /\ held # after[t][f]
    <3> HIDE DEF kept
    <3> QED BY <1>2
  <2>2. ASSUME held # after[t][f] PROVE \E c \in diff.changed : c.tag = t /\ c.field = f
    <3> HIDE DEF kept
    <3> DEFINE pairs == {d \in kept \X fields : before[prev(d[1])][d[2]] # after[d[1]][d[2]]}
               told(c) == [tag |-> c[1], field |-> c[2], before |-> before[prev(c[1])][c[2]], after |-> after[c[1]][c[2]]]
    <3>1. <<t, f>> \in pairs
      BY <2>2
    <3>2. told(<<t, f>>) \in diff.changed
      <4>1. diff.changed = {told(c) : c \in pairs}
        BY <1>2
      <4> HIDE DEF pairs, told
      <4> QED BY <3>1, <4>1
    <3>3. told(<<t, f>>).tag = t /\ told(<<t, f>>).field = f
      OBVIOUS
    <3> HIDE DEF told
    <3> QED BY <3>2, <3>3
  <2>3. CASE \E c \in diff.changed : c.tag = t /\ c.field = f
    <3> DEFINE c == CHOOSE x \in diff.changed : x.tag = t /\ x.field = f
    <3>1. c \in diff.changed /\ c.tag = t /\ c.field = f
      BY <2>3
    <3>2. now(t, f) = c.after
      BY <2>3
    <3> HIDE DEF c, now
    <3> QED BY <2>1, <3>1, <3>2
  <2>4. CASE ~ \E c \in diff.changed : c.tag = t /\ c.field = f
    <3>1. now(t, f) = was(t)[f]
      BY <2>4
    <3> HIDE DEF now
    <3> QED BY <2>0, <2>2, <2>4, <3>1
  <2> QED BY <2>3, <2>4
<1>14. ASSUME NEW t \in kept
       PROVE  (was(t).dependencies \ {d.on : d \in {e \in diff.lost : e.tag = t}})
                \cup {d.on : d \in {e \in diff.gained : e.tag = t}} = after[t].dependencies
  <2> DEFINE old == before[prev(t)].dependencies
             deps == after[t].dependencies
             lost == {e \in diff.lost : e.tag = t}
             gained == {e \in diff.gained : e.tag = t}
  <2>1. was(t).dependencies = old
    BY <1>12
  <2>2. lost = {[tag |-> t, on |-> d] : d \in old \ deps}
    <3> HIDE DEF kept
    <3> QED BY <1>2
  <2>3. gained = {[tag |-> t, on |-> d] : d \in deps \ old}
    <3> HIDE DEF kept
    <3> QED BY <1>2
  <2>4. {d.on : d \in lost} = old \ deps
    <3> HIDE DEF old, deps, lost
    <3>1. \A e \in lost : e.on \in old \ deps
      BY <2>2
    <3>2. ASSUME NEW d \in old \ deps PROVE \E e \in lost : e.on = d
      <4>1. [tag |-> t, on |-> d] \in lost
        BY <2>2
      <4> QED BY <4>1
    <3> QED BY <3>1, <3>2
  <2>5. {d.on : d \in gained} = deps \ old
    <3> HIDE DEF old, deps, gained
    <3>1. \A e \in gained : e.on \in deps \ old
      BY <2>3
    <3>2. ASSUME NEW d \in deps \ old PROVE \E e \in gained : e.on = d
      <4>1. [tag |-> t, on |-> d] \in gained
        BY <2>3
      <4> QED BY <4>1
    <3> QED BY <3>1, <3>2
  <2> HIDE DEF old, deps, lost, gained
  <2>6. (was(t).dependencies \ {d.on : d \in lost}) \cup {d.on : d \in gained} = deps
    BY <2>1, <2>4, <2>5
  <2> QED BY <2>6 DEF old, deps, lost, gained
<1>15. ASSUME NEW t \in C
       PROVE  t \in diff.conflicts <=>
                IF t \in new THEN reasons(t) # {} ELSE \E r \in reasons(t) : r \notin past(was(t).tag)
  <2>1. t \in diff.conflicts <=> ~(reasons(t) \subseteq past(prev(t)))
    BY <1>2 DEF reasons, past
  <2>2. CASE t \in new
    <3>1. prev(t) \notin P
      BY <1>5, <2>2
    <3> HIDE DEF new
    <3> QED BY <1>4, <2>1, <2>2, <3>1
  <2>3. CASE t \notin new
    <3>1. prev(t) \in P
      BY <1>5, <2>3
    <3>2. was(t).tag = prev(t)
      BY <1>1, <1>12, <3>1
    <3> HIDE DEF new
    <3> QED BY <2>1, <2>3, <3>2
  <2> QED BY <2>2, <2>3
<1>16. \A t \in tags :
         IF t \in new THEN after[t] \in diff.added
         ELSE /\ \A f \in fields : now(t, f) = after[t][f]
              /\ (was(t).dependencies \ {d.on : d \in {e \in diff.lost : e.tag = t}})
                   \cup {d.on : d \in {e \in diff.gained : e.tag = t}} = after[t].dependencies
  <2> SUFFICES ASSUME NEW t \in C
               PROVE  IF t \in new THEN after[t] \in diff.added
                      ELSE /\ \A f \in fields : now(t, f) = after[t][f]
                           /\ (was(t).dependencies \ {d.on : d \in {e \in diff.lost : e.tag = t}})
                                \cup {d.on : d \in {e \in diff.gained : e.tag = t}} = after[t].dependencies
    BY <1>11
  <2>1. CASE t \in new
    <3> HIDE DEF kept, new
    <3> QED BY <1>2, <1>5, <2>1
  <2>2. CASE t \notin new
    <3>1. t \in kept
      BY <1>5, <2>2
    <3> HIDE DEF kept, new, now
    <3> QED BY <1>13, <1>14, <2>2, <3>1
  <2> QED BY <2>1, <2>2
<1>17. \A t \in tags :
         t \in diff.conflicts <=>
           IF t \in new THEN reasons(t) # {} ELSE \E r \in reasons(t) : r \notin past(was(t).tag)
  <2> HIDE DEF tags, new
  <2> QED BY <1>11, <1>15
<1>18. tags = (DOMAIN before \ gone) \cup new \cup {r.tag : r \in diff.renamed}
  BY <1>1
<1> QED
  BY <1>1, <1>10, <1>11, <1>16, <1>17, <1>18, Zenon
  DEF Sheets!AllIsTold, before, after, diff, fields, reasons, past, was

(* The rows of the upload sheet are those of the compile that is shown.    *)
SheetRows ==
  [a \in DOMAIN MelAssets |->
     Sheets!ExtoRow(Sheets!TrainTables(Registries[project.registry]), DescribedClasses, MelAssets, a)]
ExportSound ==
  /\ "registry" \in DOMAIN project /\ project.registry \in DOMAIN Registries \cup {None}
  /\ exported # None => stage = "published" /\ project.registry # None /\ exported = SheetRows
LEMMA ExportStart == CompileInit => ExportSound
BY CompileAssumption DEF CompileInit, ExportSound

LEMMA SheetStays ==
  ASSUME UNCHANGED <<project, owner, catalog, systems, node>>
  PROVE  SheetRows' = SheetRows
<1>1. \A a : NestingAsset(a)' = NestingAsset(a)
  BY DEF NestingAsset, TagOf, Field, OfTag, Discipline
<1>2. \A a : MelAsset(a)' = MelAsset(a)
  BY DEF MelAsset, ParentTag, TagOf, Field, Discipline
<1>3. MelAssets' = MelAssets /\ DescribedClasses' = DescribedClasses
  BY <1>1, <1>2 DEF MelAssets, DescribedClasses, RuleSets
<1> QED BY <1>3 DEF SheetRows

LEMMA ExportNext == ASSUME ExportSound, Handed, [CompileNext]_pipelineVars PROVE ExportSound'
<1>1. ASSUME UNCHANGED <<project, stage, owner, catalog, systems, node, exported>> PROVE ExportSound'
  BY <1>1, SheetStays DEF ExportSound
<1>2. ASSUME UNCHANGED <<project, exported>>, stage # "published" PROVE ExportSound'
  BY <1>2 DEF ExportSound
<1>3. CASE \/ ReadCatalog \/ RefuseCatalog \/ ResolveSystems \/ ReadFlow \/ RefuseWorkbooks
           \/ AssembleClaims \/ CompileSnapshot \/ Publish
  <2>1. stage # "published" /\ UNCHANGED <<project, exported>>
    BY <1>3 DEF ReadCatalog, RefuseCatalog, ResolveSystems, ReadFlow, RefuseWorkbooks, AssembleClaims, CompileSnapshot,
                Publish, stageVars
  <2> QED BY <1>2, <2>1
<1>4. CASE SsmSteps /\ UNCHANGED <<stageVars, flowVars, planVars>>
  <2>1. stage # "published" /\ UNCHANGED <<project, exported>>
    BY <1>4, StepsOfSnapshot DEF Handed, stageVars
  <2> QED BY <1>2, <2>1
<1>5. CASE ExportExto
  <2>1. /\ stage = "published" /\ project.registry # None
        /\ UNCHANGED <<project, stage, owner, catalog, systems, node>>
        /\ exported' = [a \in DOMAIN catalog |->
             Sheets!ExtoRow(RegisterTables[project.registry], DescribedClasses, MelAssets, a)]
    BY <1>5 DEF ExportExto, ssmVars, walkVars
  <2>2. DOMAIN MelAssets = DOMAIN catalog
    BY DEF MelAssets
  <2>3. RegisterTables[project.registry] = Sheets!TrainTables(Registries[project.registry])
    BY <2>1 DEF RegisterTables, ExportSound
  <2>4. exported' = SheetRows
    BY <2>1, <2>2, <2>3 DEF SheetRows
  <2>5. SheetRows' = SheetRows
    BY <2>1, SheetStays
  <2> QED BY <2>1, <2>4, <2>5 DEF ExportSound
<1>6. CASE Recompile
  <2>1. exported' = None /\ DOMAIN project' = DOMAIN project
        /\ ("registry" \in DOMAIN project => project'.registry = project.registry)
    BY <1>6 DEF Recompile
  <2> QED BY <2>1 DEF ExportSound
<1>7. CASE \/ Commission \/ Rest \/ UNCHANGED pipelineVars
           \/ (PlanSteps \/ BuildFlow \/ BrowseFlow) /\ UNCHANGED <<stageVars, ssmVars>>
  BY <1>1, <1>7 DEF Commission, Rest, stageVars, ssmVars, walkVars, pipelineVars
<1>8. ASSUME NEW child, NEW parent, SetRelationshipOverride(child, parent) PROVE ExportSound'
  BY <1>1, <1>8 DEF SetRelationshipOverride, ssmVars, walkVars
<1> QED BY <1>3, <1>4, <1>5, <1>6, <1>7, <1>8 DEF CompileNext
LEMMA AlwaysExported == CompileSpec => []ExportSound
<1>1. ExportSound /\ Handed /\ [CompileNext]_pipelineVars => ExportSound'
  BY ExportNext
<1> QED BY <1>1, ExportStart, AlwaysHanded, PTL DEF CompileSpec

(* What is shown of a compile can be compared.                             *)
LEMMA ShownIsRevision ==
  ASSUME stage = "published", LearnedSound, Handed, Sound, EveryAssetShown, IsFiniteSet(shown)
  PROVE  IsRevision(MelAssets) /\ DOMAIN MelAssets = DOMAIN catalog
<1>1. phase = "done" /\ input.subjects = DOMAIN catalog /\ IsCompileInput(input) /\ shown = DOMAIN catalog
  BY DEF Handed, Sound, Shape, Late, EveryAssetShown, SsmTypeOK
<1>2. IsFiniteSet(DOMAIN catalog) /\ DOMAIN catalog \subseteq Int
  BY <1>1, SsmCompilerAssumption DEF IsCompileInput
<1>3. \A a \in DOMAIN catalog : MelAsset(a).system \in Values \cup {None}
  BY DEF LearnedSound, MelAsset
<1> QED BY <1>2, <1>3 DEF IsRevision, MelAssets

(* A cell of the upload sheet that nobody stated holds what nine rows in   *)
(* ten of the registry's evidence say, and is empty where they say no one  *)
(* thing; and what is told of this register and an earlier one, whichever  *)
(* is the earlier and whatever renames are claimed, is all that happened.  *)
THEOREM RegistersSayNoMoreThanTheyKnow == CompileSpec => []RegistersAreHonest
<1> DEFINE Known == Handed /\ LearnedSound /\ Sound /\ EveryAssetShown /\ IsFiniteSet(shown) /\ ExportSound
<1>1. Known => RegistersAreHonest
  <2> SUFFICES ASSUME Handed, LearnedSound, Sound, EveryAssetShown, IsFiniteSet(shown), ExportSound, exported # None
               PROVE  /\ Sheets!LearnedCellsHold(Registries[project.registry], MelAssets, exported)
                      /\ \A earlier \in Revisions :
                           /\ \A h \in HintsOf(earlier, MelAssets) : Sheets!AllIsTold(earlier, MelAssets, h)
                           /\ \A h \in HintsOf(MelAssets, earlier) : Sheets!AllIsTold(MelAssets, earlier, h)
    BY DEF RegistersAreHonest
  <2>1. /\ stage = "published" /\ project.registry \in DOMAIN Registries
        /\ exported = SheetRows
    BY DEF ExportSound
  <2>2. IsRevision(MelAssets)
    BY <2>1, ShownIsRevision
  <2>3. Sheets!IsRegistry(Registries[project.registry])
    BY <2>1, RegisterAssumption
  <2>4. Sheets!LearnedCellsHold(Registries[project.registry], MelAssets, exported)
    BY <2>1, <2>2, <2>3, CellsHold DEF IsRevision, SheetRows
  <2>5. \A before, after : \A h \in HintsOf(before, after) : Sheets!HintsApply(h, before, after)
    BY DEF HintsOf
  <2>6. \A earlier \in Revisions : IsRevision(earlier)
    BY RegisterAssumption
  <2> QED BY <2>2, <2>4, <2>5, <2>6, TellsAll
<1>2. CompileSpec => []Sound /\ []EveryAssetShown /\ []IsFiniteSet(shown)
  BY PartsImplemented, AlwaysSound, TreeIsComplete, ShownIsFinite, PTL DEF ImplementsItsParts
<1> QED BY <1>1, <1>2, AlwaysHanded, AlwaysLearned, AlwaysExported, PTL
------------------------------------------------------------------------------
(* The flow.  Its nodes are finitely many and have ids that are ordered:   *)
(* an asset's, or the spelling itself.                                     *)
NodesSound ==
  /\ flowStep # "idle" => \A s \in Endpoints(evidence) : NodeId(s) \in Int
  /\ IsFiniteSet(DOMAIN drafts)

LEMMA IdsAreOrdered ==
  ASSUME CatalogSound, stage \notin {"catalog", "refused"}
  PROVE  DOMAIN catalog \subseteq Int /\ IsFiniteSet(DOMAIN catalog)
<1> DEFINE id(o) == Model!AssetId(project.cache, owner, o)
<1>1. \A a \in DOMAIN catalog : catalog[a] \in Objects /\ id(catalog[a]) = a
  <2>1. /\ \A a \in DOMAIN catalog : catalog[a] \in Model!Representatives(owner) /\ id(catalog[a]) = a
    BY AssetsOfCatalog
  <2>2. Model!Representatives(owner) \subseteq Objects
    <3>1. owner = Model!Owners(project.cache, project.filters)
      BY DEF CatalogSound
    <3> QED BY <3>1 DEF Model!Representatives, Model!Owners, Model!CandidateObjects
  <2> HIDE DEF id
  <2> QED BY <2>1, <2>2
<1>2. \A o \in Objects : o \in Int /\ project.cache.tag[o] \in Int \cup {None}
  BY TextAssumption DEF CatalogSound, IsExtracted
<1>3. \A o \in Objects : id(o) \in Int
  BY <1>2 DEF Model!AssetId
<1> HIDE DEF id
<1>4. IsFiniteSet({id(o) : o \in Objects})
  <2> DEFINE f == [o \in Objects |-> id(o)]
  <2>1. f \in Surjection(Objects, {id(o) : o \in Objects})
    BY DEF Surjection
  <2> QED BY <2>1, TextAssumption, FS_Surjection
<1>5. DOMAIN catalog \subseteq {id(o) : o \in Objects}
  BY <1>1
<1> QED BY <1>1, <1>3, <1>4, <1>5, FS_Subset

LEMMA NodesRead ==
  ASSUME CatalogSound, DraftsSound, ReadFlow PROVE NodesSound'
<1>1. /\ stage = "flow" /\ UNCHANGED project /\ flowStep' = "place" /\ drafts' = <<>>
      /\ outcomes' = [s \in Endpoints(evidence') |-> ResolveTag(s)]
      /\ Endpoints(evidence') \subseteq Int
  BY DEF ReadFlow, StartFlow, stageVars, DraftsSound
<1>2. DOMAIN catalog \subseteq Int /\ IsFiniteSet(DOMAIN catalog) /\ DOMAIN TagIndex \subseteq DOMAIN catalog
  BY <1>1, IdsAreOrdered DEF TagIndex
<1>3. ASSUME NEW s \in Endpoints(evidence') PROVE NodeId(s)' \in Int
  <2>1. outcomes'[s] = ResolveTag(s) /\ s \in Int
    BY <1>1
  <2>2. ResolveTag(s).asset # None => ResolveTag(s).asset \in Int
    BY <1>2, MatchIsAsset
  <2> QED BY <2>1, <2>2 DEF NodeId, IsMatched
<1>4. (\A s \in Endpoints(evidence) : NodeId(s) \in Int)'
  BY <1>3 DEF Endpoints
<1>5. IsFiniteSet(DOMAIN drafts')
  BY <1>1, EmptyFunction, FS_EmptySet
<1> QED BY <1>4, <1>5 DEF NodesSound

LEMMA NodesPlace == ASSUME NodesSound, PlaceObservation PROVE NodesSound'
<1>1. PICK o \in unread : drafts' = PlaceEnd(PlaceEnd(drafts, o.from), o.to)
  BY DEF PlaceObservation
<1>2. UNCHANGED <<evidence, outcomes, flowStep>>
  BY DEF PlaceObservation
<1>3. \A map, s : DOMAIN PlaceEnd(map, s) = DOMAIN map \cup {NodeId(s)}
  BY DEF PlaceEnd
<1>4. ASSUME NEW map, NEW s, IsFiniteSet(DOMAIN map) PROVE IsFiniteSet(DOMAIN PlaceEnd(map, s))
  <2>1. \A S, x : IsFiniteSet(S) => IsFiniteSet(S \cup {x})
    BY FS_AddElement
  <2>2. IsFiniteSet(DOMAIN map \cup {NodeId(s)})
    BY <1>4, <2>1
  <2> QED BY <1>3, <2>2
<1>5. IsFiniteSet(DOMAIN drafts')
  BY <1>1, <1>4 DEF NodesSound
<1>6. (flowStep # "idle" => \A s \in Endpoints(evidence) : NodeId(s) \in Int)'
  BY <1>2 DEF NodesSound, Endpoints, NodeId, IsMatched
<1> QED BY <1>5, <1>6 DEF NodesSound

LEMMA NodesStay ==
  ASSUME NodesSound, UNCHANGED <<evidence, outcomes, drafts>>, flowStep' # "idle" => flowStep # "idle"
  PROVE  NodesSound'
BY DEF NodesSound, Endpoints, NodeId, IsMatched

(* So the graph is one that the proofs about the flow are made for.        *)
LEMMA GraphIsReady ==
  ASSUME DraftsSound, PlacedSound, NodesSound, flowStep # "idle", unread = {} PROVE IsGraph
<1>1. evidence \ unread = evidence
  OBVIOUS
<1>2. /\ Nodes = {NodeId(s) : s \in Endpoints(evidence)}
      /\ \A s \in Endpoints(evidence) : nodeOf[s] = NodeId(s) /\ NodeId(s) \in Int
  BY <1>1 DEF DraftsSound, DraftsHold, PlacedSound, NodesSound, Nodes
<1>3. IsFiniteSet(Nodes)
  BY DEF NodesSound, Nodes
<1>4. \A n : Feeds(n) \subseteq Nodes
  BY <1>2 DEF Feeds, Edges, Endpoints
<1> QED BY <1>2, <1>3, <1>4 DEF IsGraph

FlowSound == NodesSound /\ FlowInv
LEMMA FlowStart == CompileInit => FlowSound
<1> SUFFICES ASSUME CompileInit PROVE FlowSound
  OBVIOUS
<1>1. FlowInit
  BY DEF CompileInit
<1>2. FlowInv
  BY <1>1, FlowInitial
<1>3. flowStep = "idle" /\ DOMAIN drafts = {}
  BY <1>1, EmptyFunction DEF FlowInit
<1> QED BY <1>2, <1>3, FS_EmptySet DEF NodesSound, FlowSound

LEMMA FlowNext ==
  ASSUME FlowSound, CatalogSound, DraftsSound, PlacedSound, [CompileNext]_pipelineVars
  PROVE  FlowSound'
<1>1. FlowInv /\ NodesSound
  BY DEF FlowSound
<1>2. CASE UNCHANGED flowVars
  <2>1. NodesSound'
    BY <1>1, <1>2, NodesStay DEF flowVars
  <2> QED BY <1>1, <1>2, <2>1, FlowIdle DEF FlowSound
<1>3. CASE ReadFlow
  <2>1. stage = "flow" /\ StartFlow
    BY <1>3 DEF ReadFlow
  <2> QED BY <1>1, <1>3, <2>1, NodesRead, FlowStarted DEF FlowSound
<1>4. CASE BuildFlow
  <2>1. flowStep = "place" /\ unread = {} => IsGraph
    BY <1>1, GraphIsReady
  <2>2. \/ PlaceObservation
        \/ UNCHANGED <<evidence, outcomes, drafts>> /\ (flowStep' # "idle" => flowStep # "idle")
    BY <1>4 DEF BuildFlow, EndPlace, StartRoot, TrySuccessor, Return, EndTarjan, StartLoop, ExpandLoop,
                CloseLoop, EndLoops, graphVars
  <2>3. NodesSound'
    BY <1>1, <2>2, NodesPlace, NodesStay
  <2> QED BY <1>1, <1>4, <2>1, <2>3, FlowBuilt DEF FlowSound
<1>5. CASE BrowseFlow
  <2>1. UNCHANGED <<evidence, outcomes, drafts, flowStep>>
    BY <1>5 DEF BrowseFlow, StartBrowse, EnterNode, SkipEntered, graphVars
  <2> QED BY <1>1, <1>5, <2>1, NodesStay, FlowBrowsed DEF FlowSound
<1>6. CASE Recompile
  <2>1. DropFlow /\ flowStep' = "idle" /\ drafts' = <<>>
    BY <1>6 DEF Recompile, DropFlow
  <2>2. NodesSound'
    BY <2>1, EmptyFunction, FS_EmptySet DEF NodesSound
  <2> QED BY <2>1, <2>2, FlowDropped DEF FlowSound
<1>7. ASSUME NEW child, NEW parent, SetRelationshipOverride(child, parent) PROVE UNCHANGED flowVars
  BY <1>7 DEF SetRelationshipOverride
<1>8. CASE \/ ReadCatalog \/ RefuseCatalog \/ ResolveSystems \/ RefuseWorkbooks \/ AssembleClaims
           \/ CompileSnapshot \/ Publish \/ Commission \/ ExportExto \/ Rest \/ UNCHANGED pipelineVars
  BY <1>2, <1>8 DEF ReadCatalog, RefuseCatalog, ResolveSystems, RefuseWorkbooks, AssembleClaims,
                    CompileSnapshot, Publish, Commission, ExportExto, Rest, pipelineVars
<1> QED BY <1>2, <1>3, <1>4, <1>5, <1>6, <1>7, <1>8 DEF CompileNext

(* What a person sees of the flow is what there is, whatever the workbooks *)
(* state and however the steps interleave: each loop of the feeds is found *)
(* and named once, by its shortest way through its smallest node, and the  *)
(* walk from a source lists everything it feeds once, each below a node    *)
(* that feeds it.                                                          *)
THEOREM FlowIsShownWhole == CompileSpec => []FlowIsShown
<1>1. FlowSound /\ CatalogSound /\ DraftsSound /\ PlacedSound /\ [CompileNext]_pipelineVars => FlowSound'
  BY FlowNext
<1>2. CompileSpec => []FlowSound
  BY <1>1, FlowStart, AlwaysCataloged, AlwaysDrafted, AlwaysPlaced, PTL DEF CompileSpec
<1>3. FlowSound => FlowIsShown
  BY FlowShows DEF FlowSound
<1> QED BY <1>2, <1>3, PTL
------------------------------------------------------------------------------
(* What a compile hands to the snapshot is a function of the project: here *)
(* each step of it is, written on the project alone.                       *)
OwnerOf(p) == Model!Owners(p.cache, p.filters)
CatalogOf(p) ==
  [a \in {Model!AssetId(p.cache, OwnerOf(p), o) : o \in Model!Representatives(OwnerOf(p))} |->
     CHOOSE o \in Model!Representatives(OwnerOf(p)) : Model!AssetId(p.cache, OwnerOf(p), o) = a]
TagIn(p, a) == p.cache.tag[CatalogOf(p)[a]]
FieldIn(p, a, key) == Model!ReadField(p.cache, OwnerOf(p), CatalogOf(p)[a], key)
TextIn(p, f, a) == IF TagIn(p, a) = None THEN None ELSE f[TagIn(p, a)]
MeantIn(p, s) ==
  Identity!ResolveOne([a \in {b \in DOMAIN CatalogOf(p) : TagIn(p, b) # None} |-> TagIn(p, a)], p.tiers, p.alias, s).asset
DisciplineIn(p, a) ==
  IF FieldIn(p, a, "discipline") \in DOMAIN p.projection
  THEN p.projection[FieldIn(p, a, "discipline")] ELSE FieldIn(p, a, "discipline")
SystemIn(p, a) ==
  Resolver!RunChain(p.chain,
    [tag |-> TagIn(p, a), field |-> FieldIn(p, a, "system"), segment |-> TextIn(p, SegmentOf, a),
     manual |-> IF a \in DOMAIN p.assigned THEN p.assigned[a] ELSE None], p.mel)
KeyIn(p, a) == Resolver!KeyOf(SystemIn(p, a))
RowsOf(p) == Import!Imported(p.workbooks)
NodeIn(p, s) == IF MeantIn(p, s) # None THEN MeantIn(p, s) ELSE s
AssetIn(p, n) == IF \E s \in Endpoints(RowsOf(p)) : NodeIn(p, s) = n /\ MeantIn(p, s) # None THEN n ELSE None
EdgesOf(p) ==
  {[from |-> AssetIn(p, NodeIn(p, o.from)), to |-> AssetIn(p, NodeIn(p, o.to)), type |-> o.type] :
     o \in {e \in RowsOf(p) : /\ NodeIn(p, e.from) # NodeIn(p, e.to)
                              /\ None \notin {AssetIn(p, NodeIn(p, e.from)), AssetIn(p, NodeIn(p, e.to))}}}
LearnedOf(p) ==
  IF p.trainedFrom = None THEN {}
  ELSE Rules!ProposeNestings(RuleSets[p.trainedFrom],
         [a \in DOMAIN CatalogOf(p) |->
            [tag |-> TagIn(p, a), system |-> KeyIn(p, a), family |-> TextIn(p, FamilyOf, a),
             description |-> FieldIn(p, a, "description"), discipline |-> DisciplineIn(p, a)]])
ClaimedOf(p) ==
  [a \in DOMAIN CatalogOf(p) |->
     [explicit |-> FieldIn(p, a, "parent"), role |-> TextIn(p, RoleOf, a), family |-> TextIn(p, FamilyOf, a)]]
OptionsOf(p) ==
  [manual |-> p.manual, lookup |-> p.lookup, prior |-> p.prior,
   learned |-> LearnedOf(p), roles |-> p.roles, edges |-> EdgesOf(p),
   resolve |-> [s \in Spellings |-> MeantIn(p, s)]]
AttributesIn(p, a) ==
  [key \in Keys |-> CASE key = "system"     -> KeyIn(p, a)
                     [] key = "discipline" -> DisciplineIn(p, a)
                     [] OTHER              -> FieldIn(p, a, key)]
TreeParentIn(p, a) ==
  LET o == Model!ModelTreeParent(p.cache, OwnerOf(p), CatalogOf(p)[a])
  IN  IF o = None THEN None ELSE Model!AssetId(p.cache, OwnerOf(p), o)
InputOf(p) ==
  [subjects     |-> DOMAIN CatalogOf(p),
   attributes   |-> [a \in DOMAIN CatalogOf(p) |-> AttributesIn(p, a)],
   modelTree    |-> [a \in DOMAIN CatalogOf(p) |-> TreeParentIn(p, a)],
   structural   |-> Sources!StructuralClaims(ClaimedOf(p), OptionsOf(p)),
   dependencies |-> Sources!DependencyClaims(ClaimedOf(p), OptionsOf(p)),
   makeRoot     |-> Sources!MakeRoots(ClaimedOf(p), OptionsOf(p)),
   levels       |-> p.levels,
   ladder       |-> p.ladder]

(* While a compile runs, the systems are those of the catalog, and what    *)
(* the snapshot was handed is what was assembled.                          *)
SystemsFound ==
  systems = [a \in DOMAIN catalog |-> Resolver!RunChain(project.chain, ResolverSubject(a), project.mel)]
DerivedSound ==
  /\ {"chain", "mel", "cache", "assigned"} \subseteq DOMAIN project
  /\ stage \in {"flow", "claims", "snapshot", "published"} => SystemsFound
  /\ stage \in {"snapshot", "published"} => input = SnapshotInput

LEMMA SystemsStay ==
  ASSUME UNCHANGED <<project, owner, catalog, systems>>
  PROVE  /\ SystemsFound' <=> SystemsFound
         /\ UNCHANGED claims => SnapshotInput' = SnapshotInput
<1>1. /\ \A a : TagOf(a)' = TagOf(a) /\ Discipline(a)' = Discipline(a) /\ TreeParent(a)' = TreeParent(a)
      /\ \A a, k : Field(a, k)' = Field(a, k)
      /\ \A f, a : OfTag(f, a)' = OfTag(f, a)
  BY DEF TagOf, Field, Discipline, TreeParent, OfTag
<1>2. \A a : ResolverSubject(a)' = ResolverSubject(a) /\ Attributes(a)' = Attributes(a)
  BY <1>1 DEF ResolverSubject, Attributes
<1> QED BY <1>1, <1>2 DEF SystemsFound, SnapshotInput

LEMMA DerivedNext == ASSUME DerivedSound, [CompileNext]_pipelineVars PROVE DerivedSound'
<1>1. CASE ReadCatalog \/ RefuseCatalog \/ RefuseWorkbooks
  <2>1. stage' \in {"systems", "refused"} /\ UNCHANGED project
    BY <1>1 DEF ReadCatalog, RefuseCatalog, RefuseWorkbooks
  <2> QED BY <2>1 DEF DerivedSound
<1>2. CASE ResolveSystems
  <2>1. /\ stage' = "flow" /\ UNCHANGED <<project, owner, catalog>>
        /\ systems' = [a \in DOMAIN catalog |-> Resolver!RunChain(project.chain, ResolverSubject(a), project.mel)]
    BY <1>2 DEF ResolveSystems
  <2>2. \A a : ResolverSubject(a)' = ResolverSubject(a)
    BY <2>1 DEF ResolverSubject, TagOf, Field, OfTag
  <2> QED BY <2>1, <2>2 DEF DerivedSound, SystemsFound
<1>3. CASE Recompile
  <2>1. stage' = "catalog" /\ DOMAIN project' = DOMAIN project
    BY <1>3 DEF Recompile
  <2> QED BY <2>1 DEF DerivedSound
<1>4. ASSUME UNCHANGED <<project, owner, catalog, systems>>,
             stage' \in {"flow", "claims", "snapshot", "published"} => stage \in {"flow", "claims", "snapshot", "published"},
             stage' \in {"snapshot", "published"} =>
               input' = SnapshotInput' \/ (stage \in {"snapshot", "published"} /\ UNCHANGED <<claims, input>>)
      PROVE  DerivedSound'
  BY <1>4, SystemsStay DEF DerivedSound
<1>5. CASE CompileSnapshot
  <2>1. /\ input' = SnapshotInput /\ stage = "claims" /\ stage' = "snapshot"
        /\ UNCHANGED <<project, owner, catalog, systems, claims>>
    BY <1>5 DEF CompileSnapshot
  <2>2. SnapshotInput' = SnapshotInput
    BY <2>1, SystemsStay
  <2> QED BY <2>1, <2>2, <1>4
<1>6. CASE AssembleClaims
  <2>1. stage = "flow" /\ stage' = "claims" /\ UNCHANGED <<project, owner, catalog, systems>>
    BY <1>6 DEF AssembleClaims
  <2> QED BY <2>1, <1>4
<1>7. CASE Publish
  <2>1. stage = "snapshot" /\ stage' = "published" /\ UNCHANGED <<project, owner, catalog, systems, claims, input>>
    BY <1>7 DEF Publish, ssmVars
  <2> QED BY <2>1, <1>4
<1>8. CASE \/ ReadFlow \/ Aside \/ (BuildFlow /\ UNCHANGED <<stageVars, ssmVars>>)
           \/ (SsmSteps /\ UNCHANGED <<stageVars, flowVars>>)
  <2>1. UNCHANGED <<project, stage, owner, catalog, systems, claims, input>>
    BY <1>8, StepsOfSnapshot DEF ReadFlow, Aside, stageVars, ssmVars
  <2> QED BY <2>1, <1>4
<1> QED BY <1>1, <1>2, <1>3, <1>5, <1>6, <1>7, <1>8, StepKinds

LEMMA AlwaysDerived == CompileSpec => []DerivedSound
<1>1. CompileInit => DerivedSound
  BY CompileAssumption DEF CompileInit, DerivedSound
<1>2. DerivedSound /\ [CompileNext]_pipelineVars => DerivedSound'
  BY DerivedNext
<1> QED BY <1>1, <1>2, PTL DEF CompileSpec

(* The steps, as they were taken, are the functions above.                 *)
LEMMA StepsAreFunctions ==
  ASSUME owner = OwnerOf(project), catalog = CatalogOf(project), SystemsFound
  PROVE  /\ \A a : TagOf(a) = TagIn(project, a) /\ Discipline(a) = DisciplineIn(project, a)
         /\ \A a, k : Field(a, k) = FieldIn(project, a, k)
         /\ \A f, a : OfTag(f, a) = TextIn(project, f, a)
         /\ \A a \in DOMAIN catalog : systems[a] = SystemIn(project, a)
         /\ \A s : ResolveTag(s).asset = MeantIn(project, s)
         /\ \A a : TreeParent(a) = TreeParentIn(project, a)
<1>1. /\ \A a : TagOf(a) = TagIn(project, a)
      /\ \A a, k : Field(a, k) = FieldIn(project, a, k)
  BY DEF TagOf, TagIn, Field, FieldIn
<1>2. /\ \A a : Discipline(a) = DisciplineIn(project, a)
      /\ \A f, a : OfTag(f, a) = TextIn(project, f, a)
  BY <1>1 DEF Discipline, DisciplineIn, OfTag, TextIn
<1>3. \A a \in DOMAIN catalog : systems[a] = SystemIn(project, a)
  BY <1>1, <1>2 DEF SystemsFound, ResolverSubject, SystemIn
<1>4. \A s : ResolveTag(s).asset = MeantIn(project, s)
  <2>1. TagIndex = [a \in {b \in DOMAIN CatalogOf(project) : TagIn(project, b) # None} |-> TagIn(project, a)]
    BY <1>1 DEF TagIndex
  <2> QED BY <2>1 DEF ResolveTag, MeantIn
<1>5. \A a : TreeParent(a) = TreeParentIn(project, a)
  BY DEF TreeParent, TreeParentIn
<1> QED BY <1>1, <1>2, <1>3, <1>4, <1>5

LEMMA FlowIsFunction ==
  ASSUME Matched, flowStep = "built", PlacedSound, DraftsSound, \A s : ResolveTag(s).asset = MeantIn(project, s)
  PROVE  FlowEdges = EdgesOf(project)
<1> DEFINE ends == Endpoints(evidence)
<1>1. /\ evidence = RowsOf(project) /\ evidence \ unread = evidence
      /\ \A s \in ends : nodeOf[s] = NodeId(s)
      /\ DraftsHold(drafts, ends)
  BY DEF PlacedSound, DraftsSound, RowsOf
<1>2. \A s \in ends : outcomes[s].asset = MeantIn(project, s)
  BY DEF Matched
<1>3. \A s \in ends : /\ IsMatched(s) <=> MeantIn(project, s) # None
                      /\ NodeId(s) = NodeIn(project, s)
  BY <1>2 DEF IsMatched, NodeId, NodeIn
<1>4. ASSUME NEW s \in ends PROVE drafts[nodeOf[s]].asset = AssetIn(project, NodeIn(project, s))
  <2>1. nodeOf[s] = NodeIn(project, s) /\ nodeOf[s] = NodeId(s)
    BY <1>1, <1>3
  <2>2. DraftHolds(drafts[NodeId(s)], NodeId(s), On(NodeId(s), ends))
    BY <1>1 DEF DraftsHold
  <2>3. drafts[NodeId(s)].asset = IF \E t \in On(NodeId(s), ends) : IsMatched(t) THEN NodeId(s) ELSE None
    BY <2>2 DEF DraftHolds
  <2>4. (\E t \in On(NodeId(s), ends) : IsMatched(t))
          <=> \E t \in ends : NodeIn(project, t) = NodeIn(project, s) /\ MeantIn(project, t) # None
    BY <1>3, <2>1 DEF On
  <2>5. ends = Endpoints(RowsOf(project))
    BY <1>1
  <2> HIDE DEF ends
  <2> QED BY <2>1, <2>3, <2>4, <2>5 DEF AssetIn
<1>5. \A o \in evidence : o.from \in ends /\ o.to \in ends
  BY DEF Endpoints
<1> HIDE DEF ends
<1>6. \A o \in evidence :
        /\ nodeOf[o.from] = NodeIn(project, o.from) /\ nodeOf[o.to] = NodeIn(project, o.to)
        /\ drafts[nodeOf[o.from]].asset = AssetIn(project, NodeIn(project, o.from))
        /\ drafts[nodeOf[o.to]].asset = AssetIn(project, NodeIn(project, o.to))
  BY <1>1, <1>3, <1>4, <1>5
<1> QED BY <1>1, <1>6 DEF FlowEdges, Edges, EdgesOf

LEMMA InputIsFunction ==
  ASSUME stage = "published", CatalogSound, DerivedSound, StatedSound, MatchingSound, PlacedSound, DraftsSound
  PROVE  input = InputOf(project)
<1>1. owner = OwnerOf(project) /\ catalog = CatalogOf(project)
  BY DEF CatalogSound, OwnerOf, CatalogOf
<1>2. SystemsFound /\ input = SnapshotInput
  BY DEF DerivedSound
<1>3. ClaimsMade /\ flowStep = "built" /\ Matched
  BY DEF StatedSound, MatchingSound
<1>4. /\ \A a : TagOf(a) = TagIn(project, a) /\ Discipline(a) = DisciplineIn(project, a)
      /\ \A a, k : Field(a, k) = FieldIn(project, a, k)
      /\ \A f, a : OfTag(f, a) = TextIn(project, f, a)
      /\ \A a \in DOMAIN catalog : systems[a] = SystemIn(project, a)
      /\ \A s : ResolveTag(s).asset = MeantIn(project, s)
      /\ \A a : TreeParent(a) = TreeParentIn(project, a)
  BY <1>1, <1>2, StepsAreFunctions
<1>5. FlowEdges = EdgesOf(project)
  BY <1>3, <1>4, FlowIsFunction
<1>6. \A a \in DOMAIN catalog : Resolver!KeyOf(systems[a]) = KeyIn(project, a)
  BY <1>4 DEF KeyIn
<1>7. Learned = LearnedOf(project)
  <2>1. [a \in DOMAIN catalog |-> NestingAsset(a)]
          = [a \in DOMAIN CatalogOf(project) |->
               [tag |-> TagIn(project, a), system |-> KeyIn(project, a), family |-> TextIn(project, FamilyOf, a),
                description |-> FieldIn(project, a, "description"), discipline |-> DisciplineIn(project, a)]]
    BY <1>1, <1>4, <1>6 DEF NestingAsset
  <2> QED BY <2>1 DEF Learned, LearnedOf
<1>8. ClaimSubjects = ClaimedOf(project)
  BY <1>1, <1>4 DEF ClaimSubjects, ClaimedOf
<1>9. ClaimOptions = OptionsOf(project)
  BY <1>4, <1>5, <1>7 DEF ClaimOptions, OptionsOf
<1>10. \A a \in DOMAIN catalog : Attributes(a) = AttributesIn(project, a)
  BY <1>4, <1>6 DEF Attributes, AttributesIn
<1> QED BY <1>1, <1>2, <1>3, <1>4, <1>8, <1>9, <1>10 DEF SnapshotInput, InputOf, ClaimsMade
------------------------------------------------------------------------------
(* Two projects of one site differ in what was stated by hand only.        *)
SiteFields ==
  {"cache", "filters", "tiers", "alias", "projection", "assigned", "chain", "mel", "workbooks", "trainedFrom",
   "lookup", "prior", "manual", "roles", "levels", "ladder", "moves"}
OneSite(p, q) ==
  /\ p.cache = q.cache /\ p.filters = q.filters /\ p.tiers = q.tiers /\ p.alias = q.alias
  /\ p.projection = q.projection /\ p.assigned = q.assigned /\ p.chain = q.chain /\ p.mel = q.mel
  /\ p.workbooks = q.workbooks /\ p.trainedFrom = q.trainedFrom
  /\ p.lookup = q.lookup /\ p.prior = q.prior /\ p.roles = q.roles /\ p.levels = q.levels /\ p.ladder = q.ladder
ByHand(drags) == {[child |-> m.child, parent |-> m.parent] : m \in drags}
IsOverridden(old, p, drags) ==
  /\ SiteFields \subseteq DOMAIN old
  /\ p = [old EXCEPT !.moves = 0, !.manual = {o \in @ : \A m \in drags : m.child # o.child} \cup ByHand(drags)]

LEMMA OverriddenFields ==
  ASSUME NEW old, NEW p, NEW drags, IsOverridden(old, p, drags)
  PROVE  /\ OneSite(p, old) /\ p.moves = 0 /\ SiteFields \subseteq DOMAIN p
         /\ p.manual = {o \in old.manual : \A m \in drags : m.child # o.child} \cup ByHand(drags)
<1> DEFINE hand == {o \in old.manual : \A m \in drags : m.child # o.child} \cup ByHand(drags)
<1>1. p = [old EXCEPT !.moves = 0, !.manual = hand] /\ SiteFields \subseteq DOMAIN old
  BY DEF IsOverridden
<1> HIDE DEF hand
<1>2. DOMAIN p = DOMAIN old
  BY <1>1
<1>3. p.manual = hand /\ p.moves = 0
  BY <1>1 DEF SiteFields
<1>4. \A f \in DOMAIN old \ {"moves", "manual"} : p[f] = old[f]
  BY <1>1
<1>5. OneSite(p, old)
  BY <1>1, <1>4 DEF OneSite, SiteFields
<1> QED BY <1>1, <1>2, <1>3, <1>5 DEF hand

LEMMA SameCatalog ==
  ASSUME NEW p, NEW q, OneSite(p, q)
  PROVE  /\ OwnerOf(p) = OwnerOf(q) /\ CatalogOf(p) = CatalogOf(q)
         /\ \A a : TagIn(p, a) = TagIn(q, a)
         /\ \A a, k : FieldIn(p, a, k) = FieldIn(q, a, k)
         /\ \A f, a : TextIn(p, f, a) = TextIn(q, f, a)
<1>1. OwnerOf(p) = OwnerOf(q)
  BY DEF OneSite, OwnerOf
<1>2. CatalogOf(p) = CatalogOf(q)
  BY <1>1 DEF OneSite, CatalogOf
<1>3. \A a : TagIn(p, a) = TagIn(q, a)
  BY <1>2 DEF OneSite, TagIn
<1>4. \A a, k : FieldIn(p, a, k) = FieldIn(q, a, k)
  BY <1>1, <1>2 DEF OneSite, FieldIn
<1>5. \A f, a : TextIn(p, f, a) = TextIn(q, f, a)
  BY <1>3 DEF TextIn
<1> QED BY <1>1, <1>2, <1>3, <1>4, <1>5

LEMMA SameReadings ==
  ASSUME NEW p, NEW q, OneSite(p, q)
  PROVE  /\ \A s : MeantIn(p, s) = MeantIn(q, s)
         /\ \A a : DisciplineIn(p, a) = DisciplineIn(q, a)
         /\ \A a : KeyIn(p, a) = KeyIn(q, a)
         /\ \A a : AttributesIn(p, a) = AttributesIn(q, a)
         /\ \A a : TreeParentIn(p, a) = TreeParentIn(q, a)
<1>1. /\ OwnerOf(p) = OwnerOf(q) /\ CatalogOf(p) = CatalogOf(q)
      /\ \A a : TagIn(p, a) = TagIn(q, a)
      /\ \A a, k : FieldIn(p, a, k) = FieldIn(q, a, k)
      /\ \A f, a : TextIn(p, f, a) = TextIn(q, f, a)
  BY SameCatalog
<1>2. \A s : MeantIn(p, s) = MeantIn(q, s)
  <2>1. [a \in {b \in DOMAIN CatalogOf(p) : TagIn(p, b) # None} |-> TagIn(p, a)]
          = [a \in {b \in DOMAIN CatalogOf(q) : TagIn(q, b) # None} |-> TagIn(q, a)]
    BY <1>1
  <2> QED BY <2>1 DEF MeantIn, OneSite
<1>3. \A a : DisciplineIn(p, a) = DisciplineIn(q, a)
  BY <1>1 DEF DisciplineIn, OneSite
<1>4. \A a : KeyIn(p, a) = KeyIn(q, a)
  BY <1>1 DEF KeyIn, SystemIn, OneSite
<1>5. \A a : AttributesIn(p, a) = AttributesIn(q, a)
  BY <1>1, <1>3, <1>4 DEF AttributesIn
<1>6. \A a : TreeParentIn(p, a) = TreeParentIn(q, a)
  BY <1>1 DEF TreeParentIn, OneSite
<1> QED BY <1>2, <1>3, <1>4, <1>5, <1>6

LEMMA SameOptions ==
  ASSUME NEW p, NEW q, OneSite(p, q)
  PROVE  /\ ClaimedOf(p) = ClaimedOf(q)
         /\ OptionsOf(p).lookup = OptionsOf(q).lookup /\ OptionsOf(p).prior = OptionsOf(q).prior
         /\ OptionsOf(p).learned = OptionsOf(q).learned /\ OptionsOf(p).roles = OptionsOf(q).roles
         /\ OptionsOf(p).edges = OptionsOf(q).edges /\ OptionsOf(p).resolve = OptionsOf(q).resolve
         /\ OptionsOf(p).manual = p.manual /\ OptionsOf(q).manual = q.manual
<1>1. /\ CatalogOf(p) = CatalogOf(q)
      /\ \A a : TagIn(p, a) = TagIn(q, a)
      /\ \A a, k : FieldIn(p, a, k) = FieldIn(q, a, k)
      /\ \A f, a : TextIn(p, f, a) = TextIn(q, f, a)
  BY SameCatalog
<1>2. /\ \A s : MeantIn(p, s) = MeantIn(q, s)
      /\ \A a : DisciplineIn(p, a) = DisciplineIn(q, a) /\ KeyIn(p, a) = KeyIn(q, a)
  BY SameReadings
<1>3. ClaimedOf(p) = ClaimedOf(q)
  BY <1>1 DEF ClaimedOf
<1>4. EdgesOf(p) = EdgesOf(q)
  <2>1. RowsOf(p) = RowsOf(q)
    BY DEF RowsOf, OneSite
  <2>2. \A s : NodeIn(p, s) = NodeIn(q, s)
    BY <1>2 DEF NodeIn
  <2>3. \A n : AssetIn(p, n) = AssetIn(q, n)
    BY <1>2, <2>1, <2>2 DEF AssetIn
  <2> QED BY <2>1, <2>2, <2>3 DEF EdgesOf
<1>5. LearnedOf(p) = LearnedOf(q)
  <2>1. [a \in DOMAIN CatalogOf(p) |->
            [tag |-> TagIn(p, a), system |-> KeyIn(p, a), family |-> TextIn(p, FamilyOf, a),
             description |-> FieldIn(p, a, "description"), discipline |-> DisciplineIn(p, a)]]
        = [a \in DOMAIN CatalogOf(q) |->
            [tag |-> TagIn(q, a), system |-> KeyIn(q, a), family |-> TextIn(q, FamilyOf, a),
             description |-> FieldIn(q, a, "description"), discipline |-> DisciplineIn(q, a)]]
    BY <1>1, <1>2
  <2> QED BY <2>1 DEF LearnedOf, OneSite
<1>6. [s \in Spellings |-> MeantIn(p, s)] = [s \in Spellings |-> MeantIn(q, s)]
  BY <1>2
<1> QED BY <1>3, <1>4, <1>5, <1>6 DEF OptionsOf, OneSite

(* A claim that was not made by hand, or not for these assets, is made     *)
(* whatever was stated by hand for these.                                  *)
LikeOptions(o1, o2, D) ==
  /\ o1.lookup = o2.lookup /\ o1.prior = o2.prior /\ o1.learned = o2.learned
  /\ o1.roles = o2.roles /\ o1.edges = o2.edges /\ o1.resolve = o2.resolve
  /\ \A m : m.child \notin D => (m \in o1.manual <=> m \in o2.manual)
Stems(subjects, opts) ==
  Sources!Usable(Sources!PairInputs(subjects, opts), DOMAIN subjects)
  \cup Sources!ByAsset("flow-family", Sources!Anchored(subjects, opts))
  \cup Sources!ByAsset("family-role", Sources!RolePairs(subjects, opts) \ Sources!Anchored(subjects, opts))
LEMMA StemsOf ==
  \A subjects, opts : Sources!StructuralClaims(subjects, opts) = {Sources!ClaimOf(i) : i \in Stems(subjects, opts)}
BY DEF Sources!StructuralClaims, Stems
LEMMA SameClaim ==
  ASSUME NEW subjects, NEW o1, NEW o2, NEW D, LikeOptions(o1, o2, D),
         NEW c \in Sources!StructuralClaims(subjects, o1), c.source # "manual" \/ c.subject \notin D
  PROVE  c \in Sources!StructuralClaims(subjects, o2)
<1>1. PICK i \in Stems(subjects, o1) : c = Sources!ClaimOf(i)
  BY StemsOf
<1>2. c.source = i.source /\ c.subject = i.child
  BY <1>1 DEF Sources!ClaimOf
<1>3. /\ Sources!RolePairs(subjects, o1) = Sources!RolePairs(subjects, o2)
      /\ Sources!Anchored(subjects, o1) = Sources!Anchored(subjects, o2)
  BY DEF LikeOptions, Sources!RolePairs, Sources!Anchored
<1>4. ASSUME i \in Sources!ByAsset("manual", Sources!Parenting(o1)) PROVE i \in Sources!ByAsset("manual", Sources!Parenting(o2))
  <2>1. PICK m \in Sources!Parenting(o1) : i = Sources!Stated("manual", m.child, m.parent, m.child, m.parent)
    BY <1>4 DEF Sources!ByAsset
  <2>2. i.source = "manual" /\ i.child = m.child
    BY <2>1 DEF Sources!Stated
  <2>3. m \in Sources!Parenting(o2)
    BY <1>2, <2>2 DEF Sources!Parenting, LikeOptions
  <2> QED BY <2>1, <2>3 DEF Sources!ByAsset
<1>5. i \in Sources!PairInputs(subjects, o1) => i \in Sources!PairInputs(subjects, o2)
  BY <1>4 DEF Sources!PairInputs, LikeOptions
<1>6. i \in Stems(subjects, o2)
  BY <1>3, <1>5 DEF Stems, Sources!Usable
<1> QED BY <1>1, <1>6, StemsOf

(* What is claimed by hand of an asset, and that it is.                    *)
LEMMA ClaimedByHand ==
  ASSUME NEW subjects, NEW opts, NEW c \in Sources!StructuralClaims(subjects, opts), c.source = "manual"
  PROVE  \E m \in opts.manual : m.child = c.subject /\ m.parent = c.target
<1>1. PICK i \in Stems(subjects, opts) : c = Sources!ClaimOf(i)
  BY StemsOf
<1>2. c.source = i.source /\ c.subject = i.child /\ c.target = i.parent
  BY <1>1 DEF Sources!ClaimOf
<1>3. i \in Sources!ByAsset("manual", Sources!Parenting(opts))
  <2>1. i.source = "manual"
    BY <1>2
  <2>2. \A s, pairs : i \in Sources!ByAsset(s, pairs) => s = "manual"
    BY <2>1 DEF Sources!ByAsset, Sources!Stated
  <2>3. \A s, pairs, f : i \in Sources!ByTag(s, pairs, f) => s = "manual"
    BY <2>1 DEF Sources!ByTag, Sources!Stated
  <2>4. i \notin Sources!Explicit(subjects, opts.resolve)
    BY <2>1 DEF Sources!Explicit, Sources!Stated
  <2> QED BY <2>2, <2>3, <2>4 DEF Stems, Sources!Usable, Sources!PairInputs
<1>4. PICK m \in Sources!Parenting(opts) : i = Sources!Stated("manual", m.child, m.parent, m.child, m.parent)
  BY <1>3 DEF Sources!ByAsset
<1>5. i.child = m.child /\ i.parent = m.parent
  BY <1>4 DEF Sources!Stated
<1> QED BY <1>2, <1>5 DEF Sources!Parenting
LEMMA HandIsClaimed ==
  ASSUME NEW subjects, NEW opts, NEW m \in opts.manual, m.child \in DOMAIN subjects, m.parent \in DOMAIN subjects,
         m.child # m.parent, None \notin DOMAIN subjects
  PROVE  [subject |-> m.child, target |-> m.parent, source |-> "manual"] \in Sources!StructuralClaims(subjects, opts)
<1> DEFINE i == Sources!Stated("manual", m.child, m.parent, m.child, m.parent)
<1>1. i.child = m.child /\ i.parent = m.parent /\ i.source = "manual"
  BY DEF Sources!Stated
<1>2. i \in Sources!PairInputs(subjects, opts)
  BY DEF Sources!PairInputs, Sources!ByAsset, Sources!Parenting
<1> HIDE DEF i
<1>3. i \in Stems(subjects, opts)
  BY <1>1, <1>2 DEF Stems, Sources!Usable, Sources!Refusal
<1>4. Sources!ClaimOf(i) = [subject |-> m.child, target |-> m.parent, source |-> "manual"]
  BY <1>1 DEF Sources!ClaimOf
<1> QED BY <1>3, <1>4, StemsOf

(* What a drag states is the input of the next compile, and no more.       *)
OnePerChild(drags) == \A m, n \in drags : m.child = n.child => m = n
LEMMA OverriddenInput ==
  ASSUME NEW old, NEW p, NEW drags, IsOverridden(old, p, drags), OnePerChild(drags),
         NEW nd, NEW before, IsCompiled(InputOf(old), nd, before), \A m \in drags : Foretold(nd, m),
         IsCompileInput(InputOf(p))
  PROVE  Overridden(InputOf(old), InputOf(p), drags)
<1> DEFINE subjects == ClaimedOf(p)
           o1 == OptionsOf(old)
           o2 == OptionsOf(p)
           new == InputOf(p)
           was == InputOf(old)
<1>1. /\ OneSite(p, old)
      /\ p.manual = {o \in old.manual : \A m \in drags : m.child # o.child} \cup ByHand(drags)
  BY OverriddenFields
<1>2. /\ CatalogOf(p) = CatalogOf(old) /\ ClaimedOf(p) = ClaimedOf(old)
      /\ o1.manual = old.manual /\ o2.manual = p.manual
      /\ o1.lookup = o2.lookup /\ o1.prior = o2.prior /\ o1.learned = o2.learned
      /\ o1.roles = o2.roles /\ o1.edges = o2.edges /\ o1.resolve = o2.resolve
  BY <1>1, SameCatalog, SameOptions
<1>3. /\ new.subjects = DOMAIN CatalogOf(p) /\ was.subjects = DOMAIN CatalogOf(old)
      /\ new.structural = Sources!StructuralClaims(subjects, o2)
      /\ was.structural = Sources!StructuralClaims(subjects, o1)
      /\ new.makeRoot = Sources!MakeRoots(subjects, o2) /\ was.makeRoot = Sources!MakeRoots(subjects, o1)
      /\ new.ladder = p.ladder /\ was.ladder = old.ladder /\ new.levels = p.levels /\ was.levels = old.levels
      /\ DOMAIN subjects = DOMAIN CatalogOf(p)
  BY <1>2 DEF InputOf, ClaimedOf
<1>4. new.attributes = was.attributes /\ new.modelTree = was.modelTree
  <2>1. \A a : AttributesIn(p, a) = AttributesIn(old, a) /\ TreeParentIn(p, a) = TreeParentIn(old, a)
    BY <1>1, SameReadings
  <2> QED BY <1>2, <2>1 DEF InputOf
<1>5. Len(new.ladder) \in Nat /\ DOMAIN new.ladder = 1..Len(new.ladder)
  <2>1. new.ladder \in Seq(LadderSources)
    BY DEF IsCompileInput
  <2> QED BY <2>1
<1>6. \A m : m.child \notin Dragged(drags) => (m \in o1.manual <=> m \in o2.manual)
  <2>1. \A m \in ByHand(drags) : m.child \in Dragged(drags)
    BY DEF ByHand, Dragged
  <2>2. \A m : m.child \notin Dragged(drags) <=> \A n \in drags : n.child # m.child
    BY DEF Dragged
  <2> HIDE DEF o1, o2
  <2> QED BY <1>1, <1>2, <2>1, <2>2
<1>7. LikeOptions(o1, o2, Dragged(drags)) /\ LikeOptions(o2, o1, Dragged(drags))
  <2> HIDE DEF o1, o2
  <2> QED BY <1>2, <1>6 DEF LikeOptions
<1>8. ASSUME NEW m \in o2.manual, NEW n \in drags, m.child = n.child PROVE m.parent = n.parent
  <2>1. m \in ByHand(drags)
    <3> HIDE DEF o2
    <3> QED BY <1>1, <1>2, <1>8
  <2>2. PICK k \in drags : m = [child |-> k.child, parent |-> k.parent]
    BY <2>1 DEF ByHand
  <2>3. m.child = k.child /\ m.parent = k.parent
    BY <2>2
  <2>4. k = n
    BY <1>8, <2>3 DEF OnePerChild
  <2> QED BY <2>3, <2>4
<1>9. ASSUME NEW m \in drags
      PROVE  /\ [child |-> m.child, parent |-> m.parent] \in o2.manual
             /\ m.child \in DOMAIN subjects /\ m.parent \in DOMAIN subjects \cup {None} /\ m.child # m.parent
             /\ None \notin DOMAIN subjects
  <2>1. [child |-> m.child, parent |-> m.parent] \in ByHand(drags)
    BY DEF ByHand
  <2>2. [child |-> m.child, parent |-> m.parent] \in o2.manual
    BY <1>1, <1>2, <2>1
  <2>3. DOMAIN nd = was.subjects /\ None \notin was.subjects
    BY DEF IsCompiled
  <2>4. DOMAIN subjects = was.subjects
    BY <1>2, <1>3
  <2>5. m.child \in DOMAIN nd /\ m.parent \in DOMAIN nd \cup {None} /\ m.child # m.parent
    BY DEF Foretold
  <2> HIDE DEF subjects, was
  <2> QED BY <2>2, <2>3, <2>4, <2>5
<1>10. \A a : a \in new.makeRoot <=> (a \in DOMAIN subjects /\ \E m \in o2.manual : m.child = a /\ m.parent = None)
  <2> HIDE DEF new, o2, subjects
  <2> QED BY <1>3 DEF Sources!MakeRoots, Sources!Rooting, Sources!Parenting
<1>11. \A a : a \in was.makeRoot <=> (a \in DOMAIN subjects /\ \E m \in o1.manual : m.child = a /\ m.parent = None)
  <2> HIDE DEF was, o1, subjects
  <2> QED BY <1>3 DEF Sources!MakeRoots, Sources!Rooting, Sources!Parenting
<1> HIDE DEF subjects, o1, o2, new, was
<1>12. \A c : c.source # "manual" \/ c.subject \notin Dragged(drags) => (c \in new.structural <=> c \in was.structural)
  BY <1>3, <1>7, SameClaim
<1>13. \A a : a \notin Dragged(drags) => (a \in new.makeRoot <=> a \in was.makeRoot)
  BY <1>6, <1>10, <1>11
<1>14. ASSUME NEW m \in drags
       PROVE  /\ m.child \in new.makeRoot <=> m.parent = None
              /\ \A c \in new.structural : c.subject = m.child /\ c.source = "manual" => c.target = m.parent
              /\ m.parent # None => [subject |-> m.child, target |-> m.parent, source |-> "manual"] \in new.structural
  <2> DEFINE o == [child |-> m.child, parent |-> m.parent]
  <2>1. o.child = m.child /\ o.parent = m.parent /\ o \in o2.manual
    BY <1>9
  <2> HIDE DEF o
  <2>2. m.child \in new.makeRoot <=> m.parent = None
    <3>1. m.child \in DOMAIN subjects
      BY <1>9
    <3>2. \A k \in o2.manual : k.child = m.child => k.parent = m.parent
      BY <1>8
    <3> QED BY <1>10, <2>1, <3>1, <3>2
  <2>3. ASSUME NEW c \in new.structural, c.subject = m.child, c.source = "manual" PROVE c.target = m.parent
    <3>1. PICK k \in o2.manual : k.child = c.subject /\ k.parent = c.target
      BY <1>3, <2>3, ClaimedByHand
    <3> QED BY <1>8, <2>3, <3>1
  <2>4. ASSUME m.parent # None
        PROVE  [subject |-> m.child, target |-> m.parent, source |-> "manual"] \in new.structural
    <3>1. m.parent \in DOMAIN subjects
      BY <1>9, <2>4
    <3>2. [subject |-> o.child, target |-> o.parent, source |-> "manual"] \in Sources!StructuralClaims(subjects, o2)
      BY <1>9, <2>1, <3>1, HandIsClaimed
    <3> QED BY <1>3, <2>1, <3>2
  <2> QED BY <2>2, <2>3, <2>4
<1>15. /\ new.subjects = was.subjects /\ new.levels = was.levels /\ new.ladder = was.ladder
  BY <1>1, <1>2, <1>3 DEF OneSite
<1>16. Overridden(was, new, drags)
  BY <1>4, <1>5, <1>12, <1>13, <1>14, <1>15 DEF Overridden
<1> QED BY <1>16 DEF was, new
------------------------------------------------------------------------------
(* What was foretold of the moves was foretold from the compile that is    *)
(* shown or, once they are among what the site stated, from the one that   *)
(* was shown then.                                                         *)
ForetoldBefore(p, drags) ==
  \E old, nd, before : /\ IsCompiled(InputOf(old), nd, before) /\ (\A m \in drags : Foretold(nd, m))
                       /\ IsOverridden(old, p, drags)
MovesSound ==
  /\ SiteFields \subseteq DOMAIN project /\ project.moves \in Nat
  /\ IsFiniteSet(moves) /\ OnePerChild(moves)
  /\ moves # {} /\ project.moves # 0 => stage = "published" /\ \A m \in moves : Foretold(node, m)
  /\ moves # {} /\ project.moves = 0 => ForetoldBefore(project, moves)
  /\ stage = "published" => reviews \subseteq reviewItems

LEMMA AncestorsAre == \A a : HangsUnder(a) = Up(node, a) /\ Ancestors(a) = AncestorsIn(node, a)
BY DEF HangsUnder, Up, Ancestors, AncestorsIn

LEMMA PreviewForetells ==
  ASSUME NEW child \in DOMAIN node, NEW parent \in DOMAIN node \cup {None}, child # parent
  PROVE  Foretold(node, [child |-> child, parent |-> parent, preview |-> ReparentPreview(child, parent),
                         above |-> IF parent = None THEN {} ELSE Ancestors(parent)])
<1> DEFINE view == ReparentPreview(child, parent)
           up == IF parent = None THEN {} ELSE Ancestors(parent)
           m == [child |-> child, parent |-> parent, preview |-> view, above |-> up]
<1>1. (view = "root" <=> parent = None) /\ (view = "loop" <=> parent # None /\ child \in AncestorsIn(node, parent))
  BY AncestorsAre DEF ReparentPreview
<1>2. parent # None => up = AncestorsIn(node, parent)
  BY AncestorsAre
<1> HIDE DEF view, up
<1>3. m.child = child /\ m.parent = parent /\ m.preview = view /\ m.above = up
  OBVIOUS
<1> HIDE DEF m
<1>4. Foretold(node, m)
  BY <1>1, <1>2, <1>3 DEF Foretold
<1> QED BY <1>4 DEF m, view, up

LEMMA MovesOverride ==
  ASSUME MovesSound, NEW child \in DOMAIN node, NEW parent \in DOMAIN node \cup {None},
         SetRelationshipOverride(child, parent)
  PROVE  MovesSound'
<1> DEFINE kept == {m \in moves : m.child # child}
           m0 == [child |-> child, parent |-> parent, preview |-> ReparentPreview(child, parent),
                  above |-> IF parent = None THEN {} ELSE Ancestors(parent)]
<1>1. /\ stage = "published" /\ Cardinality(kept) < project.moves /\ moves' = kept \cup {m0} /\ child # parent
      /\ UNCHANGED <<project, stage, reviewItems, node, reviews>>
  BY DEF SetRelationshipOverride, ssmVars, walkVars
<1>2. Foretold(node, m0) /\ m0.child = child
  BY <1>1, PreviewForetells
<1> HIDE DEF m0
<1>3. IsFiniteSet(kept) /\ Cardinality(kept) \in Nat
  BY FS_Subset, FS_CardinalityType DEF MovesSound
<1>4. project.moves # 0
  BY <1>1, <1>3 DEF MovesSound
<1>5. IsFiniteSet(moves')
  <2>1. \A S, x : IsFiniteSet(S) => IsFiniteSet(S \cup {x})
    BY FS_AddElement
  <2> HIDE DEF kept
  <2> QED BY <1>1, <1>3, <2>1
<1>6. OnePerChild(moves')
  BY <1>1, <1>2 DEF MovesSound, OnePerChild
<1>7. \A m \in moves' : Foretold(node, m)
  BY <1>1, <1>2, <1>4 DEF MovesSound
<1> HIDE DEF kept
<1>8. \A m \in moves' : Foretold(node', m)
  BY <1>1, <1>7
<1> QED BY <1>1, <1>4, <1>5, <1>6, <1>8 DEF MovesSound

Shown == /\ CatalogSound /\ DerivedSound /\ StatedSound /\ MatchingSound /\ PlacedSound /\ DraftsSound
         /\ Sound /\ NodeInv /\ ItemsInv /\ NoLoopLeft /\ Handed
LEMMA ShownIsCompiled ==
  ASSUME Shown, stage = "published"
  PROVE  IsCompiled(InputOf(project), node, reviews) /\ IsCompileInput(InputOf(project)) /\ input = InputOf(project)
<1>1. input = InputOf(project)
  BY InputIsFunction DEF Shown
<1>2. phase = "done"
  BY DEF Shown, Handed
<1>3. IsCompiled(input, node, reviews)
  BY <1>2, DoneIsCompiled DEF Shown
<1>4. IsCompileInput(input)
  BY <1>2, SearchFacts DEF Shown, Late
<1> QED BY <1>1, <1>3, <1>4

LEMMA MovesRecompile == ASSUME Shown, MovesSound, Recompile PROVE MovesSound'
<1>1. /\ stage = "published" /\ stage' = "catalog" /\ moves' = moves
      /\ project' = [project EXCEPT !.moves = 0, !.manual = {o \in @ : \A m \in moves : m.child # o.child} \cup Moved]
      /\ moves # {} /\ project.moves > 0
  BY DEF Recompile
<1>2. IsOverridden(project, project', moves)
  <2>1. Moved = ByHand(moves)
    BY DEF Moved, ByHand
  <2> QED BY <1>1, <2>1 DEF IsOverridden, MovesSound
<1>3. SiteFields \subseteq DOMAIN project' /\ project'.moves = 0
  BY <1>2, OverriddenFields
<1>4. \A m \in moves : Foretold(node, m)
  BY <1>1 DEF MovesSound
<1>5. IsCompiled(InputOf(project), node, reviews)
  BY <1>1, ShownIsCompiled
<1>6. ForetoldBefore(project', moves)
  BY <1>2, <1>4, <1>5 DEF ForetoldBefore
<1>7. ForetoldBefore(project', moves')
  BY <1>1, <1>6
<1> QED BY <1>1, <1>3, <1>7 DEF MovesSound

LEMMA MovesNext == ASSUME Shown, MovesSound, [CompileNext]_pipelineVars PROVE MovesSound'
<1>1. ASSUME NEW child \in DOMAIN node, NEW parent \in DOMAIN node \cup {None}, SetRelationshipOverride(child, parent)
      PROVE  MovesSound'
  BY <1>1, MovesOverride
<1>2. CASE Recompile
  BY <1>2, MovesRecompile DEF Shown
<1>3. ASSUME UNCHANGED <<project, moves>>, stage = "published" => stage' = "published" /\ node' = node,
             stage' = "published" => reviews' \subseteq reviewItems'
      PROVE  MovesSound'
  <2>1. ForetoldBefore(project, moves) <=> ForetoldBefore(project', moves')
    BY <1>3
  <2>2. moves # {} /\ project.moves # 0 => stage' = "published" /\ \A m \in moves' : Foretold(node', m)
    BY <1>3 DEF MovesSound
  <2> QED BY <1>3, <2>1, <2>2 DEF MovesSound
<1>4. ASSUME UNCHANGED <<project, moves>>, stage # "published", stage' # "published" PROVE MovesSound'
  BY <1>3, <1>4
<1>5. CASE ReadCatalog \/ RefuseCatalog \/ ResolveSystems \/ RefuseWorkbooks \/ AssembleClaims \/ CompileSnapshot
  <2>1. UNCHANGED <<project, moves>> /\ stage # "published" /\ stage' # "published"
    BY <1>5 DEF ReadCatalog, RefuseCatalog, ResolveSystems, RefuseWorkbooks, AssembleClaims, CompileSnapshot
  <2> QED BY <1>4, <2>1
<1>6. CASE Publish
  <2>1. UNCHANGED <<project, moves, reviews>> /\ stage = "snapshot" /\ reviews \subseteq reviewItems'
    BY <1>6 DEF Publish, ssmVars
  <2> QED BY <1>3, <2>1
<1>7. CASE SsmSteps /\ UNCHANGED <<stageVars, flowVars, planVars>>
  <2>1. UNCHANGED <<project, moves, stage>> /\ stage # "published"
    BY <1>7, StepsOfSnapshot DEF stageVars, Shown, Handed
  <2> QED BY <1>4, <2>1
<1>8. ASSUME UNCHANGED <<project, moves, stage, node, reviews, reviewItems>> PROVE MovesSound'
  BY <1>3, <1>8 DEF MovesSound
<1>9. CASE ReadFlow \/ Commission \/ ExportExto \/ Rest \/ UNCHANGED pipelineVars
  <2>1. UNCHANGED <<project, moves, stage, node, reviews, reviewItems>>
    BY <1>9 DEF ReadFlow, Commission, ExportExto, Rest, pipelineVars, stageVars, ssmVars, walkVars
  <2> QED BY <1>8, <2>1
<1>10. CASE UNCHANGED <<stageVars, ssmVars>>
  BY <1>8, <1>10 DEF stageVars, ssmVars, walkVars
<1> QED BY <1>1, <1>2, <1>5, <1>6, <1>7, <1>9, <1>10 DEF CompileNext

LEMMA AlwaysMoved == CompileSpec => []MovesSound /\ []Shown
<1>1. CompileInit => MovesSound
  BY CompileAssumption, FS_EmptySet DEF CompileInit, MovesSound, SiteFields, OnePerChild
<1>2. Shown /\ MovesSound /\ [CompileNext]_pipelineVars => MovesSound'
  BY MovesNext
<1>3. CompileSpec => []Sound /\ [](NodeInv /\ ItemsInv) /\ []NoLoopLeft
  BY PartsImplemented, AlwaysSound, AlwaysSettled, LoopsAreGone, PTL DEF ImplementsItsParts
<1>4. CatalogSound /\ DerivedSound /\ StatedSound /\ MatchingSound /\ PlacedSound /\ DraftsSound
        /\ Sound /\ (NodeInv /\ ItemsInv) /\ NoLoopLeft /\ Handed => Shown
  BY DEF Shown
<1>5. CompileSpec => []Shown
  BY <1>3, <1>4, AlwaysCataloged, AlwaysDerived, AlwaysStated, AlwaysMatched, AlwaysPlaced, AlwaysDrafted, AlwaysHanded, PTL
<1> QED BY <1>1, <1>2, <1>5, PTL DEF CompileSpec

(* What the window foretold of drags comes true in the next compile, for   *)
(* any project and any drags: a root is a root; where the manual rung is   *)
(* heard, a parent is kept or lost in a loop another drag had a part in,   *)
(* and a drag below one's own descendant is cut as a loop, unless another  *)
(* drag moved what lay between (compile-service.ts:735-840).               *)
THEOREM PreviewsAreKept == CompileSpec => []PreviewsComeTrue
<1>1. ASSUME Shown, MovesSound, stage = "published", project.moves = 0, NEW m \in moves
      PROVE  LET others == {n.child : n \in moves \ {m}}
                 closed == {r \in reviewItems : r.kind = "structural-cycle" /\ m.child \in r.assets}
                 heard  == \E r \in DOMAIN input.ladder :
                             /\ input.ladder[r] = "manual"
                             /\ \A i \in 1..(r - 1) : Candidates(m.child, i) = {}
             IN  CASE m.preview = "root" -> node[m.child].status = "root" /\ node[m.child].parent = None
                   [] m.preview = "loop" -> heard /\ m.above \cap others = {} => closed # {}
                   [] OTHER -> heard =>
                        \/ HangsUnder(m.child) = m.parent /\ node[m.child].demotedFrom = None
                        \/ \E r \in closed : r.assets \cap others # {}
  <2>1. /\ IsCompiled(input, node, reviews) /\ IsCompileInput(input) /\ input = InputOf(project)
        /\ reviews \subseteq reviewItems
    BY <1>1, ShownIsCompiled DEF MovesSound
  <2>2. ForetoldBefore(project, moves) /\ OnePerChild(moves)
    BY <1>1 DEF MovesSound
  <2>3. PICK old, nd, before : /\ IsCompiled(InputOf(old), nd, before) /\ (\A n \in moves : Foretold(nd, n))
                               /\ IsOverridden(old, project, moves)
    BY <2>2 DEF ForetoldBefore
  <2>4. Overridden(InputOf(old), input, moves)
    BY <2>1, <2>2, <2>3, OverriddenInput
  <2> DEFINE others == {n.child : n \in moves \ {m}}
             closed == {r \in reviewItems : r.kind = "structural-cycle" /\ m.child \in r.assets}
             heard  == \E r \in DOMAIN input.ladder :
                         /\ input.ladder[r] = "manual"
                         /\ \A i \in 1..(r - 1) : Candidates(m.child, i) = {}
  <2>5. others = Dragged(moves \ {m})
    BY DEF Dragged
  <2>6. heard <=> \E r : HeardAt(input, m.child, r)
    BY OffersAre DEF HeardAt
  <2>7. HangsUnder(m.child) = Up(node, m.child)
    BY AncestorsAre
  <2>8. Foretold(nd, m)
    BY <2>3
  <2>9. ASSUME m.preview = "root" PROVE node[m.child].status = "root" /\ node[m.child].parent = None
    <3>1. m.child \in input.makeRoot /\ m.child \in DOMAIN node
      BY <2>1, <2>3, <2>4, <2>8, <2>9 DEF Foretold, Overridden, IsCompiled
    <3>2. Decided(input, m.child, node[m.child])
      BY <2>1, <3>1 DEF IsCompiled, Loosed
    <3> QED BY <3>1, <3>2 DEF Decided
  <2>10. ASSUME m.preview = "loop", heard, m.above \cap others = {} PROVE closed # {}
    <3>1. PICK r : HeardAt(input, m.child, r)
      BY <2>6, <2>10
    <3>2. m.above \cap Dragged(moves \ {m}) = {}
      BY <2>5, <2>10
    <3>3. \E item \in reviews : item.kind = "structural-cycle" /\ m.child \in item.assets
      <4> HIDE DEF others, closed, heard
      <4> QED BY <2>1, <2>3, <2>4, <2>8, <2>10, <3>1, <3>2, LoopComes
    <3> QED BY <2>1, <3>3
  <2>11. ASSUME m.preview \notin {"loop", "root"}, heard
         PROVE  \/ HangsUnder(m.child) = m.parent /\ node[m.child].demotedFrom = None
                \/ \E r \in closed : r.assets \cap others # {}
    <3>1. PICK r : HeardAt(input, m.child, r)
      BY <2>6, <2>11
    <3>2. \/ Up(node, m.child) = m.parent /\ node[m.child].demotedFrom = None
          \/ \E item \in reviews : /\ item.kind = "structural-cycle" /\ m.child \in item.assets
                                   /\ item.assets \cap Dragged(moves \ {m}) # {}
      BY <2>1, <2>3, <2>4, <2>8, <2>11, <3>1, ParentComes
    <3> QED BY <2>1, <2>5, <2>7, <3>2
  <2> HIDE DEF others, closed, heard
  <2>12. (CASE m.preview = "root" -> node[m.child].status = "root" /\ node[m.child].parent = None
           [] m.preview = "loop" -> heard /\ m.above \cap others = {} => closed # {}
           [] OTHER -> heard =>
                \/ HangsUnder(m.child) = m.parent /\ node[m.child].demotedFrom = None
                \/ \E r \in closed : r.assets \cap others # {})
    BY <2>9, <2>10, <2>11
  <2> QED BY <2>12 DEF others, closed, heard
<1>2. Shown /\ MovesSound => PreviewsComeTrue
  BY <1>1 DEF PreviewsComeTrue
<1> QED BY <1>2, AlwaysMoved, PTL
=============================================================================
