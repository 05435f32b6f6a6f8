-------------------------- MODULE SsmCompilerProofs --------------------------
(***************************************************************************)
(* What SsmCompiler guarantees of every compile, for any number of assets, *)
(* claims, rungs and levels.  Types and shape come first and serve every   *)
(* other proof; each property then has an invariant of its own.  The       *)
(* second part is about the walk of the parent ladder: what each step does *)
(* to the locals of resolveSubject, then one invariant for each property,  *)
(* stated of the asset being walked and of the assets already resolved.    *)
(* The third is about the loops and the tree.  The last is about what a    *)
(* compile owes to its input alone, and so about two compiles whose inputs *)
(* differ in what was stated by hand.                                      *)
(***************************************************************************)
EXTENDS SsmCompiler, FiniteSetTheorems, WellFoundedInduction, TLAPS

(* Where each variable stands in each phase.                               *)
Late == {"search", "cut", "arrange", "done"}
Nothing ==
  walk = None /\ node = <<>> /\ path = <<>> /\ current = None /\ settled = {}
Shape ==
  /\ phase = "idle" => Nothing
  /\ phase \in {"idle", "resolve"} => path = <<>> /\ current = None /\ settled = {} /\ cycles = {}
  /\ walk # None => /\ phase = "resolve" /\ walk.asset \in input.subjects \ DOMAIN node
                    /\ IsFiniteSet(walk.demoted)
  /\ phase # "idle" => DOMAIN node \subseteq input.subjects /\ settled \subseteq input.subjects
  /\ phase \in Late => DOMAIN node = input.subjects
  /\ phase # "search" => path = <<>>
  /\ path = <<>> => current = None
  /\ \A i \in DOMAIN path : path[i] \in input.subjects
  /\ current # None => current \in input.subjects
  /\ \A c \in cycles : c \subseteq input.subjects
  /\ phase \in {"arrange", "done"} => cycles = {}
  /\ phase \notin {"arrange", "done"} => pending = {} /\ shown = {}
  /\ \A a \in pending \cup shown : a \in input.subjects
Sound == SsmTypeOK /\ Shape

USE SsmCompilerAssumption

LEMMA EmptyFunction == DOMAIN << >> = {} /\ \A S : << >> \in [DOMAIN << >> -> S]
  OBVIOUS

(* What the operators return, on a well-formed input.                      *)
LEMMA CandidatesType ==
  ASSUME IsCompileInput(input), NEW a, NEW r
  PROVE  Candidates(a, r) \subseteq input.subjects /\ Candidates(a, r) \subseteq Assets
  BY DEF Candidates, IsCompileInput

LEMMA PoolType ==
  ASSUME IsCompileInput(input), NEW a \in input.subjects
  PROVE  Pool(a) \subseteq Claims
<1>1. {c \in input.structural : c.subject = a} \subseteq Claims
  BY DEF IsCompileInput
<1>2. {[subject |-> a, target |-> t, source |-> "model-tree"] :
          t \in {input.modelTree[a]} \ {None, a}} \subseteq Claims
  BY DEF IsCompileInput, Claims, LadderSources
<1> QED BY <1>1, <1>2 DEF Pool

LEMMA ConnectionsType ==
  ASSUME IsCompileInput(input), NEW a
  PROVE  Connections(a) \subseteq Depends
  BY DEF Connections, IsCompileInput, Wires, Depends

LEMMA StatusType == \A p \in Policies : StatusForPolicy(p) \in Statuses
  BY DEF Policies, Statuses, StatusForPolicy

LEMMA ParentType ==
  ASSUME SsmTypeOK, NEW a \in DOMAIN node
  PROVE  ParentOf(a) \in DOMAIN node \cup {None}
  BY DEF ParentOf

LEMMA ClaimType ==
  ASSUME NEW s \in Assets, NEW t \in Assets, NEW k \in LadderSources
  PROVE  [subject |-> s, target |-> t, source |-> k] \in Claims
  BY DEF Claims
------------------------------------------------------------------------------
LEMMA SoundInit == SsmInit => Sound
<1> SUFFICES ASSUME SsmInit PROVE Sound
  OBVIOUS
<1>1. SsmTypeOK
  BY EmptyFunction DEF SsmInit, SsmTypeOK
<1>2. Shape
  BY EmptyFunction DEF SsmInit, Shape, Nothing, Late
<1> QED BY <1>1, <1>2 DEF Sound

LEMMA SoundReset == ASSUME Reset PROVE Sound'
<1>1. SsmTypeOK'
  BY EmptyFunction DEF Reset, SsmTypeOK
<1>2. Shape'
  BY EmptyFunction DEF Reset, Shape, Nothing, Late
<1> QED BY <1>1, <1>2 DEF Sound

LEMMA SoundStart == ASSUME Sound, Start PROVE Sound'
<1>1. SsmTypeOK'
  BY DEF Sound, SsmTypeOK, Start, walkVars, searchVars, treeVars
<1>2. Shape'
  BY EmptyFunction DEF Sound, Shape, Nothing, Late, Start, walkVars, searchVars, treeVars
<1> QED BY <1>1, <1>2 DEF Sound

LEMMA SoundStartWalk == ASSUME Sound, StartWalk PROVE Sound'
<1> PICK a \in input.subjects :
      IsFirst(a, input.subjects \ DOMAIN node) /\ walk' = NewWalk(a)
  BY DEF StartWalk
<1>0. IsCompileInput(input) /\ a \in Assets /\ Len(input.ladder) \in Nat
  BY DEF StartWalk, Sound, SsmTypeOK, IsCompileInput
<1>1. NewWalk(a) \in Walks
  BY <1>0, ConnectionsType DEF NewWalk, Walks, Statuses
<1>2. NewWalk(a).asset = a /\ NewWalk(a).demoted = {}
  BY DEF NewWalk
<1>3. a \notin DOMAIN node
  BY DEF IsFirst
<1>4. SsmTypeOK'
  BY <1>1 DEF Sound, SsmTypeOK, StartWalk, searchVars, treeVars
<1>5. Shape'
  BY <1>2, <1>3, FS_EmptySet DEF Sound, Shape, Nothing, Late, StartWalk, searchVars, treeVars
<1> QED BY <1>4, <1>5 DEF Sound

(* A step of the walk leaves the rest of the state as it is.               *)
LEMMA SoundWalk ==
  ASSUME Sound, walk # None, phase = "resolve", walk' \in Walks, walk'.asset = walk.asset,
         IsFiniteSet(walk'.demoted), reviews' \subseteq Reviews, UNCHANGED walkFrame
  PROVE  Sound'
<1>1. SsmTypeOK'
  BY DEF Sound, SsmTypeOK, walkFrame, searchVars, treeVars
<1>2. Shape'
  BY DEF Sound, Shape, Nothing, Late, walkFrame, searchVars, treeVars
<1> QED BY <1>1, <1>2 DEF Sound

LEMMA OnRungFacts ==
  ASSUME Sound, OnRung
  PROVE  /\ IsCompileInput(input) /\ walk \in Walks /\ walk # None /\ phase = "resolve"
         /\ walk.asset \in input.subjects /\ walk.asset \in Assets /\ IsFiniteSet(walk.demoted)
         /\ Source \in LadderSources
         /\ walk.rung \in 1..Len(input.ladder) /\ Len(input.ladder) \in Nat
         /\ Off \in Nat \ {0} /\ walk.rung + 1 \in Nat \ {0}
         /\ Offered \subseteq input.subjects /\ Offered \subseteq Assets
<1>1. IsCompileInput(input) /\ walk \in Walks /\ walk # None /\ phase = "resolve"
  BY DEF OnRung, Sound, SsmTypeOK
<1>2. walk.asset \in input.subjects /\ IsFiniteSet(walk.demoted)
  BY <1>1 DEF Sound, Shape
<1>3. walk.rung \in 1..Len(input.ladder) /\ Len(input.ladder) \in Nat
  BY <1>1 DEF OnRung, Walks, IsCompileInput
<1>4. Source \in LadderSources
  BY <1>1, <1>3 DEF Source, IsCompileInput
<1>5. Offered \subseteq input.subjects /\ Offered \subseteq Assets
  BY <1>1, CandidatesType DEF Offered
<1> QED BY <1>1, <1>2, <1>3, <1>4, <1>5 DEF Off, IsCompileInput

LEMMA SoundSkipRung == ASSUME Sound, SkipRung PROVE Sound'
<1>0. OnRung
  BY DEF SkipRung
<1>1. walk' \in Walks /\ walk'.asset = walk.asset /\ walk'.demoted = walk.demoted
  BY <1>0, OnRungFacts DEF SkipRung, Walks
<1> QED BY <1>0, <1>1, OnRungFacts, SoundWalk DEF SkipRung, Sound, SsmTypeOK

LEMMA SoundStopAtTie == ASSUME Sound, StopAtTie PROVE Sound'
<1>0. OnRung
  BY DEF StopAtTie
<1>1. walk' \in Walks /\ walk'.asset = walk.asset /\ walk'.demoted = walk.demoted
  BY <1>0, OnRungFacts DEF StopAtTie, Walks, Statuses
<1>2. [kind |-> "ambiguous-parent", asset |-> walk.asset, candidates |-> Offered] \in Reviews
  BY <1>0, OnRungFacts DEF Reviews
<1>3. reviews' \subseteq Reviews
  BY <1>2 DEF StopAtTie, Sound, SsmTypeOK
<1>4. UNCHANGED walkFrame
  BY DEF StopAtTie
<1> QED BY <1>0, <1>1, <1>3, <1>4, OnRungFacts, SoundWalk

LEMMA SoundKeepParent == ASSUME Sound, KeepParent PROVE Sound'
<1>0. OnRung
  BY DEF KeepParent
<1> PICK p \in Offered :
      /\ Offered = {p}
      /\ Source = "manual" \/ Outcome(walk.asset, p) = "keep"
      /\ walk' = [walk EXCEPT !.parent = p, !.source = Source, !.status = "resolved",
                    !.winner = [subject |-> walk.asset, target |-> p, source |-> Source],
                    !.rung = Off]
  BY DEF KeepParent
<1>1. [subject |-> walk.asset, target |-> p, source |-> Source] \in Claims
  BY <1>0, OnRungFacts, ClaimType
<1>2. walk' \in Walks /\ walk'.asset = walk.asset /\ walk'.demoted = walk.demoted
  BY <1>0, <1>1, OnRungFacts DEF Walks, Statuses
<1>3. UNCHANGED <<walkFrame, reviews>>
  BY DEF KeepParent
<1> QED BY <1>0, <1>2, <1>3, OnRungFacts, SoundWalk DEF Sound, SsmTypeOK

LEMMA SoundDemoteParent == ASSUME Sound, DemoteParent PROVE Sound'
<1>0. OnRung
  BY DEF DemoteParent
<1> PICK p \in Offered :
      walk' = [walk EXCEPT
             !.rung = @ + 1, !.demoted = @ \cup {p},
             !.demotedFrom = IF @ = None THEN p ELSE @,
             !.dependencies = @ \cup
               {[parent |-> p, type |-> "DEPENDENCY", rule |-> "boundaryDemotion"]}]
  BY DEF DemoteParent
<1>1. [parent |-> p, type |-> "DEPENDENCY", rule |-> "boundaryDemotion"] \in Depends
  BY <1>0, OnRungFacts DEF Depends
<1>2. walk' \in Walks /\ walk'.asset = walk.asset /\ walk'.demoted = walk.demoted \cup {p}
  BY <1>0, <1>1, OnRungFacts DEF Walks
<1>3. IsFiniteSet(walk'.demoted)
<2>1. IsFiniteSet(walk.demoted)
  BY <1>0, OnRungFacts
<2>2. IsFiniteSet(walk.demoted \cup {p})
  BY <2>1, FS_AddElement
<2> QED BY <1>2, <2>2
<1>4. UNCHANGED <<walkFrame, reviews>>
  BY DEF DemoteParent
<1> QED BY <1>0, <1>2, <1>3, <1>4, OnRungFacts, SoundWalk DEF Sound, SsmTypeOK

LEMMA SoundStopAtUnknown == ASSUME Sound, StopAtUnknown PROVE Sound'
<1>0. OnRung
  BY DEF StopAtUnknown
<1> PICK p \in Offered, l \in Boundaries :
      /\ walk' = [walk EXCEPT !.status = StatusForPolicy(input.levels[l].policy), !.rung = Off]
      /\ reviews' = reviews \cup
            {[kind |-> "missing-boundary", asset |-> b, level |-> l] :
               b \in {c \in {walk.asset, p} : Stated(c, l) = None}}
  BY DEF StopAtUnknown
<1>1. input.levels[l].policy \in Policies /\ l \in Nat
<2>1. input.levels \in Seq(Levels) /\ l \in 1..Len(input.levels)
  BY <1>0, OnRungFacts DEF Boundaries, IsCompileInput
<2>2. input.levels[l] \in Levels
  BY <2>1
<2> QED BY <2>1, <2>2 DEF Levels
<1>2. StatusForPolicy(input.levels[l].policy) \in Statuses
  BY <1>1, StatusType
<1>3. walk' \in Walks /\ walk'.asset = walk.asset /\ walk'.demoted = walk.demoted
  BY <1>0, <1>2, OnRungFacts DEF Walks
<1>4. \A b \in {walk.asset, p} : [kind |-> "missing-boundary", asset |-> b, level |-> l] \in Reviews
  BY <1>0, <1>1, OnRungFacts DEF Reviews
<1>5. reviews' \subseteq Reviews
  BY <1>4 DEF Sound, SsmTypeOK
<1>6. UNCHANGED walkFrame
  BY DEF StopAtUnknown
<1> QED BY <1>0, <1>3, <1>5, <1>6, OnRungFacts, SoundWalk

LEMMA DecisionType ==
  ASSUME Sound, walk # None
  PROVE  DecisionOf(walk) \in Decision /\ walk \in Walks /\ walk.asset \in Assets
<1>1. walk \in Walks /\ walk.asset \in input.subjects /\ IsCompileInput(input)
  BY DEF Sound, Shape, SsmTypeOK
<1>2. Pool(walk.asset) \ {walk.winner} \subseteq Claims
  BY <1>1, PoolType
<1> QED BY <1>1, <1>2 DEF DecisionOf, Decision, Walks

LEMMA SoundEndWalk == ASSUME Sound, EndWalk PROVE Sound'
<1>0. phase = "resolve" /\ walk # None /\ IsFiniteSet(walk.demoted)
      /\ walk.asset \in input.subjects \ DOMAIN node
  BY DEF EndWalk, Sound, Shape
<1>1. demotions' \in Nat
  BY <1>0, FS_CardinalityType DEF EndWalk, Sound, SsmTypeOK
<1>2. DOMAIN node' = DOMAIN node \cup {walk.asset}
  BY DEF EndWalk
<1>3. node' \in [DOMAIN node' -> Decision] /\ DOMAIN node' \subseteq Assets
  BY <1>0, <1>2, DecisionType DEF EndWalk, Sound, SsmTypeOK
<1>4. SsmTypeOK'
  BY <1>1, <1>3 DEF EndWalk, Sound, SsmTypeOK, searchVars, treeVars
<1>5. Shape'
  BY <1>0, <1>2 DEF Sound, Shape, Nothing, Late, EndWalk, searchVars, treeVars
<1> QED BY <1>4, <1>5 DEF Sound
------------------------------------------------------------------------------
LEMMA SoundStartSearch == ASSUME Sound, StartSearch PROVE Sound'
<1>1. SsmTypeOK'
  BY DEF Sound, SsmTypeOK, StartSearch, walkVars, searchVars, treeVars
<1>2. Shape'
  BY DEF Sound, Shape, Nothing, Late, StartSearch, walkVars, searchVars, treeVars
<1> QED BY <1>1, <1>2 DEF Sound

LEMMA SearchFacts ==
  ASSUME Sound, phase \in Late
  PROVE  /\ IsCompileInput(input) /\ input.subjects \subseteq Assets /\ None \notin input.subjects
         /\ DOMAIN node = input.subjects /\ path \in Seq(input.subjects)
         /\ OnPath \subseteq input.subjects /\ walk = None
         /\ \A a \in input.subjects : ParentOf(a) \in input.subjects \cup {None}
<1>1. /\ IsCompileInput(input) /\ input.subjects \subseteq Assets /\ None \notin input.subjects
      /\ DOMAIN node = input.subjects
  BY DEF Sound, SsmTypeOK, Shape, Late, IsCompileInput
<1>2. path \in Seq(input.subjects)
  BY DEF Sound, SsmTypeOK, Shape
<1>3. \A a \in input.subjects : ParentOf(a) \in input.subjects \cup {None}
  BY <1>1, ParentType DEF Sound
<1> QED BY <1>1, <1>2, <1>3 DEF OnPath, Late, Sound, Shape

LEMMA SoundStartPath == ASSUME Sound, StartPath PROVE Sound'
<1>0. phase \in Late
  BY DEF StartPath, Late
<1> PICK a \in input.subjects : path' = <<a>> /\ current' = ParentOf(a)
  BY DEF StartPath
<1>1. SsmTypeOK'
  BY <1>0, SearchFacts DEF Sound, SsmTypeOK, StartPath, walkVars, treeVars
<1>2. Shape'
  BY <1>0, SearchFacts DEF Sound, Shape, Nothing, Late, StartPath, walkVars, treeVars
<1> QED BY <1>1, <1>2 DEF Sound

LEMMA SoundFollowParent == ASSUME Sound, FollowParent PROVE Sound'
<1>0. phase \in Late
  BY DEF FollowParent, Late
<1>1. current \in input.subjects
  BY DEF FollowParent, Sound, Shape
<1>2. path' \in Seq(input.subjects) /\ current' \in input.subjects \cup {None}
  BY <1>0, <1>1, SearchFacts DEF FollowParent
<1>3. \A i \in DOMAIN path' : path'[i] \in input.subjects
  BY <1>2
<1>4. path' \in Seq(Assets) /\ current' \in Assets \cup {None}
  BY <1>0, <1>1, <1>2, SearchFacts DEF FollowParent, Sound, SsmTypeOK
<1>5. SsmTypeOK'
  BY <1>4 DEF Sound, SsmTypeOK, FollowParent, walkVars, treeVars
<1>6. Shape'
  BY <1>2, <1>3 DEF Sound, Shape, Nothing, Late, FollowParent, walkVars, treeVars
<1> QED BY <1>5, <1>6 DEF Sound

LEMMA SoundEndPath == ASSUME Sound, EndPath PROVE Sound'
<1>0. phase \in Late
  BY DEF EndPath, Late
<1>1. \A i \in DOMAIN path : {path[j] : j \in i..Len(path)} \subseteq input.subjects
  BY <1>0, SearchFacts
<1>2. \A c \in cycles' : c \subseteq input.subjects
  BY <1>1 DEF EndPath, Sound, Shape
<1>3. settled' \subseteq input.subjects
  BY <1>0, SearchFacts DEF EndPath, Sound, Shape, Late
<1>4. SsmTypeOK'
  BY <1>0, <1>2, <1>3, SearchFacts DEF Sound, SsmTypeOK, EndPath, walkVars, treeVars
<1>5. Shape'
  BY <1>2, <1>3 DEF Sound, Shape, Nothing, Late, EndPath, walkVars, treeVars
<1> QED BY <1>4, <1>5 DEF Sound

LEMMA SoundEndSearch == ASSUME Sound, EndSearch PROVE Sound'
<1>1. SsmTypeOK'
  BY DEF Sound, SsmTypeOK, EndSearch, walkVars, searchVars, treeVars
<1>2. Shape'
  BY DEF Sound, Shape, Nothing, Late, EndSearch, walkVars, searchVars, treeVars
<1> QED BY <1>1, <1>2 DEF Sound

LEMMA DowngradedType == \A d \in Decision : Downgraded(d) \in Decision
  BY DEF Decision, Downgraded, Statuses

LEMMA DowngradedFields ==
  ASSUME NEW d \in Decision
  PROVE  LET e == Downgraded(d) IN
         /\ e.parent = None /\ e.source = None /\ e.winner = None /\ e.status = "unresolved"
         /\ e.losers = d.losers \cup ({d.winner} \ {None})
         /\ e.dependencies = d.dependencies
  BY DEF Decision, Downgraded

LEMMA SoundCutCycle == ASSUME Sound, CutCycle PROVE Sound'
<1>0. phase \in Late
  BY DEF CutCycle, Late
<1> PICK c \in cycles : \E b \in c :
      /\ IsWeakest(b, c)
      /\ node' = [node EXCEPT ![b] = Downgraded(@)]
      /\ cycles' = cycles \ {c}
      /\ reviews' = reviews \cup {[kind |-> "structural-cycle", assets |-> c]}
  BY DEF CutCycle
<1> PICK a \in c :
      /\ node' = [node EXCEPT ![a] = Downgraded(@)]
      /\ cycles' = cycles \ {c}
      /\ reviews' = reviews \cup {[kind |-> "structural-cycle", assets |-> c]}
  OBVIOUS
<1>1. a \in DOMAIN node /\ c \subseteq Assets
  BY <1>0, SearchFacts DEF Sound, Shape
<1>2. node' \in [DOMAIN node -> Decision] /\ DOMAIN node' = DOMAIN node
  BY <1>1, DowngradedType DEF Sound, SsmTypeOK
<1>3. [kind |-> "structural-cycle", assets |-> c] \in Reviews
  BY <1>1 DEF Reviews
<1>4. SsmTypeOK'
  BY <1>2, <1>3 DEF Sound, SsmTypeOK, CutCycle, searchVars, treeVars
<1>5. Shape'
  BY <1>2 DEF Sound, Shape, Nothing, Late, CutCycle, searchVars, treeVars
<1> QED BY <1>4, <1>5 DEF Sound

LEMMA SoundStartTree == ASSUME Sound, StartTree PROVE Sound'
<1>0. phase \in Late
  BY DEF StartTree, Late
<1>1. SsmTypeOK'
  BY <1>0, SearchFacts DEF Sound, SsmTypeOK, StartTree, walkVars, searchVars
<1>2. Shape'
  BY <1>0, SearchFacts DEF Sound, Shape, Nothing, Late, StartTree, walkVars, searchVars
<1> QED BY <1>1, <1>2 DEF Sound

LEMMA SoundShowAsset == ASSUME Sound, ShowAsset PROVE Sound'
<1>0. phase \in Late
  BY DEF ShowAsset, Late
<1> PICK a \in pending : shown' = shown \cup {a} /\ pending' = (pending \cup Children(a)) \ shown'
  BY DEF ShowAsset
<1>1. Children(a) \subseteq input.subjects
  BY <1>0, SearchFacts DEF Children
<1>2. \A b \in pending' \cup shown' : b \in input.subjects
  BY <1>1 DEF Sound, Shape
<1>3. SsmTypeOK'
  BY <1>0, <1>2, SearchFacts DEF Sound, SsmTypeOK, ShowAsset, walkVars, searchVars
<1>4. Shape'
  BY <1>2 DEF Sound, Shape, Nothing, Late, ShowAsset, walkVars, searchVars
<1> QED BY <1>3, <1>4 DEF Sound

LEMMA SoundEndTree == ASSUME Sound, EndTree PROVE Sound'
<1>1. SsmTypeOK'
  BY DEF Sound, SsmTypeOK, EndTree, walkVars, searchVars, treeVars
<1>2. Shape'
  BY DEF Sound, Shape, Nothing, Late, EndTree, walkVars, searchVars, treeVars
<1> QED BY <1>1, <1>2 DEF Sound

LEMMA SoundStutter == ASSUME Sound, UNCHANGED ssmVars PROVE Sound'
  BY DEF Sound, SsmTypeOK, Shape, Nothing, Late, ssmVars, walkVars, searchVars, treeVars

LEMMA SoundNext == ASSUME Sound, [SsmNext]_ssmVars PROVE Sound'
  BY SoundStart, SoundStartWalk, SoundSkipRung, SoundStopAtTie, SoundKeepParent,
     SoundDemoteParent, SoundStopAtUnknown, SoundEndWalk, SoundStartSearch, SoundStartPath,
     SoundFollowParent, SoundEndPath, SoundEndSearch, SoundCutCycle, SoundStartTree,
     SoundShowAsset, SoundEndTree, SoundReset, SoundStutter
     DEF SsmNext, SsmSteps, Resolve, Search, Arrange

LEMMA AlwaysSound == SsmSpec => []Sound
<1>1. SsmInit => Sound
  BY SoundInit
<1>2. Sound /\ [SsmNext]_ssmVars => Sound'
  BY SoundNext
<1> QED BY <1>1, <1>2, PTL DEF SsmSpec

(* compileSnapshot: whatever it is given, every variable holds what the    *)
(* model says it does.                                                     *)
THEOREM TypeCorrect == SsmSpec => []SsmTypeOK
<1>1. Sound => SsmTypeOK
  BY DEF Sound
<1> QED BY <1>1, AlwaysSound, PTL

-----------------------------------------------------------------------------
(* The walk of the parent ladder.                                          *)
Untouched == UNCHANGED <<input, walk, node, demotions>>
Quiet == Search \/ Arrange \/ UNCHANGED ssmVars

LEMMA QuietStep == ASSUME Quiet PROVE Untouched
  BY DEF Quiet, Untouched, Search, StartSearch, StartPath, FollowParent, EndPath, EndSearch,
         Arrange, StartTree, ShowAsset, EndTree, ssmVars, walkVars

LEMMA QuietReviews == ASSUME Quiet PROVE reviews' = reviews
  BY DEF Quiet, Search, StartSearch, StartPath, FollowParent, EndPath, EndSearch,
         Arrange, StartTree, ShowAsset, EndTree, ssmVars

LEMMA StartStep ==
  ASSUME Sound, Start
  PROVE  walk' = None /\ DOMAIN node' = {} /\ node' = << >> /\ demotions' = demotions
  BY EmptyFunction DEF Start, Sound, Shape, Nothing, walkVars

LEMMA ResetStep ==
  ASSUME Reset
  PROVE  walk' = None /\ DOMAIN node' = {} /\ demotions' = 0 /\ reviews' = {}
  BY EmptyFunction DEF Reset

LEMMA StartWalkStep ==
  ASSUME Sound, StartWalk
  PROVE  /\ input' = input /\ node' = node /\ demotions' = demotions /\ reviews' = reviews
         /\ walk'.asset \in input.subjects \ DOMAIN node
         /\ walk'.rung \in {1, Len(input.ladder) + 1} /\ Len(input.ladder) \in Nat
         /\ walk'.parent = None /\ walk'.winner = None /\ walk'.status = "root"
         /\ walk'.source = None /\ walk'.demoted = {}
         /\ walk'.dependencies = Connections(walk'.asset)
<1> PICK a \in input.subjects :
      IsFirst(a, input.subjects \ DOMAIN node) /\ walk' = NewWalk(a)
  BY DEF StartWalk
<1>1. a \in input.subjects \ DOMAIN node
  BY DEF IsFirst
<1>2. IsCompileInput(input)
  BY DEF StartWalk, Sound, SsmTypeOK
<1> QED BY <1>1, <1>2 DEF NewWalk, StartWalk, IsCompileInput

(* What a rung may do to the locals: end the walk without a parent, with   *)
(* one, or go one rung down.                                               *)
Same(w) == w.asset = walk.asset /\ w.winner = walk.winner /\ w.parent = walk.parent
           /\ w.source = walk.source
LEMMA SkipStep ==
  ASSUME Sound, SkipRung
  PROVE  /\ Offered = {} /\ Same(walk') /\ walk'.rung = walk.rung + 1
         /\ walk'.status = walk.status /\ walk'.demoted = walk.demoted
         /\ walk'.dependencies = walk.dependencies
         /\ reviews' = reviews /\ UNCHANGED walkFrame /\ OnRung
  BY OnRungFacts DEF SkipRung, Same, Walks

LEMMA TieStep ==
  ASSUME Sound, StopAtTie
  PROVE  /\ Same(walk') /\ walk'.rung = Off
         /\ walk'.status = "unresolved" /\ walk'.demoted = walk.demoted
         /\ walk'.dependencies = walk.dependencies
         /\ reviews' = reviews \cup
              {[kind |-> "ambiguous-parent", asset |-> walk.asset, candidates |-> Offered]}
         /\ UNCHANGED walkFrame /\ OnRung
<1>1. OnRung
  BY DEF StopAtTie
<1> QED BY <1>1, OnRungFacts DEF StopAtTie, Same, Walks

LEMMA KeepStep ==
  ASSUME Sound, KeepParent
  PROVE  \E p \in Offered :
         /\ Offered = {p}
         /\ Source = "manual" \/ Outcome(walk.asset, p) = "keep"
         /\ walk'.asset = walk.asset /\ walk'.parent = p /\ walk'.source = Source
         /\ walk'.winner = [subject |-> walk.asset, target |-> p, source |-> Source]
         /\ walk'.status = "resolved" /\ walk'.rung = Off
         /\ walk'.demoted = walk.demoted /\ walk'.dependencies = walk.dependencies
         /\ reviews' = reviews /\ UNCHANGED walkFrame /\ OnRung
<1>1. OnRung /\ UNCHANGED walkFrame /\ reviews' = reviews
  BY DEF KeepParent
<1>2. walk \in Walks
  BY <1>1, OnRungFacts
<1> PICK p \in Offered :
      /\ Offered = {p}
      /\ Source = "manual" \/ Outcome(walk.asset, p) = "keep"
      /\ walk' = [walk EXCEPT !.parent = p, !.source = Source, !.status = "resolved",
                    !.winner = [subject |-> walk.asset, target |-> p, source |-> Source],
                    !.rung = Off]
  BY DEF KeepParent
<1>3. /\ walk'.asset = walk.asset /\ walk'.parent = p /\ walk'.source = Source
      /\ walk'.winner = [subject |-> walk.asset, target |-> p, source |-> Source]
      /\ walk'.status = "resolved" /\ walk'.rung = Off
      /\ walk'.demoted = walk.demoted /\ walk'.dependencies = walk.dependencies
  BY <1>2 DEF Walks
<1> QED BY <1>1, <1>3

Demotion(p) == [parent |-> p, type |-> "DEPENDENCY", rule |-> "boundaryDemotion"]
LEMMA DemoteStep ==
  ASSUME Sound, DemoteParent
  PROVE  \E p \in Offered :
         /\ Offered = {p} /\ Source # "manual" /\ Outcome(walk.asset, p) = "demote"
         /\ Same(walk') /\ walk'.rung = walk.rung + 1 /\ walk'.status = walk.status
         /\ walk'.demoted = walk.demoted \cup {p}
         /\ walk'.dependencies = walk.dependencies \cup {Demotion(p)}
         /\ reviews' = reviews /\ UNCHANGED walkFrame /\ OnRung
<1>1. OnRung /\ UNCHANGED walkFrame /\ reviews' = reviews
  BY DEF DemoteParent
<1>2. walk \in Walks
  BY <1>1, OnRungFacts
<1> PICK p \in Offered :
      /\ Offered = {p} /\ Source # "manual" /\ Outcome(walk.asset, p) = "demote"
      /\ walk' = [walk EXCEPT
             !.rung = @ + 1, !.demoted = @ \cup {p},
             !.demotedFrom = IF @ = None THEN p ELSE @,
             !.dependencies = @ \cup
               {[parent |-> p, type |-> "DEPENDENCY", rule |-> "boundaryDemotion"]}]
  BY DEF DemoteParent
<1>3. /\ Same(walk') /\ walk'.rung = walk.rung + 1 /\ walk'.status = walk.status
      /\ walk'.demoted = walk.demoted \cup {p}
      /\ walk'.dependencies = walk.dependencies \cup {Demotion(p)}
  BY <1>2 DEF Walks, Same, Demotion
<1> QED BY <1>1, <1>3

LEMMA UnknownStep ==
  ASSUME Sound, StopAtUnknown
  PROVE  \E p \in Offered, l \in Boundaries :
         /\ None \in {Stated(walk.asset, l), Stated(p, l)}
         /\ Same(walk') /\ walk'.rung = Off
         /\ walk'.demoted = walk.demoted /\ walk'.dependencies = walk.dependencies
         /\ reviews' = reviews \cup
              {[kind |-> "missing-boundary", asset |-> b, level |-> l] :
                 b \in {c \in {walk.asset, p} : Stated(c, l) = None}}
         /\ UNCHANGED walkFrame /\ OnRung
<1>1. OnRung /\ UNCHANGED walkFrame
  BY DEF StopAtUnknown
<1>2. walk \in Walks
  BY <1>1, OnRungFacts
<1> PICK p \in Offered, l \in Boundaries :
      /\ IsFirst(l, Unknown(walk.asset, p))
      /\ walk' = [walk EXCEPT !.status = StatusForPolicy(input.levels[l].policy), !.rung = Off]
      /\ reviews' = reviews \cup
            {[kind |-> "missing-boundary", asset |-> b, level |-> l] :
               b \in {c \in {walk.asset, p} : Stated(c, l) = None}}
  BY DEF StopAtUnknown
<1>3. None \in {Stated(walk.asset, l), Stated(p, l)}
  BY DEF IsFirst, Unknown
<1>4. /\ Same(walk') /\ walk'.rung = Off
      /\ walk'.demoted = walk.demoted /\ walk'.dependencies = walk.dependencies
  BY <1>2 DEF Walks, Same
<1> QED BY <1>1, <1>3, <1>4

LEMMA DecisionFields ==
  ASSUME NEW w
  PROVE  LET d == DecisionOf(w) IN
         /\ d.parent = w.parent /\ d.source = w.source /\ d.status = w.status
         /\ d.winner = w.winner /\ d.dependencies = w.dependencies
         /\ d.losers = Pool(w.asset) \ {w.winner}
  BY DEF DecisionOf
LEMMA EndWalkStep ==
  ASSUME Sound, EndWalk
  PROVE  /\ walk # None /\ walk' = None /\ input' = input /\ reviews' = reviews
         /\ walk.asset \in input.subjects \ DOMAIN node
         /\ DOMAIN node' = DOMAIN node \cup {walk.asset}
         /\ node'[walk.asset].parent = walk.parent /\ node'[walk.asset].source = walk.source
         /\ node'[walk.asset].status = walk.status /\ node'[walk.asset].winner = walk.winner
         /\ node'[walk.asset].dependencies = walk.dependencies
         /\ node'[walk.asset].losers = Pool(walk.asset) \ {walk.winner}
         /\ \A a \in DOMAIN node : node'[a] = node[a]
         /\ demotions' = demotions + Cardinality(walk.demoted)
<1>1. walk # None /\ walk.asset \in input.subjects \ DOMAIN node
  BY DEF EndWalk, Sound, Shape
<1>2. node'[walk.asset] = DecisionOf(walk)
  BY DEF EndWalk
<1> QED BY <1>1, <1>2, DecisionFields DEF EndWalk

LEMMA CutStep ==
  ASSUME Sound, CutCycle
  PROVE  /\ walk' = walk /\ walk = None /\ input' = input /\ demotions' = demotions
         /\ \E c \in cycles : \E a \in c :
              /\ a \in DOMAIN node /\ DOMAIN node' = DOMAIN node
              /\ node'[a] = Downgraded(node[a])
              /\ \A b \in DOMAIN node \ {a} : node'[b] = node[b]
              /\ reviews' = reviews \cup {[kind |-> "structural-cycle", assets |-> c]}
<1>0. phase \in Late
  BY DEF CutCycle, Late
<1> PICK c \in cycles : \E b \in c :
      /\ node' = [node EXCEPT ![b] = Downgraded(@)]
      /\ reviews' = reviews \cup {[kind |-> "structural-cycle", assets |-> c]}
  BY DEF CutCycle
<1> PICK a \in c :
      /\ node' = [node EXCEPT ![a] = Downgraded(@)]
      /\ reviews' = reviews \cup {[kind |-> "structural-cycle", assets |-> c]}
  OBVIOUS
<1>1. a \in DOMAIN node
  BY <1>0, SearchFacts DEF Sound, Shape
<1>2. /\ DOMAIN node' = DOMAIN node /\ node'[a] = Downgraded(node[a])
      /\ \A b \in DOMAIN node \ {a} : node'[b] = node[b]
  BY <1>1
<1>3. walk' = walk /\ walk = None /\ input' = input /\ demotions' = demotions
  BY <1>0, SearchFacts DEF CutCycle
<1> QED BY <1>1, <1>2, <1>3

------------------------------------------------------------------------------
HardFor(a, p, s) ==
  p # None /\ s # "manual" =>
    \A l \in Boundaries : Stated(a, l) # None /\ Stated(a, l) = Stated(p, l)
HardInv ==
  /\ \A a \in DOMAIN node : HardFor(a, node[a].parent, node[a].source)
  /\ walk # None => HardFor(walk.asset, walk.parent, walk.source)

LEMMA KeptIsHard ==
  ASSUME NEW a, NEW p, Outcome(a, p) = "keep"
  PROVE  \A l \in Boundaries : Stated(a, l) # None /\ Stated(a, l) = Stated(p, l)
<1>1. Differs(a, p) = {} /\ Unknown(a, p) = {}
  BY DEF Outcome
<1> QED BY <1>1 DEF Differs, Unknown

LEMMA HardSame ==
  ASSUME input' = input, NEW a, NEW p, NEW s, HardFor(a, p, s) PROVE HardFor(a, p, s)'
  BY DEF HardFor, Boundaries, Stated

(* The parents recorded, and the parent of the walk, read under one input. *)
LEMMA HardStays ==
  ASSUME input' = input,
         \A a \in DOMAIN node' : HardFor(a, node'[a].parent, node'[a].source),
         walk' # None => HardFor(walk'.asset, walk'.parent, walk'.source)
  PROVE  HardInv'
<1>1. (\A a \in DOMAIN node : HardFor(a, node[a].parent, node[a].source))'
  BY DEF HardFor, Boundaries, Stated
<1>2. PICK w : w = walk'
  OBVIOUS
<1>3. (walk # None => HardFor(walk.asset, walk.parent, walk.source))'
  <2>1. w # None => HardFor(w.asset, w.parent, w.source)
    BY <1>2
  <2> QED BY <1>2, <2>1 DEF HardFor, Boundaries, Stated
<1> QED BY <1>1, <1>3 DEF HardInv

LEMMA HardResolve == ASSUME Sound, HardInv, Resolve PROVE HardInv'
<1>1. CASE StartWalk
  <2>1. input' = input /\ node' = node /\ walk'.parent = None
    BY <1>1, StartWalkStep
  <2>2. \A a \in DOMAIN node' : HardFor(a, node'[a].parent, node'[a].source)
    BY <2>1 DEF HardInv
  <2>3. HardFor(walk'.asset, walk'.parent, walk'.source)
    BY <2>1 DEF HardFor
  <2> QED BY <2>1, <2>2, <2>3, HardStays
<1>2. CASE SkipRung \/ StopAtTie \/ StopAtUnknown \/ DemoteParent
  <2>1. UNCHANGED walkFrame /\ Same(walk') /\ walk # None
    BY <1>2, SkipStep, TieStep, UnknownStep, DemoteStep DEF OnRung
  <2>2. input' = input /\ node' = node
    BY <2>1 DEF walkFrame
  <2>3. HardFor(walk'.asset, walk'.parent, walk'.source)
    BY <2>1 DEF HardInv, Same
  <2>4. \A a \in DOMAIN node' : HardFor(a, node'[a].parent, node'[a].source)
    BY <2>2 DEF HardInv
  <2> QED BY <2>2, <2>3, <2>4, HardStays
<1>3. CASE KeepParent
  <2> PICK p \in Offered :
         /\ Source = "manual" \/ Outcome(walk.asset, p) = "keep"
         /\ walk'.asset = walk.asset /\ walk'.parent = p /\ walk'.source = Source
         /\ UNCHANGED walkFrame
    BY <1>3, KeepStep
  <2>1. HardFor(walk.asset, p, Source)
    BY KeptIsHard DEF HardFor
  <2>2. input' = input /\ node' = node
    BY DEF walkFrame
  <2>3. \A a \in DOMAIN node' : HardFor(a, node'[a].parent, node'[a].source)
    BY <2>2 DEF HardInv
  <2>4. HardFor(walk'.asset, walk'.parent, walk'.source)
    BY <2>1
  <2> QED BY <2>2, <2>3, <2>4, HardStays
<1>4. CASE EndWalk
  <2>1. HardFor(walk.asset, walk.parent, walk.source)
    BY <1>4, EndWalkStep DEF HardInv
  <2>2. \A a \in DOMAIN node' : HardFor(a, node'[a].parent, node'[a].source)
    BY <1>4, <2>1, EndWalkStep DEF HardInv
  <2>3. walk' = None /\ input' = input
    BY <1>4, EndWalkStep
  <2> QED BY <2>2, <2>3, HardStays
<1> QED BY <1>1, <1>2, <1>3, <1>4 DEF Resolve

LEMMA HardNext == ASSUME Sound, HardInv, [SsmNext]_ssmVars PROVE HardInv'
<1>1. CASE Start
  BY <1>1, StartStep DEF HardInv
<1>2. CASE CutCycle
  <2>1. \A d \in Decision : Downgraded(d).parent = None
    BY DowngradedFields
  <2>2. \A a \in DOMAIN node : node[a] \in Decision
    BY DEF Sound, SsmTypeOK
  <2>3. \A a \in DOMAIN node' : HardFor(a, node'[a].parent, node'[a].source)
    <3>1. PICK a \in DOMAIN node :
            /\ DOMAIN node' = DOMAIN node /\ node'[a] = Downgraded(node[a])
            /\ \A b \in DOMAIN node \ {a} : node'[b] = node[b]
      BY <1>2, CutStep
    <3>2. HardFor(a, node'[a].parent, node'[a].source)
      BY <2>1, <2>2, <3>1 DEF HardFor
    <3> QED BY <3>1, <3>2 DEF HardInv
  <2>4. input' = input /\ walk' = None
    BY <1>2, CutStep
  <2> QED BY <2>3, <2>4, HardStays
<1>3. CASE Quiet
  <2>1. input' = input /\ node' = node /\ walk' = walk
    BY <1>3, QuietStep DEF Untouched
  <2>2. \A a \in DOMAIN node' : HardFor(a, node'[a].parent, node'[a].source)
    BY <2>1 DEF HardInv
  <2>3. walk' # None => HardFor(walk'.asset, walk'.parent, walk'.source)
    BY <2>1 DEF HardInv
  <2> QED BY <2>1, <2>2, <2>3, HardStays
<1>4. CASE Reset
  BY <1>4, ResetStep DEF HardInv
<1> QED BY <1>1, <1>2, <1>3, <1>4, HardResolve DEF SsmNext, SsmSteps, Quiet

(* foldParent: an asset nested by anything but a hand-set parent has every *)
(* boundary value known, and the same as its parent's.                     *)
THEOREM BoundariesHold == SsmSpec => []BoundariesAreHard
<1>1. SsmInit => HardInv
  BY EmptyFunction DEF SsmInit, HardInv
<1>2. Sound /\ HardInv /\ [SsmNext]_ssmVars => HardInv'
  BY HardNext
<1>3. HardInv => BoundariesAreHard
  BY DEF HardInv, HardFor, BoundariesAreHard
<1> QED BY <1>1, <1>2, <1>3, AlwaysSound, PTL DEF SsmSpec
------------------------------------------------------------------------------
Above(a, r) == \A i \in 1..(r - 1) : Passed(a, i)
SpentFor(a, p, s) ==
  p # None =>
    \E r \in 1..Len(input.ladder) :
      input.ladder[r] = s /\ Candidates(a, r) = {p} /\ Above(a, r)
SpentInv ==
  /\ \A a \in DOMAIN node : SpentFor(a, node[a].parent, node[a].source)
  /\ walk # None =>
       /\ SpentFor(walk.asset, walk.parent, walk.source)
       /\ walk.rung <= Len(input.ladder) => walk.parent = None /\ Above(walk.asset, walk.rung)

(* What was true of an asset stays true while the input is the same.       *)
LEMMA SpentSame ==
  ASSUME input' = input
  PROVE  /\ \A a, p, s : SpentFor(a, p, s)' <=> SpentFor(a, p, s)
         /\ \A a, r : Above(a, r)' <=> Above(a, r)
  BY DEF SpentFor, Above, Passed, Candidates, Pool, Differs, Boundaries, Stated

LEMMA OneRungMore ==
  ASSUME NEW a, NEW r \in Nat \ {0}, Above(a, r), Passed(a, r)
  PROVE  Above(a, r + 1)
<1>1. \A i \in 1..(r + 1 - 1) : i \in 1..(r - 1) \/ i = r
  OBVIOUS
<1> QED BY <1>1 DEF Above

LEMMA SpentResolve == ASSUME Sound, SpentInv, Resolve PROVE SpentInv'
<1> USE DEF SpentInv
<1>1. CASE StartWalk
  <2>1. walk'.parent = None /\ (walk'.rung <= Len(input.ladder) => walk'.rung = 1)
    BY <1>1, StartWalkStep
  <2>2. Above(walk'.asset, 1) /\ SpentFor(walk'.asset, walk'.parent, walk'.source)
    BY <2>1 DEF Above, SpentFor
  <2> QED BY <1>1, <2>1, <2>2, StartWalkStep, SpentSame
<1>2. CASE SkipRung \/ DemoteParent
  <2>1. /\ UNCHANGED walkFrame /\ Same(walk') /\ OnRung /\ walk'.rung = walk.rung + 1
    BY <1>2, SkipStep, DemoteStep
  <2>2. Passed(walk.asset, walk.rung)
    <3>1. CASE SkipRung
      BY <3>1, SkipStep DEF Passed, Offered
    <3>2. CASE DemoteParent
      <4> PICK p \in Offered : Offered = {p} /\ Source # "manual" /\ Outcome(walk.asset, p) = "demote"
        BY <3>2, DemoteStep
      <4>1. Differs(walk.asset, p) # {}
        BY DEF Outcome
      <4>2. p \in input.subjects
        BY <2>1, OnRungFacts
      <4> QED BY <4>1, <4>2 DEF Passed, Offered, Source
    <3> QED BY <1>2, <3>1, <3>2
  <2>3. walk # None /\ walk.parent = None /\ walk.rung \in Nat \ {0} /\ Above(walk.asset, walk.rung)
    BY <2>1, OnRungFacts DEF OnRung
  <2>4. Above(walk.asset, walk'.rung)
    BY <2>1, <2>2, <2>3, OneRungMore
  <2> QED BY <2>1, <2>3, <2>4, SpentSame DEF walkFrame, Same
<1>3. CASE StopAtTie \/ StopAtUnknown
  <2>1. UNCHANGED walkFrame /\ Same(walk') /\ OnRung /\ walk'.rung = Off
    BY <1>3, TieStep, UnknownStep
  <2>2. ~(walk'.rung <= Len(input.ladder))
    BY <2>1, OnRungFacts DEF Off
  <2> QED BY <2>1, <2>2, SpentSame DEF walkFrame, Same, OnRung
<1>4. CASE KeepParent
  <2> PICK p \in Offered :
         /\ Offered = {p} /\ UNCHANGED walkFrame /\ OnRung /\ walk'.rung = Off
         /\ walk'.asset = walk.asset /\ walk'.parent = p /\ walk'.source = Source
    BY <1>4, KeepStep
  <2>1. walk # None /\ walk.rung \in 1..Len(input.ladder) /\ Above(walk.asset, walk.rung)
    BY OnRungFacts DEF OnRung
  <2>2. SpentFor(walk.asset, p, Source)
    BY <2>1 DEF SpentFor, Offered, Source
  <2>3. ~(walk'.rung <= Len(input.ladder))
    BY OnRungFacts DEF Off
  <2> QED BY <2>2, <2>3, SpentSame DEF walkFrame
<1>5. CASE EndWalk
  <2>1. \A a \in DOMAIN node' : SpentFor(a, node'[a].parent, node'[a].source)
    BY <1>5, EndWalkStep
  <2> QED BY <1>5, <2>1, EndWalkStep, SpentSame
<1> QED BY <1>1, <1>2, <1>3, <1>4, <1>5 DEF Resolve

LEMMA SpentNext == ASSUME Sound, SpentInv, [SsmNext]_ssmVars PROVE SpentInv'
<1>1. CASE Start
  BY <1>1, StartStep DEF SpentInv
<1>2. CASE CutCycle
  <2>1. \A d \in Decision : Downgraded(d).parent = None
    BY DowngradedFields
  <2>2. \A a \in DOMAIN node : node[a] \in Decision
    BY DEF Sound, SsmTypeOK
  <2>3. \A a \in DOMAIN node' : node'[a].parent = None \/ node'[a] = node[a]
    BY <1>2, <2>1, <2>2, CutStep
  <2>4. \A a \in DOMAIN node' : SpentFor(a, node'[a].parent, node'[a].source)
    BY <1>2, <2>3, CutStep DEF SpentInv, SpentFor
  <2> QED BY <1>2, <2>4, CutStep, SpentSame DEF SpentInv
<1>3. CASE Quiet
  BY <1>3, QuietStep, SpentSame DEF SpentInv, Untouched
<1>4. CASE Reset
  BY <1>4, ResetStep DEF SpentInv
<1> QED BY <1>1, <1>2, <1>3, <1>4, SpentResolve DEF SsmNext, SsmSteps, Quiet

LEMMA AlwaysSpent == SsmSpec => []SpentInv
<1>1. SsmInit => SpentInv
  BY EmptyFunction DEF SsmInit, SpentInv
<1>2. Sound /\ SpentInv /\ [SsmNext]_ssmVars => SpentInv'
  BY SpentNext
<1> QED BY <1>1, <1>2, AlwaysSound, PTL DEF SsmSpec

(* resolveSubject: no parent is taken from a rung below one that was tied, *)
(* that could not be compared, or that kept its parent.                    *)
THEOREM LadderIsObeyed == SsmSpec => []StrongerRungsSpent
<1>1. SpentInv => StrongerRungsSpent
  BY DEF SpentInv, SpentFor, Above, StrongerRungsSpent
<1> QED BY <1>1, AlwaysSpent, PTL
------------------------------------------------------------------------------
(* The winner of an asset's slot: one of its claims, and where its parent  *)
(* comes from.                                                             *)
WonBy(a, w, p, s) ==
  /\ w = None <=> p = None
  /\ w # None => w \in Pool(a) /\ w.target = p /\ w.source = s
KeptInv ==
  /\ \A a \in DOMAIN node :
       /\ node[a].losers = Pool(a) \ {node[a].winner}
       /\ WonBy(a, node[a].winner, node[a].parent, node[a].source)
  /\ walk # None => WonBy(walk.asset, walk.winner, walk.parent, walk.source)

LEMMA PoolSame ==
  ASSUME input' = input
  PROVE  /\ \A a : Pool(a)' = Pool(a)
         /\ \A a, w, p, s : WonBy(a, w, p, s)' <=> WonBy(a, w, p, s)
  BY DEF Pool, WonBy

(* An asset offered on a rung is the target of one of the claims there.    *)
LEMMA OfferedIsClaimed ==
  ASSUME Sound, OnRung, NEW p \in Offered
  PROVE  [subject |-> walk.asset, target |-> p, source |-> Source] \in Pool(walk.asset)
<1>1. walk.asset \in input.subjects /\ IsCompileInput(input)
  BY OnRungFacts
<1>2. PICK c \in Pool(walk.asset) : c.source = Source /\ c.target = p
  BY DEF Offered, Candidates, Source
<1>3. c.subject = walk.asset
  BY DEF Pool
<1>4. c \in Claims
  BY <1>1, PoolType
<1>5. c = [subject |-> walk.asset, target |-> p, source |-> Source]
  BY <1>2, <1>3, <1>4 DEF Claims
<1> QED BY <1>5

LEMMA KeptResolve == ASSUME Sound, KeptInv, Resolve PROVE KeptInv'
<1> USE DEF KeptInv
<1>1. CASE StartWalk
  <2>1. WonBy(walk'.asset, walk'.winner, walk'.parent, walk'.source)
    BY <1>1, StartWalkStep DEF WonBy
  <2> QED BY <1>1, <2>1, StartWalkStep, PoolSame
<1>2. CASE SkipRung \/ DemoteParent \/ StopAtTie \/ StopAtUnknown
  <2>1. UNCHANGED walkFrame /\ Same(walk') /\ walk # None
    BY <1>2, SkipStep, DemoteStep, TieStep, UnknownStep DEF OnRung
  <2> QED BY <2>1, PoolSame DEF walkFrame, Same
<1>3. CASE KeepParent
  <2> PICK p \in Offered :
         /\ Offered = {p} /\ UNCHANGED walkFrame /\ OnRung
         /\ walk'.asset = walk.asset /\ walk'.parent = p /\ walk'.source = Source
         /\ walk'.winner = [subject |-> walk.asset, target |-> p, source |-> Source]
    BY <1>3, KeepStep
  <2>1. walk'.winner \in Pool(walk.asset) /\ walk.asset \in input.subjects /\ IsCompileInput(input)
    BY OfferedIsClaimed, OnRungFacts
  <2>2. walk'.winner # None /\ p # None
    <3>1. walk'.winner \in Claims
      BY <2>1, PoolType
    <3>2. p \in Assets
      BY OnRungFacts
    <3> QED BY <3>1, <3>2, NoneIsNoClaim, SsmCompilerAssumption
  <2>3. walk'.winner.target = p /\ walk'.winner.source = Source
    OBVIOUS
  <2>4. WonBy(walk'.asset, walk'.winner, walk'.parent, walk'.source)
    BY <2>1, <2>2, <2>3 DEF WonBy
  <2> QED BY <2>4, PoolSame DEF walkFrame
<1>4. CASE EndWalk
  <2>1. \A a \in DOMAIN node' :
          /\ node'[a].losers = Pool(a) \ {node'[a].winner}
          /\ WonBy(a, node'[a].winner, node'[a].parent, node'[a].source)
    BY <1>4, EndWalkStep
  <2> QED BY <1>4, <2>1, EndWalkStep, PoolSame
<1> QED BY <1>1, <1>2, <1>3, <1>4 DEF Resolve

LEMMA KeptCutCycle == ASSUME Sound, KeptInv, CutCycle PROVE KeptInv'
<1> PICK c \in cycles : \E b \in c :
       /\ b \in DOMAIN node /\ DOMAIN node' = DOMAIN node
       /\ node'[b] = Downgraded(node[b])
       /\ \A d \in DOMAIN node \ {b} : node'[d] = node[d]
  BY CutStep
<1> PICK a \in c :
       /\ a \in DOMAIN node /\ DOMAIN node' = DOMAIN node
       /\ node'[a] = Downgraded(node[a])
       /\ \A d \in DOMAIN node \ {a} : node'[d] = node[d]
  OBVIOUS
<1>1. node[a] \in Decision /\ a \in input.subjects /\ IsCompileInput(input)
  BY SearchFacts DEF Sound, SsmTypeOK, CutCycle, Late
<1>2. Pool(a) \subseteq Claims
  BY <1>1, PoolType
<1>3. /\ node'[a].losers = node[a].losers \cup ({node[a].winner} \ {None})
      /\ node'[a].winner = None /\ node'[a].parent = None /\ node'[a].source = None
  BY <1>1, DowngradedFields
<1>4. node'[a].losers = Pool(a) \ {node'[a].winner}
  BY <1>2, <1>3, NoneIsNoClaim DEF KeptInv, WonBy
<1>5. \A b \in DOMAIN node' :
        /\ node'[b].losers = Pool(b) \ {node'[b].winner}
        /\ WonBy(b, node'[b].winner, node'[b].parent, node'[b].source)
  BY <1>3, <1>4 DEF KeptInv, WonBy
<1> QED BY <1>5, CutStep, PoolSame DEF KeptInv

LEMMA KeptNext == ASSUME Sound, KeptInv, [SsmNext]_ssmVars PROVE KeptInv'
<1>1. CASE Start
  BY <1>1, StartStep DEF KeptInv
<1>2. CASE Quiet
  BY <1>2, QuietStep, PoolSame DEF KeptInv, Untouched
<1>3. CASE Reset
  BY <1>3, ResetStep DEF KeptInv
<1> QED BY <1>1, <1>2, <1>3, KeptResolve, KeptCutCycle DEF SsmNext, SsmSteps, Quiet

LEMMA AlwaysKept == SsmSpec => []KeptInv
<1>1. SsmInit => KeptInv
  BY EmptyFunction DEF SsmInit, KeptInv
<1>2. Sound /\ KeptInv /\ [SsmNext]_ssmVars => KeptInv'
  BY KeptNext
<1> QED BY <1>1, <1>2, AlwaysSound, PTL DEF SsmSpec

(* resolveSubject and downgrade: of the claims about an asset, the winner  *)
(* and the losers are all there are, before a loop is cut and after.       *)
THEOREM ClaimsAreKept == SsmSpec => []EveryClaimKept
<1>1. KeptInv => EveryClaimKept
  BY DEF KeptInv, WonBy, EveryClaimKept
<1> QED BY <1>1, AlwaysKept, PTL
------------------------------------------------------------------------------
(* A review item that concerns asset a, or one of the assets its claims    *)
(* name.                                                                   *)
Explained(a, losers) ==
  \E item \in reviews :
    \/ item.kind = "ambiguous-parent" /\ item.asset = a
    \/ item.kind = "structural-cycle" /\ a \in item.assets
    \/ item.kind = "missing-boundary" /\ item.asset \in {a} \cup {c.target : c \in losers}
Left(status) == status \in {"unresolved", "provisional-root"}
ExplainedInv ==
  /\ \A a \in DOMAIN node : Left(node[a].status) => Explained(a, node[a].losers)
  /\ walk # None /\ Left(walk.status) =>
       Explained(walk.asset, Pool(walk.asset) \ {walk.winner})

LEMMA ExplainedGrows ==
  ASSUME reviews \subseteq reviews'
  PROVE  \A a, L, M : Explained(a, L) /\ L \subseteq M => Explained(a, M)'
  BY DEF Explained

LEMMA ExplainedUnknown ==
  ASSUME Sound, SpentInv, KeptInv, StopAtUnknown
  PROVE  Explained(walk.asset, Pool(walk.asset) \ {walk.winner})'
<1> PICK p \in Offered, l \in Boundaries :
         /\ None \in {Stated(walk.asset, l), Stated(p, l)}
         /\ Same(walk')
         /\ reviews' = reviews \cup
              {[kind |-> "missing-boundary", asset |-> b, level |-> l] :
                 b \in {c \in {walk.asset, p} : Stated(c, l) = None}}
         /\ UNCHANGED walkFrame /\ OnRung
  BY UnknownStep
<1>1. walk # None /\ walk.winner = None
  BY DEF OnRung, SpentInv, KeptInv, WonBy
<1>2. PICK c \in Pool(walk.asset) : c.target = p
  BY OfferedIsClaimed
<1>3. c # None
  <2>1. walk.asset \in input.subjects /\ IsCompileInput(input)
    BY OnRungFacts
  <2>2. c \in Claims
    BY <2>1, PoolType
  <2> QED BY <2>2, NoneIsNoClaim
<1>4. p \in {d.target : d \in Pool(walk.asset) \ {walk.winner}}
  BY <1>1, <1>2, <1>3
<1>5. PICK b \in {walk.asset, p} :
        [kind |-> "missing-boundary", asset |-> b, level |-> l] \in reviews'
  OBVIOUS
<1>6. \E item \in reviews' : item.kind = "missing-boundary"
        /\ item.asset \in {walk.asset} \cup {d.target : d \in Pool(walk.asset) \ {walk.winner}}
  BY <1>4, <1>5
<1>7. walk'.asset = walk.asset /\ walk'.winner = walk.winner /\ Pool(walk.asset)' = Pool(walk.asset)
  BY PoolSame DEF Same, walkFrame, Pool
<1> QED BY <1>6, <1>7 DEF Explained

LEMMA ExplainedResolve ==
  ASSUME Sound, SpentInv, KeptInv, ExplainedInv, Resolve PROVE ExplainedInv'
<1> USE DEF ExplainedInv
<1>1. CASE StartWalk
  <2>1. ~Left(walk'.status) /\ node' = node /\ reviews' = reviews
    BY <1>1, StartWalkStep DEF Left
  <2> QED BY <2>1, ExplainedGrows DEF Explained
<1>2. CASE SkipRung \/ DemoteParent
  <2>1. /\ UNCHANGED walkFrame /\ Same(walk') /\ walk # None /\ walk'.status = walk.status
        /\ reviews' = reviews
    BY <1>2, SkipStep, DemoteStep DEF OnRung
  <2> QED BY <2>1, PoolSame DEF walkFrame, Same, Explained
<1>3. CASE StopAtTie
  <2>1. /\ UNCHANGED walkFrame /\ Same(walk') /\ reviews \subseteq reviews'
        /\ [kind |-> "ambiguous-parent", asset |-> walk.asset, candidates |-> Offered] \in reviews'
    BY <1>3, TieStep
  <2>2. walk'.asset = walk.asset
    BY <2>1 DEF Same
  <2>3. ASSUME NEW M PROVE Explained(walk.asset, M)'
    <3> DEFINE item == [kind |-> "ambiguous-parent", asset |-> walk.asset, candidates |-> Offered]
    <3>1. item \in reviews' /\ item.kind = "ambiguous-parent" /\ item.asset = walk'.asset
      BY <2>1, <2>2
    <3> QED BY <3>1 DEF Explained
  <2> QED BY <2>1, <2>3, ExplainedGrows DEF walkFrame
<1>4. CASE StopAtUnknown
  <2>1. UNCHANGED walkFrame /\ reviews \subseteq reviews'
    BY <1>4, UnknownStep
  <2>2. Explained(walk.asset, Pool(walk.asset) \ {walk.winner})'
    BY <1>4, ExplainedUnknown
  <2> QED BY <2>1, <2>2, ExplainedGrows DEF walkFrame
<1>5. CASE KeepParent
  <2>1. UNCHANGED walkFrame /\ reviews' = reviews /\ ~Left(walk'.status)
    BY <1>5, KeepStep DEF Left
  <2> QED BY <2>1, ExplainedGrows DEF walkFrame
<1>6. CASE EndWalk
  <2>1. \A a \in DOMAIN node' : Left(node'[a].status) => Explained(a, node'[a].losers)
    BY <1>6, EndWalkStep
  <2>2. \A a, L : Explained(a, L) => Explained(a, L)'
    BY <1>6, EndWalkStep DEF Explained
  <2> QED BY <1>6, <2>1, <2>2, EndWalkStep
<1> QED BY <1>1, <1>2, <1>3, <1>4, <1>5, <1>6 DEF Resolve

LEMMA ExplainedCutCycle == ASSUME Sound, ExplainedInv, CutCycle PROVE ExplainedInv'
<1> PICK c \in cycles : \E b \in c :
       /\ b \in DOMAIN node /\ DOMAIN node' = DOMAIN node
       /\ \A d \in DOMAIN node \ {b} : node'[d] = node[d]
       /\ reviews' = reviews \cup {[kind |-> "structural-cycle", assets |-> c]}
  BY CutStep
<1> PICK a \in c :
       /\ a \in DOMAIN node /\ DOMAIN node' = DOMAIN node
       /\ \A d \in DOMAIN node \ {a} : node'[d] = node[d]
       /\ reviews' = reviews \cup {[kind |-> "structural-cycle", assets |-> c]}
  OBVIOUS
<1>1. ASSUME NEW M PROVE Explained(a, M)'
  <2> DEFINE item == [kind |-> "structural-cycle", assets |-> c]
  <2>1. item \in reviews' /\ item.kind = "structural-cycle" /\ a \in item.assets
    OBVIOUS
  <2> QED BY <2>1 DEF Explained
<1>2. (\A b \in DOMAIN node : Left(node[b].status) => Explained(b, node[b].losers))'
  BY <1>1, ExplainedGrows DEF ExplainedInv
<1>3. walk' = None
  BY CutStep
<1> QED BY <1>2, <1>3 DEF ExplainedInv

LEMMA ExplainedNext ==
  ASSUME Sound, SpentInv, KeptInv, ExplainedInv, [SsmNext]_ssmVars PROVE ExplainedInv'
<1>1. CASE Start
  BY <1>1, StartStep DEF ExplainedInv
<1>2. CASE Quiet
  BY <1>2, QuietStep, QuietReviews, PoolSame DEF ExplainedInv, Explained, Untouched
<1>3. CASE Reset
  BY <1>3, ResetStep DEF ExplainedInv
<1> QED BY <1>1, <1>2, <1>3, ExplainedResolve, ExplainedCutCycle DEF SsmNext, SsmSteps, Quiet

(* Every asset the compile leaves undecided has an item in the review      *)
(* queue that says why.                                                    *)
THEOREM NobodyIsLeftWithoutReason == SsmSpec => []UnresolvedIsExplained
<1>1. SsmInit => ExplainedInv
  BY EmptyFunction DEF SsmInit, ExplainedInv
<1>2. Sound /\ SpentInv /\ KeptInv /\ ExplainedInv /\ [SsmNext]_ssmVars => ExplainedInv'
  BY ExplainedNext
<1>3. ExplainedInv => UnresolvedIsExplained
  BY DEF ExplainedInv, Explained, Left, UnresolvedIsExplained
<1> QED BY <1>1, <1>2, <1>3, AlwaysSound, AlwaysSpent, AlwaysKept, PTL DEF SsmSpec
------------------------------------------------------------------------------
Demoted == UNION {{a} \X Demotions(a) : a \in DOMAIN node}
OfWalk  == {d \in walk.dependencies : d.rule = "boundaryDemotion"}
CountInv ==
  /\ IsFiniteSet(Demoted) /\ demotions = Cardinality(Demoted)
  /\ walk # None => OfWalk = {Demotion(p) : p \in walk.demoted}

(* As many dependencies as parents demoted: two parents never make one.    *)
LEMMA AsManyAsDemoted ==
  ASSUME NEW a, NEW S, IsFiniteSet(S)
  PROVE  LET T == {a} \X {Demotion(p) : p \in S} IN
         IsFiniteSet(T) /\ Cardinality(T) = Cardinality(S)
<1> DEFINE T == {a} \X {Demotion(p) : p \in S}
           f == [p \in S |-> <<a, Demotion(p)>>]
<1>1. f \in Surjection(S, T)
  <2>1. \A p \in S : f[p] \in T
    OBVIOUS
  <2>2. ASSUME NEW t \in T PROVE \E p \in S : f[p] = t
    <3>1. PICK p \in S : t = <<a, Demotion(p)>>
      OBVIOUS
    <3> QED BY <3>1
  <2> HIDE DEF T
  <2> QED BY <2>1, <2>2 DEF Surjection
<1>2. \A p, q \in S : f[p] = f[q] => p = q
  BY DEF Demotion
<1>3. f \in Injection(S, T)
  BY <1>1, <1>2 DEF Injection, Surjection, IsInjective
<1> QED BY <1>1, <1>3, FS_Surjection

LEMMA DemotedSame ==
  ASSUME node' = node PROVE Demoted' = Demoted
  BY DEF Demoted, Demotions

LEMMA CountEndWalk == ASSUME Sound, CountInv, EndWalk PROVE CountInv'
<1> DEFINE T == {walk.asset} \X {Demotion(p) : p \in walk.demoted}
<1>1. walk # None /\ IsFiniteSet(walk.demoted) /\ walk.asset \notin DOMAIN node
  BY EndWalkStep DEF Sound, Shape
<1>2. IsFiniteSet(T) /\ Cardinality(T) = Cardinality(walk.demoted)
  BY <1>1, AsManyAsDemoted
<1>3. ASSUME NEW a, a = walk.asset PROVE Demotions(a)' = {Demotion(p) : p \in walk.demoted}
  BY <1>1, <1>3, EndWalkStep DEF Demotions, CountInv, OfWalk
<1>4. \A a \in DOMAIN node : Demotions(a)' = Demotions(a)
  BY EndWalkStep DEF Demotions
<1>5. Demoted' = Demoted \cup T
  BY <1>3, <1>4, EndWalkStep DEF Demoted
<1>6. Demoted \cap T = {}
  BY <1>1 DEF Demoted
<1>7. /\ IsFiniteSet(Demoted')
      /\ Cardinality(Demoted') = Cardinality(Demoted) + Cardinality(walk.demoted)
  <2>1. /\ IsFiniteSet(Demoted \cup T)
        /\ Cardinality(Demoted \cup T) =
             Cardinality(Demoted) + Cardinality(T) - Cardinality(Demoted \cap T)
    BY <1>2, FS_Union DEF CountInv
  <2>2. Cardinality(Demoted \cap T) = 0
    BY <1>6, FS_EmptySet
  <2>3. Cardinality(Demoted) \in Nat /\ Cardinality(T) \in Nat
    BY <1>2, FS_CardinalityType DEF CountInv
  <2> QED BY <1>2, <1>5, <2>1, <2>2, <2>3
<1> QED BY <1>7, EndWalkStep DEF CountInv

LEMMA CountCutCycle == ASSUME Sound, CountInv, CutCycle PROVE CountInv'
<1>1. \A d \in Decision : Downgraded(d).dependencies = d.dependencies
  BY DowngradedFields
<1>2. \A a \in DOMAIN node : node[a] \in Decision
  BY DEF Sound, SsmTypeOK
<1>3. DOMAIN node' = DOMAIN node /\ \A a \in DOMAIN node : node'[a].dependencies = node[a].dependencies
  BY <1>1, <1>2, CutStep
<1>4. Demoted' = Demoted
  BY <1>3 DEF Demoted, Demotions
<1> QED BY <1>4, CutStep DEF CountInv

LEMMA CountNext == ASSUME Sound, CountInv, [SsmNext]_ssmVars PROVE CountInv'
<1>1. CASE Start
  <2>1. Demoted' = {} /\ Demoted = {} /\ walk' = None
    BY <1>1, StartStep, EmptyFunction DEF Demoted, Start, Sound, Shape, Nothing
  <2> QED BY <1>1, <2>1, StartStep DEF CountInv
<1>2. CASE StartWalk
  <2>1. OfWalk' = {}
    BY <1>2, StartWalkStep DEF OfWalk, Connections
  <2> QED BY <1>2, <2>1, StartWalkStep, DemotedSame DEF CountInv
<1>3. CASE SkipRung \/ StopAtTie \/ StopAtUnknown \/ KeepParent
  <2>1. /\ UNCHANGED walkFrame /\ walk'.demoted = walk.demoted /\ walk # None
        /\ walk'.dependencies = walk.dependencies
    BY <1>3, SkipStep, TieStep, UnknownStep, KeepStep DEF OnRung
  <2> QED BY <2>1, DemotedSame DEF CountInv, OfWalk, walkFrame
<1>4. CASE DemoteParent
  <2> PICK p \in Offered :
         /\ walk'.demoted = walk.demoted \cup {p}
         /\ walk'.dependencies = walk.dependencies \cup {Demotion(p)}
         /\ UNCHANGED walkFrame /\ OnRung
    BY <1>4, DemoteStep
  <2>1. Demotion(p).rule = "boundaryDemotion"
    BY DEF Demotion
  <2>2. OfWalk' = OfWalk \cup {Demotion(p)}
    BY <2>1 DEF OfWalk
  <2>3. {Demotion(q) : q \in walk.demoted \cup {p}} = {Demotion(q) : q \in walk.demoted} \cup {Demotion(p)}
    OBVIOUS
  <2> QED BY <2>2, <2>3, DemotedSame DEF CountInv, walkFrame, OnRung
<1>5. CASE Quiet
  BY <1>5, QuietStep, DemotedSame DEF CountInv, OfWalk, Untouched
<1>6. CASE Reset
  <2>1. Demoted' = {}
    BY <1>6, ResetStep DEF Demoted
  <2> QED BY <1>6, <2>1, ResetStep, FS_EmptySet DEF CountInv
<1> QED BY <1>1, <1>2, <1>3, <1>4, <1>5, <1>6, CountEndWalk, CountCutCycle
        DEF SsmNext, SsmSteps, Resolve, Quiet

(* statistics.demotedParents: the parents turned into dependencies, each   *)
(* once for the asset that lost it.                                        *)
THEOREM DemotionsAgree == SsmSpec => []DemotionsAreCounted
<1>1. SsmInit => CountInv
  <2>1. SsmInit => Demoted = {}
    BY EmptyFunction DEF SsmInit, Demoted
  <2> QED BY <2>1, FS_EmptySet DEF SsmInit, CountInv
<1>2. Sound /\ CountInv /\ [SsmNext]_ssmVars => CountInv'
  BY CountNext
<1>3. CountInv => DemotionsAreCounted
  BY DEF CountInv, Demoted, DemotionsAreCounted
<1> QED BY <1>1, <1>2, <1>3, AlwaysSound, PTL DEF SsmSpec
------------------------------------------------------------------------------
(* The third part: the loops of the chosen parents and the tree that is    *)
(* built when they are cut.  The search walks one chain at a time and      *)
(* forgets it, so what it has found is stated of sets of assets: of every  *)
(* set that holds the parents of all its members, the search has met a     *)
(* loop inside as soon as it has settled one member.                       *)
Held(S) == \E c \in cycles : c \subseteq S
(* What the chain being walked knows of a set S closed under parents: once *)
(* in S it stays there, and it goes on there.                              *)
ChainKnows(S) ==
  /\ \A i, j \in DOMAIN path : i <= j /\ path[i] \in S => path[j] \in S
  /\ \A i \in DOMAIN path : path[i] \in S => current \in S
  /\ settled \cap S # {} => Held(S)
LoopsHeld ==
  /\ phase = "search" => \A S \in SUBSET input.subjects : Closed(S) => ChainKnows(S)
  /\ phase \in {"cut", "arrange", "done"} =>
       \A S \in SUBSET input.subjects : S # {} /\ Closed(S) => Held(S)

(* A step that leaves the parents alone leaves the same sets closed.       *)
LEMMA SameClosed ==
  ASSUME node' = node, NEW S PROVE Closed(S)' <=> Closed(S)
  BY DEF Closed, ParentOf

LEMMA HeldStartSearch == ASSUME Sound, LoopsHeld, StartSearch PROVE LoopsHeld'
<1>1. path' = <<>> /\ settled' = {} /\ phase' = "search"
  BY DEF StartSearch, Sound, Shape, searchVars
<1>2. ASSUME NEW S PROVE ChainKnows(S)'
  BY <1>1 DEF ChainKnows
<1> QED BY <1>1, <1>2 DEF LoopsHeld

LEMMA HeldStartPath == ASSUME Sound, LoopsHeld, StartPath PROVE LoopsHeld'
<1>0. /\ phase = "search" /\ phase' = "search" /\ input' = input /\ node' = node
      /\ settled' = settled /\ cycles' = cycles
  BY DEF StartPath, walkVars
<1> PICK a \in input.subjects : path' = <<a>> /\ current' = ParentOf(a)
  BY DEF StartPath
<1>1. ASSUME NEW S \in SUBSET input.subjects, Closed(S) PROVE ChainKnows(S)'
  <2>1. ChainKnows(S)
    BY <1>0, <1>1 DEF LoopsHeld
  <2>2. DOMAIN path' = {1} /\ path'[1] = a
    OBVIOUS
  <2>3. a \in S => current' \in S
    BY <1>1 DEF Closed
  <2> QED BY <1>0, <2>1, <2>2, <2>3 DEF ChainKnows, Held
<1> QED BY <1>0, <1>1, SameClosed DEF LoopsHeld

LEMMA HeldFollowParent == ASSUME Sound, LoopsHeld, FollowParent PROVE LoopsHeld'
<1>0. /\ phase = "search" /\ phase' = "search" /\ input' = input /\ node' = node
      /\ settled' = settled /\ cycles' = cycles /\ current' = ParentOf(current)
  BY DEF FollowParent, walkVars
<1>1. path \in Seq(input.subjects) /\ current \in input.subjects
  BY SearchFacts DEF FollowParent, Late, Sound, Shape
<1>2. /\ DOMAIN path' = DOMAIN path \cup {Len(path) + 1} /\ path'[Len(path) + 1] = current
      /\ \A i \in DOMAIN path : path'[i] = path[i] /\ i < Len(path) + 1
  BY <1>1 DEF FollowParent
<1>3. ASSUME NEW S \in SUBSET input.subjects, Closed(S) PROVE ChainKnows(S)'
  <2>1. ChainKnows(S)
    BY <1>0, <1>3 DEF LoopsHeld
  <2>2. current \in S => current' \in S
    BY <1>0, <1>3 DEF Closed
  <2>3. \A i, j \in DOMAIN path' : i <= j /\ path'[i] \in S => path'[j] \in S
    BY <1>1, <1>2, <2>1 DEF ChainKnows
  <2>4. \A i \in DOMAIN path' : path'[i] \in S => current' \in S
    BY <1>2, <2>1, <2>2 DEF ChainKnows
  <2> QED BY <1>0, <2>1, <2>3, <2>4 DEF ChainKnows, Held
<1> QED BY <1>0, <1>3, SameClosed DEF LoopsHeld

(* A chain ends outside every parent (then no closed set has a member on   *)
(* it), on an asset settled before, or on itself: the loop it closes lies  *)
(* in every closed set the chain has entered.                              *)
LEMMA HeldEndPath == ASSUME Sound, LoopsHeld, EndPath PROVE LoopsHeld'
<1>0. /\ phase = "search" /\ phase' = "search" /\ input' = input /\ node' = node
      /\ settled' = settled \cup OnPath /\ path' = <<>> /\ cycles \subseteq cycles'
      /\ current = None \/ current \in settled \cup OnPath
  BY DEF EndPath, walkVars
<1>1. path \in Seq(input.subjects) /\ None \notin input.subjects
  BY <1>0, SearchFacts DEF Late
<1>2. ASSUME NEW S \in SUBSET input.subjects, Closed(S), settled' \cap S # {} PROVE Held(S)'
  <2>1. ChainKnows(S)
    BY <1>0, <1>2 DEF LoopsHeld
  <2>2. CASE settled \cap S # {}
    BY <1>0, <2>1, <2>2 DEF ChainKnows, Held
  <2>3. CASE settled \cap S = {}
    <3>1. PICK i \in DOMAIN path : path[i] \in S
      BY <1>0, <1>2, <2>3 DEF OnPath
    <3>2. current \in S /\ current \in OnPath
      BY <1>0, <1>1, <2>1, <2>3, <3>1 DEF ChainKnows
    <3>3. PICK k \in DOMAIN path : path[k] = current
      BY <3>2 DEF OnPath
    <3>4. {path[j] : j \in k..Len(path)} \in cycles'
      BY <3>3 DEF EndPath
    <3>5. {path[j] : j \in k..Len(path)} \subseteq S
      BY <1>1, <2>1, <3>2, <3>3 DEF ChainKnows
    <3> QED BY <3>4, <3>5 DEF Held
  <2> QED BY <2>2, <2>3
<1>3. ASSUME NEW S \in SUBSET input.subjects, Closed(S) PROVE ChainKnows(S)'
  BY <1>0, <1>2, <1>3 DEF ChainKnows
<1> QED BY <1>0, <1>3, SameClosed DEF LoopsHeld

LEMMA HeldEndSearch == ASSUME Sound, LoopsHeld, EndSearch PROVE LoopsHeld'
<1>0. /\ phase = "search" /\ phase' = "cut" /\ input' = input /\ node' = node
      /\ cycles' = cycles /\ settled = input.subjects
  BY DEF EndSearch, walkVars
<1>1. ASSUME NEW S \in SUBSET input.subjects, S # {}, Closed(S) PROVE Held(S)'
  BY <1>0, <1>1 DEF LoopsHeld, ChainKnows, Held
<1> QED BY <1>0, <1>1, SameClosed DEF LoopsHeld

(* The asset that loses its parent is in no closed set any more, so its    *)
(* loop held none of those that are left.                                  *)
LEMMA HeldCutCycle == ASSUME Sound, LoopsHeld, CutCycle PROVE LoopsHeld'
<1>0. phase = "cut" /\ phase' = "cut" /\ phase \in Late /\ input' = input
  BY DEF CutCycle, Late
<1> PICK c \in cycles : \E b \in c :
      node' = [node EXCEPT ![b] = Downgraded(@)] /\ cycles' = cycles \ {c}
  BY DEF CutCycle
<1> PICK a \in c :
      node' = [node EXCEPT ![a] = Downgraded(@)] /\ cycles' = cycles \ {c}
  OBVIOUS
<1>1. a \in DOMAIN node /\ DOMAIN node = input.subjects /\ None \notin input.subjects
  BY <1>0, SearchFacts DEF Sound, Shape
<1>2. node'[a].parent = None
  <2>1. node[a] \in Decision /\ node'[a] = Downgraded(node[a])
    BY <1>1 DEF Sound, SsmTypeOK
  <2> QED BY <2>1, DowngradedFields
<1>3. ParentOf(a)' = None
  BY <1>1, <1>2 DEF ParentOf
<1>4. \A b \in input.subjects \ {a} : ParentOf(b)' = ParentOf(b)
  BY <1>1 DEF ParentOf
<1>5. ASSUME NEW S \in SUBSET input.subjects, S # {}, Closed(S)' PROVE Held(S)'
  <2>1. a \notin S
    BY <1>1, <1>3, <1>5 DEF Closed
  <2>2. Closed(S)
    BY <1>4, <1>5, <2>1 DEF Closed
  <2>3. PICK d \in cycles : d \subseteq S
    BY <1>0, <1>5, <2>2 DEF LoopsHeld, Held
  <2> QED BY <2>1, <2>3 DEF Held
<1> QED BY <1>0, <1>5 DEF LoopsHeld

LEMMA HeldOtherwise ==
  ASSUME LoopsHeld, input' = input, node' = node, cycles' = cycles,
         \/ phase \notin Late /\ phase' \notin Late
         \/ phase = "cut" /\ phase' = "arrange"
         \/ phase \in {"arrange", "done"} /\ phase' \in {"arrange", "done"}
  PROVE  LoopsHeld'
  BY SameClosed DEF LoopsHeld, Held, Late

LEMMA HeldArrange == ASSUME Sound, LoopsHeld, Arrange PROVE LoopsHeld'
  BY HeldOtherwise DEF Arrange, StartTree, ShowAsset, EndTree, walkVars

LEMMA HeldResolve ==
  ASSUME LoopsHeld, Resolve PROVE LoopsHeld'
<1>1. phase = "resolve" /\ phase' = "resolve"
  BY DEF Resolve, StartWalk, SkipRung, StopAtTie, KeepParent, DemoteParent, StopAtUnknown,
         EndWalk, OnRung, walkFrame
<1> QED BY <1>1 DEF LoopsHeld

LEMMA HeldNext == ASSUME Sound, LoopsHeld, [SsmNext]_ssmVars PROVE LoopsHeld'
<1>1. CASE Start
  BY <1>1 DEF Start, LoopsHeld
<1>2. CASE CutCycle
  BY <1>2, HeldCutCycle
<1>3. CASE Search
  BY <1>3, HeldStartSearch, HeldStartPath, HeldFollowParent, HeldEndPath, HeldEndSearch DEF Search
<1>4. CASE UNCHANGED ssmVars
  BY <1>4, SameClosed DEF LoopsHeld, ChainKnows, Held, ssmVars, walkVars, searchVars
<1>5. CASE Reset
  BY <1>5 DEF Reset, LoopsHeld
<1> QED BY <1>1, <1>2, <1>3, <1>4, <1>5, HeldResolve, HeldArrange DEF SsmNext, SsmSteps

LEMMA LoopsAlwaysHeld == SsmSpec => []LoopsHeld
<1>1. SsmInit => LoopsHeld
  BY DEF SsmInit, LoopsHeld
<1>2. Sound /\ LoopsHeld /\ [SsmNext]_ssmVars => LoopsHeld'
  BY HeldNext
<1> QED BY <1>1, <1>2, AlwaysSound, PTL DEF SsmSpec

(* findCycles and the cut: when the tree is built, every chain of parents  *)
(* ends.  One parent a loop was enough.                                    *)
THEOREM LoopsAreGone == SsmSpec => []NoLoopLeft
<1>1. Sound /\ LoopsHeld => NoLoopLeft
  BY DEF Sound, Shape, LoopsHeld, Held, NoLoopLeft
<1> QED BY <1>1, AlwaysSound, LoopsAlwaysHeld, PTL
------------------------------------------------------------------------------
(* While the tree is being built, the assets neither placed nor next to be *)
(* placed have their parents among the assets not placed.                  *)
LeftBehind == input.subjects \ (shown \cup pending)
TreeGrows ==
  /\ phase \in {"arrange", "done"} =>
       \A b \in LeftBehind : ParentOf(b) \in input.subjects \ shown
  /\ phase = "done" => pending = {}

LEMMA GrowsStartTree == ASSUME Sound, StartTree PROVE TreeGrows'
<1>1. /\ phase' = "arrange" /\ shown' = {} /\ input' = input /\ node' = node
      /\ pending' = {a \in DOMAIN node : node[a].parent \notin DOMAIN node}
  BY DEF StartTree, walkVars, Sound, Shape
<1>2. DOMAIN node = input.subjects
  BY SearchFacts DEF StartTree, Late
<1> QED BY <1>1, <1>2 DEF TreeGrows, LeftBehind, ParentOf

LEMMA GrowsShowAsset == ASSUME Sound, TreeGrows, ShowAsset PROVE TreeGrows'
<1>0. phase = "arrange" /\ phase' = "arrange" /\ phase \in Late /\ input' = input /\ node' = node
  BY DEF ShowAsset, walkVars, Late
<1> PICK a \in pending : shown' = shown \cup {a} /\ pending' = (pending \cup Children(a)) \ shown'
  BY DEF ShowAsset
<1>1. DOMAIN node = input.subjects /\ None \notin input.subjects /\ a \in input.subjects
  BY <1>0, SearchFacts DEF Sound, Shape
<1>2. ASSUME NEW b \in LeftBehind' PROVE ParentOf(b)' \in input.subjects \ shown'
  <2>1. b \in LeftBehind /\ b \in input.subjects /\ b \notin Children(a)
    BY <1>0, <1>2 DEF LeftBehind
  <2>2. ParentOf(b) \in input.subjects \ shown
    BY <1>0, <2>1 DEF TreeGrows
  <2>3. ParentOf(b) # a
    BY <1>1, <2>1 DEF ParentOf, Children
  <2>4. ParentOf(b)' = ParentOf(b)
    BY <1>0 DEF ParentOf
  <2> QED BY <2>2, <2>3, <2>4
<1> QED BY <1>0, <1>2 DEF TreeGrows

LEMMA GrowsNext == ASSUME Sound, TreeGrows, [SsmNext]_ssmVars PROVE TreeGrows'
<1>1. CASE StartTree
  BY <1>1, GrowsStartTree
<1>2. CASE ShowAsset
  BY <1>2, GrowsShowAsset
<1>3. CASE EndTree \/ UNCHANGED ssmVars
  BY <1>3 DEF EndTree, TreeGrows, LeftBehind, ParentOf, ssmVars, walkVars, treeVars
<1>4. CASE Start \/ Resolve \/ Search \/ CutCycle \/ Reset
  <2>1. phase' \in {"idle", "resolve", "search", "cut"}
    BY <1>4 DEF Reset, Start, Resolve, StartWalk, SkipRung, StopAtTie, KeepParent, DemoteParent,
       StopAtUnknown, EndWalk, OnRung, walkFrame, Search, StartSearch, StartPath, FollowParent,
       EndPath, EndSearch, CutCycle
  <2> QED BY <2>1 DEF TreeGrows
<1> QED BY <1>1, <1>2, <1>3, <1>4 DEF SsmNext, SsmSteps, Arrange

LEMMA TreeAlwaysGrows == SsmSpec => []TreeGrows
<1>1. SsmInit => TreeGrows
  BY DEF SsmInit, TreeGrows
<1>2. Sound /\ TreeGrows /\ [SsmNext]_ssmVars => TreeGrows'
  BY GrowsNext
<1> QED BY <1>1, <1>2, AlwaysSound, PTL DEF SsmSpec

(* hierarchyTree: no asset of the compile is missing from the tree.  The   *)
(* ones left behind would be a set closed under parents, which no loop cut *)
(* has left.                                                               *)
THEOREM TreeIsComplete == SsmSpec => []EveryAssetShown
<1>1. ASSUME Sound, NoLoopLeft, TreeGrows, phase = "done" PROVE shown = input.subjects
  <2>1. Closed(input.subjects \ shown)
    BY <1>1 DEF TreeGrows, LeftBehind, Closed
  <2>2. input.subjects \ shown = {}
    BY <1>1, <2>1 DEF NoLoopLeft
  <2>3. shown \subseteq input.subjects
    BY <1>1 DEF Sound, Shape
  <2> QED BY <2>2, <2>3
<1>2. Sound /\ NoLoopLeft /\ TreeGrows => EveryAssetShown
  BY <1>1 DEF EveryAssetShown
<1> QED BY <1>2, AlwaysSound, LoopsAreGone, TreeAlwaysGrows, PTL
------------------------------------------------------------------------------
(* A set of natural numbers has a least one, so a rung has an index.       *)
LEMMA LeastOf ==
  ASSUME NEW R, IsWellFoundedOn(R, Nat), \A x, y \in Nat : y < x => <<y, x>> \in R,
         NEW T, T \subseteq Nat, T # {}
  PROVE  \E x \in T : \A y \in T : x <= y
<1>1. PICK x \in T : \A y \in T : ~ (<<y, x>> \in R)
  BY WFMin
<1>2. ASSUME NEW y \in T PROVE x <= y
  <2>1. x \in Nat /\ y \in Nat /\ <<y, x>> \notin R
    BY <1>1
  <2>2. ~(y < x)
    BY <2>1, Zenon
  <2> QED BY <2>1, <2>2
<1> QED BY <1>2

LEMMA LeastNatural ==
  ASSUME NEW T, T \subseteq Nat, T # {} PROVE \E x \in T : \A y \in T : x <= y
<1>1. \A x, y \in Nat : y < x => <<y, x>> \in OpToRel(<, Nat)
  BY DEF OpToRel
<1>2. \E R : IsWellFoundedOn(R, Nat) /\ (\A x, y \in Nat : y < x => <<y, x>> \in R)
  BY <1>1, NatLessThanWellFounded
<1> QED BY <1>2, LeastOf

(* A finite set of integers has a least one: of those that had none, one   *)
(* would be the smallest.                                                  *)
LEMMA LeastInteger ==
  ASSUME NEW T, T \subseteq Int, IsFiniteSet(T), T # {} PROVE \E x \in T : \A y \in T : x <= y
<1> DEFINE HasLeast(S) == \E x \in S : \A y \in S : x <= y
           Sizes == {Cardinality(S) : S \in {R \in SUBSET T : R # {} /\ ~HasLeast(R)}}
<1>1. SUFFICES ASSUME ~HasLeast(T) PROVE FALSE
  OBVIOUS
<1>2. \A S \in SUBSET T : IsFiniteSet(S) /\ Cardinality(S) \in Nat
  BY FS_Subset, FS_CardinalityType
<1>3. Sizes \subseteq Nat /\ Sizes # {}
  BY <1>1, <1>2
<1>4. PICK k \in Sizes : \A n \in Sizes : k <= n
  BY <1>3, LeastNatural
<1>5. PICK S \in SUBSET T : S # {} /\ ~HasLeast(S) /\ Cardinality(S) = k
  OBVIOUS
<1>6. PICK x \in S : TRUE
  BY <1>5
<1>7. Cardinality(S \ {x}) = k - 1
  BY <1>2, <1>5, FS_RemoveElement
<1>8. HasLeast(S \ {x}) \/ S \ {x} = {}
  <2>1. ~ (k <= k - 1)
    BY <1>3
  <2> QED BY <1>4, <1>7, <2>1
<1>9. CASE S \ {x} = {}
  BY <1>5, <1>6, <1>9
<1>10. CASE HasLeast(S \ {x})
  <2>1. PICK y \in S \ {x} : \A z \in S \ {x} : y <= z
    BY <1>10
  <2>2. x \in Int /\ y \in Int /\ S \subseteq Int
    OBVIOUS
  <2>3. CASE x <= y
    <3>1. \A z \in S : x <= z
      BY <2>1, <2>2, <2>3
    <3> QED BY <3>1, <1>5
  <2>4. CASE y <= x
    <3>1. \A z \in S : y <= z
      BY <2>1, <2>2, <2>4
    <3> QED BY <3>1, <1>5
  <2> QED BY <2>2, <2>3, <2>4
<1> QED BY <1>8, <1>9, <1>10

LEMMA GreatestInteger ==
  ASSUME NEW T, T \subseteq Int, IsFiniteSet(T), T # {} PROVE \E x \in T : \A y \in T : x >= y
<1> DEFINE S == {-x : x \in T}
           f == [x \in T |-> -x]
<1>1. f \in Surjection(T, S)
  BY DEF Surjection
<1>2. IsFiniteSet(S)
  BY <1>1, FS_Surjection
<1>3. S \subseteq Int /\ S # {}
  <2>1. \A x \in T : -x \in Int
    OBVIOUS
  <2>2. PICK x : x \in T
    OBVIOUS
  <2>3. -x \in S
    BY <2>2
  <2> QED BY <2>1, <2>3
<1>4. PICK x \in S : \A y \in S : x <= y
  <2> HIDE DEF S
  <2> QED BY <1>2, <1>3, LeastInteger
<1>5. -x \in T /\ \A y \in T : -x >= y
  <2>0. x \in {-y : y \in T}
    BY <1>4
  <2>1. PICK z \in T : x = -z
    BY <2>0
  <2>2. \A y \in T : x <= -y
    BY <1>4
  <2>3. -x = z
    BY <2>1
  <2>4. \A y \in T : z >= y
    BY <2>1, <2>2
  <2> QED BY <2>3, <2>4
<1> QED BY <1>5

LEMMA TierIndexType ==
  ASSUME IsCompileInput(input), NEW s PROVE TierIndex(s) \in Nat
<1> DEFINE T == {i \in DOMAIN input.ladder : input.ladder[i] = s}
<1>1. Len(input.ladder) \in Nat /\ DOMAIN input.ladder \subseteq Nat
  BY DEF IsCompileInput
<1>2. CASE s \in {input.ladder[i] : i \in DOMAIN input.ladder}
  <2>1. T \subseteq Nat /\ T # {}
    BY <1>1, <1>2
  <2>2. PICK x \in T : \A y \in T : x <= y
    BY <2>1, LeastNatural
  <2>3. \E i \in DOMAIN input.ladder :
          input.ladder[i] = s /\ \A j \in DOMAIN input.ladder : input.ladder[j] = s => i <= j
    BY <2>2
  <2> QED BY <1>1, <1>2, <2>3 DEF TierIndex
<1> QED BY <1>1, <1>2 DEF TierIndex

(* The chain of the search in full: it never meets itself or an older one  *)
(* before it ends, and each asset of it is followed by its parent.         *)
ChainInv ==
  phase = "search" =>
    /\ \A i, j \in DOMAIN path : path[i] = path[j] => i = j
    /\ OnPath \cap settled = {}
    /\ \A i \in DOMAIN path :
         ParentOf(path[i]) = IF i = Len(path) THEN current ELSE path[i + 1]
(* The loops found: made of parents, settled, apart.                       *)
RingsInv ==
  /\ \A c \in cycles : c \subseteq settled /\ \A b \in c : node[b].parent \in c
  /\ \A c, d \in cycles : c # d => c \cap d = {}

LEMMA ChainStartPath == ASSUME Sound, ChainInv, StartPath PROVE ChainInv'
<1> PICK a \in input.subjects :
      IsFirst(a, input.subjects \ settled) /\ path' = <<a>> /\ current' = ParentOf(a)
  BY DEF StartPath
<1>1. DOMAIN path' = {1} /\ path'[1] = a /\ Len(path') = 1 /\ a \notin settled
  BY DEF IsFirst
<1>2. settled' = settled /\ node' = node
  BY DEF StartPath, walkVars
<1> QED BY <1>1, <1>2 DEF ChainInv, OnPath, ParentOf

LEMMA ChainFollowParent == ASSUME Sound, ChainInv, FollowParent PROVE ChainInv'
<1>1. /\ phase = "search" /\ settled' = settled /\ node' = node /\ current' = ParentOf(current)
      /\ current \notin settled /\ current \notin OnPath
  BY DEF FollowParent, walkVars
<1>2. path \in Seq(input.subjects) /\ current \in input.subjects
  BY SearchFacts DEF FollowParent, Late, Sound, Shape
<1>3. /\ DOMAIN path' = DOMAIN path \cup {Len(path) + 1} /\ path'[Len(path) + 1] = current
      /\ \A i \in DOMAIN path : path'[i] = path[i] /\ i \in 1..Len(path)
      /\ Len(path') = Len(path) + 1 /\ Len(path) \in Nat /\ DOMAIN path = 1..Len(path)
  BY <1>2 DEF FollowParent
<1>4. \A i, j \in DOMAIN path' : path'[i] = path'[j] => i = j
  BY <1>1, <1>3 DEF ChainInv, OnPath
<1>5. OnPath' \cap settled' = {}
  BY <1>1, <1>3 DEF ChainInv, OnPath
<1>6. \A i \in DOMAIN path' :
        ParentOf(path'[i]) = IF i = Len(path') THEN current' ELSE path'[i + 1]
  <2>1. \A i \in DOMAIN path :
          ParentOf(path[i]) = IF i = Len(path) THEN current ELSE path[i + 1]
    BY <1>1 DEF ChainInv
  <2>2. \A i \in DOMAIN path : ParentOf(path'[i]) = path'[i + 1] /\ i # Len(path')
    BY <1>3, <2>1
  <2> QED BY <1>1, <1>3, <2>2
<1>7. \A b : ParentOf(b)' = ParentOf(b)
  BY <1>1 DEF ParentOf
<1> QED BY <1>4, <1>5, <1>6, <1>7 DEF ChainInv

LEMMA ChainNext == ASSUME Sound, ChainInv, [SsmNext]_ssmVars PROVE ChainInv'
<1>1. CASE StartPath \/ FollowParent
  BY <1>1, ChainStartPath, ChainFollowParent
<1>2. CASE StartSearch \/ EndPath
  <2>1. path' = <<>>
    BY <1>2 DEF StartSearch, EndPath, searchVars, Sound, Shape
  <2> QED BY <2>1 DEF ChainInv, OnPath
<1>3. CASE UNCHANGED ssmVars
  BY <1>3 DEF ChainInv, OnPath, ParentOf, ssmVars, searchVars, walkVars
<1>4. CASE Start \/ Resolve \/ EndSearch \/ CutCycle \/ Arrange \/ Reset
  <2>1. phase' # "search"
    BY <1>4 DEF Reset, Start, Resolve, StartWalk, SkipRung, StopAtTie, KeepParent, DemoteParent,
       StopAtUnknown, EndWalk, OnRung, walkFrame, EndSearch, CutCycle, Arrange, StartTree,
       ShowAsset, EndTree
  <2> QED BY <2>1 DEF ChainInv
<1> QED BY <1>1, <1>2, <1>3, <1>4 DEF SsmNext, SsmSteps, Search

LEMMA RingsEndPath == ASSUME Sound, ChainInv, RingsInv, EndPath PROVE RingsInv'
<1>0. /\ phase = "search" /\ node' = node /\ settled' = settled \cup OnPath
      /\ cycles' = cycles \cup
           {{path[j] : j \in i..Len(path)} : i \in {k \in DOMAIN path : path[k] = current}}
  BY DEF EndPath, walkVars
<1>1. path \in Seq(input.subjects) /\ None \notin input.subjects /\ DOMAIN node = input.subjects
  BY <1>0, SearchFacts DEF Late
<1> DEFINE Loop(k) == {path[j] : j \in k..Len(path)}
<1>2. ASSUME NEW k \in DOMAIN path, path[k] = current
      PROVE  /\ Loop(k) \subseteq OnPath
             /\ \A b \in Loop(k) : node[b].parent \in Loop(k)
  <2>1. k \in 1..Len(path) /\ Len(path) \in Nat /\ DOMAIN path = 1..Len(path)
    BY <1>1
  <2>2. Loop(k) \subseteq OnPath
    BY <2>1 DEF OnPath
  <2>3. ASSUME NEW j \in k..Len(path) PROVE node[path[j]].parent \in Loop(k)
    <3>1. j \in DOMAIN path /\ path[j] \in input.subjects
      BY <1>1, <2>1
    <3>2. ParentOf(path[j]) = IF j = Len(path) THEN current ELSE path[j + 1]
      BY <1>0, <3>1 DEF ChainInv
    <3>3. ParentOf(path[j]) \in Loop(k)
      <4>1. CASE j = Len(path)
        BY <1>2, <2>1, <3>2, <4>1
      <4>2. CASE j # Len(path)
        <5> DEFINE n == Len(path)
        <5>1. n \in Nat /\ k \in 1..n /\ j \in k..n /\ j # n
          BY <2>1, <4>2
        <5> HIDE DEF n
        <5>2. j + 1 \in k..n
          BY <5>1
        <5> QED BY <3>2, <4>2, <5>2 DEF n
      <4> QED BY <4>1, <4>2
    <3>4. ParentOf(path[j]) # None
      BY <1>0, <1>1, <2>2, <3>3, SearchFacts DEF Late
    <3> QED BY <3>3, <3>4 DEF ParentOf
  <2> QED BY <2>2, <2>3
<1>3. \A i, k \in DOMAIN path : path[i] = current /\ path[k] = current => i = k
  BY <1>0 DEF ChainInv
<1>4. \A c \in cycles' : c \in cycles \/ \E k \in DOMAIN path : path[k] = current /\ c = Loop(k)
  BY <1>0
<1>5. \A c \in cycles' : c \subseteq settled' /\ \A b \in c : node[b].parent \in c
  BY <1>0, <1>2, <1>4 DEF RingsInv
<1>6. \A c \in cycles, k \in DOMAIN path : path[k] = current => c \cap Loop(k) = {}
  BY <1>0, <1>2 DEF RingsInv, ChainInv
<1> HIDE DEF Loop
<1>7. \A c, d \in cycles' : c # d => c \cap d = {}
  BY <1>3, <1>4, <1>6 DEF RingsInv
<1> QED BY <1>0, <1>5, <1>7 DEF RingsInv

LEMMA RingsCutCycle == ASSUME Sound, RingsInv, CutCycle PROVE RingsInv'
<1> PICK c \in cycles : \E b \in c :
      node' = [node EXCEPT ![b] = Downgraded(@)] /\ cycles' = cycles \ {c}
  BY DEF CutCycle
<1> PICK a \in c :
      node' = [node EXCEPT ![a] = Downgraded(@)] /\ cycles' = cycles \ {c}
  OBVIOUS
<1>1. settled' = settled
  BY DEF CutCycle, searchVars
<1>2. \A d \in cycles' : d \in cycles /\ d # c /\ a \notin d
  BY DEF RingsInv
<1>3. \A d \in cycles' : \A b \in d : node'[b] = node[b]
  <2>1. \A d \in cycles : d \subseteq DOMAIN node
    BY SearchFacts DEF CutCycle, Late, Sound, Shape
  <2> QED BY <1>2, <2>1
<1> QED BY <1>1, <1>2, <1>3 DEF RingsInv

LEMMA RingsNext == ASSUME Sound, ChainInv, RingsInv, [SsmNext]_ssmVars PROVE RingsInv'
<1>1. CASE Start \/ Resolve
  <2>1. cycles = {} /\ cycles' = cycles
    BY <1>1 DEF Start, Resolve, StartWalk, SkipRung, StopAtTie, KeepParent, DemoteParent,
       StopAtUnknown, EndWalk, OnRung, walkFrame, Sound, Shape
  <2> QED BY <2>1 DEF RingsInv
<1>2. CASE StartSearch \/ StartPath \/ FollowParent \/ EndSearch \/ Arrange \/ UNCHANGED ssmVars
  <2>1. node' = node /\ cycles' = cycles /\ settled' = settled
    BY <1>2 DEF StartSearch, StartPath, FollowParent, EndSearch, Arrange, StartTree, ShowAsset,
       EndTree, ssmVars, walkVars, searchVars
  <2> QED BY <2>1 DEF RingsInv
<1>3. CASE Reset
  BY <1>3 DEF Reset, RingsInv
<1> QED BY <1>1, <1>2, <1>3, RingsEndPath, RingsCutCycle DEF SsmNext, SsmSteps, Search

LEMMA AlwaysRings == SsmSpec => [](ChainInv /\ RingsInv)
<1>1. SsmInit => ChainInv /\ RingsInv
  BY DEF SsmInit, ChainInv, RingsInv
<1>2. Sound /\ ChainInv /\ RingsInv /\ [SsmNext]_ssmVars => (ChainInv /\ RingsInv)'
  BY ChainNext, RingsNext
<1> QED BY <1>1, <1>2, AlwaysSound, PTL DEF SsmSpec
------------------------------------------------------------------------------
(* A loop that has been cut, and is apart from those still to be.          *)
CutOnce(L) ==
  \E a \in L :
    /\ node[a].parent = None
    /\ \A b \in L \ {a} :
         /\ node[b].parent \in L
         /\ \E c \in node[a].losers :
              c.target \in L /\ TierIndex(c.source) >= TierIndex(node[b].source)
CutInv ==
  \A item \in reviews : item.kind = "structural-cycle" =>
    /\ phase \in {"cut", "arrange", "done"}
    /\ item.assets \subseteq DOMAIN node
    /\ \A c \in cycles : c \cap item.assets = {}
    /\ CutOnce(item.assets)

LEMMA RankOf ==
  ASSUME Sound, KeptInv, phase = "cut", NEW a \in DOMAIN node, node[a].parent # None
  PROVE  /\ Rank(a) = TierIndex(node[a].source) /\ Rank(a) \in Nat
         /\ node[a].winner # None /\ node[a].winner.target = node[a].parent
         /\ node[a].winner.source = node[a].source
<1>1. a \in input.subjects /\ IsCompileInput(input)
  BY SearchFacts DEF Late
<1>2. /\ node[a].winner # None /\ node[a].winner \in Pool(a)
      /\ node[a].winner.target = node[a].parent /\ node[a].winner.source = node[a].source
  BY DEF KeptInv, WonBy
<1>3. node[a].source \in LadderSources
  BY <1>1, <1>2, PoolType DEF Claims
<1>4. node[a].source # None
  BY <1>3, NoneIsNoClaim
<1> QED BY <1>1, <1>2, <1>4, TierIndexType DEF Rank

LEMMA CutOnceNow ==
  ASSUME Sound, KeptInv, RingsInv, CutCycle
  PROVE  \E c \in cycles :
           /\ cycles' = cycles \ {c} /\ CutOnce(c)'
           /\ \A b \in DOMAIN node \ c : node'[b] = node[b]
           /\ reviews' = reviews \cup {[kind |-> "structural-cycle", assets |-> c]}
<1>0. phase = "cut" /\ input' = input
  BY DEF CutCycle
<1> PICK c \in cycles : \E b \in c :
       /\ IsWeakest(b, c)
       /\ node' = [node EXCEPT ![b] = Downgraded(@)]
       /\ cycles' = cycles \ {c}
       /\ reviews' = reviews \cup {[kind |-> "structural-cycle", assets |-> c]}
  BY DEF CutCycle
<1> PICK a \in c :
       /\ IsWeakest(a, c)
       /\ node' = [node EXCEPT ![a] = Downgraded(@)]
       /\ cycles' = cycles \ {c}
       /\ reviews' = reviews \cup {[kind |-> "structural-cycle", assets |-> c]}
  OBVIOUS
<1>1. c \subseteq DOMAIN node /\ None \notin c
  BY <1>0, SearchFacts DEF Late, Sound, Shape
<1>2. \A b \in c : node[b].parent \in c /\ node[b].parent # None
  BY <1>1 DEF RingsInv
<1>3. node[a] \in Decision
  BY <1>1 DEF Sound, SsmTypeOK
<1>4. node'[a] = Downgraded(node[a]) /\ \A b \in DOMAIN node \ {a} : node'[b] = node[b]
  BY <1>1
<1>5. node'[a].parent = None /\ node[a].winner \in node'[a].losers
  BY <1>0, <1>1, <1>2, <1>3, <1>4, DowngradedFields, RankOf
<1>6. ASSUME NEW b \in c \ {a}
      PROVE  /\ node'[b].parent \in c
             /\ node[a].winner.target \in c
             /\ TierIndex(node[a].winner.source) >= TierIndex(node'[b].source)
  <2>1. node'[b] = node[b] /\ b \in DOMAIN node /\ a \in DOMAIN node
    BY <1>1, <1>4
  <2>2. Rank(b) <= Rank(a)
    <3>1. Rank(b) \in Nat /\ Rank(a) \in Nat
      BY <1>0, <1>2, <2>1, RankOf
    <3> QED BY <3>1 DEF IsWeakest
  <2>3. TierIndex(node[b].source) <= TierIndex(node[a].winner.source)
    BY <1>0, <1>2, <2>1, <2>2, RankOf
  <2>4. TierIndex(node[b].source) \in Nat /\ TierIndex(node[a].winner.source) \in Nat
    BY <1>0, <1>2, <2>1, RankOf
  <2>5. node[a].winner.target \in c
    BY <1>0, <1>2, <2>1, RankOf
  <2> QED BY <1>2, <2>1, <2>3, <2>4, <2>5
<1>7. \A s : TierIndex(s)' = TierIndex(s)
  BY <1>0 DEF TierIndex
<1>8. CutOnce(c)'
  BY <1>5, <1>6, <1>7 DEF CutOnce
<1> QED BY <1>4, <1>8

(* A loop stays cut while its assets keep what they have.                  *)
LEMMA StaysCut ==
  ASSUME input' = input, NEW L, CutOnce(L), \A b \in L : node'[b] = node[b]
  PROVE  CutOnce(L)'
<1>1. \A s : TierIndex(s)' = TierIndex(s)
  BY DEF TierIndex
<1> PICK a \in L :
      /\ node[a].parent = None
      /\ \A b \in L \ {a} :
           /\ node[b].parent \in L
           /\ \E c \in node[a].losers :
                c.target \in L /\ TierIndex(c.source) >= TierIndex(node[b].source)
  BY DEF CutOnce
<1>2. /\ node'[a].parent = None
      /\ \A b \in L \ {a} :
           /\ node'[b].parent \in L
           /\ \E c \in node'[a].losers :
                c.target \in L /\ TierIndex(c.source)' >= TierIndex(node'[b].source)
  BY <1>1
<1> QED BY <1>1, <1>2 DEF CutOnce

LEMMA CutCutCycle == ASSUME Sound, KeptInv, RingsInv, CutInv, CutCycle PROVE CutInv'
<1> PICK c \in cycles :
      /\ cycles' = cycles \ {c} /\ CutOnce(c)'
      /\ \A b \in DOMAIN node \ c : node'[b] = node[b]
      /\ reviews' = reviews \cup {[kind |-> "structural-cycle", assets |-> c]}
  BY CutOnceNow
<1>1. phase' = "cut" /\ input' = input /\ DOMAIN node' = DOMAIN node
  BY CutStep DEF CutCycle
<1>2. c \subseteq DOMAIN node
  BY SearchFacts DEF CutCycle, Late, Sound, Shape
<1>3. \A d \in cycles' : d \cap c = {}
  BY DEF RingsInv
<1>4. ASSUME NEW item \in reviews, item.kind = "structural-cycle"
      PROVE  /\ item.assets \subseteq DOMAIN node' /\ CutOnce(item.assets)'
             /\ \A d \in cycles' : d \cap item.assets = {}
  <2>1. /\ item.assets \subseteq DOMAIN node /\ CutOnce(item.assets)
        /\ \A d \in cycles : d \cap item.assets = {}
    BY <1>4 DEF CutInv
  <2>2. \A b \in item.assets : node'[b] = node[b]
    BY <2>1
  <2> DEFINE L == item.assets
  <2> HIDE DEF L
  <2>3. CutOnce(L)'
    BY <1>1, <2>1, <2>2, StaysCut DEF L
  <2> QED BY <1>1, <2>1, <2>3 DEF L
<1> QED BY <1>1, <1>2, <1>3, <1>4 DEF CutInv

LEMMA CutResolve == ASSUME Sound, CutInv, Resolve PROVE CutInv'
<1>1. phase = "resolve"
  BY DEF Resolve, StartWalk, SkipRung, StopAtTie, KeepParent, DemoteParent, StopAtUnknown,
     EndWalk, OnRung
<1>2. \A item \in reviews : item.kind # "structural-cycle"
  BY <1>1 DEF CutInv
<1>3. CASE StartWalk \/ SkipRung \/ KeepParent \/ DemoteParent \/ EndWalk
  BY <1>2, <1>3 DEF StartWalk, SkipRung, KeepParent, DemoteParent, EndWalk, CutInv
<1>4. CASE StopAtTie
  BY <1>2, <1>4 DEF StopAtTie, CutInv
<1>5. CASE StopAtUnknown
  BY <1>2, <1>5 DEF StopAtUnknown, CutInv
<1> QED BY <1>3, <1>4, <1>5 DEF Resolve

LEMMA CutOtherwise ==
  ASSUME Sound, CutInv, Start \/ Quiet PROVE CutInv'
<1>1. reviews' = reviews
  BY QuietReviews DEF Start
<1>2. CASE phase \notin {"cut", "arrange", "done"}
  BY <1>1, <1>2 DEF CutInv
<1>3. CASE phase \in {"cut", "arrange", "done"}
  <2>1. /\ phase' \in {"cut", "arrange", "done"} /\ input' = input /\ node' = node
        /\ cycles' = cycles
    BY <1>3 DEF Start, Quiet, Search, StartSearch, StartPath, FollowParent, EndPath, EndSearch,
       Arrange, StartTree, ShowAsset, EndTree, ssmVars, walkVars
  <2>2. \A L : CutOnce(L) => CutOnce(L)'
    BY <2>1, StaysCut
  <2> QED BY <1>1, <2>1, <2>2 DEF CutInv
<1> QED BY <1>2, <1>3

LEMMA CutNext ==
  ASSUME Sound, KeptInv, RingsInv, CutInv, [SsmNext]_ssmVars PROVE CutInv'
<1>1. CASE Reset
  BY <1>1, ResetStep DEF CutInv
<1> QED BY <1>1, CutResolve, CutCutCycle, CutOtherwise DEF SsmNext, SsmSteps, Quiet

LEMMA AlwaysCut == SsmSpec => []CutInv
<1>1. SsmInit => CutInv
  BY DEF SsmInit, CutInv
<1>2. Sound /\ KeptInv /\ (ChainInv /\ RingsInv) /\ CutInv /\ [SsmNext]_ssmVars => CutInv'
  BY CutNext
<1> QED BY <1>1, <1>2, AlwaysSound, AlwaysKept, AlwaysRings, PTL DEF SsmSpec

(* downgrade: each loop reported has lost the one parent its weakest rung  *)
(* gave, whatever is cut after it.                                         *)
THEOREM EachLoopIsCutOnce == SsmSpec => []OneCutPerLoop
<1>1. CutInv => OneCutPerLoop
  BY DEF CutInv, CutOnce, OneCutPerLoop
<1> QED BY <1>1, AlwaysCut, PTL

(* findCycles, downgrade and the tree: cutting each loop found once, at    *)
(* its weakest rung, leaves none.                                          *)
THEOREM LoopsAreBroken == SsmSpec => []LoopsAreCut
BY LoopsAreGone, EachLoopIsCutOnce, PTL DEF LoopsAreCut
------------------------------------------------------------------------------
(* What is stated apart from claims is heard: the dependencies an asset is *)
(* given stay with it, and one that is to be a root has no parent.         *)
Heard(a, parent, dependencies) ==
  Connections(a) \subseteq dependencies /\ (a \in input.makeRoot => parent = None)
HeardInv ==
  /\ \A a \in DOMAIN node : Heard(a, node[a].parent, node[a].dependencies)
  /\ walk # None => /\ Heard(walk.asset, walk.parent, walk.dependencies)
                    /\ walk.asset \in input.makeRoot => ~OnRung

LEMMA HeardSame ==
  ASSUME input' = input PROVE \A a, p, d : Heard(a, p, d)' <=> Heard(a, p, d)
  BY DEF Heard, Connections

LEMMA RootsWalkNoRung ==
  ASSUME Sound, StartWalk PROVE walk'.asset \in input.makeRoot => walk'.rung > Len(input.ladder)
<1>1. PICK a \in input.subjects : walk' = NewWalk(a)
  BY DEF StartWalk
<1>2. Len(input.ladder) \in Nat
  BY StartWalkStep
<1> QED BY <1>1, <1>2 DEF NewWalk

LEMMA HeardResolve == ASSUME Sound, HeardInv, Resolve PROVE HeardInv'
<1>1. CASE StartWalk
  <2>1. /\ input' = input /\ node' = node /\ walk'.parent = None /\ walk'.dependencies = Connections(walk'.asset)
        /\ Len(input.ladder) \in Nat /\ walk'.rung \in {1, Len(input.ladder) + 1}
    BY <1>1, StartWalkStep
  <2>2. walk'.asset \in input'.makeRoot => ~OnRung'
    BY <1>1, <2>1, RootsWalkNoRung DEF OnRung
  <2>3. Heard(walk'.asset, walk'.parent, walk'.dependencies)
    BY <2>1 DEF Heard
  <2> QED BY <2>1, <2>2, <2>3, HeardSame DEF HeardInv
<1>2. CASE SkipRung \/ StopAtTie \/ KeepParent \/ DemoteParent \/ StopAtUnknown
  <2>1. /\ UNCHANGED walkFrame /\ OnRung /\ walk # None /\ walk'.asset = walk.asset
        /\ walk.dependencies \subseteq walk'.dependencies
    BY <1>2, SkipStep, TieStep, KeepStep, DemoteStep, UnknownStep DEF OnRung, Same
  <2>2. walk.asset \notin input.makeRoot
    BY <2>1 DEF HeardInv
  <2>3. Heard(walk'.asset, walk'.parent, walk'.dependencies)
    BY <2>1, <2>2 DEF HeardInv, Heard
  <2> QED BY <2>1, <2>2, <2>3, HeardSame DEF HeardInv, walkFrame
<1>3. CASE EndWalk
  <2>1. \A a \in DOMAIN node' : Heard(a, node'[a].parent, node'[a].dependencies)
    BY <1>3, EndWalkStep DEF HeardInv
  <2> QED BY <1>3, <2>1, EndWalkStep, HeardSame DEF HeardInv
<1> QED BY <1>1, <1>2, <1>3 DEF Resolve

LEMMA HeardCutCycle == ASSUME Sound, HeardInv, CutCycle PROVE HeardInv'
<1>1. /\ walk' = None /\ input' = input /\ DOMAIN node' = DOMAIN node
      /\ \E a \in DOMAIN node : /\ node'[a] = Downgraded(node[a])
                                /\ \A b \in DOMAIN node \ {a} : node'[b] = node[b]
  BY CutStep
<1>2. PICK a \in DOMAIN node : /\ node'[a] = Downgraded(node[a])
                               /\ \A b \in DOMAIN node \ {a} : node'[b] = node[b]
  BY <1>1
<1>3. node'[a].parent = None /\ node'[a].dependencies = node[a].dependencies
  BY <1>2, DowngradedFields DEF Sound, SsmTypeOK
<1>4. \A b \in DOMAIN node' : Heard(b, node'[b].parent, node'[b].dependencies)
  BY <1>1, <1>2, <1>3 DEF HeardInv, Heard
<1> QED BY <1>1, <1>4, HeardSame DEF HeardInv

LEMMA HeardNext == ASSUME Sound, HeardInv, [SsmNext]_ssmVars PROVE HeardInv'
<1>1. CASE Start
  BY <1>1, StartStep DEF HeardInv
<1>2. CASE Quiet
  <2>1. walk # None => phase = "resolve"
    BY DEF Sound, Shape
  <2>2. Untouched /\ (walk # None => UNCHANGED ssmVars)
    BY <1>2, <2>1, QuietStep DEF Quiet, Search, StartSearch, StartPath, FollowParent, EndPath, EndSearch,
         Arrange, StartTree, ShowAsset, EndTree
  <2>3. OnRung' => OnRung
    BY <2>2 DEF OnRung, Untouched, ssmVars
  <2> QED BY <2>2, <2>3, HeardSame DEF HeardInv, Untouched
<1>3. CASE Reset
  BY <1>3, ResetStep DEF HeardInv
<1> QED BY <1>1, <1>2, <1>3, HeardResolve, HeardCutCycle DEF SsmNext, SsmSteps, Quiet

LEMMA AlwaysHeard == SsmSpec => []HeardInv
<1>1. SsmInit => HeardInv
  BY EmptyFunction DEF SsmInit, HeardInv
<1>2. Sound /\ HeardInv /\ [SsmNext]_ssmVars => HeardInv'
  BY HeardNext
<1> QED BY <1>1, <1>2, AlwaysSound, PTL DEF SsmSpec
------------------------------------------------------------------------------
(* What a compile owes to its input alone, said of any input: the rung     *)
(* that settles an asset and the parent it names there.                    *)
ClaimsOn(in, a) ==
  {c \in in.structural : c.subject = a}
  \cup {[subject |-> a, target |-> t, source |-> "model-tree"] : t \in {in.modelTree[a]} \ {None, a}}
Offers(in, a, r) ==
  {c.target : c \in {d \in ClaimsOn(in, a) : d.source = in.ladder[r] /\ d.target \in in.subjects}}
HardLevels(in) == {l \in 1..Len(in.levels) : in.levels[l].boundary}
Says(in, a, l) == in.attributes[a][in.levels[l].key]
Agree(in, a, p) == \A l \in HardLevels(in) : Says(in, a, l) # None /\ Says(in, a, l) = Says(in, p, l)
Differ(in, a, p) ==
  \E l \in HardLevels(in) : None \notin {Says(in, a, l), Says(in, p, l)} /\ Says(in, a, l) # Says(in, p, l)
Cleared(in, a, i) ==
  \/ Offers(in, a, i) = {}
  \/ in.ladder[i] # "manual" /\ \E p \in in.subjects : Offers(in, a, i) = {p} /\ Differ(in, a, p)
Settles(in, a, r, p) ==
  /\ a \in in.subjects \ in.makeRoot /\ r \in 1..Len(in.ladder) /\ Len(in.ladder) \in Nat
  /\ p \in in.subjects /\ Offers(in, a, r) = {p}
  /\ \A i \in 1..(r - 1) : Cleared(in, a, i)
  /\ in.ladder[r] = "manual" \/ Agree(in, a, p)
(* A loop of settled parents, and no smaller one in it.                    *)
IsRing(in, c) ==
  /\ \A b \in c : \E r, p : Settles(in, b, r, p) /\ p \in c
  /\ \A Q \in SUBSET c : Q # {} /\ (\A b \in Q : \A r, p : Settles(in, b, r, p) => p \in Q) => Q = c
Weakest(in, a, c) ==
  \A b \in c : \A r, s, p, q : Settles(in, a, r, p) /\ Settles(in, b, s, q) => s < r \/ (s = r /\ b <= a)

LEMMA OffersAre ==
  /\ \A a, r : Offers(input, a, r) = Candidates(a, r)
  /\ \A a, i : Cleared(input, a, i) <=> Passed(a, i)
  /\ \A a, p : Agree(input, a, p) <=> Outcome(a, p) = "keep"
<1>1. \A a, r : Offers(input, a, r) = Candidates(a, r)
  BY DEF Offers, ClaimsOn, Candidates, Pool
<1>2. HardLevels(input) = Boundaries /\ \A a, l : Says(input, a, l) = Stated(a, l)
  BY DEF HardLevels, Boundaries, Says, Stated
<1>3. \A a, p : Differ(input, a, p) <=> Differs(a, p) # {}
  BY <1>2 DEF Differ, Differs
<1>4. \A a, i : Cleared(input, a, i) <=> Passed(a, i)
  BY <1>1, <1>3 DEF Cleared, Passed
<1>5. ASSUME NEW a, NEW p PROVE Agree(input, a, p) <=> Outcome(a, p) = "keep"
  <2>1. Agree(input, a, p) <=> Differs(a, p) = {} /\ Unknown(a, p) = {}
    BY <1>2 DEF Agree, Differs, Unknown
  <2> QED BY <2>1 DEF Outcome
<1> QED BY <1>1, <1>4, <1>5

LEMMA AgreeOrDiffer == \A in, a, p : ~ (Agree(in, a, p) /\ Differ(in, a, p))
BY DEF Agree, Differ

(* One rung at most settles an asset: those before it settle nothing.      *)
LEMMA NotCleared ==
  ASSUME NEW in, NEW a, NEW r, NEW p, Settles(in, a, r, p) PROVE ~ Cleared(in, a, r)
<1>1. Offers(in, a, r) = {p} /\ (in.ladder[r] = "manual" \/ Agree(in, a, p))
  BY DEF Settles
<1>2. ASSUME NEW q, {p} = {q}, Differ(in, a, q) PROVE ~ Agree(in, a, p)
  <2>1. p = q
    BY <1>2
  <2> QED BY <1>2, <2>1, AgreeOrDiffer
<1> QED BY <1>1, <1>2 DEF Cleared
LEMMA SettledOnce ==
  ASSUME NEW in, NEW a, NEW r, NEW p, NEW s, NEW q, Settles(in, a, r, p), Settles(in, a, s, q)
  PROVE  r = s /\ p = q
<1>1. r \in Nat /\ s \in Nat /\ r >= 1 /\ s >= 1
  BY DEF Settles
<1>2. ~ Cleared(in, a, r) /\ ~ Cleared(in, a, s)
  BY NotCleared
<1>3. (\A i \in 1..(r - 1) : Cleared(in, a, i)) /\ (\A i \in 1..(s - 1) : Cleared(in, a, i))
  BY DEF Settles
<1>4. ~ (r < s) /\ ~ (s < r)
  <2>1. ASSUME r < s PROVE FALSE
    <3>1. r \in 1..(s - 1)
      BY <1>1, <2>1
    <3> QED BY <1>2, <1>3, <3>1
  <2>2. ASSUME s < r PROVE FALSE
    <3>1. s \in 1..(r - 1)
      BY <1>1, <2>2
    <3> QED BY <1>2, <1>3, <3>1
  <2> QED BY <2>1, <2>2
<1>5. r = s
  BY <1>1, <1>4
<1>6. {p} = {q}
  BY <1>5 DEF Settles
<1> QED BY <1>5, <1>6
(* It is the first rung of its source.                                     *)
LEMMA SettledTier ==
  ASSUME NEW a, NEW r, NEW p, Settles(input, a, r, p), IsCompileInput(input)
  PROVE  TierIndex(input.ladder[r]) = r
<1>1. /\ r \in DOMAIN input.ladder /\ r \in Nat /\ DOMAIN input.ladder = 1..Len(input.ladder)
      /\ \A i \in 1..(r - 1) : Cleared(input, a, i)
  BY DEF Settles, IsCompileInput
<1>2. ASSUME NEW j \in DOMAIN input.ladder, input.ladder[j] = input.ladder[r] PROVE r <= j
  <2>1. Offers(input, a, j) = Offers(input, a, r) /\ (Cleared(input, a, j) <=> Cleared(input, a, r))
    BY <1>2 DEF Offers, Cleared
  <2>2. ~ Cleared(input, a, j)
    BY <2>1, NotCleared
  <2>3. j \in Nat /\ j >= 1 /\ j \notin 1..(r - 1)
    BY <1>1, <2>2
  <2> QED BY <1>1, <2>3
<1> DEFINE First(i) == i \in DOMAIN input.ladder /\ input.ladder[i] = input.ladder[r]
                       /\ \A j \in DOMAIN input.ladder : input.ladder[j] = input.ladder[r] => i <= j
<1>3. First(r)
  BY <1>1, <1>2
<1>4. ASSUME NEW i, First(i) PROVE i = r
  <2>1. i <= r /\ r <= i /\ i \in Nat
    BY <1>1, <1>2, <1>4
  <2> QED BY <1>1, <2>1
<1>5. TierIndex(input.ladder[r]) = CHOOSE i : First(i)
  <2>1. input.ladder[r] \in {input.ladder[i] : i \in DOMAIN input.ladder}
    BY <1>1
  <2>2. TierIndex(input.ladder[r]) = CHOOSE i \in DOMAIN input.ladder :
         input.ladder[i] = input.ladder[r] /\ \A j \in DOMAIN input.ladder : input.ladder[j] = input.ladder[r] => i <= j
    BY <2>1 DEF TierIndex
  <2> QED BY <2>2
<1> HIDE DEF First
<1> QED BY <1>3, <1>4, <1>5

(* What the walk of the ladder decides of an asset: the parent of the rung *)
(* that settles it, not demoted where nothing was named above, or none.    *)
Decided(in, a, d) ==
  /\ \A r, p : Settles(in, a, r, p) =>
       /\ d.parent = p /\ d.status = "resolved"
       /\ (\A i \in 1..(r - 1) : Offers(in, a, i) = {}) => d.demotedFrom = None
  /\ d.parent # None => \E r : Settles(in, a, r, d.parent) /\ d.source = in.ladder[r]
  /\ a \in in.makeRoot => d.parent = None /\ d.status = "root"
Walking(w) ==
  /\ w.parent = None /\ w.asset \notin input.makeRoot
  /\ \A i \in 1..(w.rung - 1) : Cleared(input, w.asset, i)
  /\ (\A i \in 1..(w.rung - 1) : Offers(input, w.asset, i) = {}) => w.demotedFrom = None
WalkInv ==
  walk # None => IF walk.rung <= Len(input.ladder) THEN Walking(walk) ELSE Decided(input, walk.asset, walk)

LEMMA DecidedSame ==
  ASSUME input' = input
  PROVE  /\ \A a, d : Decided(input, a, d)' <=> Decided(input, a, d)
         /\ \A w : Walking(w)' <=> Walking(w)
BY DEF Decided, Walking

LEMMA NoneSettles ==
  ASSUME NEW in, NEW a, \A i \in 1..Len(in.ladder) : Cleared(in, a, i) PROVE \A r, p : ~ Settles(in, a, r, p)
<1> SUFFICES ASSUME NEW r, NEW p, Settles(in, a, r, p) PROVE FALSE
  OBVIOUS
<1>1. r \in 1..Len(in.ladder)
  BY DEF Settles
<1> QED BY <1>1, NotCleared

LEMMA SettledHere ==
  ASSUME NEW in, NEW a, NEW n \in 1..Len(in.ladder), \A i \in 1..(n - 1) : Cleared(in, a, i), ~ Cleared(in, a, n),
         NEW r, NEW p, Settles(in, a, r, p)
  PROVE  r = n
<1>1. r \in 1..Len(in.ladder) /\ Len(in.ladder) \in Nat /\ (\A i \in 1..(r - 1) : Cleared(in, a, i))
  BY DEF Settles
<1>2. ~ Cleared(in, a, r)
  BY NotCleared
<1>3. n \in Nat /\ r \in Nat /\ n >= 1 /\ r >= 1
  BY <1>1
<1>4. n \notin 1..(r - 1) /\ r \notin 1..(n - 1)
  BY <1>1, <1>2
<1> QED BY <1>3, <1>4

LEMMA WalkGoesOn ==
  ASSUME Sound, WalkInv, OnRung, UNCHANGED walkFrame, NEW w, walk' = w, w.asset = walk.asset, w.parent = walk.parent,
         w.rung = walk.rung + 1, Cleared(input, walk.asset, walk.rung),
         Offers(input, walk.asset, walk.rung) = {} => w.demotedFrom = walk.demotedFrom
  PROVE  WalkInv'
<1>1. /\ input' = input /\ walk # None /\ walk.rung \in 1..Len(input.ladder) /\ Len(input.ladder) \in Nat
  BY OnRungFacts DEF walkFrame
<1>2. Walking(walk)
  BY <1>1 DEF WalkInv, OnRung
<1>3. \A i \in 1..(w.rung - 1) : i \in 1..(walk.rung - 1) \/ i = walk.rung
  BY <1>1
<1>4. \A i \in 1..(walk.rung - 1) : i \in 1..(w.rung - 1)
  BY <1>1
<1>5. walk.rung \in 1..(w.rung - 1)
  BY <1>1
<1>6. Walking(w)
  <2>1. \A i \in 1..(w.rung - 1) : Cleared(input, w.asset, i)
    BY <1>2, <1>3 DEF Walking
  <2>2. (\A i \in 1..(w.rung - 1) : Offers(input, w.asset, i) = {}) => w.demotedFrom = None
    BY <1>2, <1>4, <1>5 DEF Walking
  <2> QED BY <1>2, <2>1, <2>2 DEF Walking
<1>7. ASSUME ~ (w.rung <= Len(input.ladder)) PROVE Decided(input, w.asset, w)
  <2>1. \A i \in 1..Len(input.ladder) : i \in 1..(w.rung - 1)
    BY <1>1, <1>7
  <2>2. \A r, p : ~ Settles(input, w.asset, r, p)
    BY <1>6, <2>1, NoneSettles DEF Walking
  <2> QED BY <1>6, <2>2 DEF Decided, Walking
<1>8. WalkInv' <=> (w # None => IF w.rung <= Len(input.ladder) THEN Walking(w) ELSE Decided(input, w.asset, w))
  BY <1>1, DecidedSame DEF WalkInv
<1> QED BY <1>6, <1>7, <1>8

LEMMA WalkStops ==
  ASSUME Sound, WalkInv, OnRung, UNCHANGED walkFrame, NEW w, walk' = w, w.asset = walk.asset, w.parent = walk.parent,
         w.rung = Off, ~ Cleared(input, walk.asset, walk.rung), \A p : ~ Settles(input, walk.asset, walk.rung, p)
  PROVE  WalkInv'
<1>1. /\ input' = input /\ walk # None /\ walk.rung \in 1..Len(input.ladder) /\ Len(input.ladder) \in Nat
  BY OnRungFacts DEF walkFrame
<1>2. Walking(walk)
  BY <1>1 DEF WalkInv, OnRung
<1>3. \A r, p : ~ Settles(input, walk.asset, r, p)
  <2> SUFFICES ASSUME NEW r, NEW p, Settles(input, walk.asset, r, p) PROVE FALSE
    OBVIOUS
  <2>1. r = walk.rung
    BY <1>1, <1>2, SettledHere DEF Walking
  <2> QED BY <2>1
<1>4. Decided(input, w.asset, w)
  BY <1>2, <1>3 DEF Decided, Walking
<1>5. ~ (w.rung <= Len(input.ladder))
  BY <1>1 DEF Off
<1> QED BY <1>1, <1>4, <1>5, DecidedSame DEF WalkInv

LEMMA WalkKeeps == ASSUME Sound, WalkInv, KeepParent PROVE WalkInv'
<1> PICK p \in Offered :
      /\ Offered = {p} /\ (Source = "manual" \/ Outcome(walk.asset, p) = "keep")
      /\ walk' = [walk EXCEPT !.parent = p, !.source = Source, !.status = "resolved",
                     !.winner = [subject |-> walk.asset, target |-> p, source |-> Source], !.rung = Off]
      /\ UNCHANGED walkFrame /\ OnRung
  BY DEF KeepParent
<1>1. /\ input' = input /\ walk # None /\ walk.rung \in 1..Len(input.ladder) /\ Len(input.ladder) \in Nat
      /\ walk.asset \in input.subjects /\ p \in input.subjects /\ walk \in Walks
  BY OnRungFacts DEF walkFrame
<1> DEFINE r == walk.rung
           a == walk.asset
<1>2. Walking(walk)
  BY <1>1 DEF WalkInv, OnRung
<1>3. Offers(input, a, r) = {p} /\ (input.ladder[r] = "manual" \/ Agree(input, a, p))
  BY OffersAre DEF Offered, Source
<1>4. Settles(input, a, r, p)
  BY <1>1, <1>2, <1>3 DEF Settles, Walking
<1>5. /\ walk'.asset = a /\ walk'.parent = p /\ walk'.source = input.ladder[r] /\ walk'.status = "resolved"
      /\ walk'.demotedFrom = walk.demotedFrom /\ walk'.rung = Off
  BY <1>1 DEF Walks, Source
<1>6. \A s, q : Settles(input, a, s, q) => s = r /\ q = p
  BY <1>4, SettledOnce
<1>7. Decided(input, a, walk')
  BY <1>2, <1>4, <1>5, <1>6 DEF Decided, Walking
<1>8. ~ (walk'.rung <= Len(input.ladder))
  BY <1>1, <1>5 DEF Off
<1> HIDE DEF a, r
<1> QED BY <1>1, <1>5, <1>7, <1>8, DecidedSame DEF WalkInv

LEMMA WalkResolve == ASSUME Sound, WalkInv, Resolve PROVE WalkInv'
<1>1. CASE StartWalk
  <2> PICK a \in input.subjects : walk' = NewWalk(a)
    BY <1>1 DEF StartWalk
  <2>1. input' = input /\ Len(input.ladder) \in Nat
    BY <1>1, StartWalkStep
  <2>2. /\ NewWalk(a).asset = a /\ NewWalk(a).parent = None /\ NewWalk(a).status = "root" /\ NewWalk(a).demotedFrom = None
        /\ NewWalk(a).rung = IF a \in input.makeRoot THEN Len(input.ladder) + 1 ELSE 1
    BY DEF NewWalk
  <2>3. ASSUME NewWalk(a).rung <= Len(input.ladder) PROVE Walking(NewWalk(a))
    <3>1. a \notin input.makeRoot /\ NewWalk(a).rung = 1
      BY <2>1, <2>2, <2>3
    <3> QED BY <2>2, <3>1 DEF Walking
  <2>4. ASSUME ~ (NewWalk(a).rung <= Len(input.ladder)) PROVE Decided(input, a, NewWalk(a))
    <3>1. a \in input.makeRoot \/ Len(input.ladder) = 0
      BY <2>1, <2>2, <2>4
    <3>2. \A r, p : ~ Settles(input, a, r, p)
      BY <3>1 DEF Settles
    <3> QED BY <2>2, <3>2 DEF Decided
  <2> QED BY <2>1, <2>2, <2>3, <2>4, DecidedSame DEF WalkInv
<1>2. CASE SkipRung
  <2>1. OnRung /\ Offered = {} /\ UNCHANGED walkFrame /\ walk' = [walk EXCEPT !.rung = @ + 1]
    BY <1>2 DEF SkipRung
  <2>2. walk \in Walks
    BY <2>1, OnRungFacts
  <2>3. /\ walk'.asset = walk.asset /\ walk'.parent = walk.parent /\ walk'.rung = walk.rung + 1
        /\ walk'.demotedFrom = walk.demotedFrom
    BY <2>1, <2>2 DEF Walks
  <2>4. Cleared(input, walk.asset, walk.rung)
    BY <2>1, OffersAre DEF Cleared, Offered
  <2> QED BY <2>1, <2>3, <2>4, WalkGoesOn
<1>3. CASE DemoteParent
  <2>1. PICK p \in Offered :
         /\ Offered = {p} /\ Source # "manual" /\ Outcome(walk.asset, p) = "demote"
         /\ Same(walk') /\ walk'.rung = walk.rung + 1 /\ UNCHANGED walkFrame /\ OnRung
    BY <1>3, DemoteStep
  <2>2. Passed(walk.asset, walk.rung)
    <3>1. Differs(walk.asset, p) # {} /\ p \in input.subjects
      BY <2>1, OnRungFacts DEF Outcome
    <3> QED BY <2>1, <3>1 DEF Passed, Offered, Source
  <2>3. Cleared(input, walk.asset, walk.rung) /\ Offers(input, walk.asset, walk.rung) # {}
    BY <2>1, <2>2, OffersAre DEF Offered
  <2> QED BY <2>1, <2>3, WalkGoesOn DEF Same
<1>4. CASE StopAtTie
  <2>1. Same(walk') /\ walk'.rung = Off /\ UNCHANGED walkFrame /\ OnRung
    BY <1>4, TieStep
  <2>2. PICK p, q \in Offers(input, walk.asset, walk.rung) : p # q
    BY <1>4, OffersAre DEF StopAtTie, Offered
  <2>3. ~ Cleared(input, walk.asset, walk.rung) /\ \A x : Offers(input, walk.asset, walk.rung) # {x}
    BY <2>2 DEF Cleared
  <2>4. \A x : ~ Settles(input, walk.asset, walk.rung, x)
    BY <2>3 DEF Settles
  <2> QED BY <2>1, <2>3, <2>4, WalkStops DEF Same
<1>5. CASE StopAtUnknown
  <2>1. Same(walk') /\ walk'.rung = Off /\ UNCHANGED walkFrame /\ OnRung
    BY <1>5, UnknownStep
  <2>2. PICK p \in Offered : Offered = {p} /\ Source # "manual" /\ Outcome(walk.asset, p) = "missing"
    BY <1>5 DEF StopAtUnknown
  <2>3. Differs(walk.asset, p) = {} /\ Outcome(walk.asset, p) # "keep"
    BY <2>2 DEF Outcome
  <2>4. ~ Passed(walk.asset, walk.rung)
    BY <2>2, <2>3 DEF Passed, Offered, Source
  <2>5. ~ Agree(input, walk.asset, p) /\ Offers(input, walk.asset, walk.rung) = {p} /\ ~ Cleared(input, walk.asset, walk.rung)
    BY <2>2, <2>3, <2>4, OffersAre DEF Offered
  <2>6. \A x : ~ Settles(input, walk.asset, walk.rung, x)
    <3> SUFFICES ASSUME NEW x, Settles(input, walk.asset, walk.rung, x) PROVE FALSE
      OBVIOUS
    <3>1. {x} = {p} /\ Agree(input, walk.asset, x)
      BY <2>2, <2>5 DEF Settles, Source
    <3>2. x = p
      BY <3>1
    <3> QED BY <2>5, <3>1, <3>2
  <2> QED BY <2>1, <2>5, <2>6, WalkStops DEF Same
<1>6. CASE EndWalk
  BY <1>6, EndWalkStep DEF WalkInv
<1> QED BY <1>1, <1>2, <1>3, <1>4, <1>5, <1>6, WalkKeeps DEF Resolve

LEMMA WalkNext == ASSUME Sound, WalkInv, [SsmNext]_ssmVars PROVE WalkInv'
<1>1. CASE Start \/ Reset \/ CutCycle
  BY <1>1, StartStep, ResetStep, CutStep DEF WalkInv
<1>2. CASE Quiet
  BY <1>2, QuietStep, DecidedSame DEF WalkInv, Untouched
<1> QED BY <1>1, <1>2, WalkResolve DEF SsmNext, SsmSteps, Quiet

(* Every asset has what its walk decided, unless it was the weakest of a   *)
(* loop; and what is reported as a loop was one, with none inside it.      *)
Loosed(in, raised, a, d) ==
  /\ d.parent = None /\ a \notin in.makeRoot
  /\ \E item \in raised : item.kind = "structural-cycle" /\ a \in item.assets /\ Weakest(in, a, item.assets)
Severed(a) == Loosed(input, reviews, a, node[a])
NodeInv == \A a \in DOMAIN node : Decided(input, a, node[a]) \/ Severed(a)
ItemsInv == \A item \in reviews : item.kind = "structural-cycle" => IsRing(input, item.assets)
Indivisible(c) == \A Q \in SUBSET c : Q # {} /\ (\A b \in Q : node[b].parent \in Q) => Q = c
SmallInv == \A c \in cycles : Indivisible(c)

Linked(up, p, k, n) == \A j \in k..n : up[p[j]] = IF j = n THEN p[k] ELSE p[j + 1]
Run(p, k, n) == {p[j] : j \in k..n}
LEMMA ChainIsSmallest ==
  ASSUME NEW n \in Nat, NEW k \in 1..n, NEW p, NEW up, Linked(up, p, k, n),
         NEW Q, Q \subseteq Run(p, k, n), Q # {}, \A b \in Q : up[b] \in Q
  PROVE  Q = Run(p, k, n)
<1> USE DEF Linked, Run
<1> DEFINE In == {j \in k..n : p[j] \in Q}
           Gaps == {n - j : j \in In}
<1>1. Gaps \subseteq Nat /\ Gaps # {}
  <2>1. \A j \in In : n - j \in Nat
    OBVIOUS
  <2>2. PICK j : j \in In
    OBVIOUS
  <2>3. n - j \in Gaps
    BY <2>2
  <2> QED BY <2>1, <2>3
<1>2. PICK g \in Gaps : \A h \in Gaps : g <= h
  BY <1>1, LeastNatural
<1>3. PICK j \in In : g = n - j
  BY <1>2
<1>4. \A i \in In : i <= j
  <2>1. \A i \in In : n - i \in Gaps
    OBVIOUS
  <2>2. \A i \in In : n - j <= n - i
    BY <1>2, <1>3, <2>1
  <2> HIDE DEF Gaps
  <2> QED BY <2>2
<1>5. j = n
  <2> SUFFICES ASSUME j # n PROVE FALSE
    OBVIOUS
  <2>1. j + 1 \in k..n /\ up[p[j]] = p[j + 1]
    <3>1. j \in k..n /\ j \in Int /\ n \in Int /\ k \in Int
      OBVIOUS
    <3>2. up[p[j]] = p[j + 1]
      BY <3>1
    <3> HIDE DEF In, Gaps, Linked, Run
    <3>3. j + 1 \in k..n
      BY <3>1
    <3> QED BY <3>2, <3>3
  <2>2. j + 1 \in In
    BY <2>1
  <2>3. j + 1 <= j
    BY <1>4, <2>2
  <2> QED BY <2>3
<1>6. p[k] \in Q
  BY <1>5
<1> DEFINE Out == {i \in k..n : p[i] \notin Q}
<1>7. ASSUME Out # {} PROVE FALSE
  <2>0. Out \subseteq Nat
    OBVIOUS
  <2>1. PICK i \in Out : \A h \in Out : i <= h
    <3> HIDE DEF Out
    <3> QED BY <1>7, <2>0, LeastNatural
  <2>2. i # k /\ i \in k..n
    BY <1>6
  <2>3. i - 1 \in k..n /\ i - 1 # n /\ i - 1 \notin Out
    BY <2>1, <2>2
  <2>4. p[i - 1] \in Q /\ up[p[i - 1]] = p[i - 1 + 1]
    BY <2>3
  <2>5. i - 1 + 1 = i
    BY <2>2
  <2> QED BY <2>1, <2>4, <2>5
<1> QED BY <1>7

LEMMA SmallEndPath == ASSUME Sound, ChainInv, SmallInv, EndPath PROVE SmallInv'
<1>0. /\ phase = "search" /\ node' = node
      /\ cycles' = cycles \cup {{path[j] : j \in i..Len(path)} : i \in {k \in DOMAIN path : path[k] = current}}
  BY DEF EndPath, walkVars
<1>1. path \in Seq(input.subjects) /\ None \notin input.subjects /\ DOMAIN node = input.subjects
  BY <1>0, SearchFacts DEF Late
<1>2. ASSUME NEW k \in DOMAIN path, path[k] = current PROVE Indivisible({path[j] : j \in k..Len(path)})
  <2> DEFINE n == Len(path)
             up == [b \in DOMAIN node |-> node[b].parent]
  <2>1. n \in Nat /\ k \in 1..n /\ DOMAIN path = 1..n
    BY <1>1
  <2>2. ASSUME NEW j \in k..n PROVE up[path[j]] = IF j = n THEN path[k] ELSE path[j + 1]
    <3>1. j \in DOMAIN path /\ path[j] \in DOMAIN node
      BY <1>1, <2>1
    <3>2. ParentOf(path[j]) = IF j = n THEN current ELSE path[j + 1]
      BY <1>0, <3>1 DEF ChainInv
    <3>3. j # n => j + 1 \in DOMAIN path
      <4> HIDE DEF n
      <4> QED BY <2>1
    <3>4. ParentOf(path[j]) \in input.subjects
      BY <1>1, <1>2, <3>2, <3>3
    <3>5. ParentOf(path[j]) = node[path[j]].parent
      BY <1>1, <3>4 DEF ParentOf
    <3> QED BY <1>2, <3>1, <3>2, <3>5
  <2>3. {path[j] : j \in k..n} \subseteq DOMAIN node
    BY <1>1, <2>1
  <2> HIDE DEF n
  <2>4. ASSUME NEW Q, Q \subseteq {path[j] : j \in k..n}, Q # {}, \A b \in Q : node[b].parent \in Q
        PROVE  Q = {path[j] : j \in k..n}
    <3>1. \A b \in Q : up[b] \in Q
      BY <2>3, <2>4
    <3> HIDE DEF up
    <3>2. Linked(up, path, k, n) /\ Q \subseteq Run(path, k, n)
      BY <2>2, <2>4 DEF Linked, Run
    <3>3. Q = Run(path, k, n)
      BY <2>1, <2>4, <3>1, <3>2, ChainIsSmallest
    <3> QED BY <3>3 DEF Run
  <2> QED BY <2>4 DEF Indivisible, n
<1>3. \A c : Indivisible(c)' <=> Indivisible(c)
  BY <1>0 DEF Indivisible
<1> QED BY <1>0, <1>2, <1>3 DEF SmallInv

LEMMA SmallCutCycle == ASSUME Sound, RingsInv, SmallInv, CutCycle PROVE SmallInv'
<1> PICK c \in cycles : \E b \in c :
      node' = [node EXCEPT ![b] = Downgraded(@)] /\ cycles' = cycles \ {c}
  BY DEF CutCycle
<1> PICK a \in c :
      node' = [node EXCEPT ![a] = Downgraded(@)] /\ cycles' = cycles \ {c}
  OBVIOUS
<1>1. \A d \in cycles' : d \in cycles /\ d # c /\ a \notin d
  BY DEF RingsInv
<1>2. \A d \in cycles' : \A b \in d : node'[b] = node[b]
  <2>1. \A d \in cycles : d \subseteq DOMAIN node
    BY SearchFacts DEF CutCycle, Late, Sound, Shape
  <2> QED BY <1>1, <2>1
<1> QED BY <1>1, <1>2 DEF SmallInv, Indivisible

LEMMA SmallNext == ASSUME Sound, ChainInv, RingsInv, SmallInv, [SsmNext]_ssmVars PROVE SmallInv'
<1>1. CASE Start \/ Resolve
  <2>1. cycles = {} /\ cycles' = cycles
    BY <1>1 DEF Start, Resolve, StartWalk, SkipRung, StopAtTie, KeepParent, DemoteParent,
       StopAtUnknown, EndWalk, OnRung, walkFrame, Sound, Shape
  <2> QED BY <2>1 DEF SmallInv
<1>2. CASE StartSearch \/ StartPath \/ FollowParent \/ EndSearch \/ Arrange \/ UNCHANGED ssmVars
  <2>1. node' = node /\ cycles' = cycles
    BY <1>2 DEF StartSearch, StartPath, FollowParent, EndSearch, Arrange, StartTree, ShowAsset,
       EndTree, ssmVars, walkVars, searchVars
  <2> QED BY <2>1 DEF SmallInv, Indivisible
<1>3. CASE Reset
  BY <1>3 DEF Reset, SmallInv
<1> QED BY <1>1, <1>2, <1>3, SmallEndPath, SmallCutCycle DEF SsmNext, SsmSteps, Search

LEMMA RingIsCut ==
  ASSUME Sound, RingsInv, SmallInv, NodeInv, phase = "cut", NEW c \in cycles, NEW a \in c, IsWeakest(a, c)
  PROVE  IsRing(input, c) /\ Weakest(input, a, c) /\ a \notin input.makeRoot
<1>1. IsCompileInput(input) /\ None \notin input.subjects /\ c \subseteq DOMAIN node /\ DOMAIN node = input.subjects
  BY SearchFacts DEF Late, Sound, Shape
<1>2. ASSUME NEW b \in c PROVE \E r : /\ Settles(input, b, r, node[b].parent) /\ Rank(b) = r /\ node[b].parent \in c
                                      /\ b \notin input.makeRoot
  <2>1. node[b].parent \in c /\ node[b].parent # None
    BY <1>1 DEF RingsInv
  <2>2. Decided(input, b, node[b])
    BY <1>1, <2>1 DEF NodeInv, Severed, Loosed
  <2>3. PICK r : Settles(input, b, r, node[b].parent) /\ node[b].source = input.ladder[r]
    BY <2>1, <2>2 DEF Decided
  <2>4. input.ladder[r] \in LadderSources /\ b \notin input.makeRoot
    BY <1>1, <2>3 DEF Settles, IsCompileInput
  <2>5. node[b].source # None
    BY <2>3, <2>4, NoneIsNoClaim
  <2>6. Rank(b) = r
    BY <1>1, <2>3, <2>5, SettledTier DEF Rank
  <2> QED BY <2>1, <2>3, <2>4, <2>6
<1>3. \A b \in c : \E r, p : Settles(input, b, r, p) /\ p \in c
  BY <1>2
<1>4. ASSUME NEW Q \in SUBSET c, Q # {}, \A b \in Q : \A r, p : Settles(input, b, r, p) => p \in Q PROVE Q = c
  <2>1. \A b \in Q : node[b].parent \in Q
    BY <1>2, <1>4
  <2> QED BY <1>4, <2>1 DEF SmallInv, Indivisible
<1>5. ASSUME NEW b \in c, NEW r, NEW s, NEW p, NEW q, Settles(input, a, r, p), Settles(input, b, s, q)
      PROVE  s < r \/ (s = r /\ b <= a)
  <2>1. Rank(a) = r /\ Rank(b) = s
    BY <1>2, <1>5, SettledOnce
  <2> QED BY <2>1 DEF IsWeakest
<1> QED BY <1>2, <1>3, <1>4, <1>5 DEF IsRing, Weakest

LEMMA NodeCutCycle == ASSUME Sound, RingsInv, SmallInv, NodeInv, ItemsInv, CutCycle PROVE NodeInv' /\ ItemsInv'
<1> PICK c \in cycles : \E b \in c :
       /\ IsWeakest(b, c)
       /\ node' = [node EXCEPT ![b] = Downgraded(@)]
       /\ reviews' = reviews \cup {[kind |-> "structural-cycle", assets |-> c]}
  BY DEF CutCycle
<1> PICK a \in c :
       /\ IsWeakest(a, c)
       /\ node' = [node EXCEPT ![a] = Downgraded(@)]
       /\ reviews' = reviews \cup {[kind |-> "structural-cycle", assets |-> c]}
  OBVIOUS
<1>1. phase = "cut" /\ input' = input /\ a \in DOMAIN node /\ node[a] \in Decision
  BY SearchFacts DEF CutCycle, Late, Sound, Shape, SsmTypeOK
<1>2. IsRing(input, c) /\ Weakest(input, a, c) /\ a \notin input.makeRoot
  BY <1>1, RingIsCut
<1>3. /\ DOMAIN node' = DOMAIN node /\ node'[a].parent = None
      /\ \A b \in DOMAIN node \ {a} : node'[b] = node[b]
  BY <1>1, DowngradedFields
<1>4. ItemsInv'
  BY <1>1, <1>2 DEF ItemsInv
<1>5. Severed(a)'
  <2> DEFINE item == [kind |-> "structural-cycle", assets |-> c]
  <2>1. item \in reviews' /\ item.kind = "structural-cycle" /\ a \in item.assets /\ Weakest(input, a, item.assets)
    BY <1>2
  <2> HIDE DEF item
  <2> QED BY <1>1, <1>2, <1>3, <2>1 DEF Severed, Loosed
<1>6. ASSUME NEW b \in DOMAIN node \ {a} PROVE Decided(input, b, node'[b]) \/ Severed(b)'
  <2>1. Decided(input, b, node[b]) \/ Severed(b)
    BY DEF NodeInv
  <2>2. Severed(b) => Severed(b)'
    BY <1>1, <1>3 DEF Severed, Loosed
  <2> QED BY <1>3, <2>1, <2>2
<1>7. NodeInv'
  <2>1. \A b \in DOMAIN node' : Decided(input, b, node'[b]) \/ Severed(b)'
    BY <1>1, <1>3, <1>5, <1>6
  <2> QED BY <1>1, <2>1, DecidedSame DEF NodeInv
<1> QED BY <1>4, <1>7

LEMMA NodeSame ==
  ASSUME NodeInv, ItemsInv, input' = input, node' = node, reviews \subseteq reviews',
         \A item \in reviews' : item.kind = "structural-cycle" => item \in reviews
  PROVE  NodeInv' /\ ItemsInv'
<1>1. \A a : Severed(a) => Severed(a)'
  BY DEF Severed, Loosed
<1> QED BY <1>1, DecidedSame DEF NodeInv, ItemsInv

LEMMA NodeResolve == ASSUME Sound, WalkInv, NodeInv, ItemsInv, Resolve PROVE NodeInv' /\ ItemsInv'
<1>1. CASE StartWalk \/ SkipRung \/ KeepParent \/ DemoteParent
  BY <1>1, NodeSame DEF StartWalk, SkipRung, KeepParent, DemoteParent, walkFrame
<1>2. CASE StopAtTie
  <2>1. /\ input' = input /\ node' = node
        /\ reviews' = reviews \cup {[kind |-> "ambiguous-parent", asset |-> walk.asset, candidates |-> Offered]}
    BY <1>2 DEF StopAtTie, walkFrame
  <2> QED BY <2>1, NodeSame
<1>3. CASE StopAtUnknown
  <2>0. input' = input /\ node' = node
    BY <1>3 DEF StopAtUnknown, walkFrame
  <2> PICK p \in Offered, l \in Boundaries :
        reviews' = reviews \cup
            {[kind |-> "missing-boundary", asset |-> b, level |-> l] :
               b \in {c \in {walk.asset, p} : Stated(c, l) = None}}
    BY <1>3 DEF StopAtUnknown
  <2>1. /\ input' = input /\ node' = node /\ reviews \subseteq reviews'
        /\ \A item \in reviews' : item.kind = "structural-cycle" => item \in reviews
    BY <2>0
  <2> QED BY <2>1, NodeSame
<1>4. CASE EndWalk
  <2>1. /\ input' = input /\ reviews' = reviews /\ walk # None /\ ~ (walk.rung <= Len(input.ladder))
        /\ DOMAIN node' = DOMAIN node \cup {walk.asset} /\ \A a \in DOMAIN node : node'[a] = node[a]
        /\ node'[walk.asset] = DecisionOf(walk)
    <3>1. walk.rung > Len(input.ladder) /\ walk \in Walks /\ IsCompileInput(input)
      BY <1>4 DEF EndWalk, Sound, SsmTypeOK
    <3>2. walk.rung \in Nat /\ Len(input.ladder) \in Nat
      BY <3>1 DEF Walks, IsCompileInput
    <3>3. ~ (walk.rung <= Len(input.ladder))
      BY <3>1, <3>2
    <3>4. node'[walk.asset] = DecisionOf(walk)
      BY <1>4 DEF EndWalk
    <3> QED BY <1>4, <3>3, <3>4, EndWalkStep
  <2>2. Decided(input, walk.asset, walk)
    BY <2>1 DEF WalkInv
  <2> DEFINE d == DecisionOf(walk)
  <2>3. d.parent = walk.parent /\ d.status = walk.status /\ d.source = walk.source /\ d.demotedFrom = walk.demotedFrom
    BY DEF DecisionOf
  <2> HIDE DEF d
  <2>4. Decided(input, walk.asset, d)
    BY <2>2, <2>3 DEF Decided
  <2>5. \A a \in DOMAIN node : Decided(input, a, node'[a]) \/ Severed(a)'
    BY <2>1 DEF NodeInv, Severed, Loosed
  <2>6. \A a \in DOMAIN node' : Decided(input, a, node'[a]) \/ Severed(a)'
    BY <2>1, <2>4, <2>5 DEF d
  <2>7. NodeInv'
    BY <2>1, <2>6, DecidedSame DEF NodeInv
  <2> QED BY <2>1, <2>7 DEF ItemsInv
<1> QED BY <1>1, <1>2, <1>3, <1>4 DEF Resolve

LEMMA NodeNext ==
  ASSUME Sound, RingsInv, SmallInv, CutInv, WalkInv, NodeInv, ItemsInv, [SsmNext]_ssmVars PROVE NodeInv' /\ ItemsInv'
<1>1. CASE Start
  <2>1. DOMAIN node' = {} /\ reviews' = reviews /\ phase = "idle"
    BY <1>1, StartStep DEF Start
  <2>2. \A item \in reviews : item.kind # "structural-cycle"
    BY <2>1 DEF CutInv
  <2> QED BY <2>1, <2>2 DEF NodeInv, ItemsInv
<1>2. CASE Quiet
  BY <1>2, QuietStep, QuietReviews, NodeSame DEF Untouched
<1>3. CASE Reset
  BY <1>3, ResetStep DEF NodeInv, ItemsInv
<1> QED BY <1>1, <1>2, <1>3, NodeResolve, NodeCutCycle DEF SsmNext, SsmSteps, Quiet

LEMMA AlwaysSettled == SsmSpec => [](NodeInv /\ ItemsInv)
<1> DEFINE Both == ChainInv /\ RingsInv
           Told == WalkInv /\ SmallInv /\ NodeInv /\ ItemsInv
<1>1. SsmInit => Told
  BY EmptyFunction DEF SsmInit, WalkInv, SmallInv, NodeInv, ItemsInv
<1>2. Sound /\ Both /\ CutInv /\ Told /\ [SsmNext]_ssmVars => Told'
  BY WalkNext, SmallNext, NodeNext
<1>3. Told => NodeInv /\ ItemsInv
  OBVIOUS
<1>4. SsmSpec => []Both
  BY AlwaysRings
<1> HIDE DEF Both, Told
<1> QED BY <1>1, <1>2, <1>3, <1>4, AlwaysSound, AlwaysCut, PTL DEF SsmSpec

(* What a finished snapshot of an input is, in whatever order it was made. *)
IsCompiled(in, nd, raised) ==
  /\ in.subjects \subseteq Int /\ None \notin in.subjects /\ DOMAIN nd = in.subjects
  /\ \A a \in DOMAIN nd : Decided(in, a, nd[a]) \/ Loosed(in, raised, a, nd[a])
  /\ \A item \in raised : item.kind = "structural-cycle" => IsRing(in, item.assets)
  /\ \A S \in SUBSET DOMAIN nd : S # {} => \E a \in S : nd[a].parent \notin S
LEMMA DoneIsCompiled ==
  ASSUME Sound, NodeInv, ItemsInv, NoLoopLeft, phase = "done" PROVE IsCompiled(input, node, reviews)
<1>1. DOMAIN node = input.subjects /\ None \notin input.subjects /\ IsCompileInput(input)
  BY SearchFacts DEF Late
<1>2. input.subjects \subseteq Int
  BY <1>1, SsmCompilerAssumption DEF IsCompileInput
<1>3. ASSUME NEW S \in SUBSET DOMAIN node, S # {} PROVE \E a \in S : node[a].parent \notin S
  <2>1. ~ Closed(S)
    BY <1>1, <1>3 DEF NoLoopLeft
  <2>2. PICK a \in S : ParentOf(a) \notin S
    BY <2>1 DEF Closed
  <2>3. node[a].parent \notin S
    BY <2>2 DEF ParentOf
  <2> QED BY <2>3
<1> QED BY <1>1, <1>2, <1>3 DEF IsCompiled, NodeInv, ItemsInv, Severed

(* compileSnapshot owes its result to its input, not to the order of its   *)
(* loops: an asset has the parent of the rung that settles it, not demoted *)
(* where nothing was named above, or none where no rung does; the only     *)
(* parents missing are the weakest of a loop of such parents that has none *)
(* inside it; and what is left makes no loop.                              *)
THEOREM SnapshotIsOwedToItsInput == SsmSpec => [](phase = "done" => IsCompiled(input, node, reviews))
<1>1. Sound /\ (NodeInv /\ ItemsInv) /\ NoLoopLeft => (phase = "done" => IsCompiled(input, node, reviews))
  BY DoneIsCompiled
<1> QED BY <1>1, AlwaysSound, AlwaysSettled, LoopsAreGone, PTL
------------------------------------------------------------------------------
(* Two inputs that differ in the parents stated by hand for some assets.   *)
Dragged(drags) == {m.child : m \in drags}
Overridden(old, new, drags) ==
  /\ new.subjects = old.subjects /\ new.attributes = old.attributes /\ new.modelTree = old.modelTree
  /\ new.levels = old.levels /\ new.ladder = old.ladder /\ Len(new.ladder) \in Nat
  /\ DOMAIN new.ladder = 1..Len(new.ladder)
  /\ \A c : c.source # "manual" \/ c.subject \notin Dragged(drags) => (c \in new.structural <=> c \in old.structural)
  /\ \A a : a \notin Dragged(drags) => (a \in new.makeRoot <=> a \in old.makeRoot)
  /\ \A m \in drags :
       /\ m.child \in new.makeRoot <=> m.parent = None
       /\ \A c \in new.structural : c.subject = m.child /\ c.source = "manual" => c.target = m.parent
       /\ m.parent # None => [subject |-> m.child, target |-> m.parent, source |-> "manual"] \in new.structural
Up(nd, a) == IF nd[a].status = "resolved" THEN nd[a].parent ELSE None
AncestorsIn(nd, a) ==
  {b \in DOMAIN nd : \A S \in SUBSET DOMAIN nd : a \in S /\ (\A x \in S : Up(nd, x) \in S \cup {None}) => b \in S}
Foretold(nd, m) ==
  /\ m.child \in DOMAIN nd /\ m.parent \in DOMAIN nd \cup {None} /\ m.child # m.parent
  /\ m.preview = "root" <=> m.parent = None
  /\ m.preview = "loop" <=> m.parent # None /\ m.child \in AncestorsIn(nd, m.parent)
  /\ m.parent # None => m.above = AncestorsIn(nd, m.parent)
HeardAt(in, a, r) ==
  r \in DOMAIN in.ladder /\ in.ladder[r] = "manual" /\ \A i \in 1..(r - 1) : Offers(in, a, i) = {}
ClosedUnder(in, T) == \A x \in T : \E r, p : Settles(in, x, r, p) /\ p \in T

LEMMA OffersAlike ==
  ASSUME NEW old, NEW new, NEW drags, Overridden(old, new, drags), NEW a, NEW i,
         a \notin Dragged(drags) \/ new.ladder[i] # "manual"
  PROVE  Offers(new, a, i) = Offers(old, a, i)
<1>1. /\ new.modelTree = old.modelTree /\ new.ladder = old.ladder /\ new.subjects = old.subjects
      /\ \A c : c.source # "manual" \/ c.subject \notin Dragged(drags) => (c \in new.structural <=> c \in old.structural)
  BY DEF Overridden
<1>2. {d \in ClaimsOn(new, a) : d.source = new.ladder[i] /\ d.target \in new.subjects}
        = {d \in ClaimsOn(old, a) : d.source = old.ladder[i] /\ d.target \in old.subjects}
  <2>1. ASSUME NEW d, d.source = new.ladder[i], d.subject = a PROVE d \in new.structural <=> d \in old.structural
    BY <1>1, <2>1
  <2> QED BY <1>1, <2>1 DEF ClaimsOn
<1> QED BY <1>2 DEF Offers

LEMMA FoldAlike ==
  ASSUME NEW old, NEW new, NEW drags, Overridden(old, new, drags), NEW a, NEW p
  PROVE  (Agree(new, a, p) <=> Agree(old, a, p)) /\ (Differ(new, a, p) <=> Differ(old, a, p))
BY DEF Overridden, Agree, Differ, HardLevels, Says

LEMMA SettlesAlike ==
  ASSUME NEW old, NEW new, NEW drags, Overridden(old, new, drags), NEW a, a \notin Dragged(drags)
  PROVE  \A r, p : Settles(new, a, r, p) <=> Settles(old, a, r, p)
<1>1. /\ new.ladder = old.ladder /\ new.subjects = old.subjects /\ (a \in new.makeRoot <=> a \in old.makeRoot)
  BY DEF Overridden
<1>2. \A i : Offers(new, a, i) = Offers(old, a, i)
  BY OffersAlike
<1>3. \A i : Cleared(new, a, i) <=> Cleared(old, a, i)
  BY <1>1, <1>2, FoldAlike DEF Cleared
<1> QED BY <1>1, <1>2, <1>3, FoldAlike DEF Settles

LEMMA DraggedSettles ==
  ASSUME NEW old, NEW new, NEW drags, Overridden(old, new, drags), NEW m \in drags, NEW r, HeardAt(new, m.child, r),
         m.child \in new.subjects, m.parent \in new.subjects, m.parent # None
  PROVE  Settles(new, m.child, r, m.parent)
<1>1. /\ m.child \notin new.makeRoot /\ r \in 1..Len(new.ladder) /\ Len(new.ladder) \in Nat /\ new.ladder[r] = "manual"
      /\ \A c \in new.structural : c.subject = m.child /\ c.source = "manual" => c.target = m.parent
      /\ [subject |-> m.child, target |-> m.parent, source |-> "manual"] \in new.structural
  BY DEF Overridden, HeardAt
<1>2. Offers(new, m.child, r) = {m.parent}
  <2> DEFINE c0 == [subject |-> m.child, target |-> m.parent, source |-> "manual"]
             D  == {d \in ClaimsOn(new, m.child) : d.source = new.ladder[r] /\ d.target \in new.subjects}
  <2>1. c0 \in D /\ c0.target = m.parent
    BY <1>1 DEF ClaimsOn
  <2>2. \A d \in D : d.target = m.parent
    BY <1>1 DEF ClaimsOn
  <2>3. Offers(new, m.child, r) = {c.target : c \in D}
    BY DEF Offers
  <2> HIDE DEF c0, D
  <2> QED BY <2>1, <2>2, <2>3
<1>3. \A i \in 1..(r - 1) : Cleared(new, m.child, i)
  BY DEF HeardAt, Cleared
<1> QED BY <1>1, <1>2, <1>3 DEF Settles

(* A set whose members all have their parents in it lost one to a cut ...  *)
LEMMA ClosedIsCut ==
  ASSUME NEW in, NEW nd, NEW raised, IsCompiled(in, nd, raised), NEW T, T # {}, ClosedUnder(in, T)
  PROVE  \E b \in T : Loosed(in, raised, b, nd[b])
<1> SUFFICES ASSUME \A b \in T : ~ Loosed(in, raised, b, nd[b]) PROVE FALSE
  OBVIOUS
<1>1. T \subseteq DOMAIN nd
  BY DEF ClosedUnder, Settles, IsCompiled
<1>2. ASSUME NEW a \in T PROVE nd[a].parent \in T
  <2>1. PICK r, p : Settles(in, a, r, p) /\ p \in T
    BY DEF ClosedUnder
  <2>2. Decided(in, a, nd[a])
    BY <1>1 DEF IsCompiled
  <2> QED BY <2>1, <2>2 DEF Decided
<1> QED BY <1>1, <1>2 DEF IsCompiled
(* ... and a loop that meets it lies within it.                            *)
LEMMA RingLiesWithin ==
  ASSUME NEW in, NEW c, IsRing(in, c), NEW T, ClosedUnder(in, T), NEW b \in T, b \in c
  PROVE  c \subseteq T
<1>1. T \cap c \in SUBSET c /\ T \cap c # {}
  OBVIOUS
<1>2. ASSUME NEW x \in T \cap c, NEW r, NEW p, Settles(in, x, r, p) PROVE p \in T \cap c
  <2>1. PICK s, q : Settles(in, x, s, q) /\ q \in T
    BY DEF ClosedUnder
  <2>2. PICK u, v : Settles(in, x, u, v) /\ v \in c
    BY DEF IsRing
  <2>3. p = q /\ p = v
    BY <1>2, <2>1, <2>2, SettledOnce
  <2> QED BY <2>1, <2>2, <2>3
<1>3. T \cap c = c
  BY <1>1, <1>2 DEF IsRing
<1> QED BY <1>3

LEMMA UpIsParent ==
  ASSUME NEW in, NEW nd, NEW raised, IsCompiled(in, nd, raised), NEW a \in DOMAIN nd
  PROVE  /\ Up(nd, a) = nd[a].parent /\ nd[a].parent \in DOMAIN nd \cup {None}
         /\ nd[a].parent # None => \E r : Settles(in, a, r, nd[a].parent)
<1>1. ASSUME nd[a].parent # None PROVE nd[a].status = "resolved" /\ \E r : Settles(in, a, r, nd[a].parent)
  <2>1. Decided(in, a, nd[a])
    BY <1>1 DEF IsCompiled, Loosed
  <2> QED BY <1>1, <2>1 DEF Decided
<1>2. nd[a].parent # None => nd[a].parent \in DOMAIN nd
  BY <1>1 DEF Settles, IsCompiled
<1> QED BY <1>1, <1>2 DEF Up

(* Ancestors, one link at a time.                                          *)
LEMMA AncestorsStep ==
  ASSUME NEW nd, NEW a \in DOMAIN nd, Up(nd, a) \in DOMAIN nd \cup {None}
  PROVE  /\ a \in AncestorsIn(nd, a)
         /\ Up(nd, a) # None => Up(nd, a) \in AncestorsIn(nd, a)
         /\ \A b \in AncestorsIn(nd, a) : b # a => Up(nd, a) # None /\ b \in AncestorsIn(nd, Up(nd, a))
<1>1. a \in AncestorsIn(nd, a)
  BY DEF AncestorsIn
<1>2. Up(nd, a) # None => Up(nd, a) \in AncestorsIn(nd, a)
  BY DEF AncestorsIn
<1>3. ASSUME NEW b \in AncestorsIn(nd, a), b # a PROVE Up(nd, a) # None /\ b \in AncestorsIn(nd, Up(nd, a))
  <2>1. ASSUME Up(nd, a) = None PROVE FALSE
    <3>1. {a} \in SUBSET DOMAIN nd /\ a \in {a} /\ \A x \in {a} : Up(nd, x) \in {a} \cup {None}
      BY <2>1
    <3>2. b \in {a}
      BY <3>1 DEF AncestorsIn
    <3> QED BY <1>3, <3>2
  <2>2. ASSUME NEW S \in SUBSET DOMAIN nd, Up(nd, a) \in S, \A x \in S : Up(nd, x) \in S \cup {None} PROVE b \in S
    <3>1. S \cup {a} \in SUBSET DOMAIN nd /\ a \in S \cup {a}
          /\ \A x \in S \cup {a} : Up(nd, x) \in (S \cup {a}) \cup {None}
      BY <2>2
    <3>2. b \in S \cup {a}
      BY <3>1 DEF AncestorsIn
    <3> QED BY <1>3, <3>2
  <2>3. b \in DOMAIN nd
    BY DEF AncestorsIn
  <2> QED BY <2>1, <2>2, <2>3 DEF AncestorsIn
<1> QED BY <1>1, <1>2, <1>3
LEMMA AncestorsCompose ==
  ASSUME NEW nd, NEW a, NEW b \in AncestorsIn(nd, a), NEW c \in AncestorsIn(nd, b) PROVE c \in AncestorsIn(nd, a)
BY DEF AncestorsIn

(* A drag below one's own descendant is undone as the loop it is.          *)
LEMMA LoopComes ==
  ASSUME NEW old, NEW nd, NEW before, IsCompiled(old, nd, before),
         NEW new, NEW now, NEW raised, IsCompiled(new, now, raised),
         NEW drags, Overridden(old, new, drags), NEW m \in drags, Foretold(nd, m), m.preview = "loop",
         NEW r, HeardAt(new, m.child, r), m.above \cap Dragged(drags \ {m}) = {}
  PROVE  \E item \in raised : item.kind = "structural-cycle" /\ m.child \in item.assets
<1>1. /\ m.parent # None /\ m.child \in AncestorsIn(nd, m.parent) /\ m.above = AncestorsIn(nd, m.parent)
      /\ m.child \in DOMAIN nd /\ m.parent \in DOMAIN nd
      /\ DOMAIN nd = new.subjects
  BY DEF Foretold, IsCompiled, Overridden
<1> DEFINE B == {x \in AncestorsIn(nd, m.parent) : m.child \in AncestorsIn(nd, x)}
<1>2. B \subseteq DOMAIN nd /\ m.parent \in B
  <2>1. m.parent \in AncestorsIn(nd, m.parent)
    BY <1>1, UpIsParent, AncestorsStep
  <2> QED BY <1>1, <2>1 DEF AncestorsIn
<1>3. ASSUME NEW x \in B, x # m.child
      PROVE  nd[x].parent \in B /\ \E s : Settles(old, x, s, nd[x].parent) /\ Settles(new, x, s, nd[x].parent)
  <2>1. x \in DOMAIN nd /\ Up(nd, x) = nd[x].parent /\ nd[x].parent \in DOMAIN nd \cup {None}
        /\ (nd[x].parent # None => \E s : Settles(old, x, s, nd[x].parent))
    BY <1>2, UpIsParent
  <2>2. nd[x].parent # None /\ m.child \in AncestorsIn(nd, nd[x].parent) /\ nd[x].parent \in AncestorsIn(nd, x)
    BY <1>3, <2>1, AncestorsStep
  <2>3. nd[x].parent \in B
    BY <2>2, AncestorsCompose
  <2>4. x \notin Dragged(drags)
    BY <1>1, <1>3 DEF Dragged
  <2> QED BY <2>1, <2>2, <2>3, <2>4, SettlesAlike
<1>4. Settles(new, m.child, r, m.parent)
  BY <1>1, DraggedSettles
<1>5. ClosedUnder(new, B)
  BY <1>2, <1>3, <1>4 DEF ClosedUnder
<1> HIDE DEF B
<1>6. PICK b \in B : Loosed(new, raised, b, now[b])
  BY <1>2, <1>5, ClosedIsCut
<1>7. PICK item \in raised : item.kind = "structural-cycle" /\ b \in item.assets
  BY <1>6 DEF Loosed
<1>8. IsRing(new, item.assets) /\ item.assets \subseteq B
  <2>1. IsRing(new, item.assets)
    BY <1>7 DEF IsCompiled
  <2> QED BY <1>5, <1>7, <2>1, RingLiesWithin
<1>9. ASSUME m.child \notin item.assets PROVE FALSE
  <2>1. ASSUME NEW x \in item.assets PROVE nd[x].parent \in item.assets
    <3>1. PICK s : Settles(new, x, s, nd[x].parent)
      BY <1>3, <1>8, <1>9
    <3>2. PICK u, p : Settles(new, x, u, p) /\ p \in item.assets
      BY <1>8 DEF IsRing
    <3> QED BY <3>1, <3>2, SettledOnce
  <2>2. item.assets \in SUBSET DOMAIN nd /\ item.assets # {}
    BY <1>2, <1>7, <1>8
  <2> QED BY <2>1, <2>2 DEF IsCompiled
<1> QED BY <1>7, <1>9

(* A parent foretold is kept, or lost in a loop another drag had a part in. *)
LEMMA ParentComes ==
  ASSUME NEW old, NEW nd, NEW before, IsCompiled(old, nd, before),
         NEW new, NEW now, NEW raised, IsCompiled(new, now, raised),
         NEW drags, Overridden(old, new, drags), NEW m \in drags, Foretold(nd, m), m.preview \notin {"loop", "root"},
         NEW r, HeardAt(new, m.child, r)
  PROVE  \/ Up(now, m.child) = m.parent /\ now[m.child].demotedFrom = None
         \/ \E item \in raised : /\ item.kind = "structural-cycle" /\ m.child \in item.assets
                                 /\ item.assets \cap Dragged(drags \ {m}) # {}
<1>1. /\ m.parent # None /\ m.child \notin AncestorsIn(nd, m.parent) /\ m.child # m.parent
      /\ m.child \in DOMAIN nd /\ m.parent \in DOMAIN nd
      /\ DOMAIN nd = new.subjects /\ DOMAIN now = new.subjects /\ new.subjects = old.subjects
  BY DEF Foretold, IsCompiled, Overridden
<1>2. Settles(new, m.child, r, m.parent)
  BY <1>1, DraggedSettles
<1>3. CASE Decided(new, m.child, now[m.child])
  BY <1>2, <1>3 DEF Decided, HeardAt, Up
<1>4. CASE Loosed(new, raised, m.child, now[m.child])
  <2> PICK item \in raised : /\ item.kind = "structural-cycle" /\ m.child \in item.assets
                             /\ Weakest(new, m.child, item.assets)
    BY <1>4 DEF Loosed
  <2> DEFINE N == item.assets
  <2> SUFFICES ASSUME N \cap Dragged(drags \ {m}) = {} PROVE FALSE
    OBVIOUS
  <2>1. IsRing(new, N)
    BY DEF IsCompiled
  <2>2. N \subseteq DOMAIN nd /\ \A x \in N : \E s, p : Settles(new, x, s, p) /\ p \in N
    BY <1>1, <2>1 DEF IsRing, Settles
  <2>3. ASSUME NEW x \in N, x # m.child PROVE \A s, p : Settles(new, x, s, p) <=> Settles(old, x, s, p)
    <3>1. x \notin Dragged(drags)
      BY <2>3 DEF Dragged
    <3> QED BY <3>1, SettlesAlike
  <2> HIDE DEF N
  <2>4. m.parent \in N
    <3>1. PICK s, p : Settles(new, m.child, s, p) /\ p \in N
      BY <2>2 DEF N
    <3> QED BY <1>2, <3>1, SettledOnce
  <2>5. PICK S \in SUBSET DOMAIN nd :
          m.parent \in S /\ (\A x \in S : Up(nd, x) \in S \cup {None}) /\ m.child \notin S
    BY <1>1 DEF AncestorsIn
  <2> DEFINE T == S \cap N
  <2>6. PICK b \in T : Loosed(old, before, b, nd[b])
    <3> SUFFICES ASSUME \A b \in T : ~ Loosed(old, before, b, nd[b]) PROVE FALSE
      OBVIOUS
    <3>1. ASSUME NEW x \in T PROVE nd[x].parent \in T
      <4>1. Decided(old, x, nd[x]) /\ x # m.child
        BY <2>5, <3>1 DEF IsCompiled
      <4>2. PICK s, p : Settles(new, x, s, p) /\ p \in N
        BY <2>2
      <4>3. Settles(old, x, s, p)
        BY <2>3, <4>1, <4>2
      <4>4. nd[x].parent = p
        BY <4>1, <4>3 DEF Decided
      <4>5. p # None
        BY <4>3 DEF Settles, IsCompiled
      <4>6. Up(nd, x) = p
        BY <4>4, UpIsParent
      <4> QED BY <2>5, <4>2, <4>4, <4>5, <4>6
    <3>2. T \in SUBSET DOMAIN nd /\ m.parent \in T
      BY <2>4, <2>5
    <3> HIDE DEF T
    <3> QED BY <3>1, <3>2 DEF IsCompiled
  <2>7. b # m.child /\ b \in N /\ b \in DOMAIN nd
    BY <2>5
  <2>8. PICK gone \in before : /\ gone.kind = "structural-cycle" /\ b \in gone.assets
                               /\ Weakest(old, b, gone.assets)
    BY <2>6 DEF Loosed
  <2>9. IsRing(old, gone.assets)
    BY <2>8 DEF IsCompiled
  <2>10. m.child \in gone.assets
    <3> SUFFICES ASSUME m.child \notin gone.assets PROVE FALSE
      OBVIOUS
    <3> DEFINE Q == gone.assets \cap N
    <3>1. ASSUME NEW x \in Q PROVE \E s, p : Settles(new, x, s, p) /\ p \in Q
      <4>1. PICK s, p : Settles(old, x, s, p) /\ p \in gone.assets
        BY <2>9 DEF IsRing
      <4>2. PICK u, v : Settles(new, x, u, v) /\ v \in N
        BY <2>2
      <4>3. Settles(old, x, u, v)
        BY <2>3, <4>2
      <4>4. v = p
        BY <4>1, <4>3, SettledOnce
      <4> QED BY <4>1, <4>2, <4>4
    <3>2. b \in Q
      BY <2>7, <2>8
    <3>3. ClosedUnder(new, Q)
      BY <3>1 DEF ClosedUnder
    <3> HIDE DEF Q
    <3>4. N \subseteq Q
      BY <2>1, <2>7, <3>2, <3>3, RingLiesWithin
    <3>5. m.child \in N
      BY DEF N
    <3> QED BY <3>4, <3>5 DEF Q
  <2>11. PICK s, p : Settles(old, m.child, s, p)
    BY <2>9, <2>10 DEF IsRing
  <2>12. PICK t, q : Settles(new, b, t, q)
    BY <2>2, <2>7
  <2>13. Settles(old, b, t, q)
    BY <2>3, <2>7, <2>12
  <2>14. s < t \/ (s = t /\ m.child <= b)
    BY <2>8, <2>10, <2>11, <2>13 DEF Weakest
  <2>15. t < r \/ (t = r /\ b <= m.child)
    BY <1>2, <2>7, <2>12 DEF Weakest, N
  <2>16. s \in Nat /\ t \in Nat /\ r \in Nat /\ s >= 1
    BY <1>2, <2>11, <2>13 DEF Settles
  <2>17. ~ (s < r)
    <3> SUFFICES ASSUME s < r PROVE FALSE
      OBVIOUS
    <3>1. s \in 1..(r - 1)
      BY <2>16
    <3>2. Offers(new, m.child, s) = {}
      BY <3>1 DEF HeardAt
    <3>3. CASE new.ladder[s] # "manual"
      <4>1. Offers(old, m.child, s) = {}
        BY <3>2, <3>3, OffersAlike
      <4> QED BY <2>11, <4>1 DEF Settles
    <3>4. CASE new.ladder[s] = "manual"
      <4>1. HeardAt(new, m.child, s)
        <5>1. s \in DOMAIN new.ladder
          BY <2>11 DEF Settles, Overridden
        <5>2. \A i \in 1..(s - 1) : i \in 1..(r - 1)
          BY <2>16
        <5> QED BY <3>4, <5>1, <5>2 DEF HeardAt
      <4>2. Settles(new, m.child, s, m.parent)
        BY <1>1, <4>1, DraggedSettles
      <4> QED BY <3>2, <4>2 DEF Settles
    <3> QED BY <3>3, <3>4
  <2>18. b <= m.child /\ m.child <= b
    BY <2>14, <2>15, <2>16, <2>17
  <2>19. b \in Int /\ m.child \in Int
    BY <1>1, <2>7 DEF IsCompiled
  <2> QED BY <2>7, <2>18, <2>19
<1> QED BY <1>1, <1>3, <1>4 DEF IsCompiled
=============================================================================
