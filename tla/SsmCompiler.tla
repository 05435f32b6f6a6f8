---------------------------- MODULE SsmCompiler ----------------------------
(***************************************************************************)
(* packages/ssm-compiler: from assets, their stated attributes and the     *)
(* competing claims about them to one structural parent for each asset.    *)
(*                                                                         *)
(* compileSnapshot works in four stretches, the value of phase:            *)
(*   resolve  each asset walks the parent ladder, strongest rung first     *)
(*   search   the loops of the chosen parents are found                    *)
(*   cut      each loop loses the parent least worth keeping               *)
(*   arrange  hierarchyTree nests every asset under its parent             *)
(* One action is one turn of one of the loops of the code.  An asset is a  *)
(* number, and numbers are in the order of the asset ids they stand for.   *)
(* What a claim was read from, and the labels of the level tree, are left  *)
(* out: no decision depends on them.                                       *)
(***************************************************************************)
EXTENDS EngineValues, Integers, Sequences, FiniteSets

CONSTANTS
  Assets,   \* every asset id, in a compile or only named by a claim
  Keys,     \* attributes a level of the hierarchy may address
  Values    \* what a source may state for one

ASSUME SsmCompilerAssumption ==
  Assets \subseteq Int /\ None \notin Assets /\ None \notin Values

LadderSources == {"manual", "explicit-model", "profile-lookup", "flow-family", "family-role",
                  "learned-description", "prior-ssm", "model-tree"}
Policies == {"unassigned-group", "review", "provisional-root"}
Wirings  == {"POWERS", "WIRED_TO", "CONTROLS"}

Claims == [subject : Assets, target : Assets, source : LadderSources]
ASSUME NoneIsNoClaim == None \notin Claims /\ None \notin LadderSources
Wires  == [subject : Assets, target : Assets, type : Wirings]
Levels == [key : Keys, boundary : BOOLEAN, policy : Policies]
IsCompileInput(i) ==
  /\ i.subjects \subseteq Assets
  /\ i.attributes \in [i.subjects -> [Keys -> Values \cup {None}]]
  /\ i.modelTree \in [i.subjects -> Assets \cup {None}]
  /\ i.structural \subseteq Claims /\ i.dependencies \subseteq Wires
  /\ i.makeRoot \subseteq Assets
  /\ i.levels \in Seq(Levels) /\ i.ladder \in Seq(LadderSources)

VARIABLES
  input,    \* the CompileInput, None before the call
  phase,
  walk,     \* the locals of resolveSubject, None between assets
  node,     \* the resolved assets
  demotions,\* parents demoted so far, as the statistics count them
  reviews,  \* the review items raised
  path,     \* the locals of findCycles: the chain walked,
  current,  \*   where it leads next,
  settled,  \*   the assets on the chains already walked,
  cycles,   \*   and the loops found and not yet cut
  pending,  \* assets hierarchyTree has yet to visit
  shown     \* assets it has placed

walkVars   == <<walk, node, demotions>>
searchVars == <<path, current, settled>>
treeVars   == <<pending, shown>>
ssmVars    == <<input, phase, walkVars, reviews, searchVars, cycles, treeVars>>

Statuses == {"root", "resolved", "unresolved", "provisional-root"}
Depends  == [parent : Assets, type : Wirings \cup {"DEPENDENCY"},
             rule : {"connected", "boundaryDemotion"}]
Decision == [parent : Assets \cup {None}, source : LadderSources \cup {None}, status : Statuses,
             winner : Claims \cup {None}, demotedFrom : Assets \cup {None},
             dependencies : SUBSET Depends, losers : SUBSET Claims]
Walks    == [asset : Assets, rung : Nat \ {0}, parent : Assets \cup {None},
             source : LadderSources \cup {None}, status : Statuses,
             winner : Claims \cup {None}, demotedFrom : Assets \cup {None},
             demoted : SUBSET Assets, dependencies : SUBSET Depends]
Reviews  ==
  [kind : {"ambiguous-parent"}, asset : Assets, candidates : SUBSET Assets]
  \cup [kind : {"missing-boundary"}, asset : Assets, level : Nat]
  \cup [kind : {"structural-cycle"}, assets : SUBSET Assets]

------------------------------------------------------------------------------
(* The claims about an asset, the model tree's suggestion among them.  A   *)
(* claim on an asset outside the compile stays in the pool and never wins. *)
Pool(a) ==
  {c \in input.structural : c.subject = a}
  \cup {[subject |-> a, target |-> t, source |-> "model-tree"] :
          t \in {input.modelTree[a]} \ {None, a}}
Candidates(a, r) ==
  {c.target : c \in {d \in Pool(a) : d.source = input.ladder[r] /\ d.target \in input.subjects}}
Connections(a) ==
  {[parent |-> w.target, type |-> w.type, rule |-> "connected"] :
     w \in {v \in input.dependencies : v.subject = a}}

(* The boundary fold.  A difference at any boundary outranks an unknown at *)
(* another, and an unknown never equals an unknown.                        *)
Boundaries == {l \in 1..Len(input.levels) : input.levels[l].boundary}
Stated(a, l) == input.attributes[a][input.levels[l].key]
Differs(a, p) ==
  {l \in Boundaries : None \notin {Stated(a, l), Stated(p, l)} /\ Stated(a, l) # Stated(p, l)}
(* Faulty: two blanks are equal.                                           *)
UnknownOnOneSide(a, p) ==
  {l \in Boundaries : (Stated(a, l) = None) # (Stated(p, l) = None)}
Unknown(a, p) == {l \in Boundaries : None \in {Stated(a, l), Stated(p, l)}}
Outcome(a, p) ==
  IF Differs(a, p) # {} THEN "demote" ELSE IF Unknown(a, p) # {} THEN "missing" ELSE "keep"

(* Faulty: the policy's name is taken for the status.                      *)
StatusIsPolicy(p) == p
StatusForPolicy(p) ==
  CASE p = "unassigned-group" -> "root" [] p = "review" -> "unresolved" [] OTHER -> p

TierIndex(s) ==
  IF s \in {input.ladder[i] : i \in DOMAIN input.ladder}
  THEN CHOOSE i \in DOMAIN input.ladder :
         input.ladder[i] = s /\ \A j \in DOMAIN input.ladder : input.ladder[j] = s => i <= j
  ELSE Len(input.ladder) + 1
------------------------------------------------------------------------------
SsmInit ==
  /\ input = None /\ phase = "idle" /\ walk = None /\ node = <<>>
  /\ demotions = 0 /\ reviews = {}
  /\ path = <<>> /\ current = None /\ settled = {} /\ cycles = {}
  /\ pending = {} /\ shown = {}

(* compileSnapshot is called.                                              *)
Start ==
  /\ phase = "idle" /\ phase' = "resolve"
  /\ IsCompileInput(input')
  /\ UNCHANGED <<walkVars, reviews, searchVars, cycles, treeVars>>

(* resolveSubject, for the next asset in id order.  A make-root directive  *)
(* leaves no rung to walk.                                                 *)
NewWalk(a) ==
  [asset |-> a, rung |-> IF a \in input.makeRoot THEN Len(input.ladder) + 1 ELSE 1,
   parent |-> None, source |-> None, status |-> "root", winner |-> None,
   demotedFrom |-> None, demoted |-> {}, dependencies |-> Connections(a)]
StartWalk ==
  /\ phase = "resolve" /\ walk = None
  /\ \E a \in input.subjects :
       /\ IsFirst(a, input.subjects \ DOMAIN node)
       /\ walk' = NewWalk(a)
  /\ UNCHANGED <<input, phase, node, demotions, reviews, searchVars, cycles, treeVars>>

OnRung == phase = "resolve" /\ walk # None /\ walk.rung <= Len(input.ladder)
Offered == Candidates(walk.asset, walk.rung)
Source  == input.ladder[walk.rung]
Off     == Len(input.ladder) + 1
walkFrame == <<input, phase, node, demotions, searchVars, cycles, treeVars>>

(* Nobody is named on this rung.                                           *)
SkipRung ==
  /\ OnRung /\ Offered = {}
  /\ walk' = [walk EXCEPT !.rung = @ + 1]
  /\ UNCHANGED <<walkFrame, reviews>>
(* Faulty: a tie is left for the next rung to break.                       *)
SkipTie ==
  /\ OnRung /\ \E p, q \in Offered : p # q
  /\ walk' = [walk EXCEPT !.status = "unresolved", !.rung = @ + 1]
  /\ reviews' = reviews \cup
       {[kind |-> "ambiguous-parent", asset |-> walk.asset, candidates |-> Offered]}
  /\ UNCHANGED walkFrame
(* Two are: a tie, which no weaker rung may break.                         *)
StopAtTie ==
  /\ OnRung /\ \E p, q \in Offered : p # q
  /\ walk' = [walk EXCEPT !.status = "unresolved", !.rung = Off]
  /\ reviews' = reviews \cup
       {[kind |-> "ambiguous-parent", asset |-> walk.asset, candidates |-> Offered]}
  /\ UNCHANGED walkFrame
(* One is, on the right side of every boundary or named by hand.           *)
KeepParent ==
  /\ OnRung
  /\ \E p \in Offered :
       /\ Offered = {p}
       /\ Source = "manual" \/ Outcome(walk.asset, p) = "keep"
       /\ walk' = [walk EXCEPT !.parent = p, !.source = Source, !.status = "resolved",
                     !.winner = [subject |-> walk.asset, target |-> p, source |-> Source],
                     !.rung = Off]
  /\ UNCHANGED <<walkFrame, reviews>>
(* One is, across a boundary: it becomes a dependency, once, and the walk  *)
(* goes on below.                                                          *)
DemoteParent ==
  /\ OnRung
  /\ \E p \in Offered :
       /\ Offered = {p} /\ Source # "manual" /\ Outcome(walk.asset, p) = "demote"
       /\ walk' = [walk EXCEPT
             !.rung = @ + 1, !.demoted = @ \cup {p},
             !.demotedFrom = IF @ = None THEN p ELSE @,
             !.dependencies = @ \cup
               {[parent |-> p, type |-> "DEPENDENCY", rule |-> "boundaryDemotion"]}]
  /\ UNCHANGED <<walkFrame, reviews>>
(* Faulty: only the child's missing value is reported.                     *)
StopAtUnknownOfChild ==
  /\ OnRung
  /\ \E p \in Offered, l \in Boundaries :
       /\ Offered = {p} /\ Source # "manual" /\ Outcome(walk.asset, p) = "missing"
       /\ IsFirst(l, Unknown(walk.asset, p))
       /\ walk' = [walk EXCEPT !.status = StatusForPolicy(input.levels[l].policy), !.rung = Off]
       /\ reviews' = reviews \cup
            {[kind |-> "missing-boundary", asset |-> b, level |-> l] :
               b \in {c \in {walk.asset} : Stated(c, l) = None}}
  /\ UNCHANGED walkFrame

(* One is, and a boundary cannot be compared: the walk ends without it.    *)
StopAtUnknown ==
  /\ OnRung
  /\ \E p \in Offered, l \in Boundaries :
       /\ Offered = {p} /\ Source # "manual" /\ Outcome(walk.asset, p) = "missing"
       /\ IsFirst(l, Unknown(walk.asset, p))
       /\ walk' = [walk EXCEPT !.status = StatusForPolicy(input.levels[l].policy), !.rung = Off]
       /\ reviews' = reviews \cup
            {[kind |-> "missing-boundary", asset |-> b, level |-> l] :
               b \in {c \in {walk.asset, p} : Stated(c, l) = None}}
  /\ UNCHANGED walkFrame

DecisionOf(w) ==
  [parent |-> w.parent, source |-> w.source, status |-> w.status, winner |-> w.winner,
   demotedFrom |-> w.demotedFrom, dependencies |-> w.dependencies,
   losers |-> Pool(w.asset) \ {w.winner}]
(* Faulty: a parent demoted on two rungs is counted twice.                 *)
EndWalkCountingRungs ==
  /\ phase = "resolve" /\ walk # None /\ walk.rung > Len(input.ladder)
  /\ node' = [a \in DOMAIN node \cup {walk.asset} |->
                IF a = walk.asset THEN DecisionOf(walk) ELSE node[a]]
  /\ demotions' = demotions + Cardinality({r \in DOMAIN input.ladder :
                     Candidates(walk.asset, r) \cap walk.demoted # {}})
  /\ walk' = None
  /\ UNCHANGED <<input, phase, reviews, searchVars, cycles, treeVars>>
EndWalk ==
  /\ phase = "resolve" /\ walk # None /\ walk.rung > Len(input.ladder)
  /\ node' = [a \in DOMAIN node \cup {walk.asset} |->
                IF a = walk.asset THEN DecisionOf(walk) ELSE node[a]]
  /\ demotions' = demotions + Cardinality(walk.demoted)
  /\ walk' = None
  /\ UNCHANGED <<input, phase, reviews, searchVars, cycles, treeVars>>
------------------------------------------------------------------------------
ParentOf(a) == IF node[a].parent \in DOMAIN node THEN node[a].parent ELSE None
OnPath == {path[i] : i \in DOMAIN path}

StartSearch ==
  /\ phase = "resolve" /\ walk = None /\ DOMAIN node = input.subjects
  /\ phase' = "search"
  /\ UNCHANGED <<input, walkVars, reviews, searchVars, cycles, treeVars>>
(* findCycles: a chain of parents from the next asset not yet settled ...  *)
StartPath ==
  /\ phase = "search" /\ path = <<>>
  /\ \E a \in input.subjects :
       /\ IsFirst(a, input.subjects \ settled)
       /\ path' = <<a>> /\ current' = ParentOf(a)
  /\ UNCHANGED <<input, phase, walkVars, reviews, settled, cycles, treeVars>>
FollowParent ==
  /\ phase = "search" /\ path # <<>>
  /\ current # None /\ current \notin settled \cup OnPath
  /\ path' = Append(path, current) /\ current' = ParentOf(current)
  /\ UNCHANGED <<input, phase, walkVars, reviews, settled, cycles, treeVars>>
(* Faulty: the chain that led to the loop is taken for part of it.         *)
EndPathWithLead ==
  /\ phase = "search" /\ path # <<>>
  /\ current = None \/ current \in settled \cup OnPath
  /\ cycles' = cycles \cup {OnPath : i \in {k \in DOMAIN path : path[k] = current}}
  /\ settled' = settled \cup OnPath
  /\ path' = <<>> /\ current' = None
  /\ UNCHANGED <<input, phase, walkVars, reviews, treeVars>>
(* ... until it ends, meets a chain walked before, or closes a loop.       *)
EndPath ==
  /\ phase = "search" /\ path # <<>>
  /\ current = None \/ current \in settled \cup OnPath
  /\ cycles' = cycles \cup {{path[j] : j \in i..Len(path)} : i \in {k \in DOMAIN path : path[k] = current}}
  /\ settled' = settled \cup OnPath
  /\ path' = <<>> /\ current' = None
  /\ UNCHANGED <<input, phase, walkVars, reviews, treeVars>>
EndSearch ==
  /\ phase = "search" /\ path = <<>> /\ settled = input.subjects
  /\ phase' = "cut"
  /\ UNCHANGED <<input, walkVars, reviews, searchVars, cycles, treeVars>>

(* The weakest rung, then the largest id, loses its parent.  The loops     *)
(* share no asset, so the order they are cut in is immaterial.             *)
Rank(a) == IF node[a].source = None THEN Len(input.ladder) + 1 ELSE TierIndex(node[a].source)
IsWeakest(a, c) ==
  a \in c /\ \A b \in c : Rank(b) < Rank(a) \/ (Rank(b) = Rank(a) /\ b <= a)
(* Faulty: the claim that had won is forgotten with the parent.            *)
DowngradedForgetting(d) ==
  [d EXCEPT !.parent = None, !.source = None, !.status = "unresolved", !.winner = None]
Downgraded(d) ==
  [d EXCEPT !.parent = None, !.source = None, !.status = "unresolved", !.winner = None,
            !.losers = @ \cup ({d.winner} \ {None})]
CutCycle ==
  /\ phase = "cut"
  /\ \E c \in cycles : \E a \in c :
       /\ IsWeakest(a, c)
       /\ node' = [node EXCEPT ![a] = Downgraded(@)]
       /\ cycles' = cycles \ {c}
       /\ reviews' = reviews \cup {[kind |-> "structural-cycle", assets |-> c]}
  /\ UNCHANGED <<input, phase, walk, demotions, searchVars, treeVars>>
------------------------------------------------------------------------------
(* hierarchyTree: the assets without a parent are placed by their own      *)
(* level path, every other under its parent; an asset is entered once.     *)
Children(a) == {b \in DOMAIN node : node[b].parent = a}
(* Faulty: the tree is hung on the assets whose status says root.          *)
StartTreeAtRoots ==
  /\ phase = "cut" /\ cycles = {}
  /\ phase' = "arrange"
  /\ pending' = {a \in DOMAIN node : node[a].status = "root"}
  /\ UNCHANGED <<input, walkVars, reviews, searchVars, cycles, shown>>
StartTree ==
  /\ phase = "cut" /\ cycles = {}
  /\ phase' = "arrange"
  /\ pending' = {a \in DOMAIN node : node[a].parent \notin DOMAIN node}
  /\ UNCHANGED <<input, walkVars, reviews, searchVars, cycles, shown>>
ShowAsset ==
  /\ phase = "arrange"
  /\ \E a \in pending :
       /\ IsFirst(a, pending)
       /\ shown' = shown \cup {a}
       /\ pending' = (pending \cup Children(a)) \ shown'
  /\ UNCHANGED <<input, phase, walkVars, reviews, searchVars, cycles>>
EndTree ==
  /\ phase = "arrange" /\ pending = {}
  /\ phase' = "done"
  /\ UNCHANGED <<input, walkVars, reviews, searchVars, cycles, treeVars>>

(* The caller reads the result and compiles again: nothing is left of the  *)
(* call before.                                                            *)
Reset ==
  /\ phase = "done" /\ phase' = "idle" /\ input' = None
  /\ walk' = None /\ node' = <<>> /\ demotions' = 0 /\ reviews' = {}
  /\ path' = <<>> /\ current' = None /\ settled' = {} /\ cycles' = {}
  /\ pending' = {} /\ shown' = {}

Resolve == StartWalk \/ SkipRung \/ StopAtTie \/ KeepParent \/ DemoteParent \/ StopAtUnknown \/ EndWalk
Search  == StartSearch \/ StartPath \/ FollowParent \/ EndPath \/ EndSearch
Arrange == StartTree \/ ShowAsset \/ EndTree
SsmSteps == Resolve \/ Search \/ CutCycle \/ Arrange
SsmNext == Start \/ SsmSteps \/ Reset
SsmSpec == SsmInit /\ [][SsmNext]_ssmVars
------------------------------------------------------------------------------
(* The variables hold what their comments say.                             *)
SsmTypeOK ==
  /\ phase \in {"idle", "resolve", "search", "cut", "arrange", "done"}
  /\ phase # "idle" => IsCompileInput(input)
  /\ walk \in Walks \cup {None}
  /\ DOMAIN node \subseteq Assets /\ node \in [DOMAIN node -> Decision]
  /\ demotions \in Nat /\ reviews \subseteq Reviews
  /\ path \in Seq(Assets) /\ current \in Assets \cup {None} /\ settled \subseteq Assets
  /\ cycles \subseteq SUBSET Assets
  /\ pending \subseteq Assets /\ shown \subseteq Assets

(* A tie stops the ladder, an unknown stops it, a demotion does not: an    *)
(* asset has the parent of a rung only when each stronger rung named       *)
(* nobody, or one asset across a boundary (the rules in compile.ts:7-18).  *)
Passed(a, i) ==
  \/ Candidates(a, i) = {}
  \/ /\ input.ladder[i] # "manual"
     /\ \E p \in input.subjects : Candidates(a, i) = {p} /\ Differs(a, p) # {}
StrongerRungsSpent ==
  \A a \in DOMAIN node : node[a].parent # None =>
    \E r \in 1..Len(input.ladder) :
      /\ input.ladder[r] = node[a].source
      /\ Candidates(a, r) = {node[a].parent}
      /\ \A i \in 1..(r - 1) : Passed(a, i)

(* Boundaries are hard: nothing but a parent set by hand nests across one, *)
(* and two assets nobody located are not in one place.                     *)
BoundariesAreHard ==
  \A a \in DOMAIN node : node[a].parent # None /\ node[a].source # "manual" =>
    \A l \in Boundaries : Stated(a, l) # None /\ Stated(a, l) = Stated(node[a].parent, l)

(* Nothing is dropped: every claim about an asset is the one that won its  *)
(* slot or is kept on the asset as one that lost, through the cuts too.    *)
EveryClaimKept ==
  \A a \in DOMAIN node :
    /\ node[a].losers = Pool(a) \ {node[a].winner}
    /\ node[a].winner # None =>
         /\ node[a].winner \in Pool(a)
         /\ node[a].parent = node[a].winner.target /\ node[a].source = node[a].winner.source

(* A demotion shows as one dependency and counts once, however many rungs  *)
(* name the parent: the statistic agrees with the dependency lists.        *)
Demotions(a) == {d \in node[a].dependencies : d.rule = "boundaryDemotion"}
DemotionsAreCounted ==
  phase # "idle" /\ walk = None =>
    demotions = Cardinality(UNION {{a} \X Demotions(a) : a \in DOMAIN node})

(* Downgrading one asset of each loop is a complete fix: when the tree is  *)
(* built, no set of assets has all its parents within itself.              *)
Closed(S) == \A a \in S : ParentOf(a) \in S
NoLoopLeft ==
  phase \in {"arrange", "done"} =>
    \A S \in SUBSET input.subjects : S # {} => ~Closed(S)

(* A loop costs one parent and not more, and the one from the rung the     *)
(* site trusts least: every other asset of it keeps its own.               *)
OneCutPerLoop ==
  \A item \in reviews : item.kind = "structural-cycle" =>
    \E a \in item.assets :
      /\ node[a].parent = None
      /\ \A b \in item.assets \ {a} :
           /\ node[b].parent \in item.assets
           /\ \E c \in node[a].losers :
                /\ c.target \in item.assets
                /\ TierIndex(c.source) >= TierIndex(node[b].source)

(* A loop is cut once, and once is enough (order.ts, compile.ts:387).      *)
LoopsAreCut == NoLoopLeft /\ OneCutPerLoop

(* The tree shows every asset of the compile.                              *)
EveryAssetShown == phase = "done" => shown = input.subjects

(* Whoever is left without a parent can see why in the review queue: a tie *)
(* of their own, a loop they are on, or a value missing on one of the two  *)
(* assets compared.                                                        *)
UnresolvedIsExplained ==
  \A a \in DOMAIN node : node[a].status \in {"unresolved", "provisional-root"} =>
    \E item \in reviews :
      \/ item.kind = "ambiguous-parent" /\ item.asset = a
      \/ item.kind = "structural-cycle" /\ a \in item.assets
      \/ /\ item.kind = "missing-boundary"
         /\ item.asset \in {a} \cup {c.target : c \in node[a].losers}
=============================================================================
