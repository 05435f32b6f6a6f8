--------------------------- MODULE ElectricalFlow ---------------------------
(***************************************************************************)
(* packages/electrical-flow: the physical graph the connectivity sources   *)
(* state, its loops, and the source-to-load tree a reader walks.           *)
(*                                                                         *)
(*   place   buildNodeDrafts reads one observation at a time, in whatever  *)
(*           order the workbooks gave them                                 *)
(*   search  stronglyConnectedComponents, Tarjan's algorithm on a stack of *)
(*           its own                                                       *)
(*   loops   representativeCycle names one loop of each component          *)
(*   built   the projection stands; walkSourceToLoad may be asked for one  *)
(*                                                                         *)
(* A node is an asset or a spelling nothing placed; both are numbers, in   *)
(* the order of the ids they stand for, and may coincide: `tag:<spelling>` *)
(* and an asset id share a shape.                                          *)
(***************************************************************************)
EXTENDS EngineValues, Integers, Sequences, FiniteSets, SequencesExt

VARIABLES
  evidence,   \* the observations: [from, to, kind, type, place]
  outcomes,   \* what identity made of each spelling
  flowStep,   \* idle / place / search / loops / built
  unread,     \* observations whose ends are not yet nodes
  nodeOf,     \* spelling -> node
  drafts,     \* node -> draft
  call,       \* Tarjan: the frames,
  stack,      \*   the nodes not yet in a component,
  index,      \*   when each node was met
  lowLink,    \*   and the earliest it is known to reach
  components, \* those of two nodes and more, until their loop is named
  ring,       \* the one whose loop is being sought, {} for none
  queue,      \* the breadth-first search of it,
  cameFrom,   \*   and from where it reached a node
  loops,      \* the loops named
  tree,       \* the visits of a source-to-load walk
  branches    \* its stack of frames

flowVars == <<evidence, outcomes, flowStep, unread, nodeOf, drafts, call, stack, index, lowLink,
              components, ring, queue, cameFrom, loops, tree, branches>>
graphVars  == <<evidence, outcomes, unread, nodeOf, drafts>>
tarjanVars == <<call, stack, index, lowLink>>
ringVars   == <<ring, queue, cameFrom, loops>>
browseVars == <<tree, branches>>

Endpoints(obs) == {o.from : o \in obs} \cup {o.to : o \in obs}

FlowInit ==
  /\ evidence = {} /\ outcomes = <<>> /\ flowStep = "idle"
  /\ unread = {} /\ nodeOf = <<>> /\ drafts = <<>>
  /\ call = <<>> /\ stack = <<>> /\ index = <<>> /\ lowLink = <<>>
  /\ components = {} /\ ring = {} /\ queue = <<>> /\ cameFrom = <<>> /\ loops = {}
  /\ tree = <<>> /\ branches = <<>>
------------------------------------------------------------------------------
(* The next compile keeps nothing of the flow of the last.                 *)
DropFlow ==
  /\ evidence' = {} /\ outcomes' = <<>> /\ flowStep' = "idle"
  /\ unread' = {} /\ nodeOf' = <<>> /\ drafts' = <<>>
  /\ call' = <<>> /\ stack' = <<>> /\ index' = <<>> /\ lowLink' = <<>>
  /\ components' = {} /\ ring' = {} /\ queue' = <<>> /\ cameFrom' = <<>> /\ loops' = {}
  /\ tree' = <<>> /\ branches' = <<>>
IsMatched(s) == outcomes[s].asset # None
UnmatchedRank == 7
SpellingRank(s) == IF IsMatched(s) THEN outcomes[s].tier ELSE UnmatchedRank
NodeId(s) == IF IsMatched(s) THEN outcomes[s].asset ELSE s
(* A tag seen in a cable schedule and in the PMD is flow-only.             *)
UnmatchedStatus(s) ==
  IF \E o \in evidence : o.kind = "feed" /\ s \in {o.from, o.to} THEN "flow-only" ELSE "pmd-only"

NewDraft(s) ==
  [tags |-> {s}, asset |-> outcomes[s].asset, tier |-> SpellingRank(s),
   status |-> IF IsMatched(s) THEN "model-confirmed" ELSE UnmatchedStatus(s),
   display |-> s, rank |-> SpellingRank(s)]
(* Faulty: the first spelling decides whether the node is an asset.        *)
JoinWithoutPromotion(d, s) ==
  LET closer == \/ SpellingRank(s) < d.rank
                \/ SpellingRank(s) = d.rank /\ s < d.display
  IN  [d EXCEPT !.tags = @ \cup {s},
                !.tier = IF SpellingRank(s) < @ THEN SpellingRank(s) ELSE @,
                !.display = IF closer THEN s ELSE @,
                !.rank = IF closer THEN SpellingRank(s) ELSE @]
(* A node an unplaced spelling created can still turn out to be an asset.  *)
JoinDraft(d, s) ==
  LET promoted == IsMatched(s) /\ d.asset = None
      closer   == \/ SpellingRank(s) < d.rank
                  \/ SpellingRank(s) = d.rank /\ s < d.display
  IN  [tags    |-> d.tags \cup {s},
       asset   |-> IF promoted THEN outcomes[s].asset ELSE d.asset,
       status  |-> IF promoted THEN "model-confirmed" ELSE d.status,
       tier    |-> IF SpellingRank(s) < d.tier THEN SpellingRank(s) ELSE d.tier,
       display |-> IF closer THEN s ELSE d.display,
       rank    |-> IF closer THEN SpellingRank(s) ELSE d.rank]
PlaceEnd(map, s) ==
  [n \in DOMAIN map \cup {NodeId(s)} |->
     IF n # NodeId(s) THEN map[n]
     ELSE IF n \in DOMAIN map THEN JoinDraft(map[n], s) ELSE NewDraft(s)]

(* buildElectricalFlow is called.                                          *)
StartFlow ==
  /\ flowStep = "idle" /\ flowStep' = "place"
  /\ unread' = evidence'
  /\ UNCHANGED <<nodeOf, drafts, tarjanVars, components, ringVars, browseVars>>
PlaceObservation ==
  /\ flowStep = "place"
  /\ \E o \in unread :
       /\ unread' = unread \ {o}
       /\ nodeOf' = [s \in DOMAIN nodeOf \cup {o.from, o.to} |->
                       IF s \in {o.from, o.to} THEN NodeId(s) ELSE nodeOf[s]]
       /\ drafts' = PlaceEnd(PlaceEnd(drafts, o.from), o.to)
  /\ UNCHANGED <<evidence, outcomes, flowStep, tarjanVars, components, ringVars, browseVars>>
EndPlace ==
  /\ flowStep = "place" /\ unread = {} /\ flowStep' = "search"
  /\ UNCHANGED <<graphVars, tarjanVars, components, ringVars, browseVars>>

(* One edge per observation, but for those identity collapsed onto one     *)
(* node; loops are looked for along feeds alone.                           *)
Edges == {o \in evidence : nodeOf[o.from] # nodeOf[o.to]}
SelfLoops == evidence \ Edges
Feeds(n) == {nodeOf[o.to] : o \in {e \in Edges : e.kind = "feed" /\ nodeOf[e.from] = n}}
Ascending(S) ==
  CHOOSE p \in [1..Cardinality(S) -> S] : \A i, j \in DOMAIN p : i < j => p[i] < p[j]
------------------------------------------------------------------------------
(* Tarjan's frame: a node and the successors still to be tried, ascending. *)
Frame(n) == [node |-> n, untried |-> Feeds(n)]
Top      == call[Len(call)]
InStack  == Range(stack)
Met(f, n) == [m \in DOMAIN f \cup {n} |-> IF m = n THEN Cardinality(DOMAIN index) ELSE f[m]]
MeetNode(n) ==
  /\ index' = Met(index, n)
  /\ lowLink' = Met(lowLink, n)
  /\ stack' = Append(stack, n)
Lower(n, k) == [lowLink EXCEPT ![n] = IF k < @ THEN k ELSE @]

StartRoot ==
  /\ flowStep = "search" /\ call = <<>> /\ DOMAIN drafts # DOMAIN index
  /\ LET n == Min(DOMAIN drafts \ DOMAIN index) IN MeetNode(n) /\ call' = <<Frame(n)>>
  /\ UNCHANGED <<graphVars, flowStep, components, ringVars, browseVars>>
TrySuccessor ==
  /\ flowStep = "search" /\ call # <<>> /\ Top.untried # {}
  /\ LET t == Min(Top.untried)
         tried == [call EXCEPT ![Len(call)].untried = @ \ {t}]
     IN  \/ t \notin DOMAIN index /\ MeetNode(t) /\ call' = Append(tried, Frame(t))
         \/ /\ t \in DOMAIN index /\ call' = tried
            /\ lowLink' = IF t \in InStack THEN Lower(Top.node, index[t]) ELSE lowLink
            /\ UNCHANGED <<stack, index>>
  /\ UNCHANGED <<graphVars, flowStep, components, ringVars, browseVars>>
Return ==
  /\ flowStep = "search" /\ call # <<>> /\ Top.untried = {}
  /\ call' = Front(call)
  /\ lowLink' = IF Len(call) = 1 THEN lowLink
                ELSE Lower(call[Len(call) - 1].node, lowLink[Top.node])
  /\ LET from == CHOOSE i \in DOMAIN stack : stack[i] = Top.node
         component == {stack[i] : i \in from..Len(stack)}
         complete == lowLink[Top.node] = index[Top.node]
     IN  /\ stack' = IF complete THEN SubSeq(stack, 1, from - 1) ELSE stack
         /\ components' = IF complete /\ Cardinality(component) > 1
                          THEN components \cup {component} ELSE components
  /\ UNCHANGED <<graphVars, flowStep, index, ringVars, browseVars>>
EndTarjan ==
  /\ flowStep = "search" /\ call = <<>> /\ DOMAIN index = DOMAIN drafts
  /\ flowStep' = "loops"
  /\ UNCHANGED <<graphVars, tarjanVars, components, ringVars, browseVars>>
------------------------------------------------------------------------------
(* The shortest loop through the smallest member, breadth first.  The code *)
(* falls back on the bare component when the search runs dry; here it      *)
(* would be a deadlock.                                                    *)
StartLoop ==
  /\ flowStep = "loops" /\ ring = {}
  /\ \E c \in components :
       /\ components' = components \ {c}
       /\ ring' = c /\ queue' = <<Min(c)>> /\ cameFrom' = <<>>
  /\ UNCHANGED <<graphVars, flowStep, tarjanVars, loops, browseVars>>
Found == (Feeds(Head(queue)) \cap ring) \ DOMAIN cameFrom
Reached ==
  [n \in DOMAIN cameFrom \cup Found |-> IF n \in Found THEN Head(queue) ELSE cameFrom[n]]
(* Faulty: what was found last is expanded first.                          *)
ExpandNewestFirst ==
  /\ ring # {} /\ queue # <<>> /\ Min(ring) \notin Feeds(Head(queue))
  /\ queue' = Ascending(Found) \o Tail(queue) /\ cameFrom' = Reached
  /\ UNCHANGED <<graphVars, flowStep, tarjanVars, components, ring, loops, browseVars>>
ExpandLoop ==
  /\ ring # {} /\ queue # <<>> /\ Min(ring) \notin Feeds(Head(queue))
  /\ queue' = Tail(queue) \o Ascending(Found) /\ cameFrom' = Reached
  /\ UNCHANGED <<graphVars, flowStep, tarjanVars, components, ring, loops, browseVars>>
PathTo(n) ==
  LET to[m \in DOMAIN cameFrom \cup {Min(ring)}] ==
        IF m = Min(ring) THEN <<m>> ELSE Append(to[cameFrom[m]], m)
  IN  to[n]
SmallestRotation(p) ==
  LET k == CHOOSE i \in DOMAIN p : \A j \in DOMAIN p : p[i] <= p[j]
  IN  SubSeq(p, k, Len(p)) \o SubSeq(p, 1, k - 1)
CloseLoop ==
  /\ ring # {} /\ queue # <<>> /\ Min(ring) \in Feeds(Head(queue))
  /\ loops' = loops \cup {SmallestRotation(PathTo(Head(queue)))}
  /\ ring' = {} /\ queue' = <<>> /\ cameFrom' = <<>>
  /\ UNCHANGED <<graphVars, flowStep, tarjanVars, components, browseVars>>
EndLoops ==
  /\ flowStep = "loops" /\ ring = {} /\ components = {}
  /\ flowStep' = "built"
  /\ UNCHANGED <<graphVars, tarjanVars, components, ringVars, browseVars>>
------------------------------------------------------------------------------
(* walkSourceToLoad from one node: a frame is popped and, unless its node  *)
(* was entered by another way, entered; the children not yet entered are   *)
(* pushed so that the smallest is popped first.                            *)
Entered == {tree[i].node : i \in DOMAIN tree}
StartBrowse ==
  /\ flowStep = "built" /\ tree = <<>> /\ branches = <<>>
  /\ \E n \in DOMAIN drafts : branches' = <<[node |-> n, depth |-> 0]>>
  /\ UNCHANGED <<graphVars, flowStep, tarjanVars, components, ringVars, tree>>
EnterNode ==
  /\ branches # <<>> /\ Last(branches).node \notin Entered
  /\ tree' = Append(tree, Last(branches))
  /\ LET children == Feeds(Last(branches).node) \ (Entered \cup {Last(branches).node})
         pushed   == Reverse(Ascending(children))
         frames   == [i \in DOMAIN pushed |-> [node |-> pushed[i], depth |-> Last(branches).depth + 1]]
     IN  branches' = Front(branches) \o frames
  /\ UNCHANGED <<graphVars, flowStep, tarjanVars, components, ringVars>>
SkipEntered ==
  /\ branches # <<>> /\ Last(branches).node \in Entered
  /\ branches' = Front(branches)
  /\ UNCHANGED <<graphVars, flowStep, tarjanVars, components, ringVars, tree>>

BuildFlow == PlaceObservation \/ EndPlace \/ StartRoot \/ TrySuccessor \/ Return \/ EndTarjan
             \/ StartLoop \/ ExpandLoop \/ CloseLoop \/ EndLoops
BrowseFlow == StartBrowse \/ EnterNode \/ SkipEntered
------------------------------------------------------------------------------
(* Which observation arrives first decides nothing: a node's badge, its    *)
(* asset, its best tier and the spelling it shows are those of all the     *)
(* spellings on it.                                                        *)
OrderIsImmaterial ==
  flowStep \notin {"idle", "place"} =>
    \A n \in DOMAIN drafts :
      LET tags == {s \in Endpoints(evidence) : NodeId(s) = n}
          best == {s \in tags : \A t \in tags : SpellingRank(s) <= SpellingRank(t)}
          sure == {s \in tags : IsMatched(s)}
      IN  /\ drafts[n].tags = tags
          /\ drafts[n].display = Min(best)
          /\ drafts[n].asset = IF sure = {} THEN None ELSE n
          /\ sure # {} => drafts[n].tier = outcomes[Min(best)].tier
          /\ drafts[n].status = IF sure # {} THEN "model-confirmed" ELSE UnmatchedStatus(n)

(* n reaches m: every set of nodes that holds n and is closed under feeds  *)
(* holds m.                                                                *)
Downstream(n) ==
  {m \in DOMAIN drafts :
     \A S \in SUBSET DOMAIN drafts : n \in S /\ (\A x \in S : Feeds(x) \subseteq S) => m \in S}
FeedLoop(p) == \A i \in DOMAIN p : p[(i % Len(p)) + 1] \in Feeds(p[i])

(* Every feed that closes on itself is reported: two nodes feed each other *)
(* exactly when they share a component the search found, and the loop      *)
(* named for it is a loop of the graph.                                    *)
LoopsAreFound ==
  /\ flowStep = "loops" /\ loops = {} /\ ring = {} =>
       components = {c \in {{m \in Downstream(n) : n \in Downstream(m)} : n \in DOMAIN drafts} :
                       Cardinality(c) > 1}
  /\ flowStep = "built" =>
       \A n \in DOMAIN drafts :
         (\E m \in Feeds(n) : n \in Downstream(m)) <=>
         Cardinality({p \in loops : p[1] \in Downstream(n) /\ n \in Downstream(p[1])}) = 1
(* The loop shown is the same whatever way the search ran: it starts at    *)
(* the smallest node of its component, and none through it is shorter.     *)
IsShortest(p) ==
  /\ FeedLoop(p) /\ IsInjective(p)
  /\ \A n \in Downstream(p[1]) : p[1] \in Downstream(n) => p[1] <= n
  /\ \A k \in 2..(Len(p) - 1) :
       ~\E q \in [1..k -> Downstream(p[1])] : q[1] = p[1] /\ FeedLoop(q)
LoopsAreShown == LoopsAreFound /\ \A p \in loops : IsShortest(p)

(* A ring ends the walk instead of unrolling it, and a load fed twice is   *)
(* listed once: the walk has every node downstream of the root exactly     *)
(* once, each below a node that feeds it.                                  *)
TreeIsWhole ==
  /\ \A i, j \in DOMAIN tree : tree[i].node = tree[j].node => i = j
  /\ \A i \in DOMAIN tree \ {1} :
       \E j \in 1..(i - 1) :
         /\ tree[i].node \in Feeds(tree[j].node)
         /\ tree[i].depth = tree[j].depth + 1
  /\ tree # <<>> /\ branches = <<>> => Entered = Downstream(tree[1].node)

(* What a person sees of the flow is what there is: see both above.        *)
FlowIsShown == LoopsAreShown /\ TreeIsWhole
=============================================================================
