------------------------ MODULE FlowAndOrderProofs ------------------------
(***************************************************************************)
(* The two packages of the engine, beside the snapshot, that walk a graph. *)
(*                                                                         *)
(* The loops and the walk of an electrical flow, for any finite graph of   *)
(* feeds and whatever order a step leaves open:                            *)
(*   search  Tarjan's search: what is open is reached by what opened it,   *)
(*           what is closed is a union of whole knots, and a node that     *)
(*           returns with its own index as its low link closes its knot    *)
(*   loops   the breadth-first search of a knot: every node that was found *)
(*           has a shortest path, and what waits is at most a step longer  *)
(*   walk    what waits to be entered is fed by what was, and whatever is  *)
(*           fed by a node that was entered was entered or waits           *)
(* The parts meet in FlowInv, which every step of ElectricalFlow keeps.    *)
(* That the nodes are finitely many numbers and no feed leads out of them  *)
(* (IsGraph) is the composition's to show, since it decides the ids.       *)
(*                                                                         *)
(* What the exports schedule from any register: a startup order that can   *)
(* be followed, for any number of systems, relations between their assets  *)
(* of any shape, and whichever of the ready systems the natural order of   *)
(* keys puts first; then a number for every asset and a milestone for every*)
(* line of the ladder.                                                     *)
(***************************************************************************)
EXTENDS ElectricalFlow, Commissioning, SsmCompilerProofs

(* The graph: finitely many numbered nodes, and no feed leads out of it.   *)
Nodes == DOMAIN drafts
IsGraph == IsFiniteSet(Nodes) /\ Nodes \subseteq Int /\ \A n \in Nodes : Feeds(n) \subseteq Nodes
Shut(S) == \A x \in S : Feeds(x) \subseteq S
(* All that share a loop with n, and n.                                    *)
Knot(n) == {m \in Downstream(n) : n \in Downstream(m)}
Knots == {c \in {Knot(n) : n \in Nodes} : Cardinality(c) > 1}

LEMMA GraphStays ==
  ASSUME UNCHANGED graphVars
  PROVE  /\ Nodes' = Nodes /\ IsGraph' = IsGraph /\ Knots' = Knots
         /\ \A n : Feeds(n)' = Feeds(n) /\ Downstream(n)' = Downstream(n) /\ Knot(n)' = Knot(n)
         /\ \A S : Shut(S)' = Shut(S)
<1>1. Nodes' = Nodes
  BY DEF graphVars, Nodes
<1>2. \A n : Feeds(n)' = Feeds(n)
  BY DEF graphVars, Feeds, Edges
<1>3. \A n : Downstream(n)' = Downstream(n)
  BY <1>1, <1>2 DEF Downstream, Nodes
<1>4. \A n : Knot(n)' = Knot(n)
  BY <1>3 DEF Knot
<1> QED BY <1>1, <1>2, <1>3, <1>4 DEF IsGraph, Knots, Shut

LEMMA DownSelf == ASSUME NEW n \in Nodes PROVE n \in Downstream(n)
BY DEF Downstream, Nodes
LEMMA DownNodes == \A n : Downstream(n) \subseteq Nodes
BY DEF Downstream, Nodes
(* Who is downstream: what a node downstream feeds, and what is downstream *)
(* of it; and no more than any closed set that holds the node.             *)
LEMMA DownStep ==
  ASSUME IsGraph, NEW n, NEW m \in Downstream(n), NEW k \in Feeds(m) PROVE k \in Downstream(n)
<1>1. m \in Nodes /\ k \in Nodes
  BY DownNodes DEF IsGraph
<1>2. ASSUME NEW S \in SUBSET Nodes, n \in S, Shut(S) PROVE k \in S
  <2>1. m \in S
    BY <1>2 DEF Downstream, Nodes, Shut
  <2> QED BY <1>2, <2>1 DEF Shut
<1> QED BY <1>1, <1>2 DEF Downstream, Nodes, Shut
LEMMA DownWithin ==
  ASSUME NEW S \in SUBSET Nodes, NEW n \in S, Shut(S) PROVE Downstream(n) \subseteq S
BY DEF Downstream, Nodes, Shut
LEMMA DownShut == ASSUME IsGraph, NEW n PROVE Shut(Downstream(n))
BY DownStep DEF Shut
LEMMA DownTrans ==
  ASSUME IsGraph, NEW n, NEW m \in Downstream(n) PROVE Downstream(m) \subseteq Downstream(n)
BY DownShut, DownWithin, DownNodes
(* The way to another node begins with a feed.                             *)
LEMMA DownFirst ==
  ASSUME IsGraph, NEW n \in Nodes, NEW m \in Downstream(n), m # n
  PROVE  \E k \in Feeds(n) : m \in Downstream(k)
<1> DEFINE S == {n} \cup UNION {Downstream(k) : k \in Feeds(n)}
<1>1. S \subseteq Nodes
  BY DownNodes
<1>2. ASSUME NEW x \in S PROVE Feeds(x) \subseteq S
  <2>1. CASE x = n
    <3>1. \A k \in Feeds(n) : k \in Downstream(k)
      BY DownSelf DEF IsGraph
    <3> QED BY <2>1, <3>1
  <2>2. CASE x # n
    <3>1. PICK k \in Feeds(n) : x \in Downstream(k)
      BY <2>2
    <3> QED BY <3>1, DownStep
  <2> QED BY <2>1, <2>2
<1>3. m \in S
  <2> HIDE DEF S
  <2>1. n \in S /\ Shut(S)
    BY <1>2 DEF S, Shut
  <2> QED BY <1>1, <2>1, DownWithin
<1> QED BY <1>3
LEMMA NoSelfFeed == \A n : n \notin Feeds(n)
BY DEF Feeds, Edges

LEMMA KnotSame ==
  ASSUME IsGraph, NEW n \in Nodes, NEW m \in Knot(n)
  PROVE  Knot(m) = Knot(n) /\ n \in Knot(n) /\ n \in Knot(m) /\ m \in Nodes
<1>1. m \in Nodes /\ n \in Downstream(m) /\ m \in Downstream(n)
  BY DownNodes DEF Knot
<1>2. Downstream(m) = Downstream(n)
  BY <1>1, DownTrans
<1>3. n \in Downstream(n)
  BY DownSelf
<1>4. \A k : k \in Downstream(n) => (m \in Downstream(k) <=> n \in Downstream(k))
  BY <1>1, DownTrans, DownNodes
<1> QED BY <1>1, <1>2, <1>3, <1>4 DEF Knot
------------------------------------------------------------------------------
(* Tarjan's search.  A node that was met is on the stack or done with; one *)
(* with a frame is grey; a feed of a node is tried once no frame keeps it. *)
Live == InStack
Done == DOMAIN index \ Live
Grey == {call[i].node : i \in DOMAIN call}
Untried(w) == UNION {call[i].untried : i \in {j \in DOMAIN call : call[j].node = w}}
Tried(w) == Feeds(w) \ Untried(w)
(* The frame a node on the stack belongs to: the last one before it.       *)
Home(v, w) == index[v] <= index[w] /\ \A g \in Grey : index[g] <= index[w] => index[g] <= index[v]

(* What was met was numbered in turn.                                      *)
IndexOK ==
  /\ DOMAIN index \subseteq Nodes /\ Grey \subseteq Live /\ Live \subseteq DOMAIN index
  /\ index \in [DOMAIN index -> Nat] /\ lowLink \in [DOMAIN index -> Nat]
  /\ \A w \in DOMAIN index : index[w] < Cardinality(DOMAIN index)
  /\ \A w, x \in DOMAIN index : index[w] = index[x] => w = x
(* What is done with is closed; what was tried has been met.               *)
TriedOK == Shut(Done) /\ \A w \in DOMAIN index : Tried(w) \subseteq DOMAIN index
(* A grey node reaches whatever was met after it, and everything on the    *)
(* stack reaches a grey node met before it.                                *)
ReachOK ==
  /\ \A g \in Grey, w \in Live : index[g] <= index[w] => w \in Downstream(g)
  /\ \A w \in Live : \E g \in Grey : index[g] <= index[w] /\ g \in Downstream(w)
(* The low link of a grey node is of a node on the stack that it reaches,  *)
(* and none is earlier that a node belonging to it was tried to feed.      *)
LowOK ==
  \A v \in Grey :
    /\ lowLink[v] <= index[v]
    /\ \E w \in Live : index[w] = lowLink[v] /\ w \in Downstream(v)
    /\ \A w \in Live : Home(v, w) => \A x \in Tried(w) \cap Live : lowLink[v] <= index[x]
(* The components are the knots of the nodes that are done with.           *)
FoundOK == components = {c \in {Knot(n) : n \in Done} : Cardinality(c) > 1}
SearchOK == IndexOK /\ TriedOK /\ ReachOK /\ LowOK /\ FoundOK

(* A node is met: a first one, or one that a grey node feeds.              *)
LEMMA MeetKeeps ==
  ASSUME IsGraph, SearchOK, UNCHANGED graphVars, UNCHANGED components,
         NEW n \in Nodes \ DOMAIN index, index' = Met(index, n), lowLink' = Met(lowLink, n),
         Grey' = Grey \cup {n}, Live' = Live \cup {n}, Tried(n)' = {},
         \A w \in DOMAIN index : Tried(w)' \subseteq Tried(w) \cup {n},
         \A g \in Grey : n \in Downstream(g)
  PROVE  SearchOK'
<1> DEFINE V == DOMAIN index
           new == Cardinality(V)
<1>1. IsFiniteSet(V) /\ new \in Nat
  BY FS_Subset, FS_CardinalityType DEF SearchOK, IndexOK, IsGraph
<1>2. Cardinality(V \cup {n}) = new + 1
  BY <1>1, FS_AddElement
<1>3. /\ DOMAIN index' = V \cup {n} /\ DOMAIN lowLink' = V \cup {n}
      /\ index'[n] = new /\ lowLink'[n] = new
      /\ \A w \in V : index'[w] = index[w] /\ lowLink'[w] = lowLink[w]
      /\ index' = [m \in V \cup {n} |-> IF m = n THEN new ELSE index[m]]
      /\ lowLink' = [m \in V \cup {n} |-> IF m = n THEN new ELSE lowLink[m]]
  BY DEF Met, SearchOK, IndexOK
<1>4. /\ \A w \in V : index[w] \in Nat /\ lowLink[w] \in Nat /\ index[w] < new
      /\ Live \subseteq V /\ Grey \subseteq Live /\ n \notin V /\ V \subseteq Nodes
  BY DEF SearchOK, IndexOK
<1>5. Nodes' = Nodes /\ \A w : Feeds(w)' = Feeds(w) /\ Downstream(w)' = Downstream(w) /\ Knot(w)' = Knot(w)
  BY GraphStays
<1>6. Done' = Done
  BY <1>3, <1>4 DEF Done
<1> HIDE DEF V, new
<1>7. IndexOK'
  <2>1. \A w, x \in V : index[w] = index[x] => w = x
    BY DEF SearchOK, IndexOK, V
  <2>2. DOMAIN index' = V \cup {n} /\ DOMAIN index' \subseteq Nodes' /\ Grey' \subseteq Live' /\ Live' \subseteq V \cup {n}
    BY <1>3, <1>4, <1>5
  <2>3. index' \in [V \cup {n} -> Nat] /\ lowLink' \in [V \cup {n} -> Nat]
    BY <1>1, <1>3, <1>4
  <2>4. \A w \in V \cup {n} : index'[w] < new + 1
    BY <1>1, <1>3, <1>4
  <2>5. \A w, x \in V \cup {n} : index'[w] = index'[x] => w = x
    BY <1>1, <1>3, <1>4, <2>1
  <2> QED BY <1>2, <2>2, <2>3, <2>4, <2>5 DEF IndexOK
<1>8. TriedOK'
  <2>1. Shut(Done)'
    BY <1>5, <1>6 DEF SearchOK, TriedOK, Shut
  <2>2. ASSUME NEW w \in V \cup {n} PROVE Tried(w)' \subseteq V \cup {n}
    BY <2>2 DEF SearchOK, TriedOK, V
  <2> QED BY <1>3, <2>1, <2>2 DEF TriedOK
<1>9. ReachOK'
  <2>1. ASSUME NEW g \in Grey', NEW w \in Live', index'[g] <= index'[w] PROVE w \in Downstream(g)'
    <3>1. CASE g = n
      <4>1. w = n
        BY <1>1, <1>3, <1>4, <2>1, <3>1
      <4> QED BY <1>5, <3>1, <4>1, DownSelf
    <3>2. CASE g # n /\ w = n
      BY <1>5, <3>2
    <3>3. CASE g # n /\ w # n
      <4>1. g \in Grey /\ w \in Live
        BY <3>3
      <4>2. index[g] <= index[w]
        BY <1>3, <1>4, <2>1, <4>1
      <4> QED BY <1>5, <4>1, <4>2 DEF SearchOK, ReachOK
    <3> QED BY <3>1, <3>2, <3>3
  <2>2. ASSUME NEW w \in Live' PROVE \E g \in Grey' : index'[g] <= index'[w] /\ g \in Downstream(w)'
    <3>1. CASE w = n
      BY <1>1, <1>3, <1>5, <3>1, DownSelf
    <3>2. CASE w # n
      <4>1. PICK g \in Grey : index[g] <= index[w] /\ g \in Downstream(w)
        BY <3>2 DEF SearchOK, ReachOK
      <4>2. index'[g] <= index'[w] /\ g \in Downstream(w)'
        BY <1>3, <1>4, <1>5, <3>2, <4>1
      <4> QED BY <4>2
    <3> QED BY <3>1, <3>2
  <2> QED BY <2>1, <2>2 DEF ReachOK
<1>10. LowOK'
  <2>1. SUFFICES ASSUME NEW v \in Grey'
                 PROVE  /\ lowLink'[v] <= index'[v]
                        /\ \E w \in Live' : index'[w] = lowLink'[v] /\ w \in Downstream(v)'
                        /\ \A w \in Live' : Home(v, w)' => \A x \in Tried(w)' \cap Live' : lowLink'[v] <= index'[x]
    BY DEF LowOK
  <2>2. CASE v = n
    <3>1. ASSUME NEW w \in Live', Home(v, w)' PROVE w = n
      <4>1. index'[n] <= index'[w]
        BY <2>2, <3>1 DEF Home
      <4> QED BY <1>1, <1>3, <1>4, <4>1
    <3>2. n \in Downstream(n)' /\ n \in Live'
      BY <1>5, DownSelf
    <3> QED BY <1>1, <1>3, <2>2, <3>1, <3>2
  <2>3. CASE v # n
    <3>1. v \in Grey /\ v \in V
      BY <1>4, <2>3
    <3>2. lowLink[v] <= index[v] /\ \E w \in Live : index[w] = lowLink[v] /\ w \in Downstream(v)
      BY <3>1 DEF SearchOK, LowOK
    <3>3. lowLink'[v] <= index'[v] /\ \E w \in Live' : index'[w] = lowLink'[v] /\ w \in Downstream(v)'
      BY <1>3, <1>4, <1>5, <3>1, <3>2
    <3>4. ASSUME NEW w \in Live', Home(v, w)', NEW x \in Tried(w)' \cap Live' PROVE lowLink'[v] <= index'[x]
      <4>1. w # n
        OBVIOUS
      <4>2. w \in Live /\ w \in V
        BY <1>4, <4>1
      <4>3. index[v] <= index[w] /\ \A g \in Grey : index[g] <= index[w] => index[g] <= index[v]
        BY <1>3, <1>4, <3>1, <3>4, <4>2 DEF Home
      <4>4. Home(v, w)
        BY <4>3 DEF Home
      <4>5. CASE x = n
        BY <1>1, <1>3, <1>4, <3>1, <3>2, <4>5
      <4>6. CASE x # n
        <5>1. x \in Tried(w) \cap Live
          BY <4>2, <4>6 DEF V
        <5>2. lowLink[v] <= index[x]
          BY <3>1, <4>2, <4>4, <5>1 DEF SearchOK, LowOK
        <5> QED BY <1>3, <1>4, <3>1, <5>1, <5>2
      <4> QED BY <4>5, <4>6
    <3> QED BY <3>3, <3>4
  <2> QED BY <2>2, <2>3
<1>11. FoundOK'
  BY <1>5, <1>6 DEF SearchOK, FoundOK
<1> QED BY <1>7, <1>8, <1>9, <1>10, <1>11 DEF SearchOK

LEMMA LowerIs ==
  ASSUME NEW n \in DOMAIN lowLink, NEW k
  PROVE  Lower(n, k) = [w \in DOMAIN lowLink |-> IF w = n /\ k < lowLink[n] THEN k ELSE lowLink[w]]
BY DEF Lower

(* A grey node is tried to feed one that was met.                          *)
LEMMA LowerKeeps ==
  ASSUME IsGraph, SearchOK, UNCHANGED graphVars, UNCHANGED <<components, index>>, Grey' = Grey, Live' = Live,
         NEW v \in Grey, \A g \in Grey : index[g] <= index[v], NEW t \in Feeds(v) \cap DOMAIN index,
         lowLink' = IF t \in Live THEN Lower(v, index[t]) ELSE lowLink,
         \A w \in DOMAIN index : Tried(w)' \subseteq Tried(w) \cup {x \in {t} : w = v}
  PROVE  SearchOK'
<1> DEFINE V == DOMAIN index
<1>1. /\ \A w \in V : index[w] \in Nat /\ lowLink[w] \in Nat
      /\ Live \subseteq V /\ Grey \subseteq Live /\ v \in V /\ t \in V /\ DOMAIN lowLink = V
  BY DEF SearchOK, IndexOK
<1>2. Nodes' = Nodes /\ \A w : Feeds(w)' = Feeds(w) /\ Downstream(w)' = Downstream(w) /\ Knot(w)' = Knot(w)
  BY GraphStays
<1>3. Done' = Done
  BY DEF Done
<1>4. lowLink' = [w \in V |-> IF w = v /\ t \in Live /\ index[t] < lowLink[v] THEN index[t] ELSE lowLink[w]]
  <2>1. CASE t \in Live
    BY <1>1, <2>1, LowerIs
  <2>2. CASE t \notin Live
    BY <1>1, <2>2 DEF SearchOK, IndexOK
  <2> QED BY <2>1, <2>2
<1> HIDE DEF V
<1>5. IndexOK'
  <2>1. lowLink' \in [V -> Nat]
    BY <1>1, <1>4
  <2> QED BY <1>2, <2>1 DEF SearchOK, IndexOK, V
<1>6. TriedOK'
  <2>1. Shut(Done)'
    BY <1>2, <1>3 DEF SearchOK, TriedOK, Shut
  <2> QED BY <1>1, <2>1 DEF SearchOK, TriedOK, V
<1>7. ReachOK' /\ FoundOK'
  BY <1>2, <1>3 DEF SearchOK, ReachOK, FoundOK
<1>8. LowOK'
  <2>1. SUFFICES ASSUME NEW g \in Grey
                 PROVE  /\ lowLink'[g] <= index[g]
                        /\ \E w \in Live : index[w] = lowLink'[g] /\ w \in Downstream(g)
                        /\ \A w \in Live : Home(g, w)' => \A x \in Tried(w)' \cap Live : lowLink'[g] <= index[x]
    BY <1>2 DEF LowOK
  <2>2. \A w : Home(g, w)' <=> Home(g, w)
    BY DEF Home
  <2>3. g \in V /\ lowLink'[g] <= lowLink[g] /\ lowLink'[g] \in Nat /\ lowLink[g] \in Nat
    BY <1>1, <1>4
  <2>4. /\ lowLink[g] <= index[g] /\ \E w \in Live : index[w] = lowLink[g] /\ w \in Downstream(g)
        /\ \A w \in Live : Home(g, w) => \A x \in Tried(w) \cap Live : lowLink[g] <= index[x]
    BY DEF SearchOK, LowOK
  <2>5. \E w \in Live : index[w] = lowLink'[g] /\ w \in Downstream(g)
    <3>1. CASE g = v /\ t \in Live /\ index[t] < lowLink[v]
      <4>1. t \in Downstream(v)
        <5>1. v \in Downstream(v)
          BY <1>1, DownSelf DEF SearchOK, IndexOK, V
        <5> QED BY <5>1, DownStep
      <4>2. lowLink'[g] = index[t]
        BY <1>1, <1>4, <3>1
      <4> QED BY <3>1, <4>1, <4>2
    <3>2. CASE ~(g = v /\ t \in Live /\ index[t] < lowLink[v])
      <4>1. lowLink'[g] = lowLink[g]
        BY <1>4, <2>3, <3>2
      <4> QED BY <2>4, <4>1
    <3> QED BY <3>1, <3>2
  <2>6. ASSUME NEW w \in Live, Home(g, w), NEW x \in Tried(w)' \cap Live PROVE lowLink'[g] <= index[x]
    <3>1. w \in V /\ x \in V
      BY <1>1
    <3>2. CASE x \in Tried(w)
      <4>1. lowLink[g] <= index[x]
        BY <2>4, <2>6, <3>2
      <4> QED BY <1>1, <2>3, <3>1, <4>1
    <3>3. CASE x \notin Tried(w)
      <4>1. w = v /\ x = t
        BY <3>1, <3>3 DEF V
      <4>2. index[v] = index[g]
        <5>1. index[g] <= index[v] /\ index[v] <= index[g]
          BY <1>1, <2>6, <4>1 DEF Home
        <5> QED BY <1>1, <2>3, <5>1
      <4>3. g = v
        BY <1>1, <2>3, <4>2 DEF SearchOK, IndexOK, V
      <4> QED BY <1>1, <1>4, <4>1, <4>3
    <3> QED BY <3>2, <3>3
  <2> QED BY <1>1, <2>2, <2>3, <2>4, <2>5, <2>6
<1> QED BY <1>5, <1>6, <1>7, <1>8 DEF SearchOK

(* What is on the stack from the last grey node on, when nothing is left   *)
(* of its frame and it reaches nothing earlier, is its knot.               *)
LEMMA TopIsKnot ==
  ASSUME IsGraph, SearchOK, NEW v \in Grey, \A g \in Grey : index[g] <= index[v],
         Tried(v) = Feeds(v), \A w \in Live \ Grey : Tried(w) = Feeds(w), lowLink[v] = index[v]
  PROVE  /\ {w \in Live : index[v] <= index[w]} = Knot(v)
         /\ Shut(Done \cup {w \in Live : index[v] <= index[w]})
<1> DEFINE T == {w \in Live : index[v] <= index[w]}
           S == Done \cup T
<1>1. /\ \A w \in DOMAIN index : index[w] \in Nat
      /\ Live \subseteq DOMAIN index /\ Grey \subseteq Live /\ v \in T /\ DOMAIN index \subseteq Nodes
      /\ \A w, x \in DOMAIN index : index[w] = index[x] => w = x
  BY DEF SearchOK, IndexOK
<1>2. ASSUME NEW w \in T PROVE w \in Downstream(v) /\ v \in Downstream(w)
  <2>1. w \in Downstream(v)
    BY <1>1 DEF SearchOK, ReachOK
  <2>2. PICK g \in Grey : g \in Downstream(w)
    BY DEF SearchOK, ReachOK
  <2>3. v \in Downstream(g)
    BY <1>1 DEF SearchOK, ReachOK
  <2> QED BY <2>1, <2>2, <2>3, DownTrans
<1>3. ASSUME NEW w \in T PROVE Feeds(w) \subseteq S
  <2>1. Tried(w) = Feeds(w)
    <3>1. CASE w \in Grey
      <4>1. index[w] = index[v]
        BY <1>1, <3>1
      <4> QED BY <1>1, <4>1
    <3>2. CASE w \notin Grey
      BY <3>2
    <3> QED BY <3>1, <3>2
  <2>2. Feeds(w) \subseteq DOMAIN index
    BY <1>1, <2>1 DEF SearchOK, TriedOK
  <2>3. ASSUME NEW x \in Feeds(w), x \in Live PROVE x \in T
    <3>1. Home(v, w)
      BY <1>1 DEF Home
    <3>2. lowLink[v] <= index[x]
      BY <1>1, <2>1, <2>3, <3>1 DEF SearchOK, LowOK
    <3> QED BY <2>3, <3>2
  <2> QED BY <2>2, <2>3 DEF Done
<1>4. Shut(S)
  <2>1. \A w \in Done : Feeds(w) \subseteq Done
    BY DEF SearchOK, TriedOK, Shut
  <2> QED BY <1>3, <2>1 DEF Shut
<1>5. Downstream(v) \subseteq S
  <2>1. S \subseteq Nodes /\ v \in S
    BY <1>1 DEF Done
  <2> HIDE DEF S
  <2> QED BY <1>4, <2>1, DownWithin
<1>6. \A m \in Done : v \notin Downstream(m)
  <2>1. Done \subseteq Nodes /\ Shut(Done) /\ v \notin Done
    BY <1>1 DEF SearchOK, TriedOK, Done
  <2> QED BY <2>1, DownWithin
<1> QED BY <1>2, <1>4, <1>5, <1>6 DEF Knot

(* A grey node whose feeds were all tried returns: its knot is complete,   *)
(* or it stays on the stack and its low link is the parent's too.          *)
LEMMA ReturnKeeps ==
  ASSUME IsGraph, SearchOK, UNCHANGED graphVars, UNCHANGED index,
         NEW v \in Grey, \A g \in Grey : index[g] <= index[v], Grey' = Grey \ {v},
         Tried(v) = Feeds(v), \A w \in Live \ Grey : Tried(w) = Feeds(w),
         \A w \in DOMAIN index : Tried(w)' = Tried(w),
         NEW u, Grey # {v} => u \in Grey' /\ v \in Feeds(u) /\ \A g \in Grey' : index[g] <= index[u],
         lowLink' = IF Grey = {v} THEN lowLink ELSE Lower(u, lowLink[v]),
         NEW T, T = {w \in Live : index[v] <= index[w]},
         Live' = IF lowLink[v] = index[v] THEN Live \ T ELSE Live,
         components' = IF lowLink[v] = index[v] /\ Cardinality(T) > 1 THEN components \cup {T} ELSE components
  PROVE  SearchOK'
<1> DEFINE V == DOMAIN index
<1>1. /\ \A w \in V : index[w] \in Nat /\ lowLink[w] \in Nat
      /\ Live \subseteq V /\ Grey \subseteq Live /\ v \in V /\ DOMAIN lowLink = V /\ V \subseteq Nodes
      /\ \A w, x \in V : index[w] = index[x] => w = x
  BY DEF SearchOK, IndexOK
<1>2. Nodes' = Nodes /\ \A w : Feeds(w)' = Feeds(w) /\ Downstream(w)' = Downstream(w) /\ Knot(w)' = Knot(w)
  BY GraphStays
<1>3. lowLink' = [w \in V |-> IF w = u /\ Grey # {v} /\ lowLink[v] < lowLink[u] THEN lowLink[v] ELSE lowLink[w]]
  <2>1. CASE Grey = {v}
    <3>1. lowLink = [w \in V |-> lowLink[w]]
      BY DEF SearchOK, IndexOK
    <3> QED BY <2>1, <3>1
  <2>2. CASE Grey # {v}
    BY <1>1, <2>2, LowerIs
  <2> QED BY <2>1, <2>2
<1>4. \A g \in Grey' : g \in Grey /\ g \in Live /\ index[g] < index[v] /\ g \in Live' /\ g \in V
  <2>1. \A g \in Grey' : g \in Grey /\ g # v /\ index[g] <= index[v] /\ g \in V /\ g \in Live
    BY <1>1
  <2> QED BY <1>1, <2>1
<1>5. Live' \subseteq Live /\ (lowLink[v] # index[v] => Live' = Live)
  OBVIOUS
<1>6. lowLink[v] = index[v] => Done' = Done \cup T /\ T = Knot(v) /\ Shut(Done \cup T)
  <2>1. lowLink[v] = index[v] => Done' = Done \cup T
    BY <1>1 DEF Done
  <2> QED BY <2>1, TopIsKnot
<1>7. lowLink[v] # index[v] => Done' = Done
  BY DEF Done
<1> HIDE DEF V
<1>8. IndexOK'
  <2>1. lowLink' \in [V -> Nat]
    BY <1>1, <1>3
  <2>2. Grey' \subseteq Live' /\ Live' \subseteq V
    BY <1>1, <1>4
  <2> QED BY <1>2, <2>1, <2>2 DEF SearchOK, IndexOK, V
<1>9. TriedOK'
  <2>1. Shut(Done)'
    <3>1. Shut(Done')
      BY <1>6, <1>7 DEF SearchOK, TriedOK
    <3> QED BY <1>2, <3>1 DEF Shut
  <2> QED BY <2>1 DEF SearchOK, TriedOK, V
<1>10. ReachOK'
  <2>1. ASSUME NEW g \in Grey', NEW w \in Live', index[g] <= index[w] PROVE w \in Downstream(g)
    BY <1>4, <1>5, <2>1 DEF SearchOK, ReachOK
  <2>2. ASSUME NEW w \in Live' PROVE \E g \in Grey' : index[g] <= index[w] /\ g \in Downstream(w)
    <3>1. PICK g \in Grey : index[g] <= index[w] /\ g \in Downstream(w)
      BY <1>5 DEF SearchOK, ReachOK
    <3>2. CASE g # v
      BY <3>1, <3>2
    <3>3. CASE g = v
      <4>1. lowLink[v] # index[v]
        BY <1>1, <1>5, <3>1, <3>3
      <4>2. PICK x \in Live : index[x] = lowLink[v] /\ x \in Downstream(v) /\ lowLink[v] <= index[v]
        BY DEF SearchOK, LowOK
      <4>3. PICK h \in Grey : index[h] <= index[x] /\ h \in Downstream(x)
        BY DEF SearchOK, ReachOK
      <4>4. index[h] < index[v] /\ h \in V /\ x \in V
        BY <1>1, <4>1, <4>2, <4>3
      <4>5. h \in Grey'
        BY <1>1, <4>4
      <4>6. h \in Downstream(w)
        <5>1. x \in Downstream(w)
          BY <3>1, <3>3, <4>2, DownTrans
        <5> QED BY <4>3, <5>1, DownTrans
      <4>7. index[h] <= index[w]
        BY <1>1, <1>5, <3>1, <3>3, <4>4
      <4> QED BY <4>5, <4>6, <4>7
    <3> QED BY <3>2, <3>3
  <2> QED BY <1>2, <2>1, <2>2 DEF ReachOK
<1>11. LowOK'
  <2>1. SUFFICES ASSUME NEW g \in Grey'
                 PROVE  /\ lowLink'[g] <= index[g]
                        /\ \E w \in Live' : index[w] = lowLink'[g] /\ w \in Downstream(g)
                        /\ \A w \in Live' : Home(g, w)' => \A x \in Tried(w) \cap Live' : lowLink'[g] <= index[x]
    <3>1. \A w \in Live' : Tried(w)' = Tried(w)
      BY <1>1, <1>5 DEF V
    <3>2. \A g : Downstream(g)' = Downstream(g)
      BY <1>2
    <3>3. index' = index
      OBVIOUS
    <3> QED BY <3>1, <3>2, <3>3 DEF LowOK
  <2>2. /\ lowLink[g] <= index[g] /\ \E w \in Live : index[w] = lowLink[g] /\ w \in Downstream(g)
        /\ \A w \in Live : Home(g, w) => \A x \in Tried(w) \cap Live : lowLink[g] <= index[x]
    BY <1>4 DEF SearchOK, LowOK
  <2>3. g \in V /\ g \in Grey /\ lowLink[g] \in Nat /\ lowLink'[g] \in Nat /\ lowLink'[g] <= lowLink[g]
    BY <1>1, <1>3, <1>4
  <2>4. ASSUME NEW w \in Live', index[w] < index[v] PROVE Home(g, w)' <=> Home(g, w)
    BY <1>1, <1>5, <2>4 DEF Home
  <2>5. \E w \in Live' : index[w] = lowLink'[g] /\ w \in Downstream(g)
    <3>1. PICK w \in Live : index[w] = lowLink[g] /\ w \in Downstream(g)
      BY <2>2
    <3>2. w \in Live'
      <4>1. index[w] < index[v]
        BY <1>1, <1>4, <2>2, <2>3, <3>1
      <4> QED BY <1>1, <3>1, <4>1
    <3>3. CASE lowLink'[g] = lowLink[g]
      BY <3>1, <3>2, <3>3
    <3>4. CASE lowLink'[g] # lowLink[g]
      <4>1. g = u /\ Grey # {v} /\ lowLink[v] < lowLink[u] /\ lowLink'[g] = lowLink[v]
        BY <1>3, <2>3, <3>4
      <4>2. lowLink[v] # index[v]
        BY <1>1, <1>4, <2>2, <2>3, <4>1
      <4>3. PICK x \in Live : index[x] = lowLink[v] /\ x \in Downstream(v)
        BY DEF SearchOK, LowOK
      <4>4. v \in Downstream(u)
        <5>1. u \in Downstream(u)
          BY <1>1, <2>3, <4>1, DownSelf
        <5> QED BY <4>1, <5>1, DownStep
      <4>5. x \in Downstream(u)
        BY <4>3, <4>4, DownTrans
      <4> QED BY <1>5, <4>1, <4>2, <4>3, <4>5
    <3> QED BY <3>3, <3>4
  <2>6. ASSUME NEW w \in Live', Home(g, w)', NEW x \in Tried(w) \cap Live' PROVE lowLink'[g] <= index[x]
    <3>1. w \in Live /\ x \in Live /\ w \in V /\ x \in V
      BY <1>1, <1>5
    <3>2. CASE index[w] < index[v]
      <4>1. lowLink[g] <= index[x]
        BY <2>2, <2>4, <2>6, <3>1, <3>2
      <4> QED BY <1>1, <2>3, <3>1, <4>1
    <3>3. CASE index[v] <= index[w]
      <4>1. Home(v, w)
        BY <3>3 DEF Home
      <4>2. lowLink[v] <= index[x]
        BY <3>1, <4>1 DEF SearchOK, LowOK
      <4>3. g = u /\ Grey # {v}
        <5>1. Grey # {v} /\ u \in Grey' /\ index[g] <= index[u]
          BY <1>4, <2>3
        <5>2. index[u] <= index[w]
          BY <1>1, <1>4, <3>1, <3>3, <5>1
        <5>3. index[u] <= index[g]
          BY <2>6, <5>1, <5>2 DEF Home
        <5> QED BY <1>1, <1>4, <2>3, <5>1, <5>3
      <4>4. lowLink'[g] <= lowLink[v]
        BY <1>1, <1>3, <2>3, <4>3
      <4> QED BY <1>1, <2>3, <3>1, <4>2, <4>4
    <3> QED BY <1>1, <3>1, <3>2, <3>3
  <2>7. lowLink'[g] <= index[g]
    BY <1>1, <2>2, <2>3
  <2> QED BY <2>5, <2>6, <2>7
<1>12. FoundOK'
  <2> DEFINE big(D) == {c \in {Knot(n) : n \in D} : Cardinality(c) > 1}
  <2>1. components = big(Done)
    BY DEF SearchOK, FoundOK
  <2>2. components' = big(Done')
    <3>1. CASE lowLink[v] # index[v]
      BY <1>7, <2>1, <3>1
    <3>2. CASE lowLink[v] = index[v]
      <4>1. Done' = Done \cup T /\ T = Knot(v) /\ v \in T
        BY <1>1, <1>6, <3>2
      <4>2. \A n \in T : Knot(n) = T
        BY <1>1, <4>1, KnotSame
      <4>3. big(Done \cup T) = IF Cardinality(T) > 1 THEN big(Done) \cup {T} ELSE big(Done)
        <5>1. {Knot(n) : n \in Done \cup T} = {Knot(n) : n \in Done} \cup {T}
          BY <4>1, <4>2
        <5> QED BY <5>1
      <4> HIDE DEF big
      <4> QED BY <2>1, <3>2, <4>1, <4>3
    <3> QED BY <3>1, <3>2
  <2>3. big(Done') = {c \in {Knot(n)' : n \in Done'} : Cardinality(c) > 1}
    BY <1>2
  <2> QED BY <2>2, <2>3 DEF FoundOK
<1> QED BY <1>8, <1>9, <1>10, <1>11, <1>12 DEF SearchOK

------------------------------------------------------------------------------
(* The stack is in the order in which its nodes were met, and the frames   *)
(* are a path of feeds in that order.                                      *)
Frames == [node : Int, untried : SUBSET Int]
StackOK ==
  stack \in Seq(Int) /\ \A i, j \in DOMAIN stack : i < j => index[stack[i]] < index[stack[j]]
CallOK ==
  /\ call \in Seq(Frames)
  /\ \A i \in DOMAIN call : call[i].untried \subseteq Feeds(call[i].node)
  /\ \A i, j \in DOMAIN call : i < j => index[call[i].node] < index[call[j].node]
  /\ \A i \in DOMAIN call : i > 1 => call[i].node \in Feeds(call[i - 1].node)
SearchInv == IsGraph /\ StackOK /\ CallOK /\ SearchOK

LEMMA GreyIndex ==
  ASSUME CallOK, SearchOK
  PROVE  /\ \A i \in DOMAIN call : call[i].node \in Grey /\ index[call[i].node] \in Nat
         /\ \A i, j \in DOMAIN call : call[i].node = call[j].node => i = j
         /\ \A i \in DOMAIN call : Untried(call[i].node) = call[i].untried
         /\ \A w : w \notin Grey => Untried(w) = {}
<1>1. \A i \in DOMAIN call : call[i].node \in Grey /\ index[call[i].node] \in Nat
  BY DEF Grey, SearchOK, IndexOK
<1>2. Len(call) \in Nat /\ DOMAIN call = 1..Len(call)
  BY DEF CallOK
<1>3. ASSUME NEW i \in DOMAIN call, NEW j \in DOMAIN call, call[i].node = call[j].node PROVE i = j
  <2>1. ~(i < j) /\ ~(j < i)
    BY <1>1, <1>3 DEF CallOK
  <2> QED BY <1>2, <2>1
<1>4. ASSUME NEW i \in DOMAIN call PROVE Untried(call[i].node) = call[i].untried
  <2>1. {j \in DOMAIN call : call[j].node = call[i].node} = {i}
    BY <1>3
  <2> QED BY <2>1 DEF Untried
<1>5. ASSUME NEW w, w \notin Grey PROVE Untried(w) = {}
  BY <1>5 DEF Untried, Grey
<1> QED BY <1>1, <1>3, <1>4, <1>5

LEMMA TopFacts ==
  ASSUME CallOK, SearchOK, call # <<>>
  PROVE  /\ Len(call) \in DOMAIN call /\ Len(call) \in Nat /\ Top.node \in Grey /\ Top \in Frames
         /\ \A g \in Grey : index[g] <= index[Top.node]
         /\ Untried(Top.node) = Top.untried /\ Top.untried \subseteq Feeds(Top.node)
<1>1. Len(call) \in Nat /\ DOMAIN call = 1..Len(call) /\ Len(call) # 0
  BY DEF CallOK
<1>2. Len(call) \in DOMAIN call
  BY <1>1
<1>3. Top \in Frames
  BY <1>2 DEF CallOK, Top
<1>4. ASSUME NEW g \in Grey PROVE index[g] <= index[Top.node]
  <2>1. PICK i \in DOMAIN call : g = call[i].node
    BY DEF Grey
  <2>2. i = Len(call) \/ i < Len(call)
    BY <1>1
  <2> QED BY <1>2, <2>1, <2>2, GreyIndex DEF CallOK, Top
<1> QED BY <1>1, <1>2, <1>3, <1>4, GreyIndex DEF CallOK, Top

(* A frame is pushed on a call whose last frame may have been tried.       *)
LEMMA Pushed ==
  ASSUME NEW c \in Seq(Frames), NEW f \in Frames
  PROVE  /\ Append(c, f) \in Seq(Frames) /\ Len(Append(c, f)) = Len(c) + 1 /\ Len(c) \in Nat
         /\ DOMAIN Append(c, f) = DOMAIN c \cup {Len(c) + 1} /\ DOMAIN c = 1..Len(c)
         /\ \A i \in DOMAIN c : Append(c, f)[i] = c[i]
         /\ Append(c, f)[Len(c) + 1] = f
<1>1. Len(c) \in Nat /\ DOMAIN c = 1..Len(c)
  OBVIOUS
<1>2. Append(c, f) \in Seq(Frames) /\ Len(Append(c, f)) = Len(c) + 1
  OBVIOUS
<1>3. DOMAIN Append(c, f) = 1..(Len(c) + 1)
  BY <1>2
<1> QED BY <1>1, <1>2, <1>3

LEMMA StackPushed ==
  ASSUME StackOK, SearchOK, NEW n \in Int \ DOMAIN index, MeetNode(n)
  PROVE  StackOK' /\ Live' = Live \cup {n}
<1>1. stack \in Seq(Int) /\ Len(stack) \in Nat /\ DOMAIN stack = 1..Len(stack)
  BY DEF StackOK
<1>2. stack' = Append(stack, n) /\ index' = Met(index, n)
  BY DEF MeetNode
<1>3. /\ stack' \in Seq(Int) /\ DOMAIN stack' = DOMAIN stack \cup {Len(stack) + 1}
      /\ \A i \in DOMAIN stack : stack'[i] = stack[i]
      /\ stack'[Len(stack) + 1] = n
  <2>1. stack' \in Seq(Int) /\ Len(stack') = Len(stack) + 1
    BY <1>1, <1>2
  <2>2. DOMAIN stack' = 1..(Len(stack) + 1)
    BY <2>1
  <2> QED BY <1>1, <1>2, <2>1, <2>2
<1>4. Live' = Live \cup {n}
  BY <1>3 DEF Live, InStack, Range
<1>5. \A i \in DOMAIN stack : stack[i] \in DOMAIN index /\ index[stack[i]] < Cardinality(DOMAIN index)
  BY DEF SearchOK, IndexOK, Live, InStack, Range
<1>6. \A w \in DOMAIN index : index'[w] = index[w]
  BY <1>2 DEF Met
<1>7. index'[n] = Cardinality(DOMAIN index)
  BY <1>2 DEF Met
<1>8. ASSUME NEW i \in DOMAIN stack', NEW j \in DOMAIN stack', i < j PROVE index'[stack'[i]] < index'[stack'[j]]
  <2>1. i \in DOMAIN stack
    BY <1>1, <1>3, <1>8
  <2>2. CASE j \in DOMAIN stack
    BY <1>3, <1>5, <1>6, <1>8, <2>1, <2>2 DEF StackOK
  <2>3. CASE j \notin DOMAIN stack
    BY <1>3, <1>5, <1>6, <1>7, <2>1, <2>3
  <2> QED BY <2>2, <2>3
<1> QED BY <1>3, <1>4, <1>8 DEF StackOK

LEMMA LeastChosen ==
  ASSUME NEW S, IsFiniteSet(S), S \subseteq Int, S # {} PROVE Min(S) \in S /\ \A x \in S : Min(S) <= x
BY LeastInteger DEF Min

(* Each step of the search keeps SearchInv.                                *)
LEMMA SearchStart ==
  ASSUME SearchInv, StartRoot PROVE SearchInv'
<1>0. PICK n : n = Min(DOMAIN drafts \ DOMAIN index)
  OBVIOUS
<1>1. /\ call = <<>> /\ DOMAIN drafts # DOMAIN index /\ call' = <<Frame(n)>> /\ MeetNode(n)
      /\ UNCHANGED <<graphVars, components>>
  BY <1>0 DEF StartRoot
<1>2. n \in Nodes \ DOMAIN index
  <2> DEFINE S == DOMAIN drafts \ DOMAIN index
  <2>1. IsFiniteSet(S) /\ S \subseteq Int /\ S # {}
    BY <1>1, FS_Subset DEF SearchInv, IsGraph, Nodes, SearchOK, IndexOK
  <2> HIDE DEF S
  <2>2. Min(S) \in S
    BY <2>1, LeastChosen
  <2> QED BY <1>0, <2>2 DEF S, Nodes
<1>3. n \in Int /\ Frame(n) \in Frames /\ Feeds(n) \subseteq Nodes
  BY <1>2 DEF SearchInv, IsGraph, Frame, Frames
<1>4. StackOK' /\ Live' = Live \cup {n}
  BY <1>1, <1>2, <1>3, StackPushed DEF SearchInv
<1>5. Grey = {} /\ Grey' = {n} /\ call'[1] = Frame(n) /\ DOMAIN call' = {1} /\ call' \in Seq(Frames)
  <2>1. DOMAIN call = {} /\ DOMAIN call' = {1} /\ call'[1] = Frame(n) /\ call' \in Seq(Frames)
    BY <1>1, <1>3
  <2>2. call'[1].node = n
    BY <2>1 DEF Frame
  <2> QED BY <2>1, <2>2 DEF Grey
<1>6. \A m : Feeds(m)' = Feeds(m)
  BY <1>1, GraphStays
<1>7. CallOK'
  BY <1>5, <1>6 DEF CallOK, Frame
<1>8. Tried(n)' = {}
  <2>1. {j \in DOMAIN call' : call'[j].node = n} = {1}
    BY <1>5 DEF Frame
  <2>2. call'[1].untried = Feeds(n)
    BY <1>5 DEF Frame
  <2>3. Untried(n)' = Feeds(n)
    BY <2>1, <2>2 DEF Untried
  <2> QED BY <1>6, <2>3 DEF Tried
<1>9. \A w : Untried(w) = {}
  BY <1>5, GreyIndex DEF SearchInv
<1>10. \A w \in DOMAIN index : Tried(w)' \subseteq Tried(w) \cup {n}
  BY <1>6, <1>9 DEF Tried
<1>11. SearchOK'
  BY <1>1, <1>2, <1>4, <1>5, <1>8, <1>10, MeetKeeps DEF SearchInv, MeetNode
<1> QED BY <1>1, <1>4, <1>7, <1>11, GraphStays DEF SearchInv

(* The last frame has one feed less to try.                                *)
TriedCall(t) == [call EXCEPT ![Len(call)].untried = @ \ {t}]
LEMMA TriedCallIs ==
  ASSUME CallOK, call # <<>>, NEW t
  PROVE  /\ TriedCall(t) \in Seq(Frames) /\ Len(TriedCall(t)) = Len(call) /\ DOMAIN TriedCall(t) = DOMAIN call
         /\ \A i \in DOMAIN call :
              /\ TriedCall(t)[i].node = call[i].node
              /\ TriedCall(t)[i].untried = IF i = Len(call) THEN call[i].untried \ {t} ELSE call[i].untried
<1>1. call \in Seq(Frames) /\ Len(call) \in DOMAIN call
  BY DEF CallOK
<1>2. TriedCall(t) = [i \in DOMAIN call |-> IF i = Len(call) THEN [call[i] EXCEPT !.untried = @ \ {t}] ELSE call[i]]
  BY <1>1 DEF TriedCall
<1>3. \A i \in DOMAIN call : call[i] \in Frames
  BY <1>1
<1>4. \A i \in DOMAIN call : TriedCall(t)[i] =
        IF i = Len(call) THEN [call[i] EXCEPT !.untried = @ \ {t}] ELSE call[i]
  BY <1>2
<1>5. ASSUME NEW f \in Frames
      PROVE  /\ [f EXCEPT !.untried = @ \ {t}] \in Frames
             /\ [f EXCEPT !.untried = @ \ {t}].node = f.node
             /\ [f EXCEPT !.untried = @ \ {t}].untried = f.untried \ {t}
  BY DEF Frames
<1>6. \A i \in DOMAIN call : TriedCall(t)[i] \in Frames
  BY <1>3, <1>4, <1>5
<1>7. TriedCall(t) \in Seq(Frames) /\ Len(TriedCall(t)) = Len(call) /\ DOMAIN TriedCall(t) = DOMAIN call
  <2>1. DOMAIN TriedCall(t) = 1..Len(call) /\ Len(call) \in Nat /\ DOMAIN call = 1..Len(call)
    BY <1>1, <1>2
  <2>2. TriedCall(t) \in [1..Len(call) -> Frames]
    BY <1>2, <1>6, <2>1
  <2> QED BY <2>1, <2>2
<1>8. \A i \in DOMAIN call :
        /\ TriedCall(t)[i].node = call[i].node
        /\ TriedCall(t)[i].untried = IF i = Len(call) THEN call[i].untried \ {t} ELSE call[i].untried
  BY <1>3, <1>4, <1>5
<1> QED BY <1>7, <1>8

LEMMA SearchTries ==
  ASSUME SearchInv, TrySuccessor PROVE SearchInv'
<1>0. PICK t : t = Min(Top.untried)
  OBVIOUS
<1>1. /\ call # <<>> /\ Top.untried # {} /\ UNCHANGED <<graphVars, components>>
      /\ \/ t \notin DOMAIN index /\ MeetNode(t) /\ call' = Append(TriedCall(t), Frame(t))
         \/ /\ t \in DOMAIN index /\ call' = TriedCall(t)
            /\ lowLink' = IF t \in Live THEN Lower(Top.node, index[t]) ELSE lowLink
            /\ UNCHANGED <<stack, index>>
  BY <1>0 DEF TrySuccessor, TriedCall, Live
<1>2. PICK v : v = Top.node
  OBVIOUS
<1>3. /\ Len(call) \in DOMAIN call /\ Len(call) \in Nat /\ v \in Grey /\ \A g \in Grey : index[g] <= index[v]
      /\ Untried(v) = Top.untried /\ Top.untried \subseteq Feeds(v) /\ v = call[Len(call)].node
      /\ DOMAIN call = 1..Len(call)
  BY <1>1, <1>2, TopFacts DEF SearchInv, Top, CallOK
<1>4. t \in Top.untried /\ t \in Feeds(v) /\ t \in Nodes /\ v \in DOMAIN index /\ v \in Nodes /\ t \in Int
  <2>1. v \in DOMAIN index /\ v \in Nodes
    BY <1>3 DEF SearchInv, SearchOK, IndexOK
  <2>2. IsFiniteSet(Top.untried) /\ Top.untried \subseteq Int
    BY <1>3, <2>1, FS_Subset DEF SearchInv, IsGraph
  <2>3. t \in Top.untried
    BY <1>0, <1>1, <2>2, LeastChosen
  <2> QED BY <1>3, <2>1, <2>3 DEF SearchInv, IsGraph
<1>5. /\ TriedCall(t) \in Seq(Frames) /\ Len(TriedCall(t)) = Len(call) /\ DOMAIN TriedCall(t) = DOMAIN call
      /\ \A i \in DOMAIN call :
           /\ TriedCall(t)[i].node = call[i].node
           /\ TriedCall(t)[i].untried = IF i = Len(call) THEN call[i].untried \ {t} ELSE call[i].untried
  BY <1>1, TriedCallIs DEF SearchInv
<1>6. \A m : Feeds(m)' = Feeds(m) /\ IsGraph'
  BY <1>1, GraphStays DEF SearchInv
<1>7. /\ call \in Seq(Frames)
      /\ \A i \in DOMAIN call : call[i].untried \subseteq Feeds(call[i].node) /\ call[i].node \in DOMAIN index
      /\ \A i, j \in DOMAIN call : i < j => index[call[i].node] < index[call[j].node]
      /\ \A i \in DOMAIN call : i > 1 => call[i].node \in Feeds(call[i - 1].node)
  BY GreyIndex DEF SearchInv, CallOK, SearchOK, IndexOK
<1>8. \A w : Untried(w) = UNION {call[i].untried : i \in {j \in DOMAIN call : call[j].node = w}}
  BY DEF Untried
<1>9. CASE t \notin DOMAIN index
  <2>1. MeetNode(t) /\ call' = Append(TriedCall(t), Frame(t)) /\ index' = Met(index, t) /\ lowLink' = Met(lowLink, t)
    BY <1>1, <1>9 DEF MeetNode
  <2>2. Frame(t) \in Frames /\ Frame(t).node = t /\ Frame(t).untried = Feeds(t)
    BY <1>4 DEF SearchInv, IsGraph, Frame, Frames
  <2>3. /\ call' \in Seq(Frames) /\ DOMAIN call' = DOMAIN call \cup {Len(call) + 1}
        /\ call'[Len(call) + 1].node = t /\ call'[Len(call) + 1].untried = Feeds(t)
        /\ \A i \in DOMAIN call : call'[i] = TriedCall(t)[i]
    BY <1>3, <1>5, <2>1, <2>2, Pushed
  <2>4. \A i \in DOMAIN call : call'[i].node = call[i].node /\ call'[i].untried \subseteq call[i].untried
    BY <1>5, <2>3
  <2>5. StackOK' /\ Live' = Live \cup {t}
    BY <1>4, <1>9, <2>1, StackPushed DEF SearchInv
  <2>6. Grey' = Grey \cup {t}
    BY <2>3, <2>4 DEF Grey
  <2>7. /\ \A w \in DOMAIN index : index'[w] = index[w] /\ index[w] \in Nat /\ index[w] < Cardinality(DOMAIN index)
        /\ index'[t] = Cardinality(DOMAIN index)
    <3>1. \A w \in DOMAIN index : index'[w] = index[w]
      BY <1>9, <2>1 DEF Met
    <3>2. index'[t] = Cardinality(DOMAIN index)
      BY <2>1 DEF Met
    <3>3. \A w \in DOMAIN index : index[w] \in Nat /\ index[w] < Cardinality(DOMAIN index)
      BY DEF SearchInv, SearchOK, IndexOK
    <3> QED BY <3>1, <3>2, <3>3
  <2>8. CallOK'
    <3>1. \A i \in DOMAIN call' : call'[i].untried \subseteq Feeds(call'[i].node)
      BY <1>7, <2>3, <2>4
    <3>2. ASSUME NEW i \in DOMAIN call', NEW j \in DOMAIN call', i < j
          PROVE  index'[call'[i].node] < index'[call'[j].node]
      <4>1. i \in DOMAIN call
        BY <1>3, <2>3, <3>2
      <4>2. CASE j \in DOMAIN call
        BY <1>7, <2>4, <2>7, <3>2, <4>1, <4>2
      <4>3. CASE j \notin DOMAIN call
        BY <1>7, <2>3, <2>4, <2>7, <4>1, <4>3
      <4> QED BY <4>2, <4>3
    <3>3. ASSUME NEW i \in DOMAIN call', i > 1 PROVE call'[i].node \in Feeds(call'[i - 1].node)
      <4>1. CASE i \in DOMAIN call
        <5>1. i - 1 \in DOMAIN call
          BY <1>3, <3>3, <4>1
        <5> QED BY <1>7, <2>4, <3>3, <4>1, <5>1
      <4>2. CASE i \notin DOMAIN call
        <5>1. i = Len(call) + 1 /\ i - 1 = Len(call)
          BY <1>3, <2>3, <4>2
        <5> QED BY <1>3, <1>4, <2>3, <2>4, <5>1
      <4> QED BY <4>1, <4>2
    <3> QED BY <1>6, <2>3, <3>1, <3>2, <3>3 DEF CallOK
  <2>9. t \notin Grey
    BY <1>9 DEF SearchInv, SearchOK, IndexOK
  <2>10. Tried(t)' = {}
    <3>1. Len(call) + 1 \in {j \in DOMAIN call' : call'[j].node = t}
      BY <2>3
    <3>2. Feeds(t) \subseteq Untried(t)'
      BY <2>3, <3>1 DEF Untried
    <3> QED BY <1>6, <3>2 DEF Tried
  <2>11. \A w \in DOMAIN index : Tried(w)' \subseteq Tried(w) \cup {t}
    <3>1. ASSUME NEW w, NEW x \in Untried(w), x # t PROVE x \in Untried(w)'
      <4>1. PICK i \in DOMAIN call : call[i].node = w /\ x \in call[i].untried
        BY DEF Untried
      <4>2. i \in DOMAIN call' /\ call'[i].node = w /\ x \in call'[i].untried
        BY <1>5, <2>3, <3>1, <4>1
      <4> QED BY <4>2 DEF Untried
    <3> QED BY <1>6, <3>1 DEF Tried
  <2>12. \A g \in Grey : t \in Downstream(g)
    <3>1. \A g \in Grey : v \in Downstream(g)
      BY <1>3 DEF SearchInv, SearchOK, ReachOK, IndexOK
    <3> QED BY <1>4, <3>1, DownStep DEF SearchInv
  <2>13. SearchOK'
    BY <1>1, <1>4, <1>9, <2>1, <2>5, <2>6, <2>10, <2>11, <2>12, MeetKeeps DEF SearchInv
  <2> QED BY <1>6, <2>5, <2>8, <2>13 DEF SearchInv
<1>10. CASE t \in DOMAIN index
  <2>1. call' = TriedCall(t) /\ lowLink' = (IF t \in Live THEN Lower(v, index[t]) ELSE lowLink)
        /\ UNCHANGED <<stack, index>>
    BY <1>1, <1>2, <1>10
  <2>2. \A i \in DOMAIN call : call'[i].node = call[i].node /\ call'[i].untried \subseteq call[i].untried
    BY <1>5, <2>1
  <2>3. Grey' = Grey /\ Live' = Live /\ DOMAIN call' = DOMAIN call
    BY <1>5, <2>1, <2>2 DEF Grey, Live, InStack
  <2>4. CallOK'
    <3>1. \A i \in DOMAIN call : i > 1 => i - 1 \in DOMAIN call
      BY <1>3
    <3> QED BY <1>5, <1>6, <1>7, <2>1, <2>2, <2>3, <3>1 DEF CallOK
  <2>5. \A w \in DOMAIN index : Tried(w)' \subseteq Tried(w) \cup {x \in {t} : w = v}
    <3>1. ASSUME NEW w, NEW x \in Untried(w), x # t \/ w # v PROVE x \in Untried(w)'
      <4>1. PICK i \in DOMAIN call : call[i].node = w /\ x \in call[i].untried
        BY DEF Untried
      <4>2. i \in DOMAIN call' /\ call'[i].node = w /\ x \in call'[i].untried
        BY <1>3, <1>5, <2>1, <2>3, <3>1, <4>1
      <4> QED BY <4>2 DEF Untried
    <3> QED BY <1>6, <3>1 DEF Tried
  <2>6. SearchOK'
    BY <1>1, <1>3, <1>4, <1>10, <2>1, <2>3, <2>5, LowerKeeps DEF SearchInv
  <2>7. StackOK'
    BY <2>1 DEF SearchInv, StackOK
  <2> QED BY <1>6, <2>4, <2>6, <2>7 DEF SearchInv
<1> QED BY <1>9, <1>10

(* A frame is taken off a call.                                            *)
LEMMA Popped ==
  ASSUME NEW F, NEW c \in Seq(F), c # <<>>
  PROVE  /\ Front(c) \in Seq(F) /\ Len(Front(c)) = Len(c) - 1 /\ Len(c) \in Nat /\ Len(c) >= 1
         /\ DOMAIN Front(c) = 1..(Len(c) - 1) /\ DOMAIN c = 1..Len(c)
         /\ \A i \in DOMAIN Front(c) : Front(c)[i] = c[i] /\ i \in DOMAIN c
<1>1. Len(c) \in Nat /\ Len(c) # 0 /\ DOMAIN c = 1..Len(c)
  OBVIOUS
<1>2. Front(c) = SubSeq(c, 1, Len(c) - 1)
  BY DEF Front
<1>3. Front(c) \in Seq(F) /\ Len(Front(c)) = Len(c) - 1
  BY <1>1, <1>2
<1>4. DOMAIN Front(c) = 1..(Len(c) - 1)
  BY <1>3
<1>5. \A i \in DOMAIN Front(c) : Front(c)[i] = c[i] /\ i \in DOMAIN c
  BY <1>1, <1>2, <1>4
<1> QED BY <1>1, <1>3, <1>4, <1>5

LEMMA StackIndex ==
  ASSUME StackOK, SearchOK
  PROVE  /\ DOMAIN stack = 1..Len(stack) /\ Len(stack) \in Nat
         /\ \A i \in DOMAIN stack : stack[i] \in Live /\ index[stack[i]] \in Nat
         /\ \A w \in Live : \E i \in DOMAIN stack : stack[i] = w
         /\ \A i, j \in DOMAIN stack : index[stack[i]] <= index[stack[j]] <=> i <= j
<1>1. DOMAIN stack = 1..Len(stack) /\ Len(stack) \in Nat
  BY DEF StackOK
<1>2. \A w \in Live : w \in DOMAIN index /\ index[w] \in Nat
  BY DEF SearchOK, IndexOK
<1>3. Live = {stack[i] : i \in DOMAIN stack}
  BY DEF Live, InStack, Range
<1>4. \A i \in DOMAIN stack : stack[i] \in Live /\ index[stack[i]] \in Nat
  BY <1>2, <1>3
<1>5. ASSUME NEW i \in DOMAIN stack, NEW j \in DOMAIN stack
      PROVE  index[stack[i]] <= index[stack[j]] <=> i <= j
  <2>1. i < j \/ i = j \/ j < i
    BY <1>1
  <2> QED BY <1>1, <1>4, <2>1 DEF StackOK
<1> QED BY <1>1, <1>3, <1>4, <1>5

(* The component is what is on the stack from the node on.                 *)
CutAt(v, from, s) ==
  /\ {stack[i] : i \in from..Len(stack)} = {w \in Live : index[v] <= index[w]}
  /\ {s[i] : i \in DOMAIN s} = {w \in Live : ~(index[v] <= index[w])}
  /\ s \in Seq(Int) /\ \A i \in DOMAIN s : s[i] = stack[i] /\ i \in DOMAIN stack
LEMMA StackCut ==
  ASSUME StackOK, SearchOK, NEW from \in DOMAIN stack, NEW v, v = stack[from],
         NEW s, s = SubSeq(stack, 1, from - 1)
  PROVE  CutAt(v, from, s)
<1>1. /\ DOMAIN stack = 1..Len(stack) /\ Len(stack) \in Nat
      /\ \A i \in DOMAIN stack : stack[i] \in Live /\ index[stack[i]] \in Nat
      /\ \A w \in Live : \E i \in DOMAIN stack : stack[i] = w
      /\ \A i, j \in DOMAIN stack : index[stack[i]] <= index[stack[j]] <=> i <= j
  BY StackIndex
<1>2. from \in DOMAIN stack /\ stack[from] = v
  OBVIOUS
<1>3. {stack[i] : i \in from..Len(stack)} = {w \in Live : index[v] <= index[w]}
  <2>1. ASSUME NEW i \in from..Len(stack) PROVE stack[i] \in Live /\ index[v] <= index[stack[i]]
    <3>1. i \in DOMAIN stack /\ from <= i
      BY <1>1, <1>2
    <3> QED BY <1>1, <1>2, <3>1
  <2>2. ASSUME NEW w \in Live, index[v] <= index[w] PROVE \E i \in from..Len(stack) : w = stack[i]
    <3>1. PICK i \in DOMAIN stack : stack[i] = w
      BY <1>1
    <3>2. from <= i
      BY <1>1, <1>2, <2>2, <3>1
    <3>3. i \in from..Len(stack)
      BY <1>1, <1>2, <3>2
    <3> QED BY <3>1, <3>3
  <2>3. \A w : w \in {stack[i] : i \in from..Len(stack)} <=> \E i \in from..Len(stack) : w = stack[i]
    OBVIOUS
  <2> DEFINE L == {stack[i] : i \in from..Len(stack)}
             R == {w \in Live : index[v] <= index[w]}
  <2>4. L \subseteq R
    <3>1. ASSUME NEW w \in L PROVE w \in R
      BY <2>1, <2>3
    <3> QED BY <3>1
  <2>5. R \subseteq L
    <3>1. ASSUME NEW w \in R PROVE w \in L
      BY <2>2, <2>3
    <3> QED BY <3>1
  <2> QED BY <2>4, <2>5
<1>5. s \in Seq(Int) /\ DOMAIN s = 1..(from - 1) /\ \A i \in DOMAIN s : s[i] = stack[i] /\ i \in DOMAIN stack
  <2>1. stack \in Seq(Int)
    BY DEF StackOK
  <2>2. s \in Seq(Int) /\ Len(s) = from - 1
    BY <1>1, <1>2, <2>1
  <2>3. DOMAIN s = 1..(from - 1)
    BY <1>1, <1>2, <2>2
  <2>4. \A i \in 1..(from - 1) : s[i] = stack[i] /\ i \in DOMAIN stack
    BY <1>1, <1>2, <2>1
  <2> QED BY <2>2, <2>3, <2>4
<1>6. {s[i] : i \in DOMAIN s} = {w \in Live : ~(index[v] <= index[w])}
  <2>1. ASSUME NEW i \in DOMAIN s PROVE s[i] \in Live /\ ~(index[v] <= index[s[i]])
    <3>1. ~(from <= i)
      BY <1>1, <1>2, <1>5
    <3> QED BY <1>1, <1>2, <1>5, <3>1
  <2>2. ASSUME NEW w \in Live, ~(index[v] <= index[w]) PROVE \E i \in DOMAIN s : w = s[i]
    <3>1. PICK i \in DOMAIN stack : stack[i] = w
      BY <1>1
    <3>2. ~(from <= i)
      BY <1>1, <1>2, <2>2, <3>1
    <3>3. i \in DOMAIN s
      BY <1>1, <1>2, <1>5, <3>2
    <3> QED BY <1>5, <3>1, <3>3
  <2> DEFINE L == {s[i] : i \in DOMAIN s}
             R == {w \in Live : ~(index[v] <= index[w])}
  <2>3. L \subseteq R
    BY <2>1
  <2>4. R \subseteq L
    BY <2>2
  <2> QED BY <2>3, <2>4
<1> QED BY <1>3, <1>5, <1>6 DEF CutAt

LEMMA SearchReturns ==
  ASSUME SearchInv, Return PROVE SearchInv'
<1>0. PICK v, u, from, T : /\ v = Top.node /\ u = call[Len(call) - 1].node
                           /\ from = CHOOSE i \in DOMAIN stack : stack[i] = Top.node
                           /\ T = {stack[i] : i \in from..Len(stack)}
  OBVIOUS
<1>1. /\ call # <<>> /\ Top.untried = {} /\ UNCHANGED <<graphVars, index>> /\ call' = Front(call)
      /\ lowLink' = IF Len(call) = 1 THEN lowLink ELSE Lower(u, lowLink[v])
      /\ stack' = IF lowLink[v] = index[v] THEN SubSeq(stack, 1, from - 1) ELSE stack
      /\ components' = IF lowLink[v] = index[v] /\ Cardinality(T) > 1 THEN components \cup {T} ELSE components
  BY <1>0 DEF Return
<1>2. /\ Len(call) \in DOMAIN call /\ Len(call) \in Nat /\ v \in Grey /\ \A g \in Grey : index[g] <= index[v]
      /\ Untried(v) = {} /\ v = call[Len(call)].node /\ call[Len(call)].untried = {}
      /\ DOMAIN call = 1..Len(call) /\ call \in Seq(Frames)
  BY <1>0, <1>1, TopFacts DEF SearchInv, Top, CallOK
<1>3. /\ call' \in Seq(Frames) /\ Len(call') = Len(call) - 1 /\ DOMAIN call' = 1..(Len(call) - 1)
      /\ \A i \in DOMAIN call' : call'[i] = call[i] /\ i \in DOMAIN call
  BY <1>1, <1>2, Popped
<1>4. /\ \A i \in DOMAIN call : call[i].node \in Grey /\ index[call[i].node] \in Nat
      /\ \A i, j \in DOMAIN call : call[i].node = call[j].node => i = j
      /\ \A w : w \notin Grey => Untried(w) = {}
  BY GreyIndex DEF SearchInv
<1>5. \A m : Feeds(m)' = Feeds(m) /\ IsGraph'
  BY <1>1, GraphStays DEF SearchInv
<1>6. Grey' = Grey \ {v}
  <2>1. \A i \in DOMAIN call' : call'[i].node \in Grey /\ call'[i].node # v
    <3>1. \A i \in DOMAIN call' : i # Len(call)
      BY <1>2, <1>3
    <3> QED BY <1>2, <1>3, <1>4, <3>1
  <2>2. \A i \in DOMAIN call : i \in DOMAIN call' \/ call[i].node = v
    BY <1>2, <1>3
  <2> QED BY <1>3, <2>1, <2>2 DEF Grey
<1>7. CallOK'
  <2>1. /\ \A i \in DOMAIN call : call[i].untried \subseteq Feeds(call[i].node)
        /\ \A i, j \in DOMAIN call : i < j => index[call[i].node] < index[call[j].node]
        /\ \A i \in DOMAIN call : i > 1 => call[i].node \in Feeds(call[i - 1].node)
    BY DEF SearchInv, CallOK
  <2>2. \A i \in DOMAIN call' : i > 1 => i - 1 \in DOMAIN call'
    BY <1>2, <1>3
  <2> QED BY <1>1, <1>3, <1>5, <2>1, <2>2 DEF CallOK
<1>8. \A w : Untried(w)' = Untried(w)
  <2>1. ASSUME NEW w, NEW x \in Untried(w) PROVE x \in Untried(w)'
    <3>1. PICK i \in DOMAIN call : call[i].node = w /\ x \in call[i].untried
      BY DEF Untried
    <3>2. i \in DOMAIN call' /\ call'[i].node = w /\ x \in call'[i].untried
      BY <1>2, <1>3, <3>1
    <3> QED BY <3>2 DEF Untried
  <2>2. ASSUME NEW w, NEW x \in Untried(w)' PROVE x \in Untried(w)
    <3>1. PICK i \in DOMAIN call' : call'[i].node = w /\ x \in call'[i].untried
      BY DEF Untried
    <3> QED BY <1>3, <3>1 DEF Untried
  <2> QED BY <2>1, <2>2
<1>9. \A w : Tried(w)' = Tried(w)
  BY <1>5, <1>8 DEF Tried
<1>10. Tried(v) = Feeds(v) /\ \A w \in Live \ Grey : Tried(w) = Feeds(w)
  BY <1>2, <1>4 DEF Tried
<1>11. (Grey = {v}) <=> Len(call) = 1
  <2>1. CASE Len(call) = 1
    <3>1. DOMAIN call = {1}
      BY <1>2, <2>1
    <3> QED BY <1>2, <2>1, <3>1 DEF Grey
  <2>2. CASE Len(call) # 1
    <3>1. 1 \in DOMAIN call /\ 1 # Len(call)
      BY <1>2, <2>2
    <3> QED BY <1>2, <1>4, <2>2, <3>1
  <2> QED BY <2>1, <2>2
<1>12. Grey # {v} => u \in Grey' /\ v \in Feeds(u) /\ \A g \in Grey' : index[g] <= index[u]
  <2>1. SUFFICES ASSUME Len(call) # 1 PROVE u \in Grey' /\ v \in Feeds(u) /\ \A g \in Grey' : index[g] <= index[u]
    BY <1>11
  <2>2. Len(call) - 1 \in DOMAIN call' /\ Len(call) - 1 \in DOMAIN call /\ Len(call) > 1
    BY <1>2, <1>3, <2>1
  <2>3. u \in Grey'
    BY <1>0, <1>3, <2>2 DEF Grey
  <2>4. v \in Feeds(u)
    BY <1>0, <1>2, <2>2 DEF SearchInv, CallOK
  <2>5. ASSUME NEW g \in Grey' PROVE index[g] <= index[u]
    <3>1. PICK i \in DOMAIN call' : g = call'[i].node
      BY DEF Grey
    <3>2. i \in DOMAIN call /\ g = call[i].node /\ (i = Len(call) - 1 \/ i < Len(call) - 1)
      BY <1>2, <1>3, <3>1
    <3>3. index[g] \in Nat /\ index[u] \in Nat
      BY <1>0, <1>4, <2>2, <3>2
    <3> QED BY <1>0, <2>2, <3>2, <3>3 DEF SearchInv, CallOK
  <2> QED BY <2>3, <2>4, <2>5
<1>13. v \in Live
  BY <1>2 DEF SearchInv, SearchOK, IndexOK
<1>15. PICK cut : cut = SubSeq(stack, 1, from - 1)
  OBVIOUS
<1>16. /\ T = {w \in Live : index[v] <= index[w]}
       /\ {cut[i] : i \in DOMAIN cut} = {w \in Live : ~(index[v] <= index[w])}
       /\ cut \in Seq(Int) /\ \A i \in DOMAIN cut : cut[i] = stack[i] /\ i \in DOMAIN stack
  <2>1. from \in DOMAIN stack /\ v = stack[from]
    BY <1>0, <1>13, StackIndex DEF SearchInv
  <2>2. StackOK /\ SearchOK
    BY DEF SearchInv
  <2>3. CutAt(v, from, cut)
    BY <1>15, <2>1, <2>2, StackCut
  <2> QED BY <1>0, <2>3 DEF CutAt
<1>17. StackOK' /\ Live' = IF lowLink[v] = index[v] THEN Live \ T ELSE Live
  <2>1. CASE lowLink[v] = index[v]
    <3>1. stack' = cut
      BY <1>1, <1>15, <2>1
    <3>2. StackOK'
      BY <1>1, <1>16, <3>1 DEF SearchInv, StackOK
    <3>3. Live' = {cut[i] : i \in DOMAIN cut}
      BY <3>1 DEF Live, InStack, Range
    <3> QED BY <1>16, <2>1, <3>2, <3>3
  <2>2. CASE lowLink[v] # index[v]
    BY <1>1, <2>2 DEF SearchInv, StackOK, Live, InStack
  <2> QED BY <2>1, <2>2
<1>18. SearchOK'
  <2>1. lowLink' = IF Grey = {v} THEN lowLink ELSE Lower(u, lowLink[v])
    BY <1>1, <1>11
  <2> QED BY <1>1, <1>2, <1>6, <1>9, <1>10, <1>12, <1>16, <1>17, <2>1, ReturnKeeps DEF SearchInv
<1> QED BY <1>5, <1>7, <1>17, <1>18 DEF SearchInv

(* The search begins with nothing met and ends with everything done.       *)
LEMMA SearchBegins ==
  ASSUME IsGraph, call = <<>>, stack = <<>>, index = <<>>, lowLink = <<>>, components = {}
  PROVE  SearchInv
<1>1. /\ DOMAIN index = {} /\ DOMAIN call = {} /\ DOMAIN stack = {} /\ DOMAIN lowLink = {}
      /\ call \in Seq(Frames) /\ stack \in Seq(Int)
  OBVIOUS
<1>2. Grey = {} /\ Live = {} /\ Done = {}
  BY <1>1 DEF Grey, Live, InStack, Range, Done
<1>3. StackOK /\ CallOK
  BY <1>1 DEF StackOK, CallOK
<1>4. IndexOK
  <2>1. index \in [{} -> Nat] /\ lowLink \in [{} -> Nat]
    BY <1>1
  <2> QED BY <1>1, <1>2, <2>1 DEF IndexOK
<1>5. TriedOK /\ ReachOK /\ LowOK /\ FoundOK
  BY <1>1, <1>2 DEF TriedOK, Shut, ReachOK, LowOK, FoundOK
<1> QED BY <1>3, <1>4, <1>5 DEF SearchInv, SearchOK
LEMMA SearchEnds ==
  ASSUME SearchInv, call = <<>>, DOMAIN index = DOMAIN drafts
  PROVE  components = Knots
<1>1. Grey = {}
  BY DEF Grey
<1>2. Live = {}
  BY <1>1 DEF SearchInv, SearchOK, ReachOK
<1>3. Done = Nodes
  BY <1>2 DEF Done, Nodes
<1> QED BY <1>3 DEF SearchInv, SearchOK, FoundOK, Knots

------------------------------------------------------------------------------
(* A finite set of numbers can be listed from the smallest to the largest. *)
Upward(S, p) ==
  p \in [1..Cardinality(S) -> S] /\ \A i, j \in DOMAIN p : i < j => p[i] < p[j]
LEMMA SortedExists ==
  ASSUME NEW S, IsFiniteSet(S), S \subseteq Int PROVE \E p : Upward(S, p)
<1> DEFINE Bad == {Cardinality(R) : R \in {Q \in SUBSET S : ~\E p : Upward(Q, p)}}
<1>1. SUFFICES ASSUME Bad # {} PROVE FALSE
  OBVIOUS
<1>2. \A R \in SUBSET S : IsFiniteSet(R) /\ Cardinality(R) \in Nat
  BY FS_Subset, FS_CardinalityType
<1>3. Bad \subseteq Nat
  BY <1>2
<1>4. PICK n \in Bad : \A m \in Bad : n <= m
  BY <1>1, <1>3, LeastNatural
<1>5. PICK R \in SUBSET S : Cardinality(R) = n /\ ~\E p : Upward(R, p)
  OBVIOUS
<1>6. R # {}
  <2>1. SUFFICES ASSUME R = {} PROVE FALSE
    OBVIOUS
  <2>2. n = 0
    BY <1>5, <2>1, FS_EmptySet
  <2>3. PICK p : p = [i \in 1..0 |-> i]
    OBVIOUS
  <2>4. p \in [1..n -> R] /\ DOMAIN p = {}
    BY <2>1, <2>2, <2>3
  <2> QED BY <1>5, <2>4 DEF Upward
<1>7. PICK x \in R : \A y \in R : x >= y
  BY <1>2, <1>6, GreatestInteger
<1>8. Cardinality(R \ {x}) = n - 1 /\ n \in Nat
  BY <1>2, <1>5, FS_RemoveElement
<1>9. n >= 1
  BY <1>2, <1>8
<1>10. PICK p : Upward(R \ {x}, p)
  <2>1. SUFFICES ASSUME ~\E p : Upward(R \ {x}, p) PROVE FALSE
    OBVIOUS
  <2>2. R \ {x} \in SUBSET S
    OBVIOUS
  <2>3. n - 1 \in Bad
    BY <1>8, <2>1, <2>2
  <2> QED BY <1>4, <1>8, <2>3
<1> HIDE DEF Bad
<1>11. p \in [1..(n - 1) -> R \ {x}] /\ \A i, j \in DOMAIN p : i < j => p[i] < p[j]
  BY <1>8, <1>10 DEF Upward
<1>12. PICK q : q = [i \in 1..n |-> IF i = n THEN x ELSE p[i]]
  OBVIOUS
<1>13. \A i \in 1..n : i # n => i \in 1..(n - 1) /\ p[i] \in R /\ p[i] < x /\ q[i] = p[i]
  <2>1. \A i \in 1..n : i # n => i \in 1..(n - 1)
    BY <1>8
  <2>2. \A i \in 1..(n - 1) : p[i] \in R /\ p[i] # x
    BY <1>11
  <2>3. \A y \in R : y # x => y < x
    BY <1>7
  <2> QED BY <1>12, <2>1, <2>2, <2>3
<1>14. q \in [1..n -> R] /\ DOMAIN q = 1..n /\ q[n] = x
  BY <1>8, <1>9, <1>12, <1>13
<1>15. ASSUME NEW i \in 1..n, NEW j \in 1..n, i < j PROVE q[i] < q[j]
  <2>1. i # n
    BY <1>8, <1>15
  <2>2. CASE j = n
    BY <1>13, <1>14, <2>1, <2>2
  <2>3. CASE j # n
    BY <1>11, <1>13, <1>15, <2>1, <2>3
  <2> QED BY <2>2, <2>3
<1>16. Upward(R, q)
  BY <1>5, <1>14, <1>15 DEF Upward
<1> QED BY <1>5, <1>16

ListsAll(S, p) ==
  /\ Len(p) \in Nat /\ p \in Seq(S) /\ \A i \in 1..Len(p) : p[i] \in S
  /\ \A i, j \in 1..Len(p) : p[i] = p[j] => i = j
  /\ \A x \in S : \E i \in 1..Len(p) : p[i] = x
(* The order in which the code sorts ids is that one.                      *)
LEMMA AscendingIs ==
  ASSUME NEW S, IsFiniteSet(S), S \subseteq Int
  PROVE  ListsAll(S, Ascending(S))
<1>1. PICK p, n : p = Ascending(S) /\ n = Cardinality(S)
  OBVIOUS
<1>2. Upward(S, p)
  <2>1. PICK q : Upward(S, q)
    BY SortedExists
  <2>2. \E r \in [1..Cardinality(S) -> S] : \A i, j \in DOMAIN r : i < j => r[i] < r[j]
    BY <2>1 DEF Upward
  <2> QED BY <1>1, <2>2 DEF Ascending, Upward
<1>3. n \in Nat /\ p \in [1..n -> S] /\ \A i, j \in 1..n : i < j => p[i] < p[j]
  BY <1>1, <1>2, FS_CardinalityType DEF Upward
<1>4. ASSUME NEW i \in 1..n, NEW j \in 1..n, p[i] = p[j] PROVE i = j
  <2>1. p[i] \in Int /\ p[j] \in Int
    BY <1>3
  <2>2. ~(i < j) /\ ~(j < i)
    BY <1>3, <1>4, <2>1
  <2> QED BY <1>3, <2>2
<1>5. p \in Injection(1..n, S)
  BY <1>3, <1>4 DEF Injection, IsInjective
<1>6. Cardinality(1..n) = n
  BY <1>3, FS_Interval
<1>7. p \in Surjection(1..n, S)
  BY <1>1, <1>5, <1>6, FS_Injection
<1>8. \A x \in S : \E i \in 1..n : p[i] = x
  BY <1>7 DEF Surjection
<1>9. p \in Seq(S) /\ Len(p) = n
  BY <1>3
<1> QED BY <1>1, <1>3, <1>4, <1>8, <1>9 DEF ListsAll

(* The breadth-first search of one knot: the paths it found, its queue.    *)
Root == Min(ring)
Seen == DOMAIN cameFrom \cup {Root}
RingOK ==
  /\ ring \in Knots /\ Root \in ring /\ \A n \in ring : Root <= n
  /\ Seen \subseteq ring /\ Root \notin DOMAIN cameFrom /\ \A m \in DOMAIN cameFrom : cameFrom[m] \in Seen
ArePaths(to) == to = [m \in Seen |-> IF m = Root THEN <<m>> ELSE Append(to[cameFrom[m]], m)]
(* Each path found has a node of every length on it, so is a shortest; the *)
(* queue is in the order of their lengths, which differ by one at most; and*)
(* all that is fed by a node already expanded was seen, no later than next.*)
IsPath(to, m) ==
  /\ to[m] \in Seq(Seen) /\ to[m] # <<>> /\ to[m][1] = Root /\ to[m][Len(to[m])] = m
  /\ \A i \in DOMAIN to[m] : Len(to[to[m][i]]) = i
  /\ \A i \in DOMAIN to[m] : i < Len(to[m]) => to[m][i + 1] \in Feeds(to[m][i])
PathsOK(to) == ArePaths(to) /\ \A m \in Seen : IsPath(to, m)
QueueOK(to) ==
  /\ queue \in Seq(Seen)
  /\ \A i, j \in DOMAIN queue : queue[i] = queue[j] => i = j
  /\ \A i, j \in DOMAIN queue : i <= j => Len(to[queue[i]]) <= Len(to[queue[j]])
  /\ \A i, j \in DOMAIN queue : Len(to[queue[j]]) <= Len(to[queue[i]]) + 1
Expanded == Seen \ Range(queue)
ExpandedOK(to) ==
  \A x \in Expanded :
    /\ Root \notin Feeds(x)
    /\ \A y \in Feeds(x) \cap ring : y \in Seen /\ Len(to[y]) <= Len(to[x]) + 1
    /\ \A i \in DOMAIN queue : Len(to[x]) <= Len(to[queue[i]])
BreadthInv == RingOK /\ \E to : PathsOK(to) /\ QueueOK(to) /\ ExpandedOK(to)

LEMMA KnotsFacts ==
  ASSUME IsGraph, NEW c \in Knots
  PROVE  /\ c \subseteq Nodes /\ c \subseteq Int /\ IsFiniteSet(c) /\ c # {} /\ Min(c) \in c
         /\ \A n \in c : Min(c) <= n /\ c = Knot(n)
<1>1. PICK n \in Nodes : c = Knot(n) /\ Cardinality(c) > 1
  BY DEF Knots
<1>2. c \subseteq Nodes
  BY <1>1, DownNodes DEF Knot
<1>3. IsFiniteSet(c) /\ c \subseteq Int
  BY <1>2, FS_Subset DEF IsGraph
<1>4. c # {}
  BY <1>1, FS_EmptySet
<1>5. \A m \in c : c = Knot(m)
  BY <1>1, KnotSame
<1> QED BY <1>2, <1>3, <1>4, <1>5, LeastChosen

LEMMA PathNats ==
  ASSUME NEW to, PathsOK(to)
  PROVE  \A m \in Seen : Len(to[m]) \in Nat /\ Len(to[m]) >= 1 /\ DOMAIN to[m] = 1..Len(to[m])
<1> SUFFICES ASSUME NEW m \in Seen PROVE Len(to[m]) \in Nat /\ Len(to[m]) >= 1 /\ DOMAIN to[m] = 1..Len(to[m])
  OBVIOUS
<1>1. to[m] \in Seq(Seen) /\ to[m] # <<>>
  BY DEF PathsOK, IsPath
<1> QED BY <1>1

LEMMA BreadthStart ==
  ASSUME IsGraph, UNCHANGED graphVars, NEW c \in Knots, ring' = c, queue' = <<Min(c)>>, cameFrom' = <<>>
  PROVE  BreadthInv'
<1>1. PICK s : s = Min(c)
  OBVIOUS
<1>2. c \subseteq Int /\ s \in c /\ \A n \in c : s <= n
  BY <1>1, KnotsFacts
<1>3. Root' = s /\ DOMAIN cameFrom' = {} /\ Seen' = {s} /\ queue' = <<s>>
  BY <1>1 DEF Root, Seen
<1>4. RingOK'
  BY <1>2, <1>3, GraphStays DEF RingOK
<1>5. PICK to : to = [m \in {s} |-> <<m>>]
  OBVIOUS
<1>6. to[s] = <<s>> /\ Len(to[s]) = 1 /\ DOMAIN to[s] = {1} /\ to[s][1] = s /\ to[s] \in Seq({s}) /\ to[s] # <<>>
  BY <1>5
<1>7. PathsOK(to)'
  <2>1. ArePaths(to)'
    BY <1>3, <1>5 DEF ArePaths
  <2>2. IsPath(to, s)'
    <3>1. to[s] \in Seq(Seen') /\ to[s] # <<>> /\ to[s][1] = Root' /\ to[s][Len(to[s])] = s
      BY <1>3, <1>6
    <3>2. \A i \in {1} : Len(to[to[s][i]]) = i /\ ~(i < Len(to[s]))
      BY <1>6
    <3> QED BY <1>6, <3>1, <3>2 DEF IsPath
  <2> QED BY <1>3, <2>1, <2>2 DEF PathsOK
<1>8. DOMAIN queue' = {1} /\ queue'[1] = s /\ queue' \in Seq(Seen')
  BY <1>3
<1>9. QueueOK(to)'
  BY <1>6, <1>8 DEF QueueOK
<1>10. Expanded' = {}
  BY <1>3, <1>8 DEF Expanded, Range
<1> QED BY <1>4, <1>7, <1>9, <1>10 DEF BreadthInv, ExpandedOK

(* Whoever leaves the front of a queue, others join at its end.            *)
LEMMA TailThen ==
  ASSUME NEW S, NEW q \in Seq(S), q # <<>>, NEW a \in Seq(S), NEW r, r = Tail(q) \o a, NEW n, n = Len(q) - 1
  PROVE  /\ n \in Nat /\ Len(a) \in Nat /\ DOMAIN q = 1..(n + 1) /\ DOMAIN a = 1..Len(a) /\ DOMAIN r = 1..(n + Len(a))
         /\ r \in Seq(S)
         /\ \A i \in DOMAIN r : i <= n => i + 1 \in DOMAIN q /\ r[i] = q[i + 1]
         /\ \A i \in DOMAIN r : ~(i <= n) => i - n \in DOMAIN a /\ r[i] = a[i - n]
<1>1. Len(q) \in Nat /\ Len(q) # 0 /\ DOMAIN q = 1..Len(q)
  OBVIOUS
<1>2. n \in Nat /\ DOMAIN q = 1..(n + 1) /\ Len(a) \in Nat /\ DOMAIN a = 1..Len(a)
  BY <1>1
<1>3. PICK t : t = Tail(q)
  OBVIOUS
<1>4. t \in Seq(S) /\ Len(t) = n /\ \A i \in 1..n : t[i] = q[i + 1]
  BY <1>1, <1>3
<1>5. r \in Seq(S) /\ Len(r) = n + Len(a)
  BY <1>2, <1>3, <1>4
<1>6. DOMAIN r = 1..(n + Len(a))
  BY <1>2, <1>5
<1>7. \A i \in DOMAIN r : i <= n => i + 1 \in DOMAIN q /\ r[i] = q[i + 1]
  <2>1. \A i \in 1..n : r[i] = t[i]
    BY <1>2, <1>3, <1>4
  <2> QED BY <1>2, <1>4, <1>6, <2>1
<1>8. \A i \in DOMAIN r : ~(i <= n) => i - n \in DOMAIN a /\ r[i] = a[i - n]
  <2>1. \A i \in 1..(n + Len(a)) : ~(i <= n) => r[i] = a[i - n]
    BY <1>2, <1>3, <1>4
  <2> QED BY <1>2, <1>6, <2>1
<1> QED BY <1>2, <1>5, <1>6, <1>7, <1>8

(* The node at the head of the queue is expanded: where its neighbours came *)
(* from, and the paths to them.                                            *)
CameBy(h, new) == [n \in DOMAIN cameFrom \cup new |-> IF n \in new THEN h ELSE cameFrom[n]]
Onward(to, h, new) == [m \in Seen \cup new |-> IF m \in Seen THEN to[m] ELSE Append(to[h], m)]
LEMMA BreadthPaths ==
  ASSUME RingOK, NEW to, PathsOK(to), NEW h \in Seen, NEW new, new \cap Seen = {}, new \subseteq Feeds(h) \cap ring,
         NEW came, came = CameBy(h, new),
         cameFrom' = came, ring' = ring, UNCHANGED graphVars,
         NEW up, up = Onward(to, h, new)
  PROVE  PathsOK(up)' /\ Root' = Root /\ Seen' = Seen \cup new
<1> USE DEF CameBy, Onward
<1>1. Root' = Root /\ Seen' = Seen \cup new /\ DOMAIN came = DOMAIN cameFrom \cup new
  BY DEF Root, Seen
<1>2. /\ \A m \in Seen : Len(to[m]) \in Nat /\ Len(to[m]) >= 1 /\ DOMAIN to[m] = 1..Len(to[m]) /\ to[m] \in Seq(Seen)
      /\ \A m \in Seen : up[m] = to[m]
      /\ \A m \in new : up[m] = Append(to[h], m) /\ m \notin Seen /\ m # Root /\ came[m] = h
      /\ \A m \in DOMAIN cameFrom : came[m] = cameFrom[m] /\ m \in Seen
  <2>1. \A m \in Seen : to[m] \in Seq(Seen)
    BY DEF PathsOK, IsPath
  <2> QED BY <2>1, PathNats DEF Seen
<1>3. ArePaths(up)'
  <2>1. ASSUME NEW m \in Seen \cup new PROVE up[m] = IF m = Root THEN <<m>> ELSE Append(up[came[m]], m)
    <3>1. CASE m \in new
      BY <1>2, <3>1
    <3>2. CASE m \in Seen
      <4>1. to[m] = IF m = Root THEN <<m>> ELSE Append(to[cameFrom[m]], m)
        BY <3>2 DEF PathsOK, ArePaths
      <4>2. m # Root => m \in DOMAIN cameFrom /\ cameFrom[m] \in Seen
        BY <3>2 DEF RingOK, Seen
      <4> QED BY <1>2, <3>2, <4>1, <4>2
    <3> QED BY <3>1, <3>2
  <2>2. up = [m \in Seen \cup new |-> IF m = Root THEN <<m>> ELSE Append(up[came[m]], m)]
    BY <2>1
  <2> QED BY <1>1, <2>2 DEF ArePaths
<1>4. \A m : Feeds(m)' = Feeds(m)
  BY GraphStays
<1>5. ASSUME NEW m \in Seen PROVE IsPath(up, m)'
  <2>1. IsPath(to, m)
    BY DEF PathsOK
  <2>2. \A i \in DOMAIN to[m] : to[m][i] \in Seen
    BY <1>2
  <2>3. \A i \in DOMAIN to[m] : Len(up[up[m][i]]) = i /\ (i < Len(up[m]) => up[m][i + 1] \in Feeds(up[m][i]))
    BY <1>2, <2>1, <2>2 DEF IsPath
  <2>4. up[m] \in Seq(Seen \cup new)
    BY <1>2
  <2> QED BY <1>1, <1>2, <1>4, <2>1, <2>3, <2>4 DEF IsPath
<1>6. ASSUME NEW m \in new PROVE IsPath(up, m)'
  <2>1. PICK n : n = Len(to[h])
    OBVIOUS
  <2>2. /\ n \in Nat /\ n >= 1 /\ DOMAIN to[h] = 1..n /\ to[h] \in Seq(Seen) /\ to[h][1] = Root /\ to[h][n] = h
        /\ \A i \in 1..n : Len(to[to[h][i]]) = i /\ to[h][i] \in Seen /\ (i < n => to[h][i + 1] \in Feeds(to[h][i]))
    BY <1>2, <2>1 DEF PathsOK, IsPath
  <2>3. /\ up[m] \in Seq(Seen \cup new) /\ Len(up[m]) = n + 1 /\ up[m][n + 1] = m
        /\ \A i \in 1..n : up[m][i] = to[h][i]
    <3>1. to[h] \in Seq(Seen \cup new) /\ up[m] = Append(to[h], m)
      BY <1>2
    <3> QED BY <2>1, <2>2, <3>1
  <2>4. up[m] # <<>> /\ DOMAIN up[m] = 1..(n + 1)
    BY <2>2, <2>3
  <2>5. up[m][1] = Root
    BY <2>2, <2>3
  <2>6. ASSUME NEW i \in 1..(n + 1)
        PROVE  Len(up[up[m][i]]) = i /\ (i < n + 1 => up[m][i + 1] \in Feeds(up[m][i]))
    <3>1. CASE i \in 1..n
      <4>1. up[up[m][i]] = to[to[h][i]]
        BY <1>2, <2>2, <2>3, <3>1
      <4>2. CASE i < n
        BY <2>2, <2>3, <3>1, <4>1, <4>2
      <4>3. CASE i = n
        <5>1. m \in Feeds(h)
          OBVIOUS
        <5> QED BY <2>2, <2>3, <3>1, <4>1, <4>3, <5>1
      <4> QED BY <2>2, <3>1, <4>2, <4>3
    <3>2. CASE i = n + 1
      BY <2>2, <2>3, <3>2
    <3> QED BY <2>2, <3>1, <3>2
  <2> QED BY <1>1, <1>4, <2>2, <2>3, <2>4, <2>5, <2>6 DEF IsPath
<1> QED BY <1>1, <1>3, <1>5, <1>6 DEF PathsOK

LEMMA BreadthExpands ==
  ASSUME IsGraph, BreadthInv, ExpandLoop PROVE BreadthInv'
<1>1. PICK to : PathsOK(to) /\ QueueOK(to) /\ ExpandedOK(to)
  BY DEF BreadthInv
<1>2. PICK h, new, a : h = Head(queue) /\ new = Found /\ a = Ascending(new)
  OBVIOUS
<1>3. /\ ring # {} /\ queue # <<>> /\ Root \notin Feeds(h) /\ queue' = Tail(queue) \o a /\ cameFrom' = Reached
      /\ UNCHANGED graphVars /\ ring' = ring /\ RingOK
      /\ new = (Feeds(h) \cap ring) \ DOMAIN cameFrom
  BY <1>2 DEF ExpandLoop, Root, Found, BreadthInv
<1>4. /\ queue \in Seq(Seen) /\ 1 \in DOMAIN queue /\ h = queue[1] /\ h \in Seen
  <2>1. queue \in Seq(Seen) /\ Len(queue) \in Nat /\ Len(queue) # 0
    BY <1>1, <1>3 DEF QueueOK
  <2>2. 1 \in DOMAIN queue /\ h = queue[1]
    BY <1>2, <2>1
  <2> QED BY <2>1, <2>2
<1>5. new \cap Seen = {} /\ new \subseteq Feeds(h) \cap ring
  BY <1>3 DEF Seen
<1>6. PICK up : up = Onward(to, h, new)
  OBVIOUS
<1>7. PICK came : came = CameBy(h, new) /\ cameFrom' = came
  BY <1>2, <1>3 DEF Reached, CameBy
<1>8. PathsOK(up)' /\ Root' = Root /\ Seen' = Seen \cup new
  <2>1. RingOK /\ PathsOK(to) /\ UNCHANGED graphVars /\ ring' = ring
    BY <1>1, <1>3
  <2> QED BY <1>4, <1>5, <1>6, <1>7, <2>1, BreadthPaths
<1>9. /\ \A m \in Seen : Len(to[m]) \in Nat /\ up[m] = to[m]
      /\ \A m \in new : Len(up[m]) = Len(to[h]) + 1
  <2>1. \A m \in Seen : Len(to[m]) \in Nat /\ to[m] \in Seq(Seen)
    BY <1>1, PathNats DEF PathsOK, IsPath
  <2>2. \A m : Len(Append(to[h], m)) = Len(to[h]) + 1
    BY <1>4, <2>1
  <2> QED BY <1>4, <1>5, <1>6, <2>1, <2>2 DEF Onward
<1>10. RingOK'
  <2>1. \A m \in DOMAIN cameFrom' : cameFrom'[m] \in Seen
    BY <1>3, <1>4, <1>7 DEF RingOK, CameBy
  <2>2. Root \notin DOMAIN cameFrom'
    BY <1>3, <1>7 DEF RingOK, CameBy
  <2> QED BY <1>3, <1>5, <1>8, <2>1, <2>2, GraphStays DEF RingOK
<1>11. PICK n \in Nat :
         /\ a \in Seq(new) /\ Len(a) = n /\ \A i \in 1..n : a[i] \in new
         /\ \A i, j \in 1..n : a[i] = a[j] => i = j
         /\ \A x \in new : \E i \in 1..n : a[i] = x
  <2>1. new \subseteq ring
    BY <1>3
  <2>2. IsFiniteSet(new) /\ new \subseteq Int
    BY <1>3, <2>1, KnotsFacts, FS_Subset DEF RingOK
  <2>3. ListsAll(new, a)
    BY <1>2, <2>2, AscendingIs
  <2> QED BY <2>3 DEF ListsAll
<1>12. PICK k, r : k = Len(queue) - 1 /\ r = queue'
  OBVIOUS
<1>13. /\ k \in Nat /\ DOMAIN queue = 1..(k + 1) /\ DOMAIN r = 1..(k + n) /\ r \in Seq(Seen')
       /\ \A i \in DOMAIN r : i <= k => i + 1 \in DOMAIN queue /\ r[i] = queue[i + 1]
       /\ \A i \in DOMAIN r : ~(i <= k) => i - k \in 1..n /\ r[i] = a[i - k]
  <2>1. queue \in Seq(Seen') /\ a \in Seq(Seen')
    BY <1>4, <1>8, <1>11
  <2>2. /\ k \in Nat /\ DOMAIN queue = 1..(k + 1) /\ DOMAIN a = 1..Len(a) /\ DOMAIN r = 1..(k + Len(a))
        /\ r \in Seq(Seen')
        /\ \A i \in DOMAIN r : i <= k => i + 1 \in DOMAIN queue /\ r[i] = queue[i + 1]
        /\ \A i \in DOMAIN r : ~(i <= k) => i - k \in DOMAIN a /\ r[i] = a[i - k]
    BY <1>3, <1>12, <2>1, TailThen
  <2> QED BY <1>11, <2>2
<1>14. /\ \A i, j \in DOMAIN queue : queue[i] = queue[j] => i = j
       /\ \A i, j \in DOMAIN queue : i <= j => Len(to[queue[i]]) <= Len(to[queue[j]])
       /\ \A i, j \in DOMAIN queue : Len(to[queue[j]]) <= Len(to[queue[i]]) + 1
       /\ \A i \in DOMAIN queue : queue[i] \in Seen
  BY <1>1, <1>4 DEF QueueOK
<1>15. /\ \A i \in DOMAIN r : i <= k => /\ i + 1 \in DOMAIN queue /\ i + 1 \in 2..(k + 1) /\ r[i] = queue[i + 1] /\ r[i] \in Seen
                                        /\ up[r[i]] = to[queue[i + 1]]
       /\ \A i \in DOMAIN r : ~(i <= k) => i - k \in 1..n /\ r[i] = a[i - k] /\ r[i] \in new /\ Len(up[r[i]]) = Len(to[h]) + 1
       /\ DOMAIN r \subseteq Nat /\ \A i \in DOMAIN r : i >= 1
  BY <1>9, <1>11, <1>13, <1>14
<1>16. /\ Len(to[h]) \in Nat
       /\ \A i \in DOMAIN r : Len(up[r[i]]) \in Nat /\ Len(to[h]) <= Len(up[r[i]]) /\ Len(up[r[i]]) <= Len(to[h]) + 1
  <2>1. \A i \in DOMAIN queue : Len(to[queue[i]]) \in Nat /\ Len(to[h]) <= Len(to[queue[i]]) /\ Len(to[queue[i]]) <= Len(to[h]) + 1
    BY <1>4, <1>9, <1>13, <1>14
  <2> QED BY <1>4, <1>9, <1>15, <2>1
<1>17. QueueOK(up)'
  <2>1. ASSUME NEW i \in DOMAIN r, NEW j \in DOMAIN r, r[i] = r[j] PROVE i = j
    <3>1. i <= k <=> j <= k
      BY <1>5, <1>15, <2>1
    <3>2. CASE i <= k
      BY <1>13, <1>14, <1>15, <2>1, <3>1, <3>2
    <3>3. CASE ~(i <= k)
      BY <1>11, <1>13, <1>15, <2>1, <3>1, <3>3
    <3> QED BY <3>2, <3>3
  <2>2. ASSUME NEW i \in DOMAIN r, NEW j \in DOMAIN r, i <= j PROVE Len(up[r[i]]) <= Len(up[r[j]])
    <3>1. CASE j <= k
      <4>1. i <= k /\ i + 1 <= j + 1
        BY <1>13, <1>15, <2>2, <3>1
      <4> QED BY <1>14, <1>15, <3>1, <4>1
    <3>2. CASE ~(j <= k)
      BY <1>15, <1>16, <3>2
    <3> QED BY <3>1, <3>2
  <2>3. \A i, j \in DOMAIN r : Len(up[r[j]]) <= Len(up[r[i]]) + 1
    BY <1>16
  <2> QED BY <1>12, <1>13, <2>1, <2>2, <2>3 DEF QueueOK
<1>18. Expanded' = Expanded \cup {h}
  <2>1. ASSUME NEW x, x \in Range(r) PROVE x \in new \/ (x \in Range(queue) /\ x # h)
    <3>1. PICK i \in DOMAIN r : x = r[i]
      BY <2>1 DEF Range
    <3>2. CASE i <= k
      <4>1. i + 1 \in DOMAIN queue /\ x = queue[i + 1] /\ i + 1 # 1
        BY <1>15, <3>1, <3>2
      <4> QED BY <1>4, <1>14, <4>1 DEF Range
    <3>3. CASE ~(i <= k)
      BY <1>15, <3>1, <3>3
    <3> QED BY <3>2, <3>3
  <2>2. ASSUME NEW x, x \in new PROVE x \in Range(r)
    <3>1. PICK i \in 1..n : a[i] = x
      BY <1>11, <2>2
    <3>2. i + k \in DOMAIN r /\ ~(i + k <= k) /\ (i + k) - k = i
      BY <1>13
    <3>3. r[i + k] = x
      BY <1>15, <3>1, <3>2
    <3> QED BY <3>2, <3>3 DEF Range
  <2>3. ASSUME NEW x, x \in Range(queue), x # h PROVE x \in Range(r)
    <3>1. PICK i \in DOMAIN queue : queue[i] = x
      BY <2>3 DEF Range
    <3>2. i # 1 /\ i \in 1..(k + 1)
      BY <1>4, <1>13, <2>3, <3>1
    <3>3. i - 1 \in DOMAIN r /\ i - 1 <= k /\ (i - 1) + 1 = i
      BY <1>13, <3>2
    <3>4. r[i - 1] = x
      BY <1>15, <3>1, <3>3
    <3> QED BY <3>3, <3>4 DEF Range
  <2>4. h \in Range(queue) /\ h \notin new
    BY <1>4, <1>5 DEF Range
  <2> QED BY <1>4, <1>5, <1>8, <1>12, <2>1, <2>2, <2>3, <2>4 DEF Expanded
<1>19. ExpandedOK(up)'
  <2>1. SUFFICES ASSUME NEW x \in Expanded \cup {h}
                 PROVE  /\ Root \notin Feeds(x)
                        /\ \A y \in Feeds(x) \cap ring : y \in Seen \cup new /\ Len(up[y]) <= Len(up[x]) + 1
                        /\ \A i \in DOMAIN r : Len(up[x]) <= Len(up[r[i]])
    BY <1>3, <1>8, <1>12, <1>18, GraphStays DEF ExpandedOK
  <2>2. /\ Expanded \subseteq Seen
        /\ \A z \in Expanded :
             /\ Root \notin Feeds(z)
             /\ \A y \in Feeds(z) \cap ring : y \in Seen /\ Len(to[y]) <= Len(to[z]) + 1
             /\ Len(to[z]) <= Len(to[h])
    BY <1>1, <1>4 DEF Expanded, ExpandedOK
  <2>3. Len(up[x]) \in Nat /\ up[x] = to[x] /\ x \in Seen
    BY <1>4, <1>9, <2>2
  <2>4. CASE x = h
    <3>1. ASSUME NEW y \in Feeds(h) \cap ring PROVE y \in Seen \cup new /\ Len(up[y]) <= Len(to[h]) + 1
      <4>1. CASE y \in new
        BY <1>9, <1>16, <4>1
      <4>2. CASE y \notin new
        <5>1. y \in Seen
          BY <1>3, <4>2 DEF Seen
        <5>2. CASE y \in Expanded
          BY <1>9, <1>16, <2>2, <5>1, <5>2
        <5>3. CASE y \notin Expanded
          <6>1. PICK i \in DOMAIN queue : queue[i] = y
            BY <5>1, <5>3 DEF Expanded, Range
          <6> QED BY <1>4, <1>9, <1>14, <5>1, <6>1
        <5> QED BY <5>2, <5>3
      <4> QED BY <4>1, <4>2
    <3> QED BY <1>3, <1>9, <1>4, <1>16, <2>4, <3>1
  <2>5. CASE x # h
    <3>1. x \in Expanded
      BY <2>5
    <3>2. \A i \in DOMAIN r : Len(up[x]) <= Len(up[r[i]])
      BY <1>16, <2>2, <2>3, <3>1
    <3> QED BY <1>9, <2>2, <2>3, <3>1, <3>2
  <2> QED BY <2>4, <2>5
<1> QED BY <1>8, <1>10, <1>17, <1>19 DEF BreadthInv

LEMMA PathIs ==
  ASSUME RingOK, NEW to, PathsOK(to), NEW h \in Seen PROVE PathTo(h) = to[h]
<1>1. PICK g : g = CHOOSE f : ArePaths(f)
  OBVIOUS
<1>2. ArePaths(g) /\ ArePaths(to)
  BY <1>1 DEF PathsOK
<1>3. PathTo(h) = g[h]
  BY <1>1 DEF PathTo, ArePaths, Root, Seen
<1> DEFINE Bad == {Len(to[m]) : m \in {x \in Seen : g[x] # to[x]}}
<1>4. SUFFICES ASSUME Bad # {} PROVE FALSE
  BY <1>3
<1>5. \A m \in Seen : Len(to[m]) \in Nat /\ to[m] \in Seq(Seen)
  BY PathNats DEF PathsOK, IsPath
<1>6. Bad \subseteq Nat
  BY <1>5
<1>7. PICK n \in Bad : \A m \in Bad : n <= m
  BY <1>4, <1>6, LeastNatural
<1>8. PICK m \in Seen : g[m] # to[m] /\ n = Len(to[m])
  OBVIOUS
<1>9. /\ g[m] = IF m = Root THEN <<m>> ELSE Append(g[cameFrom[m]], m)
      /\ to[m] = IF m = Root THEN <<m>> ELSE Append(to[cameFrom[m]], m)
  BY <1>2 DEF ArePaths
<1>10. m # Root /\ cameFrom[m] \in Seen
  BY <1>8, <1>9 DEF RingOK, Seen
<1>11. n = Len(to[cameFrom[m]]) + 1
  BY <1>5, <1>8, <1>9, <1>10
<1>12. g[cameFrom[m]] = to[cameFrom[m]]
  <2>1. SUFFICES ASSUME g[cameFrom[m]] # to[cameFrom[m]] PROVE FALSE
    OBVIOUS
  <2>2. Len(to[cameFrom[m]]) \in Bad
    BY <1>10, <2>1
  <2> HIDE DEF Bad
  <2> QED BY <1>5, <1>7, <1>10, <1>11, <2>2
<1> QED BY <1>8, <1>9, <1>10, <1>12

LEMMA LoopSteps ==
  ASSUME NEW n \in Nat, n >= 1, NEW q, DOMAIN q = 1..n, Len(q) = n
  PROVE  FeedLoop(q) <=> q[1] \in Feeds(q[n]) /\ \A i \in 1..n : i < n => q[i + 1] \in Feeds(q[i])
<1>1. \A i \in 1..n : i < n => (i % n) = i
  OBVIOUS
<1>2. (n % n) = 0
  OBVIOUS
<1>3. ASSUME FeedLoop(q) PROVE q[1] \in Feeds(q[n]) /\ \A i \in 1..n : i < n => q[i + 1] \in Feeds(q[i])
  <2>1. \A i \in 1..n : q[(i % n) + 1] \in Feeds(q[i])
    BY <1>3 DEF FeedLoop
  <2>2. q[0 + 1] \in Feeds(q[n])
    BY <1>2, <2>1
  <2>3. ASSUME NEW i \in 1..n, i < n PROVE q[i + 1] \in Feeds(q[i])
    BY <1>1, <2>1, <2>3
  <2> QED BY <2>2, <2>3
<1>4. ASSUME q[1] \in Feeds(q[n]), \A i \in 1..n : i < n => q[i + 1] \in Feeds(q[i]) PROVE FeedLoop(q)
  <2>1. ASSUME NEW i \in 1..n PROVE q[(i % n) + 1] \in Feeds(q[i])
    <3>1. CASE i < n
      BY <1>1, <1>4, <3>1
    <3>2. CASE ~(i < n)
      <4>1. i = n
        BY <3>2
      <4>2. (i % n) + 1 = 1
        BY <1>2, <4>1
      <4> QED BY <1>4, <4>1, <4>2
    <3> QED BY <3>1, <3>2
  <2> QED BY <2>1 DEF FeedLoop
<1> QED BY <1>3, <1>4

LEMMA LoopReturns ==
  ASSUME IsGraph, NEW n \in Nat, n >= 1, NEW q, DOMAIN q = 1..n, \A i \in 1..n : q[i] \in Nodes,
         q[1] \in Feeds(q[n]), \A i \in 1..n : i < n => q[i + 1] \in Feeds(q[i])
  PROVE  \A i \in 1..n : q[1] \in Downstream(q[i])
<1> DEFINE Bad == {n - i : i \in {j \in 1..n : q[1] \notin Downstream(q[j])}}
<1>1. SUFFICES ASSUME Bad # {} PROVE FALSE
  OBVIOUS
<1>2. Bad \subseteq Nat
  OBVIOUS
<1>3. PICK d \in Bad : \A e \in Bad : d <= e
  BY <1>1, <1>2, LeastNatural
<1>4. PICK i \in 1..n : q[1] \notin Downstream(q[i]) /\ d = n - i
  OBVIOUS
<1>5. q[i] \in Downstream(q[i])
  BY DownSelf
<1>6. i < n
  <2>1. SUFFICES ASSUME ~(i < n) PROVE FALSE
    OBVIOUS
  <2>2. i = n
    BY <2>1
  <2> QED BY <1>4, <1>5, <2>2, DownStep
<1>7. q[i + 1] \in Downstream(q[i]) /\ i + 1 \in 1..n
  BY <1>5, <1>6, DownStep
<1>8. q[1] \notin Downstream(q[i + 1])
  BY <1>4, <1>7, DownTrans
<1>9. n - (i + 1) \in Bad
  BY <1>7, <1>8
<1> HIDE DEF Bad
<1> QED BY <1>3, <1>4, <1>9

(* The path to a node that feeds the root, closed, is a shortest loop.     *)
LEMMA LoopFacts ==
  ASSUME IsGraph, RingOK, NEW to, PathsOK(to), NEW h \in Seen, Root \in Feeds(h), NEW p, p = to[h], NEW n, n = Len(p)
  PROVE  /\ n \in Nat /\ n >= 1 /\ DOMAIN p = 1..n /\ p \in Seq(ring) /\ p[1] = Root
         /\ FeedLoop(p) /\ IsInjective(p) /\ SmallestRotation(p) = p
<1>1. /\ n \in Nat /\ n >= 1 /\ DOMAIN p = 1..n /\ p \in Seq(Seen) /\ p[1] = Root /\ p[n] = h
      /\ \A i \in 1..n : Len(to[p[i]]) = i /\ p[i] \in Seen /\ (i < n => p[i + 1] \in Feeds(p[i]))
  <2>1. /\ n \in Nat /\ n >= 1 /\ DOMAIN p = 1..n
    BY PathNats
  <2>2. p \in Seq(Seen) /\ p[1] = Root /\ p[n] = h
    BY DEF PathsOK, IsPath
  <2>3. \A i \in 1..n : Len(to[p[i]]) = i /\ (i < n => p[i + 1] \in Feeds(p[i]))
    BY <2>1 DEF PathsOK, IsPath
  <2> QED BY <2>1, <2>2, <2>3
<1>2. FeedLoop(p)
  BY <1>1, LoopSteps
<1>3. \A i, j \in 1..n : p[i] = p[j] => i = j
  BY <1>1
<1>4. ring \subseteq Int /\ Seen \subseteq ring
  BY KnotsFacts DEF RingOK
<1>5. p \in Seq(ring) /\ \A i \in 1..n : p[1] <= p[i]
  <2>1. p \in [1..n -> Seen]
    BY <1>1
  <2>2. p \in [1..n -> ring]
    BY <1>4, <2>1
  <2>3. p \in Seq(ring)
    BY <1>1, <2>2
  <2> QED BY <1>1, <2>3, <1>4 DEF RingOK
<1>6. SmallestRotation(p) = p
  <2>1. PICK k : k = CHOOSE i \in DOMAIN p : \A j \in DOMAIN p : p[i] <= p[j]
    OBVIOUS
  <2>2. \E i \in DOMAIN p : \A j \in DOMAIN p : p[i] <= p[j]
    <3>1. 1 \in DOMAIN p /\ \A j \in DOMAIN p : p[1] <= p[j]
      BY <1>1, <1>5
    <3> QED BY <3>1
  <2>3. k \in 1..n /\ \A j \in 1..n : p[k] <= p[j]
    BY <1>1, <2>1, <2>2
  <2>4. p[k] = p[1]
    <3>1. p[k] <= p[1] /\ p[1] <= p[k]
      BY <1>1, <1>5, <2>3
    <3>2. \A i \in 1..n : p[i] \in Int
      BY <1>1, <1>4
    <3> QED BY <1>1, <2>3, <3>1, <3>2
  <2>5. k = 1
    BY <1>1, <1>3, <2>3, <2>4
  <2>6. SmallestRotation(p) = SubSeq(p, 1, n) \o SubSeq(p, 1, 1 - 1)
    BY <2>1, <2>5 DEF SmallestRotation
  <2>7. SubSeq(p, 1, n) = p
    BY <1>1, <1>5
  <2>8. SubSeq(p, 1, 1 - 1) = <<>>
    BY <1>1, <1>5
  <2> QED BY <1>5, <2>6, <2>7, <2>8
<1> QED BY <1>1, <1>2, <1>3, <1>5, <1>6 DEF IsInjective

(* A loop shorter than the path that is expanded would have been met by a  *)
(* node expanded before.                                                   *)
LEMMA NoneShorter ==
  ASSUME IsGraph, RingOK, NEW to, PathsOK(to), QueueOK(to), ExpandedOK(to), NEW h, 1 \in DOMAIN queue, h = queue[1],
         NEW k \in Nat, k >= 2, k < Len(to[h]), NEW q \in [1..k -> Downstream(Root)], q[1] = Root, FeedLoop(q)
  PROVE  FALSE
<1>1. Root \in Feeds(q[k]) /\ \A i \in 1..k : i < k => q[i + 1] \in Feeds(q[i])
  <2>1. DOMAIN q = 1..k /\ Len(q) = k
    OBVIOUS
  <2> QED BY <2>1, LoopSteps
<1>2. \A i \in 1..k : q[i] \in ring
  <2>1. \A i \in 1..k : q[i] \in Downstream(Root) /\ q[i] \in Nodes
    BY DownNodes
  <2>2. \A i \in 1..k : Root \in Downstream(q[i])
    BY <1>1, <2>1, LoopReturns
  <2>3. ring = Knot(Root)
    BY KnotsFacts DEF RingOK
  <2> QED BY <2>1, <2>2, <2>3 DEF Knot
<1>3. /\ \A m \in Seen : Len(to[m]) \in Nat
      /\ Len(to[Root]) = 1 /\ Root \in Seen
  <2>1. to[Root] = <<Root>>
    BY DEF PathsOK, ArePaths, Seen
  <2> QED BY <2>1, PathNats DEF Seen
<1>4. h \in Seen /\ Len(to[h]) \in Nat /\ \A m \in Seen \ Expanded : Len(to[h]) <= Len(to[m])
  <2>1. queue \in Seq(Seen)
    BY DEF QueueOK
  <2>2. h \in Seen
    BY <2>1
  <2>3. ASSUME NEW m \in Seen \ Expanded PROVE Len(to[h]) <= Len(to[m])
    <3>1. PICK i \in DOMAIN queue : m = queue[i]
      BY DEF Expanded, Range
    <3>2. 1 <= i
      BY <2>1
    <3> QED BY <3>1, <3>2 DEF QueueOK
  <2> QED BY <1>3, <2>2, <2>3
<1> DEFINE Good(i) == q[i] \in Expanded /\ Len(to[q[i]]) <= i
           Bad == {i \in 1..k : ~Good(i)}
<1>5. Bad = {}
  <2>1. SUFFICES ASSUME Bad # {} PROVE FALSE
    OBVIOUS
  <2>2. Bad \subseteq Nat
    OBVIOUS
  <2>3. PICK i \in Bad : \A j \in Bad : i <= j
    BY <2>1, <2>2, LeastNatural
  <2>4. i \in 1..k /\ ~Good(i)
    OBVIOUS
  <2>5. CASE i = 1
    <3>1. Root \in Expanded
      BY <1>3, <1>4
    <3> HIDE DEF Bad
    <3>2. q[i] = Root
      BY <2>5
    <3>3. Len(to[q[i]]) <= i
      <4>1. Len(to[q[i]]) = 1
        BY <1>3, <3>2
      <4>2. i = 1
        BY <2>5
      <4>3. Len(to[q[i]]) <= 1
        BY <4>1
      <4> QED BY <4>2, <4>3
    <3> QED BY <2>4, <3>1, <3>2, <3>3
  <2>6. CASE i # 1
    <3>1. i - 1 \in 1..k /\ i - 1 < k /\ (i - 1) + 1 = i
      BY <2>4, <2>6
    <3>2. Good(i - 1)
      <4>1. i - 1 \notin Bad
        <5> HIDE DEF Bad
        <5> QED BY <2>3, <2>4
      <4> QED BY <3>1, <4>1
    <3>3. q[i] \in Feeds(q[i - 1]) /\ q[i] \in ring
      BY <1>1, <1>2, <2>4, <3>1
    <3>4. q[i] \in Seen /\ Len(to[q[i]]) <= Len(to[q[i - 1]]) + 1 /\ q[i - 1] \in Seen
      BY <3>2, <3>3 DEF ExpandedOK, Expanded
    <3>5. Len(to[q[i]]) <= i
      BY <1>3, <2>4, <3>2, <3>4
    <3>6. q[i] \in Expanded
      BY <1>3, <1>4, <2>4, <3>4, <3>5
    <3> QED BY <2>4, <3>5, <3>6
  <2> QED BY <2>5, <2>6
<1>6. q[k] \in Expanded
  <2>1. k \in 1..k
    OBVIOUS
  <2>2. Good(k)
    BY <1>5, <2>1
  <2> QED BY <2>2
<1> QED BY <1>1, <1>6 DEF ExpandedOK

LEMMA LoopCloses ==
  ASSUME IsGraph, BreadthInv, queue # <<>>, Root \in Feeds(Head(queue)),
         NEW p, p = SmallestRotation(PathTo(Head(queue)))
  PROVE  IsShortest(p) /\ p[1] \in ring /\ p[1] \in Nodes
<1>1. PICK to : PathsOK(to) /\ QueueOK(to) /\ ExpandedOK(to) /\ RingOK
  BY DEF BreadthInv
<1>2. PICK h : h = Head(queue)
  OBVIOUS
<1>3. 1 \in DOMAIN queue /\ h = queue[1] /\ h \in Seen
  <2>1. queue \in Seq(Seen) /\ Len(queue) \in Nat /\ Len(queue) # 0
    BY <1>1 DEF QueueOK
  <2> QED BY <1>2, <2>1
<1>4. PathTo(h) = to[h]
  BY <1>1, <1>3, PathIs
<1>5. PICK n : n = Len(to[h])
  OBVIOUS
<1>6. /\ n \in Nat /\ n >= 1 /\ DOMAIN p = 1..n /\ p \in Seq(ring) /\ p[1] = Root
      /\ FeedLoop(p) /\ IsInjective(p) /\ p = to[h]
  <2>1. Root \in Feeds(h)
    BY <1>2
  <2> QED BY <1>1, <1>2, <1>3, <1>4, <1>5, <2>1, LoopFacts
<1>7. Root \in ring /\ Root \in Nodes /\ ring = Knot(Root) /\ \A m \in ring : Root <= m
  BY <1>1, KnotsFacts DEF RingOK
<1>8. \A m \in Downstream(p[1]) : p[1] \in Downstream(m) => p[1] <= m
  BY <1>6, <1>7 DEF Knot
<1>9. ASSUME NEW k \in 2..(Len(p) - 1), NEW q \in [1..k -> Downstream(p[1])], q[1] = p[1], FeedLoop(q) PROVE FALSE
  <2>1. k \in Nat /\ k >= 2 /\ k < Len(to[h])
    BY <1>5, <1>6
  <2> QED BY <1>1, <1>3, <1>6, <1>9, <2>1, NoneShorter
<1> QED BY <1>6, <1>7, <1>8, <1>9 DEF IsShortest

------------------------------------------------------------------------------
(* Every knot is still to be searched, being searched, or has its loop.    *)
LoopsInv ==
  /\ components \subseteq Knots
  /\ ring # {} => ring \in Knots \ components /\ BreadthInv
  /\ \A p \in loops : IsShortest(p) /\ p[1] \in Nodes /\ Knot(p[1]) \in Knots \ components /\ Knot(p[1]) # ring
  /\ \A p, q \in loops : Knot(p[1]) = Knot(q[1]) => p = q
  /\ \A c \in Knots : c \in components \/ c = ring \/ \E p \in loops : Knot(p[1]) = c

LEMMA ShortestStays == ASSUME UNCHANGED graphVars PROVE \A p : IsShortest(p)' = IsShortest(p)
<1>1. \A n : Feeds(n)' = Feeds(n) /\ Downstream(n)' = Downstream(n)
  BY GraphStays
<1>2. \A p : FeedLoop(p)' = FeedLoop(p)
  BY <1>1 DEF FeedLoop
<1> QED BY <1>1, <1>2 DEF IsShortest

LEMMA LoopsStay ==
  ASSUME UNCHANGED graphVars, UNCHANGED <<components, ringVars>>, LoopsInv PROVE LoopsInv'
<1>1. UNCHANGED <<components, ring, queue, cameFrom, loops>>
  BY DEF ringVars
<1>2. /\ Nodes' = Nodes /\ Knots' = Knots
      /\ \A n : Feeds(n)' = Feeds(n) /\ Knot(n)' = Knot(n)
  BY GraphStays
<1>3. \A p : IsShortest(p)' = IsShortest(p)
  BY ShortestStays
<1>4. ring # {} => BreadthInv'
  <2>1. Root' = Root /\ Seen' = Seen
    BY <1>1 DEF Root, Seen
  <2>2. \A to : PathsOK(to)' = PathsOK(to)
    BY <1>1, <1>2, <2>1 DEF PathsOK, ArePaths, IsPath
  <2>3. \A to : QueueOK(to)' = QueueOK(to)
    BY <1>1, <2>1 DEF QueueOK
  <2>4. \A to : ExpandedOK(to)' = ExpandedOK(to)
    BY <1>1, <1>2, <2>1 DEF ExpandedOK, Expanded, Range
  <2>5. RingOK' = RingOK
    BY <1>1, <1>2, <2>1 DEF RingOK
  <2> QED BY <2>2, <2>3, <2>4, <2>5 DEF LoopsInv, BreadthInv
<1> QED BY <1>1, <1>2, <1>3, <1>4 DEF LoopsInv

LEMMA LoopsBegin ==
  ASSUME components = Knots, ring = {}, loops = {} PROVE LoopsInv
BY DEF LoopsInv

LEMMA LoopsSeek ==
  ASSUME IsGraph, LoopsInv, StartLoop PROVE LoopsInv'
<1>1. PICK c \in components : components' = components \ {c} /\ ring' = c /\ queue' = <<Min(c)>> /\ cameFrom' = <<>>
  BY DEF StartLoop
<1>2. UNCHANGED graphVars /\ loops' = loops /\ ring = {}
  BY DEF StartLoop
<1>3. Nodes' = Nodes /\ Knots' = Knots /\ \A n : Knot(n)' = Knot(n)
  BY <1>2, GraphStays
<1>4. c \in Knots
  BY <1>1 DEF LoopsInv
<1>5. BreadthInv'
  BY <1>1, <1>2, <1>4, BreadthStart
<1>6. \A p : IsShortest(p)' = IsShortest(p)
  BY <1>2, ShortestStays
<1>7. {} \notin Knots
  BY KnotsFacts
<1> QED BY <1>1, <1>2, <1>3, <1>4, <1>5, <1>6, <1>7 DEF LoopsInv

LEMMA LoopsExpand ==
  ASSUME IsGraph, LoopsInv, ExpandLoop PROVE LoopsInv'
<1>1. UNCHANGED graphVars /\ loops' = loops /\ ring' = ring /\ components' = components /\ ring # {}
  BY DEF ExpandLoop
<1>2. Nodes' = Nodes /\ Knots' = Knots /\ \A n : Knot(n)' = Knot(n)
  BY <1>1, GraphStays
<1>3. BreadthInv'
  BY <1>1, BreadthExpands DEF LoopsInv
<1>4. \A p : IsShortest(p)' = IsShortest(p)
  BY <1>1, ShortestStays
<1> QED BY <1>1, <1>2, <1>3, <1>4 DEF LoopsInv

LEMMA LoopsClose ==
  ASSUME IsGraph, LoopsInv, CloseLoop PROVE LoopsInv'
<1>1. PICK p : p = SmallestRotation(PathTo(Head(queue)))
  OBVIOUS
<1>2. /\ ring # {} /\ queue # <<>> /\ Root \in Feeds(Head(queue)) /\ loops' = loops \cup {p} /\ ring' = {}
      /\ UNCHANGED graphVars /\ components' = components
  BY <1>1 DEF CloseLoop, Root
<1>3. /\ Nodes' = Nodes /\ Knots' = Knots /\ \A n : Knot(n)' = Knot(n)
      /\ \A q : IsShortest(q)' = IsShortest(q)
  BY <1>2, GraphStays, ShortestStays
<1>4. ring \in Knots \ components /\ BreadthInv
  BY <1>2 DEF LoopsInv
<1>5. IsShortest(p) /\ p[1] \in ring /\ p[1] \in Nodes
  BY <1>1, <1>2, <1>4, LoopCloses
<1>6. Knot(p[1]) = ring
  BY <1>4, <1>5, KnotsFacts
<1>7. {} \notin Knots
  BY KnotsFacts
<1>8. \A q \in loops' : IsShortest(q) /\ q[1] \in Nodes /\ Knot(q[1]) \in Knots \ components
  BY <1>2, <1>4, <1>5, <1>6 DEF LoopsInv
<1>9. \A q, r \in loops' : Knot(q[1]) = Knot(r[1]) => q = r
  BY <1>2, <1>6 DEF LoopsInv
<1>10. \A c \in Knots : c \in components \/ \E q \in loops' : Knot(q[1]) = c
  BY <1>2, <1>6 DEF LoopsInv
<1>11. components \subseteq Knots
  BY DEF LoopsInv
<1>12. \A q \in loops' : /\ IsShortest(q)' /\ q[1] \in Nodes' /\ Knot(q[1])' \in Knots' \ components'
                          /\ Knot(q[1])' # ring'
  BY <1>2, <1>3, <1>7, <1>8
<1>13. \A q, r \in loops' : Knot(q[1])' = Knot(r[1])' => q = r
  BY <1>3, <1>9
<1>14. \A c \in Knots' : c \in components' \/ \E q \in loops' : Knot(q[1])' = c
  BY <1>2, <1>3, <1>10
<1>15. components' \subseteq Knots' /\ ring' = {}
  BY <1>2, <1>3, <1>11
<1> QED BY <1>12, <1>13, <1>14, <1>15 DEF LoopsInv

(* What is fed by what it feeds lies on a loop, and a loop has two nodes.  *)
LEMMA FeedsBack ==
  ASSUME IsGraph, NEW n \in Nodes
  PROVE  (\E m \in Feeds(n) : n \in Downstream(m)) <=> Knot(n) \in Knots
<1>1. n \in Knot(n) /\ IsFiniteSet(Knot(n)) /\ Knot(n) \subseteq Nodes
  <2>1. n \in Knot(n) /\ Knot(n) \subseteq Nodes
    BY DownSelf, DownNodes DEF Knot
  <2> QED BY <2>1, FS_Subset DEF IsGraph
<1>2. ASSUME NEW m \in Feeds(n), n \in Downstream(m) PROVE Knot(n) \in Knots
  <2>1. m # n /\ m \in Knot(n)
    BY <1>2, DownSelf, DownStep, NoSelfFeed DEF Knot
  <2>2. Cardinality(Knot(n)) # 1
    BY <1>1, <2>1, FS_Singleton
  <2>3. Cardinality(Knot(n)) \in Nat /\ Cardinality(Knot(n)) # 0
    BY <1>1, FS_CardinalityType, FS_EmptySet
  <2> QED BY <2>2, <2>3 DEF Knots
<1>3. ASSUME Knot(n) \in Knots PROVE \E m \in Feeds(n) : n \in Downstream(m)
  <2>1. Knot(n) # {n}
    BY <1>3, FS_Singleton DEF Knots
  <2>2. PICK x \in Knot(n) : x # n
    BY <1>1, <2>1
  <2>3. PICK k \in Feeds(n) : x \in Downstream(k)
    BY <2>2, DownFirst DEF Knot
  <2>4. n \in Downstream(x)
    BY DEF Knot
  <2>5. n \in Downstream(k)
    BY <2>3, <2>4, DownTrans
  <2> QED BY <2>3, <2>5
<1> QED BY <1>2, <1>3

(* In the end a node that feeds itself by some way has one loop, others    *)
(* none.                                                                   *)
LEMMA LoopsCounted ==
  ASSUME IsGraph, LoopsInv, components = {}, ring = {}, NEW n \in Nodes
  PROVE  (\E m \in Feeds(n) : n \in Downstream(m)) <=>
         Cardinality({p \in loops : p[1] \in Downstream(n) /\ n \in Downstream(p[1])}) = 1
<1> DEFINE L == {p \in loops : p[1] \in Downstream(n) /\ n \in Downstream(p[1])}
<1>1. \A p \in L : p \in loops /\ p[1] \in Knot(n)
  BY DEF Knot
<1>2. \A p \in L : Knot(p[1]) = Knot(n) /\ Knot(n) \in Knots
  BY <1>1, KnotSame DEF LoopsInv
<1>3. \A p, q \in L : p = q
  BY <1>1, <1>2 DEF LoopsInv
<1>4. ASSUME Knot(n) \in Knots PROVE Cardinality(L) = 1
  <2>1. PICK p \in loops : Knot(p[1]) = Knot(n)
    <3>1. {} \notin Knots
      BY KnotsFacts
    <3> QED BY <1>4, <3>1 DEF LoopsInv
  <2>2. p[1] \in Knot(n)
    <3>1. p[1] \in Nodes
      BY DEF LoopsInv
    <3>2. p[1] \in Knot(p[1])
      BY <3>1, DownSelf DEF Knot
    <3> QED BY <2>1, <3>2
  <2>3. p \in L
    BY <2>2 DEF Knot
  <2>4. L = {p}
    <3> HIDE DEF L
    <3> QED BY <1>3, <2>3
  <2> HIDE DEF L
  <2> QED BY <2>4, FS_Singleton
<1>5. ASSUME Knot(n) \notin Knots PROVE Cardinality(L) # 1
  <2>1. L = {}
    <3> HIDE DEF L
    <3> QED BY <1>2, <1>5
  <2> HIDE DEF L
  <2> QED BY <2>1, FS_EmptySet
<1> QED BY <1>4, <1>5, FeedsBack

------------------------------------------------------------------------------
(* The walk a reader takes: who was entered, and who waits to be.          *)
Visits == [node : Nodes, depth : Nat]
Below(t, v, i) == \E j \in 1..i : v.node \in Feeds(t[j].node) /\ v.depth = t[j].depth + 1
ToEnter == {branches[i].node : i \in DOMAIN branches}
(* Whatever waits is fed by a node that was entered, at the depth above it;*)
(* whatever a node that was entered feeds was entered or waits.            *)
TreeInv ==
  /\ tree \in Seq(Visits) /\ branches \in Seq(Visits)
  /\ \A i, j \in DOMAIN tree : tree[i].node = tree[j].node => i = j
  /\ \A i \in DOMAIN tree \ {1} : Below(tree, tree[i], i - 1)
  /\ IF tree = <<>> THEN Len(branches) <= 1 ELSE \A i \in DOMAIN branches : Below(tree, branches[i], Len(tree))
  /\ tree # <<>> => Entered \subseteq Downstream(tree[1].node)
  /\ \A n \in Entered : Feeds(n) \subseteq Entered \cup ToEnter

LEMMA TreeStays ==
  ASSUME UNCHANGED graphVars, UNCHANGED browseVars, TreeInv PROVE TreeInv'
<1>1. UNCHANGED <<tree, branches>>
  BY DEF browseVars
<1>2. Nodes' = Nodes /\ \A n : Feeds(n)' = Feeds(n) /\ Downstream(n)' = Downstream(n)
  BY GraphStays
<1>3. Visits' = Visits /\ Entered' = Entered /\ ToEnter' = ToEnter
  BY <1>1, <1>2 DEF Visits, Entered, ToEnter
<1>4. \A t, v, i : Below(t, v, i)' = Below(t, v, i)
  BY <1>2 DEF Below
<1> QED BY <1>1, <1>2, <1>3, <1>4 DEF TreeInv

LEMMA TreeBegins == ASSUME tree = <<>>, branches = <<>> PROVE TreeInv
<1>1. DOMAIN tree = {} /\ DOMAIN branches = {} /\ Len(branches) = 0 /\ tree \in Seq(Visits) /\ branches \in Seq(Visits)
  OBVIOUS
<1>2. Entered = {}
  BY <1>1 DEF Entered
<1> QED BY <1>1, <1>2 DEF TreeInv

LEMMA TreeStarts == ASSUME StartBrowse PROVE TreeInv'
<1>1. PICK n \in Nodes : branches' = <<[node |-> n, depth |-> 0]>>
  BY DEF StartBrowse, Nodes
<1>2. tree' = <<>> /\ Nodes' = Nodes
  BY GraphStays DEF StartBrowse
<1>3. [node |-> n, depth |-> 0] \in Visits'
  BY <1>2 DEF Visits
<1>4. branches' \in Seq(Visits') /\ Len(branches') = 1
  BY <1>1, <1>3
<1>5. DOMAIN tree' = {} /\ tree' \in Seq(Visits')
  BY <1>2
<1>6. Entered' = {}
  BY <1>5 DEF Entered
<1> QED BY <1>2, <1>4, <1>5, <1>6 DEF TreeInv

LEMMA LastOf ==
  ASSUME NEW S, NEW q \in Seq(S), q # <<>>, NEW n, n = Len(q) - 1
  PROVE  n \in Nat /\ Len(q) = n + 1 /\ DOMAIN q = 1..(n + 1) /\ Last(q) = q[n + 1] /\ Last(q) \in S
<1>1. Len(q) \in Nat /\ Len(q) # 0 /\ DOMAIN q = 1..Len(q)
  OBVIOUS
<1>2. n \in Nat /\ Len(q) = n + 1
  BY <1>1
<1> QED BY <1>1, <1>2 DEF Last

(* A frame is popped, and others pushed.                                   *)
IsReplaced(q, a, r, n) ==
  /\ DOMAIN r = 1..(n + Len(a)) /\ Len(a) \in Nat
  /\ \A i \in DOMAIN r : IF i <= n THEN i \in DOMAIN q /\ r[i] = q[i] ELSE i - n \in 1..Len(a) /\ r[i] = a[i - n]
LEMMA FrontThen ==
  ASSUME NEW S, NEW q \in Seq(S), q # <<>>, NEW a \in Seq(S), NEW r, r = Front(q) \o a, NEW n, n = Len(q) - 1
  PROVE  r \in Seq(S) /\ IsReplaced(q, a, r, n)
<1>1. PICK f : f = Front(q)
  OBVIOUS
<1>2. /\ f \in Seq(S) /\ Len(f) = Len(q) - 1 /\ Len(q) \in Nat /\ Len(q) >= 1 /\ DOMAIN f = 1..(Len(q) - 1)
      /\ \A i \in DOMAIN f : f[i] = q[i] /\ i \in DOMAIN q
  BY <1>1, Popped
<1>3. n \in Nat /\ Len(f) = n /\ DOMAIN f = 1..n /\ Len(a) \in Nat
  BY <1>2
<1>4. r = f \o a
  BY <1>1
<1>5. r \in Seq(S) /\ Len(r) = n + Len(a)
  <2>1. f \in Seq(S) /\ a \in Seq(S)
    BY <1>2
  <2>2. f \o a \in Seq(S) /\ Len(f \o a) = Len(f) + Len(a)
    BY <2>1
  <2> QED BY <1>3, <1>4, <2>2
<1>6. DOMAIN r = 1..(n + Len(a))
  BY <1>3, <1>5
<1>7. \A i \in 1..(n + Len(a)) : IF i <= n THEN r[i] = f[i] ELSE r[i] = a[i - n]
  <2>1. f \in Seq(S) /\ a \in Seq(S)
    BY <1>2
  <2>2. \A i \in 1..(Len(f) + Len(a)) : (f \o a)[i] = IF i <= Len(f) THEN f[i] ELSE a[i - Len(f)]
    BY <2>1
  <2> QED BY <1>3, <1>4, <2>2
<1>8. \A i \in 1..(n + Len(a)) : IF i <= n THEN i \in 1..n ELSE i - n \in 1..Len(a)
  BY <1>3
<1> QED BY <1>2, <1>3, <1>5, <1>6, <1>7, <1>8 DEF IsReplaced

ChildVisits(C, d) ==
  [i \in DOMAIN Reverse(Ascending(C)) |-> [node |-> Reverse(Ascending(C))[i], depth |-> d]]
AreFrames(frames, C, d) ==
  /\ frames \in Seq(Visits) /\ Len(frames) \in Nat
  /\ \A i \in 1..Len(frames) : frames[i].node \in C /\ frames[i].depth = d
  /\ \A x \in C : \E i \in 1..Len(frames) : frames[i].node = x
LEMMA ChildFrames ==
  ASSUME NEW C, IsFiniteSet(C), C \subseteq Int, C \subseteq Nodes, NEW d \in Nat
  PROVE  AreFrames(ChildVisits(C, d), C, d)
<1>0. PICK pushed, frames : pushed = Reverse(Ascending(C)) /\ frames = ChildVisits(C, d)
  OBVIOUS
<1>1. PICK p : p = Ascending(C)
  OBVIOUS
<1>2. PICK n : n = Len(p)
  OBVIOUS
<1>3. n \in Nat /\ (\A i \in 1..n : p[i] \in C) /\ \A x \in C : \E i \in 1..n : p[i] = x
  <2>1. ListsAll(C, p)
    BY <1>1, AscendingIs
  <2> QED BY <1>2, <2>1 DEF ListsAll
<1>4. pushed = [i \in 1..n |-> p[(n - i) + 1]]
  BY <1>0, <1>1, <1>2 DEF Reverse
<1>5. \A i \in 1..n : (n - i) + 1 \in 1..n /\ n - ((n - i) + 1) + 1 = i
  BY <1>3
<1>6. \A i \in 1..n : pushed[i] \in C
  BY <1>3, <1>4, <1>5
<1>7. ASSUME NEW x \in C PROVE \E i \in 1..n : pushed[i] = x
  <2>1. PICK i \in 1..n : p[i] = x
    BY <1>3
  <2>2. pushed[(n - i) + 1] = p[n - ((n - i) + 1) + 1]
    BY <1>4, <1>5
  <2> QED BY <1>5, <2>1, <2>2
<1>8. frames = [i \in 1..n |-> [node |-> pushed[i], depth |-> d]]
  <2>1. DOMAIN pushed = 1..n
    BY <1>4
  <2> QED BY <1>0, <2>1 DEF ChildVisits
<1>9. \A i \in 1..n : frames[i] = [node |-> pushed[i], depth |-> d]
  BY <1>8
<1>10. frames \in [1..n -> Visits]
  <2>1. \A x \in Nodes : [node |-> x, depth |-> d] \in Visits
    BY DEF Visits
  <2>2. \A i \in 1..n : frames[i] \in Visits
    BY <1>6, <1>9, <2>1
  <2> QED BY <1>8, <2>2
<1>11. frames \in Seq(Visits) /\ Len(frames) = n
  BY <1>3, <1>10
<1> QED BY <1>0, <1>3, <1>6, <1>7, <1>9, <1>11 DEF AreFrames

LEMMA TreeEnters == ASSUME IsGraph, TreeInv, EnterNode PROVE TreeInv'
<1>1. PICK v, C, pushed, frames, n, m :
        /\ v = Last(branches) /\ C = Feeds(v.node) \ (Entered \cup {v.node}) /\ pushed = Reverse(Ascending(C))
        /\ frames = [i \in DOMAIN pushed |-> [node |-> pushed[i], depth |-> v.depth + 1]]
        /\ n = Len(branches) - 1 /\ m = Len(tree)
  OBVIOUS
<1>2. /\ branches # <<>> /\ v.node \notin Entered /\ tree' = Append(tree, v) /\ branches' = Front(branches) \o frames
      /\ UNCHANGED graphVars
  BY <1>1 DEF EnterNode
<1>3. Nodes' = Nodes /\ Visits' = Visits /\ \A x : Feeds(x)' = Feeds(x) /\ Downstream(x)' = Downstream(x)
  BY <1>2, GraphStays DEF Visits
<1>4. /\ n \in Nat /\ DOMAIN branches = 1..(n + 1) /\ v = branches[n + 1] /\ v \in Visits
      /\ m \in Nat /\ DOMAIN tree = 1..m /\ tree \in Seq(Visits) /\ branches \in Seq(Visits)
  <2>1. tree \in Seq(Visits) /\ branches \in Seq(Visits)
    BY DEF TreeInv
  <2>2. n \in Nat /\ DOMAIN branches = 1..(n + 1) /\ v = branches[n + 1] /\ v \in Visits
    BY <1>1, <1>2, <2>1, LastOf
  <2> QED BY <1>1, <2>1, <2>2
<1>5. v.node \in Nodes /\ v.depth \in Nat
  BY <1>4 DEF Visits
<1>6. C \subseteq Nodes /\ C \subseteq Int /\ IsFiniteSet(C)
  <2>1. C \subseteq Nodes
    BY <1>1, <1>5 DEF IsGraph
  <2> QED BY <2>1, FS_Subset DEF IsGraph
<1>7. /\ frames \in Seq(Visits) /\ Len(frames) \in Nat
      /\ \A i \in 1..Len(frames) : frames[i].node \in C /\ frames[i].depth = v.depth + 1
      /\ \A x \in C : \E i \in 1..Len(frames) : frames[i].node = x
  <2>1. PICK d \in Nat : d = v.depth + 1
    BY <1>5
  <2>2. frames = ChildVisits(C, d)
    BY <1>1, <2>1 DEF ChildVisits
  <2>3. AreFrames(frames, C, d)
    BY <1>6, <2>2, ChildFrames
  <2> QED BY <2>1, <2>3 DEF AreFrames
<1>8. PICK r : r = branches'
  OBVIOUS
<1>9. /\ r \in Seq(Visits) /\ DOMAIN r = 1..(n + Len(frames))
      /\ \A i \in DOMAIN r :
           IF i <= n THEN i \in DOMAIN branches /\ r[i] = branches[i]
           ELSE i - n \in 1..Len(frames) /\ r[i] = frames[i - n]
  <2>1. /\ branches \in Seq(Visits) /\ branches # <<>> /\ frames \in Seq(Visits)
        /\ r = Front(branches) \o frames /\ n = Len(branches) - 1
    BY <1>1, <1>2, <1>4, <1>7, <1>8
  <2>2. r \in Seq(Visits) /\ IsReplaced(branches, frames, r, n)
    BY <2>1, FrontThen
  <2> QED BY <2>2 DEF IsReplaced
<1>10. /\ tree' \in Seq(Visits) /\ Len(tree') = m + 1 /\ DOMAIN tree' = 1..(m + 1)
       /\ tree'[m + 1] = v /\ \A i \in 1..m : tree'[i] = tree[i]
  <2>1. tree' \in Seq(Visits) /\ Len(tree') = m + 1 /\ tree'[m + 1] = v /\ \A i \in 1..m : tree'[i] = tree[i]
    <3>1. tree' = Append(tree, v) /\ tree \in Seq(Visits) /\ v \in Visits /\ m = Len(tree)
      BY <1>1, <1>2, <1>4
    <3> QED BY <3>1
  <2> QED BY <1>4, <2>1
<1>11. Entered' = Entered \cup {v.node}
  <2>1. \A i \in 1..(m + 1) : i \in 1..m \/ i = m + 1
    BY <1>4
  <2>2. m + 1 \in 1..(m + 1) /\ \A i \in 1..m : i \in 1..(m + 1)
    BY <1>4
  <2> QED BY <1>4, <1>10, <2>1, <2>2 DEF Entered
<1>12. \A x, i : i \in 0..m /\ Below(tree, x, i) => Below(tree', x, i)
  <2>1. SUFFICES ASSUME NEW x, NEW i \in 0..m, Below(tree, x, i) PROVE Below(tree', x, i)
    OBVIOUS
  <2>2. PICK j \in 1..i : x.node \in Feeds(tree[j].node) /\ x.depth = tree[j].depth + 1
    BY <2>1 DEF Below
  <2>3. j \in 1..m
    BY <1>4
  <2>4. x.node \in Feeds(tree'[j].node) /\ x.depth = tree'[j].depth + 1
    BY <1>3, <1>10, <2>2, <2>3
  <2> QED BY <2>4 DEF Below
<1>13. \A i, j \in DOMAIN tree' : tree'[i].node = tree'[j].node => i = j
  <2>1. \A i \in 1..m : tree[i].node \in Entered
    BY <1>4 DEF Entered
  <2>2. \A i, j \in 1..m : tree[i].node = tree[j].node => i = j
    BY <1>4 DEF TreeInv
  <2>3. \A i \in 1..(m + 1) : i \in 1..m \/ i = m + 1
    BY <1>4
  <2> QED BY <1>2, <1>10, <2>1, <2>2, <2>3
<1>14. ASSUME NEW i \in DOMAIN tree' \ {1} PROVE Below(tree', tree'[i], i - 1)
  <2>1. CASE i = m + 1
    <3>1. m # 0 /\ tree # <<>> /\ m \in 0..m /\ i - 1 = m
      BY <1>1, <1>4, <2>1
    <3>2. n + 1 \in DOMAIN branches
      BY <1>4
    <3>3. Below(tree, v, m)
      BY <1>1, <1>4, <3>1, <3>2 DEF TreeInv
    <3>4. Below(tree', v, m)
      BY <1>12, <3>1, <3>3
    <3> QED BY <1>10, <2>1, <3>1, <3>4
  <2>2. CASE i # m + 1
    <3>1. i \in DOMAIN tree \ {1} /\ i - 1 \in 0..m /\ tree'[i] = tree[i]
      BY <1>4, <1>10, <2>2
    <3>2. Below(tree, tree[i], i - 1)
      BY <3>1 DEF TreeInv
    <3>3. Below(tree', tree[i], i - 1)
      BY <1>12, <3>1, <3>2
    <3> QED BY <3>1, <3>3
  <2> QED BY <2>1, <2>2
<1>15. ASSUME NEW i \in DOMAIN r PROVE Below(tree', r[i], m + 1)
  <2>1. CASE i <= n
    <3>1. i \in DOMAIN branches /\ r[i] = branches[i] /\ n # 0
      BY <1>4, <1>9, <2>1
    <3>2. tree # <<>>
      <4>1. ~(Len(branches) <= 1)
        BY <1>1, <1>4, <3>1
      <4> QED BY <4>1 DEF TreeInv
    <3>3. Below(tree, r[i], m)
      BY <1>1, <3>1, <3>2 DEF TreeInv
    <3>4. Below(tree', r[i], m)
      <4>1. m \in 0..m
        BY <1>4
      <4> QED BY <1>12, <3>3, <4>1
    <3>5. PICK j \in 1..m : r[i].node \in Feeds(tree'[j].node) /\ r[i].depth = tree'[j].depth + 1
      BY <3>4 DEF Below
    <3>6. j \in 1..(m + 1)
      BY <1>4
    <3> QED BY <3>5, <3>6 DEF Below
  <2>2. CASE ~(i <= n)
    <3>1. r[i].node \in C /\ r[i].depth = v.depth + 1
      BY <1>7, <1>9, <2>2
    <3>2. m + 1 \in 1..(m + 1)
      BY <1>4
    <3>3. r[i].node \in Feeds(tree'[m + 1].node) /\ r[i].depth = tree'[m + 1].depth + 1
      BY <1>1, <1>3, <1>10, <3>1
    <3> QED BY <3>2, <3>3 DEF Below
  <2> QED BY <2>1, <2>2
<1>16. Entered' \subseteq Downstream(tree'[1].node)
  <2>1. CASE tree = <<>>
    <3>1. m = 0 /\ tree'[1] = v
      BY <1>1, <1>10, <2>1
    <3>2. Entered = {}
      BY <1>4, <3>1 DEF Entered
    <3> QED BY <1>5, <1>11, <3>1, <3>2, DownSelf
  <2>2. CASE tree # <<>>
    <3>1. m # 0 /\ 1 \in 1..m
      BY <1>1, <1>4, <2>2
    <3>2. tree'[1] = tree[1] /\ Entered \subseteq Downstream(tree[1].node)
      BY <1>10, <2>2, <3>1 DEF TreeInv
    <3>3. n + 1 \in DOMAIN branches
      BY <1>4
    <3>4. Below(tree, v, m)
      BY <1>1, <1>4, <2>2, <3>3 DEF TreeInv
    <3>5. PICK j \in 1..m : v.node \in Feeds(tree[j].node)
      BY <3>4 DEF Below
    <3>6. tree[j].node \in Entered
      BY <1>4 DEF Entered
    <3>7. v.node \in Downstream(tree[1].node)
      BY <3>2, <3>5, <3>6, DownStep
    <3> QED BY <1>11, <3>2, <3>7
  <2> QED BY <2>1, <2>2
<1>17. ASSUME NEW x \in Entered', NEW y \in Feeds(x) PROVE y \in Entered' \/ \E i \in DOMAIN r : r[i].node = y
  <2>1. CASE y \in Entered'
    BY <2>1
  <2>2. CASE y \notin Entered' /\ x = v.node
    <3>1. y \in C
      BY <1>1, <1>11, <2>2
    <3>2. PICK i \in 1..Len(frames) : frames[i].node = y
      BY <1>7, <3>1
    <3>3. n + i \in DOMAIN r /\ ~(n + i <= n) /\ (n + i) - n = i
      BY <1>4, <1>7, <1>9
    <3>4. r[n + i] = frames[i]
      BY <1>9, <3>3
    <3> QED BY <3>2, <3>3, <3>4
  <2>3. CASE y \notin Entered' /\ x # v.node
    <3>1. y \in Entered \cup ToEnter
      BY <1>11, <2>3 DEF TreeInv
    <3>2. PICK i \in DOMAIN branches : branches[i].node = y
      BY <1>11, <2>3, <3>1 DEF ToEnter
    <3>3. i # n + 1
      BY <1>4, <1>11, <2>3, <3>2
    <3>4. i \in DOMAIN r /\ i <= n
      BY <1>4, <1>7, <1>9, <3>3
    <3> QED BY <1>9, <3>2, <3>4
  <2> QED BY <2>1, <2>2, <2>3
<1>18. tree' # <<>>
  BY <1>4, <1>10
<1>19. ToEnter' = {r[i].node : i \in DOMAIN r}
  BY <1>8 DEF ToEnter
<1>20. \A x \in Entered' : Feeds(x) \subseteq Entered' \cup ToEnter'
  BY <1>17, <1>19
<1>21. \A t, x, i : Below(t, x, i)' = Below(t, x, i)
  BY <1>3 DEF Below
<1> QED BY <1>3, <1>8, <1>9, <1>10, <1>13, <1>14, <1>15, <1>16, <1>18, <1>20, <1>21 DEF TreeInv

LEMMA TreeSkips == ASSUME TreeInv, SkipEntered PROVE TreeInv'
<1>1. PICK n, r : n = Len(branches) - 1 /\ r = branches'
  OBVIOUS
<1>2. branches # <<>> /\ Last(branches).node \in Entered /\ r = Front(branches) /\ tree' = tree /\ UNCHANGED graphVars
  BY <1>1 DEF SkipEntered
<1>3. Nodes' = Nodes /\ Visits' = Visits /\ \A x : Feeds(x)' = Feeds(x) /\ Downstream(x)' = Downstream(x)
  BY <1>2, GraphStays DEF Visits
<1>4. branches \in Seq(Visits) /\ tree \in Seq(Visits)
  BY DEF TreeInv
<1>5. n \in Nat /\ DOMAIN branches = 1..(n + 1) /\ Last(branches) = branches[n + 1]
  BY <1>1, <1>2, <1>4, LastOf
<1>6. r \in Seq(Visits) /\ DOMAIN r = 1..n /\ \A i \in DOMAIN r : r[i] = branches[i] /\ i \in DOMAIN branches
  BY <1>1, <1>2, <1>4, Popped
<1>7. Entered' = Entered /\ Entered # {}
  BY <1>2 DEF Entered
<1>8. tree # <<>>
  BY <1>7 DEF Entered
<1>9. \A t, x, i : Below(t, x, i)' = Below(t, x, i)
  BY <1>3 DEF Below
<1>10. Entered \cup ToEnter \subseteq Entered' \cup ToEnter'
  <2>1. ASSUME NEW i \in DOMAIN branches PROVE branches[i].node \in Entered \/ \E j \in DOMAIN r : r[j].node = branches[i].node
    <3>1. CASE i = n + 1
      BY <1>2, <1>5, <3>1
    <3>2. CASE i # n + 1
      <4>1. i \in DOMAIN r
        BY <1>5, <1>6, <3>2
      <4> QED BY <1>6, <4>1
    <3> QED BY <3>1, <3>2
  <2> QED BY <1>1, <1>7, <2>1 DEF ToEnter
<1> QED BY <1>1, <1>2, <1>3, <1>4, <1>6, <1>7, <1>8, <1>9, <1>10 DEF TreeInv

(* The walk has everything downstream once, below what feeds it.           *)
LEMMA TreeShows == ASSUME TreeInv PROVE TreeIsWhole
<1>1. \A i, j \in DOMAIN tree : tree[i].node = tree[j].node => i = j
  BY DEF TreeInv
<1>2. \A i \in DOMAIN tree \ {1} :
        \E j \in 1..(i - 1) : tree[i].node \in Feeds(tree[j].node) /\ tree[i].depth = tree[j].depth + 1
  BY DEF TreeInv, Below
<1>3. ASSUME tree # <<>>, branches = <<>> PROVE Entered = Downstream(tree[1].node)
  <2>1. tree \in Seq(Visits) /\ 1 \in DOMAIN tree
    BY <1>3 DEF TreeInv
  <2>2. tree[1].node \in Entered /\ Entered \subseteq Nodes
    <3>1. \A i \in DOMAIN tree : tree[i].node \in Nodes
      <4>1. \A i \in DOMAIN tree : tree[i] \in Visits
        BY <2>1
      <4> QED BY <4>1 DEF Visits
    <3> QED BY <2>1, <3>1 DEF Entered
  <2>3. Shut(Entered)
    <3>1. ToEnter = {}
      BY <1>3 DEF ToEnter
    <3> QED BY <3>1 DEF TreeInv, Shut
  <2> QED BY <1>3, <2>2, <2>3, DownWithin DEF TreeInv
<1> QED BY <1>1, <1>2, <1>3 DEF TreeIsWhole

------------------------------------------------------------------------------
LEMMA SearchStays ==
  ASSUME UNCHANGED graphVars, UNCHANGED tarjanVars, UNCHANGED components, SearchInv PROVE SearchInv'
<1>1. UNCHANGED <<call, stack, index, lowLink>>
  BY DEF tarjanVars
<1>2. /\ Nodes' = Nodes /\ IsGraph' = IsGraph
      /\ \A n : Feeds(n)' = Feeds(n) /\ Downstream(n)' = Downstream(n) /\ Knot(n)' = Knot(n)
      /\ \A S : Shut(S)' = Shut(S)
  BY GraphStays
<1>3. Grey' = Grey /\ Live' = Live
  BY <1>1 DEF Grey, Live, InStack
<1>4. Done' = Done
  BY <1>1, <1>3 DEF Done
<1>5. \A w : Tried(w)' = Tried(w)
  <2>1. \A w : Untried(w)' = Untried(w)
    BY <1>1 DEF Untried
  <2> QED BY <1>2, <2>1 DEF Tried
<1>6. IndexOK'
  BY <1>1, <1>2, <1>3 DEF SearchInv, SearchOK, IndexOK
<1>7. TriedOK'
  <2>1. Shut(Done)' = Shut(Done)
    BY <1>2, <1>4 DEF Shut
  <2> QED BY <1>1, <1>5, <2>1 DEF SearchInv, SearchOK, TriedOK
<1>8. ReachOK'
  BY <1>1, <1>2, <1>3 DEF SearchInv, SearchOK, ReachOK
<1>9. LowOK'
  <2>1. \A v, w : Home(v, w)' = Home(v, w)
    BY <1>1, <1>3 DEF Home
  <2> QED BY <1>1, <1>2, <1>3, <1>5, <2>1 DEF SearchInv, SearchOK, LowOK
<1>10. FoundOK'
  BY <1>2, <1>4 DEF SearchInv, SearchOK, FoundOK
<1>11. StackOK' /\ CallOK'
  BY <1>1, <1>2 DEF SearchInv, StackOK, CallOK
<1> QED BY <1>2, <1>6, <1>7, <1>8, <1>9, <1>10, <1>11 DEF SearchInv, SearchOK

(* All of it, step by step.                                                *)
NoSearch ==
  /\ call = <<>> /\ stack = <<>> /\ index = <<>> /\ lowLink = <<>>
  /\ components = {} /\ ring = {} /\ loops = {}
FlowInv ==
  /\ flowStep \in {"idle", "place", "search", "loops", "built"}
  /\ flowStep \in {"idle", "place"} => NoSearch
  /\ flowStep = "search" => SearchInv /\ ring = {} /\ loops = {}
  /\ flowStep \in {"loops", "built"} => IsGraph /\ LoopsInv
  /\ flowStep = "built" => components = {} /\ ring = {} /\ TreeInv
  /\ flowStep # "built" => tree = <<>> /\ branches = <<>>

LEMMA FlowDropped == ASSUME DropFlow PROVE FlowInv'
BY DEF DropFlow, FlowInv, NoSearch
LEMMA FlowInitial == ASSUME FlowInit PROVE FlowInv
BY DEF FlowInit, FlowInv, NoSearch
LEMMA FlowStarted == ASSUME FlowInv, StartFlow PROVE FlowInv'
BY DEF FlowInv, NoSearch, StartFlow, tarjanVars, ringVars, browseVars
LEMMA FlowIdle ==
  ASSUME FlowInv, UNCHANGED flowVars PROVE FlowInv'
<1>1. UNCHANGED <<graphVars, flowStep, tarjanVars, components, ringVars, browseVars>>
  BY DEF flowVars, graphVars, tarjanVars, ringVars, browseVars
<1>2. SearchInv => SearchInv'
  BY <1>1, SearchStays
<1>3. IsGraph' = IsGraph /\ (LoopsInv => LoopsInv') /\ (TreeInv => TreeInv')
  BY <1>1, GraphStays, LoopsStay, TreeStays
<1>4. UNCHANGED <<flowStep, call, stack, index, lowLink, components, ring, loops, tree, branches>>
  BY DEF flowVars
<1> QED BY <1>2, <1>3, <1>4 DEF FlowInv, NoSearch

LEMMA FlowBuilt ==
  ASSUME FlowInv, BuildFlow, flowStep = "place" /\ unread = {} => IsGraph PROVE FlowInv'
<1>1. CASE PlaceObservation
  <2>1. /\ flowStep = "place" /\ flowStep' = flowStep
        /\ UNCHANGED <<call, stack, index, lowLink, components, ring, loops, tree, branches>>
    BY <1>1 DEF PlaceObservation, tarjanVars, ringVars, browseVars
  <2> QED BY <2>1 DEF FlowInv, NoSearch
<1>2. CASE EndPlace
  <2>1. /\ flowStep = "place" /\ unread = {} /\ flowStep' = "search"
        /\ UNCHANGED <<graphVars, tarjanVars, components, ring, loops, tree, branches>>
    BY <1>2 DEF EndPlace, ringVars, browseVars
  <2>2. NoSearch /\ tree = <<>> /\ branches = <<>>
    BY <2>1 DEF FlowInv
  <2>3. SearchInv
    BY <2>1, <2>2, SearchBegins DEF NoSearch
  <2>4. SearchInv'
    BY <2>1, <2>3, SearchStays
  <2> QED BY <2>1, <2>2, <2>4 DEF FlowInv, NoSearch
<1>3. CASE StartRoot \/ TrySuccessor \/ Return
  <2>1. flowStep = "search" /\ UNCHANGED <<flowStep, ring, loops, tree, branches>>
    BY <1>3 DEF StartRoot, TrySuccessor, Return, ringVars, browseVars
  <2>2. SearchInv'
    BY <1>3, <2>1, SearchStart, SearchTries, SearchReturns DEF FlowInv
  <2> QED BY <2>1, <2>2 DEF FlowInv
<1>4. CASE EndTarjan
  <2>1. /\ flowStep = "search" /\ call = <<>> /\ DOMAIN index = DOMAIN drafts /\ flowStep' = "loops"
        /\ UNCHANGED <<graphVars, components, ringVars, tree, branches>>
    BY <1>4 DEF EndTarjan, browseVars
  <2>2. SearchInv /\ ring = {} /\ loops = {} /\ tree = <<>> /\ branches = <<>>
    BY <2>1 DEF FlowInv
  <2>3. LoopsInv
    BY <2>1, <2>2, SearchEnds, LoopsBegin
  <2>4. LoopsInv' /\ IsGraph'
    BY <2>1, <2>2, <2>3, LoopsStay, GraphStays DEF SearchInv
  <2> QED BY <2>1, <2>2, <2>4 DEF FlowInv
<1>5. CASE StartLoop \/ ExpandLoop \/ CloseLoop
  <2>1. flowStep = "loops"
    BY <1>5 DEF StartLoop, ExpandLoop, CloseLoop, FlowInv, NoSearch
  <2>2. UNCHANGED <<graphVars, flowStep, tree, branches>>
    BY <1>5 DEF StartLoop, ExpandLoop, CloseLoop, browseVars
  <2>3. IsGraph /\ LoopsInv /\ tree = <<>> /\ branches = <<>>
    BY <2>1 DEF FlowInv
  <2>4. LoopsInv' /\ IsGraph'
    BY <1>5, <2>2, <2>3, LoopsSeek, LoopsExpand, LoopsClose, GraphStays
  <2> QED BY <2>1, <2>2, <2>3, <2>4 DEF FlowInv
<1>6. CASE EndLoops
  <2>1. /\ flowStep = "loops" /\ ring = {} /\ components = {} /\ flowStep' = "built"
        /\ UNCHANGED <<graphVars, components, ringVars, browseVars>>
    BY <1>6 DEF EndLoops
  <2>2. IsGraph /\ LoopsInv /\ tree = <<>> /\ branches = <<>>
    BY <2>1 DEF FlowInv
  <2>3. LoopsInv' /\ IsGraph' /\ TreeInv'
    BY <2>1, <2>2, LoopsStay, TreeBegins, TreeStays, GraphStays
  <2>4. ring' = {} /\ components' = {}
    BY <2>1 DEF ringVars
  <2> QED BY <2>1, <2>3, <2>4 DEF FlowInv
<1> QED BY <1>1, <1>2, <1>3, <1>4, <1>5, <1>6 DEF BuildFlow

LEMMA FlowBrowsed == ASSUME FlowInv, BrowseFlow PROVE FlowInv'
<1>1. flowStep = "built" /\ UNCHANGED <<graphVars, flowStep, components, ringVars>>
  BY DEF BrowseFlow, StartBrowse, EnterNode, SkipEntered, FlowInv
<1>2. IsGraph /\ LoopsInv /\ TreeInv /\ components = {} /\ ring = {}
  BY <1>1 DEF FlowInv
<1>3. TreeInv'
  BY <1>2, TreeStarts, TreeEnters, TreeSkips DEF BrowseFlow
<1>4. LoopsInv' /\ IsGraph' /\ components' = {} /\ ring' = {}
  BY <1>1, <1>2, LoopsStay, GraphStays DEF ringVars
<1> QED BY <1>1, <1>3, <1>4 DEF FlowInv

LEMMA FlowShows == ASSUME FlowInv PROVE FlowIsShown
<1>1. TreeIsWhole
  BY TreeShows, TreeBegins DEF FlowInv
<1>2. \A p \in loops : IsShortest(p)
  BY DEF FlowInv, NoSearch, LoopsInv
<1>3. ASSUME flowStep = "loops", loops = {}, ring = {}
      PROVE  components = {c \in {{m \in Downstream(n) : n \in Downstream(m)} : n \in DOMAIN drafts} : Cardinality(c) > 1}
  <2>1. IsGraph /\ LoopsInv
    BY <1>3 DEF FlowInv
  <2>2. {} \notin Knots
    BY <2>1, KnotsFacts
  <2>3. components = Knots
    BY <1>3, <2>1, <2>2 DEF LoopsInv
  <2> QED BY <2>3 DEF Knots, Knot, Nodes
<1>4. ASSUME flowStep = "built", NEW n \in DOMAIN drafts
      PROVE  (\E m \in Feeds(n) : n \in Downstream(m)) <=>
             Cardinality({p \in loops : p[1] \in Downstream(n) /\ n \in Downstream(p[1])}) = 1
  <2>1. IsGraph /\ LoopsInv /\ components = {} /\ ring = {} /\ n \in Nodes
    BY <1>4 DEF FlowInv, Nodes
  <2> QED BY <2>1, LoopsCounted
<1>5. LoopsAreFound
  BY <1>3, <1>4 DEF LoopsAreFound
<1> QED BY <1>1, <1>2, <1>5 DEF FlowIsShown, LoopsAreShown
------------------------------------------------------------------------------
(* The predecessors a system still waits for.                              *)
Open(t) == {e \in Predecessors(t) : e[1] \notin Placed}

(* The order so far starts each system after all it waits for, and the     *)
(* loop's counters say what is left to wait for.                           *)
OrderSound ==
  /\ planStep = "off" => order = <<>>
  /\ planStep # "off" =>
       /\ IsRegister(register)
       /\ order \in Seq(Systems)
       /\ \A i, j \in DOMAIN order : order[i] = order[j] => i = j
       /\ \A j \in DOMAIN order, s \in Systems :
            <<s, order[j]>> \in Precedence => \E i \in 1..(j - 1) : order[i] = s
       /\ degree = [t \in Systems |-> Cardinality(Open(t))]
       /\ ready = {t \in Systems \ Placed : Open(t) = {}}
  /\ planStep \in {"number", "planned"} => ready = {}
------------------------------------------------------------------------------
LEMMA FinitelyManySystems == ASSUME IsRegister(register) PROVE IsFiniteSet(Systems)
<1> DEFINE B == {b \in register.assets : register.system[b] # None}
           f == [b \in B |-> SystemOf(b)]
<1>1. IsFiniteSet(B)
  BY FS_Subset DEF IsRegister
<1>2. f \in Surjection(B, Systems)
  BY DEF Surjection, Systems
<1> QED BY <1>1, <1>2, FS_Surjection

LEMMA FinitelyManyOpen ==
  ASSUME IsRegister(register), NEW t PROVE IsFiniteSet(Open(t))
<1>1. IsFiniteSet(Systems \X Systems)
  BY FinitelyManySystems, FS_Product
<1>2. Open(t) \in SUBSET (Systems \X Systems)
  BY DEF Open, Predecessors, Precedence
<1> QED BY <1>1, <1>2, FS_Subset

LEMMA OrderStart == ASSUME OrderSound, StartOrder PROVE OrderSound'
<1>1. /\ planStep = "off" /\ planStep' = "order" /\ IsRegister(register')
      /\ degree' = [s \in Systems' |-> Cardinality(Predecessors(s)')]
      /\ ready' = {s \in Systems' : Predecessors(s)' = {}}
      /\ order = <<>> /\ order' = <<>>
  BY DEF StartOrder, OrderSound
<1>2. Placed' = {}
  BY <1>1 DEF Placed
<1>3. \A t : Open(t)' = Predecessors(t)'
  BY <1>2 DEF Open, Predecessors
<1> QED BY <1>1, <1>2, <1>3 DEF OrderSound

(* A turn of the loop: what waited for the system waits no longer.         *)
LEMMA OrderPlace == ASSUME OrderSound, PlaceSystem PROVE OrderSound'
<1>1. PICK s \in ready :
        /\ order' = Append(order, s)
        /\ degree' = [t \in Systems |-> IF <<s, t>> \in Precedence THEN degree[t] - 1 ELSE degree[t]]
        /\ ready' = (ready \ {s}) \cup {t \in Systems : <<s, t>> \in Precedence /\ degree'[t] = 0}
  BY DEF PlaceSystem
<1>2. planStep = "order" /\ planStep' = "order" /\ register' = register
  BY DEF PlaceSystem
<1>3. Systems' = Systems /\ Precedence' = Precedence /\ (\A t : Predecessors(t)' = Predecessors(t))
  BY <1>2 DEF Systems, SystemOf, Precedence, Predecessors
<1>4. /\ IsRegister(register) /\ order \in Seq(Systems)
      /\ \A i, j \in DOMAIN order : order[i] = order[j] => i = j
      /\ \A j \in DOMAIN order, t \in Systems :
           <<t, order[j]>> \in Precedence => \E i \in 1..(j - 1) : order[i] = t
      /\ degree = [t \in Systems |-> Cardinality(Open(t))]
      /\ ready = {t \in Systems \ Placed : Open(t) = {}}
  BY <1>2 DEF OrderSound
<1>5. s \in Systems /\ s \notin Placed /\ Open(s) = {}
  BY <1>1, <1>4
<1>6. /\ order' \in Seq(Systems) /\ Len(order') = Len(order) + 1 /\ order'[Len(order')] = s
      /\ Len(order) \in Nat /\ DOMAIN order = 1..Len(order) /\ DOMAIN order' = 1..Len(order')
      /\ \A i \in DOMAIN order : order'[i] = order[i]
  BY <1>1, <1>4, <1>5
<1>7. Placed' = Placed \cup {s}
  <2>1. Placed' \subseteq Placed \cup {s}
    BY <1>6 DEF Placed
  <2>2. Placed \subseteq Placed'
    <3> SUFFICES ASSUME NEW i \in DOMAIN order PROVE order[i] \in Placed'
      BY DEF Placed
    <3>1. i \in DOMAIN order' /\ order'[i] = order[i]
      BY <1>6
    <3> QED BY <3>1 DEF Placed
  <2>3. s \in Placed'
    BY <1>6 DEF Placed
  <2> QED BY <2>1, <2>2, <2>3
<1>8. ASSUME NEW t PROVE Open(t)' = Open(t) \ {<<s, t>>}
  BY <1>3, <1>7 DEF Open, Predecessors, Precedence
<1>9. ASSUME NEW t PROVE <<s, t>> \in Open(t) <=> <<s, t>> \in Precedence
  BY <1>5 DEF Open, Predecessors
<1>10. ASSUME NEW t \in Systems PROVE degree'[t] = Cardinality(Open(t)')
  <2>1. degree[t] = Cardinality(Open(t)) /\ IsFiniteSet(Open(t))
    BY <1>4, FinitelyManyOpen
  <2>2. CASE <<s, t>> \in Precedence
    <3>1. Cardinality(Open(t) \ {<<s, t>>}) = Cardinality(Open(t)) - 1
      BY <2>1, <2>2, <1>9, FS_RemoveElement
    <3> QED BY <3>1, <2>1, <2>2, <1>1, <1>8
  <2>3. CASE <<s, t>> \notin Precedence
    <3>1. Open(t) \ {<<s, t>>} = Open(t)
      BY <2>3, <1>9
    <3> QED BY <3>1, <2>1, <2>3, <1>1, <1>8
  <2> QED BY <2>2, <2>3
<1>11. ASSUME NEW t \in Systems PROVE degree'[t] = 0 <=> Open(t)' = {}
  <2>1. IsFiniteSet(Open(t) \ {<<s, t>>})
    BY <1>4, FinitelyManyOpen, FS_RemoveElement
  <2> QED BY <2>1, <1>8, <1>10, FS_EmptySet
<1>12. ASSUME NEW j \in DOMAIN order', NEW t \in Systems, <<t, order'[j]>> \in Precedence
       PROVE  \E i \in 1..(j - 1) : order'[i] = t
  <2>1. CASE j \in DOMAIN order
    <3>1. PICK i \in 1..(j - 1) : order[i] = t
      BY <2>1, <1>4, <1>6, <1>12
    <3>2. i \in DOMAIN order
      BY <1>6, <2>1
    <3> QED BY <3>1, <3>2, <1>6
  <2>2. CASE j = Len(order')
    <3>1. <<t, s>> \in Precedence /\ <<t, s>> \in Predecessors(s)
      BY <2>2, <1>6, <1>12 DEF Predecessors
    <3>2. t \in Placed
      BY <3>1, <1>5 DEF Open
    <3>3. PICK i \in DOMAIN order : order[i] = t
      BY <3>2 DEF Placed
    <3> QED BY <3>3, <2>2, <1>6
  <2> QED BY <2>1, <2>2, <1>6
<1>13. ASSUME NEW i \in DOMAIN order', NEW j \in DOMAIN order', order'[i] = order'[j] PROVE i = j
  <2>1. \A k \in DOMAIN order : order'[k] # s
    BY <1>5, <1>6 DEF Placed
  <2>2. i \in DOMAIN order \/ i = Len(order')
    BY <1>6
  <2>3. j \in DOMAIN order \/ j = Len(order')
    BY <1>6
  <2> QED BY <2>1, <2>2, <2>3, <1>4, <1>6, <1>13
<1>14. ready' = {t \in Systems \ Placed' : Open(t)' = {}}
  <2>1. ASSUME NEW t \in ready' PROVE t \in Systems \ Placed' /\ Open(t)' = {}
    <3>1. CASE t \in ready \ {s}
      BY <3>1, <1>4, <1>7, <1>8
    <3>2. CASE t \in Systems /\ <<s, t>> \in Precedence /\ degree'[t] = 0
      <4>1. t # s
        BY <3>2 DEF Precedence
      <4>2. t \notin Placed
        <5> SUFFICES ASSUME NEW j \in DOMAIN order, order[j] = t PROVE FALSE
          BY DEF Placed
        <5>1. PICK i \in 1..(j - 1) : order[i] = s
          BY <3>2, <1>4, <1>5
        <5>2. i \in DOMAIN order
          BY <1>6
        <5> QED BY <5>1, <5>2, <1>5 DEF Placed
      <4> QED BY <4>1, <4>2, <3>2, <1>7, <1>11
    <3> QED BY <2>1, <3>1, <3>2, <1>1
  <2>2. ASSUME NEW t \in Systems \ Placed', Open(t)' = {} PROVE t \in ready'
    <3>1. t \in Systems \ Placed /\ t # s
      BY <1>7
    <3>2. CASE Open(t) = {}
      BY <3>1, <3>2, <1>1, <1>4
    <3>3. CASE Open(t) # {}
      <4>1. <<s, t>> \in Precedence
        BY <3>3, <2>2, <1>8, <1>9
      <4> QED BY <4>1, <3>1, <2>2, <1>1, <1>11
    <3> QED BY <3>2, <3>3
  <2> QED BY <2>1, <2>2
<1>15. degree' = [t \in Systems' |-> Cardinality(Open(t)')]
  <2>1. degree' = [t \in Systems |-> degree'[t]]
    BY <1>1
  <2> QED BY <2>1, <1>3, <1>10
<1> QED BY <1>2, <1>3, <1>4, <1>6, <1>12, <1>13, <1>14, <1>15 DEF OrderSound

LEMMA OrderKept ==
  ASSUME OrderSound, UNCHANGED <<register, orderVars>>,
         planStep' = planStep \/ (planStep # "off" /\ planStep' = "planned" /\ ready = {})
                   \/ (planStep = "order" /\ planStep' = "number" /\ ready = {})
  PROVE  OrderSound'
<1>1. Systems' = Systems /\ Precedence' = Precedence /\ (\A t : Predecessors(t)' = Predecessors(t))
  BY DEF Systems, SystemOf, Precedence, Predecessors
<1>2. Placed' = Placed /\ (\A t : Open(t)' = Open(t))
  BY <1>1 DEF Placed, Open, orderVars
<1> QED BY <1>1, <1>2 DEF OrderSound, orderVars

LEMMA OrderNext == ASSUME OrderSound, [PlanNext]_planVars PROVE OrderSound'
<1>1. CASE StartOrder
  BY <1>1, OrderStart
<1>2. CASE PlaceSystem
  BY <1>2, OrderPlace
<1>3. CASE EndOrder
  BY <1>3, OrderKept DEF EndOrder
<1>4. CASE EnterAsset \/ LeaveAsset
  BY <1>4, OrderKept DEF EnterAsset, LeaveAsset
<1>5. CASE EndNumber
  BY <1>5, OrderKept DEF EndNumber, OrderSound
<1>6. CASE UNCHANGED planVars
  BY <1>6, OrderKept DEF planVars
<1> QED BY <1>1, <1>2, <1>3, <1>4, <1>5, <1>6 DEF PlanNext, PlanSteps
------------------------------------------------------------------------------
(* An edge is a relation between assets of the two systems.                *)
LEMMA EdgesAreRelations ==
  ASSUME NEW s \in Systems, NEW t \in Systems PROVE <<s, t>> \in Precedence <=> Awaits(t, s)
  BY DEF Precedence, Awaits

(* Where the sort has ended, what it left out waits for itself, and what   *)
(* waits for itself it has left out.                                       *)
LEMMA OrderHolds == ASSUME OrderSound PROVE StartupOrderHolds
<1> SUFFICES ASSUME planStep \in {"number", "planned"}
             PROVE /\ \A i, j \in DOMAIN order : order[i] = order[j] => i = j
                   /\ \A j \in DOMAIN order, s \in Systems :
                        Awaits(order[j], s) => \E i \in 1..(j - 1) : order[i] = s
                   /\ Placed \subseteq Systems /\ Waiting(Systems \ Placed)
                   /\ \A S \in SUBSET Systems : Waiting(S) => S \cap Placed = {}
  BY DEF StartupOrderHolds
<1>1. /\ order \in Seq(Systems) /\ ready = {}
      /\ \A i, j \in DOMAIN order : order[i] = order[j] => i = j
      /\ \A j \in DOMAIN order, s \in Systems :
           <<s, order[j]>> \in Precedence => \E i \in 1..(j - 1) : order[i] = s
      /\ ready = {t \in Systems \ Placed : Open(t) = {}}
  BY DEF OrderSound
<1>2. /\ Placed \subseteq Systems /\ DOMAIN order \subseteq Nat
      /\ \A i \in DOMAIN order : order[i] \in Systems
  BY <1>1 DEF Placed
<1>3. \A j \in DOMAIN order, s \in Systems : Awaits(order[j], s) => \E i \in 1..(j - 1) : order[i] = s
  BY <1>1, <1>2, EdgesAreRelations
<1>4. ASSUME NEW t \in Systems \ Placed PROVE \E s \in Systems \ Placed : Awaits(t, s)
  <2>1. PICK e \in Open(t) : TRUE
    BY <1>1
  <2>2. e \in Systems \X Systems /\ e[2] = t /\ e[1] \notin Placed /\ <<e[1], t>> \in Precedence
    BY <2>1 DEF Open, Predecessors, Precedence
  <2> QED BY <2>2, EdgesAreRelations
<1>5. ASSUME NEW S \in SUBSET Systems, Waiting(S), S \cap Placed # {} PROVE FALSE
  <2> DEFINE T == {j \in DOMAIN order : order[j] \in S}
  <2>1. T # {} /\ T \subseteq Nat
    BY <1>2, <1>5 DEF Placed
  <2>2. PICK j \in T : \A k \in T : j <= k
    BY <2>1, LeastNatural
  <2>3. PICK s \in S : Awaits(order[j], s)
    BY <2>2, <1>5 DEF Waiting
  <2>4. PICK i \in 1..(j - 1) : order[i] = s
    BY <2>2, <2>3, <1>3
  <2>5. i \in DOMAIN order
    BY <2>1, <2>2, <1>1
  <2> QED BY <2>1, <2>2, <2>4, <2>5
<1> QED BY <1>1, <1>2, <1>3, <1>4, <1>5 DEF Waiting

(* No system is started before one it waits for; what has no place in the  *)
(* order waits for itself; nothing else is left out (predecessors.ts).     *)
THEOREM OrderIsSound == PlanSpec => []StartupOrderHolds
<1>1. PlanInit => OrderSound
  BY DEF PlanInit, OrderSound
<1>2. OrderSound /\ [PlanNext]_planVars => OrderSound'
  BY OrderNext
<1>3. OrderSound => StartupOrderHolds
  BY OrderHolds
<1> QED BY <1>1, <1>2, <1>3, PTL DEF PlanSpec

------------------------------------------------------------------------------
(* The walk of sequence.ts.  An asset is finished when it has been entered *)
(* and left.                                                               *)
OnTrail  == {trail[i] : i \in DOMAIN trail}
Finished == visited \ OnTrail
Siblings(a, b) == ParentIn(a) = ParentIn(b) /\ b \in InGroup(a) \ {a}

(* The trail is a chain of parents from a root; what is entered has its    *)
(* parent entered, what is finished has its children finished, and what is *)
(* entered has the siblings before it finished.                            *)
WalkSound ==
  /\ trail \in Seq(register.assets) /\ visited \subseteq register.assets
  /\ \A i \in DOMAIN trail :
       trail[i] \in visited /\ ParentIn(trail[i]) = IF i = 1 THEN None ELSE trail[i - 1]
  /\ \A i, j \in DOMAIN trail : trail[i] = trail[j] => i = j
  /\ \A a \in visited : ParentIn(a) # None => ParentIn(a) \in visited
  /\ \A a \in Finished, c \in register.assets : ParentIn(c) = a => c \in Finished
  /\ \A a, b \in register.assets :
       Siblings(a, b) /\ ByTag(a, b) /\ b \in visited => a \in Finished

(* The numbers of a group are 1 to n at any time, and who has one is after *)
(* everything that was to come before it.                                  *)
NumbersSound ==
  /\ DOMAIN number = {a \in visited : TopDown(a) \/ a \notin OnTrail}
  /\ \A a \in register.assets :
       {number[b] : b \in DOMAIN number \cap InGroup(a)} = 1..Cardinality(DOMAIN number \cap InGroup(a))
  /\ \A a \in register.assets : ParentIn(a) # None =>
       /\ TopDown(a) /\ a \in DOMAIN number => number[ParentIn(a)] < number[a]
       /\ ~TopDown(a) /\ ParentIn(a) \in DOMAIN number => number[a] < number[ParentIn(a)]
  /\ \A a, b \in register.assets : Siblings(a, b) /\ ByTag(a, b) /\ b \in DOMAIN number =>
       \A c \in register.assets : c = a \/ ParentIn(c) = a => number[c] < number[b]

NumberSound ==
  /\ planStep \in {"off", "order"} => trail = <<>> /\ visited = {} /\ number = <<>>
  /\ planStep # "off" => IsRegister(register) /\ WalkSound /\ NumbersSound
  /\ planStep = "planned" => trail = <<>> /\ Unvisited(None) = {}

LEMMA GroupFacts ==
  ASSUME IsRegister(register)
  PROVE  /\ \A a \in register.assets :
              /\ ParentIn(a) \in register.assets \cup {None}
              /\ ParentIn(a) # None => ParentIn(a) \in InGroup(a) \ {a}
              /\ a \in InGroup(a) /\ InGroup(a) \subseteq register.assets /\ IsFiniteSet(InGroup(a))
         /\ \A a, b \in register.assets : b \in InGroup(a) =>
              InGroup(b) = InGroup(a) /\ a \in InGroup(b) /\ (TopDown(b) <=> TopDown(a))
         /\ None \notin register.assets
<1>1. \A a \in register.assets : InGroup(a) \subseteq register.assets /\ a \in InGroup(a)
  BY DEF InGroup
<1>2. \A a \in register.assets : IsFiniteSet(InGroup(a))
  BY <1>1, FS_Subset DEF IsRegister
<1> QED BY <1>1, <1>2 DEF IsRegister, InGroup, ParentIn, TopDown

(* Siblings are never in doubt about who is first.                         *)
LEMMA TagsOrder ==
  ASSUME IsRegister(register), NEW a \in register.assets, NEW b \in register.assets,
         ByTag(a, b), ByTag(b, a)
  PROVE  a = b
<1>1. a \in Int /\ b \in Int /\ register.tag[a] \in Int \cup {None} /\ register.tag[b] \in Int \cup {None}
  BY CommissioningAssumption DEF IsRegister
<1> QED BY <1>1 DEF ByTag

LEMMA RegisterStays ==
  ASSUME register' = register
  PROVE  /\ \A a : ParentIn(a)' = ParentIn(a) /\ InGroup(a)' = InGroup(a) /\ TopDown(a)' = TopDown(a)
         /\ \A a, b : ByTag(a, b)' = ByTag(a, b) /\ Siblings(a, b)' = Siblings(a, b)
BY DEF ParentIn, InGroup, TopDown, ByTag, Siblings

(* A number given is the next of its group.                                *)
LEMMA Recording ==
  ASSUME IsRegister(register), register' = register, DOMAIN number \subseteq register.assets,
         NEW a \in register.assets, a \notin DOMAIN number, number' = Recorded(a),
         \A x \in register.assets :
           {number[b] : b \in DOMAIN number \cap InGroup(x)} = 1..Cardinality(DOMAIN number \cap InGroup(x))
  PROVE  /\ DOMAIN number' = DOMAIN number \cup {a}
         /\ \A b \in DOMAIN number : number'[b] = number[b]
         /\ \A b \in DOMAIN number : b \in InGroup(a) => number[b] < number'[a]
         /\ \A x \in register.assets :
              {number'[b] : b \in DOMAIN number' \cap InGroup(x)}
                = 1..Cardinality(DOMAIN number' \cap InGroup(x))
<1> DEFINE G == DOMAIN number \cap InGroup(a)
<1>1. IsFiniteSet(G) /\ Cardinality(G) \in Nat /\ a \notin G
  BY GroupFacts, FS_Subset, FS_CardinalityType
<1>2. /\ DOMAIN number' = DOMAIN number \cup {a}
      /\ \A b \in DOMAIN number : number'[b] = number[b]
      /\ number'[a] = 1 + Cardinality(G)
  BY DEF Recorded
<1>3. {number[b] : b \in G} = 1..Cardinality(G)
  OBVIOUS
<1>4. ASSUME NEW b \in DOMAIN number, b \in InGroup(a) PROVE number[b] < number'[a]
  <2>1. number[b] \in 1..Cardinality(G)
    BY <1>3, <1>4
  <2> QED BY <2>1, <1>1, <1>2
<1>5. ASSUME NEW x \in register.assets
      PROVE  {number'[b] : b \in DOMAIN number' \cap InGroup(x)}
               = 1..Cardinality(DOMAIN number' \cap InGroup(x))
  <2>1. CASE a \in InGroup(x)
    <3>1. InGroup(x) = InGroup(a)
      BY <2>1, GroupFacts
    <3>2. DOMAIN number' \cap InGroup(x) = G \cup {a}
      BY <3>1, <2>1, <1>2
    <3>3. Cardinality(G \cup {a}) = Cardinality(G) + 1
      BY <1>1, FS_AddElement
    <3>4. {number'[b] : b \in G \cup {a}} = {number[b] : b \in G} \cup {number'[a]}
      BY <1>2
    <3> HIDE DEF G
    <3>5. (1..Cardinality(G)) \cup {1 + Cardinality(G)} = 1..(Cardinality(G) + 1)
      BY <1>1
    <3> QED BY <3>2, <3>3, <3>4, <3>5, <1>2, <1>3
  <2>2. CASE a \notin InGroup(x)
    <3>1. DOMAIN number' \cap InGroup(x) = DOMAIN number \cap InGroup(x)
      BY <2>2, <1>2
    <3>2. {number'[b] : b \in DOMAIN number \cap InGroup(x)} = {number[b] : b \in DOMAIN number \cap InGroup(x)}
      BY <1>2
    <3> QED BY <3>1, <3>2
  <2> QED BY <2>1, <2>2
<1> QED BY <1>2, <1>4, <1>5

(* The next child, or the next root, is entered.                           *)
LEMMA NumberEnter == ASSUME NumberSound, EnterAsset PROVE NumberSound'
<1> DEFINE p == IF trail = <<>> THEN None ELSE trail[Len(trail)]
<1>1. PICK a \in register.assets :
        /\ IsNext(a, Unvisited(p))
        /\ trail' = Append(trail, a) /\ visited' = visited \cup {a}
        /\ number' = IF TopDown(a) THEN Recorded(a) ELSE number
  BY DEF EnterAsset
<1>2. /\ planStep = "number" /\ planStep' = "number" /\ register' = register
      /\ IsRegister(register) /\ WalkSound /\ NumbersSound
  BY DEF EnterAsset, NumberSound
<1>3. /\ trail \in Seq(register.assets) /\ visited \subseteq register.assets
      /\ \A i \in DOMAIN trail :
           trail[i] \in visited /\ ParentIn(trail[i]) = IF i = 1 THEN None ELSE trail[i - 1]
      /\ \A i, j \in DOMAIN trail : trail[i] = trail[j] => i = j
  BY <1>2 DEF WalkSound
<1>4. /\ a \notin visited /\ ParentIn(a) = p
      /\ \A b \in register.assets \ visited : ParentIn(b) = p => ByTag(a, b)
  BY <1>1 DEF IsNext, Unvisited
<1>5. /\ Len(trail) \in Nat /\ DOMAIN trail = 1..Len(trail)
      /\ trail' \in Seq(register.assets) /\ Len(trail') = Len(trail) + 1
      /\ DOMAIN trail' = 1..(Len(trail) + 1) /\ trail'[Len(trail) + 1] = a
      /\ \A i \in DOMAIN trail : trail'[i] = trail[i]
      /\ trail = <<>> <=> Len(trail) = 0
  BY <1>1, <1>3
<1>6. OnTrail' = OnTrail \cup {a} /\ Finished' = Finished /\ OnTrail \subseteq visited
  <2>1. OnTrail' \subseteq OnTrail \cup {a}
    BY <1>5 DEF OnTrail
  <2>2. OnTrail \cup {a} \subseteq OnTrail'
    <3>1. ASSUME NEW i \in DOMAIN trail PROVE trail[i] \in OnTrail'
      <4>1. i \in DOMAIN trail' /\ trail'[i] = trail[i]
        BY <1>5
      <4> QED BY <4>1 DEF OnTrail
    <3>2. a \in OnTrail'
      BY <1>5 DEF OnTrail
    <3> QED BY <3>1, <3>2 DEF OnTrail
  <2>3. OnTrail \subseteq visited
    BY <1>3 DEF OnTrail
  <2> QED BY <2>1, <2>2, <2>3, <1>1, <1>4 DEF Finished
<1>7. ASSUME NEW b \in register.assets, Siblings(b, a), ByTag(b, a) PROVE b \in Finished
  <2>1. b # a /\ ParentIn(b) = p
    BY <1>4, <1>7 DEF Siblings
  <2>2. b \in visited
    BY <2>1, <1>2, <1>4, <1>7, TagsOrder
  <2>3. ASSUME NEW i \in DOMAIN trail, trail[i] = b PROVE FALSE
    <3>1. ParentIn(b) = IF i = 1 THEN None ELSE trail[i - 1]
      BY <2>3, <1>3
    <3>2. p = trail[Len(trail)] /\ Len(trail) \in DOMAIN trail /\ p \in register.assets
      BY <1>3, <1>5, <2>3
    <3>3. i # 1 /\ i - 1 \in DOMAIN trail /\ trail[i - 1] = trail[Len(trail)]
      BY <3>1, <3>2, <2>1, <1>2, <1>5, GroupFacts
    <3> QED BY <3>3, <3>2, <1>3, <1>5
  <2> QED BY <2>2, <2>3 DEF Finished, OnTrail
<1>8. WalkSound'
  <2>1. \A i \in DOMAIN trail' :
          trail'[i] \in visited' /\ ParentIn(trail'[i]) = IF i = 1 THEN None ELSE trail'[i - 1]
    <3> SUFFICES ASSUME NEW i \in DOMAIN trail'
                 PROVE  trail'[i] \in visited' /\ ParentIn(trail'[i]) = IF i = 1 THEN None ELSE trail'[i - 1]
      OBVIOUS
    <3>1. CASE i \in DOMAIN trail
      <4>1. i = 1 \/ i - 1 \in DOMAIN trail
        BY <3>1, <1>5
      <4> QED BY <4>1, <3>1, <1>1, <1>3, <1>5
    <3>2. CASE i = Len(trail) + 1
      <4>1. trail'[i] = a /\ trail'[i] \in visited'
        BY <3>2, <1>1, <1>5
      <4>2. CASE trail = <<>>
        BY <4>1, <4>2, <3>2, <1>4, <1>5
      <4>3. CASE trail # <<>>
        <5>1. i # 1 /\ i - 1 = Len(trail) /\ Len(trail) \in DOMAIN trail
          BY <4>3, <3>2, <1>5
        <5> QED BY <5>1, <4>1, <4>3, <1>4, <1>5
      <4> QED BY <4>2, <4>3
    <3> QED BY <3>1, <3>2, <1>5
  <2>2. \A i, j \in DOMAIN trail' : trail'[i] = trail'[j] => i = j
    BY <1>3, <1>4, <1>5
  <2>3. ParentIn(a) # None => ParentIn(a) \in visited
    BY <1>3, <1>4, <1>5
  <2>4. \A b \in visited : ParentIn(b) # None => ParentIn(b) \in visited
    BY <1>2 DEF WalkSound
  <2>5. \A b \in Finished, c \in register.assets : ParentIn(c) = b => c \in Finished
    BY <1>2 DEF WalkSound
  <2>6. \A b, c \in register.assets : Siblings(b, c) /\ ByTag(b, c) /\ c \in visited => b \in Finished
    BY <1>2 DEF WalkSound
  <2>7. visited' \subseteq register.assets /\ visited' = visited \cup {a}
    BY <1>1, <1>3
  <2> QED BY <2>1, <2>2, <2>3, <2>4, <2>5, <2>6, <2>7, <1>2, <1>5, <1>6, <1>7, RegisterStays DEF WalkSound
<1>9. NumbersSound'
  <2>1. /\ DOMAIN number = {b \in visited : TopDown(b) \/ b \notin OnTrail}
        /\ \A x \in register.assets :
             {number[b] : b \in DOMAIN number \cap InGroup(x)} = 1..Cardinality(DOMAIN number \cap InGroup(x))
        /\ \A b \in register.assets : ParentIn(b) # None =>
             /\ TopDown(b) /\ b \in DOMAIN number => number[ParentIn(b)] < number[b]
             /\ ~TopDown(b) /\ ParentIn(b) \in DOMAIN number => number[b] < number[ParentIn(b)]
        /\ \A b, d \in register.assets : Siblings(b, d) /\ ByTag(b, d) /\ d \in DOMAIN number =>
             \A c \in register.assets : c = b \/ ParentIn(c) = b => number[c] < number[d]
    BY <1>2 DEF NumbersSound
  <2>2. CASE ~TopDown(a)
    <3>1. number' = number
      BY <2>2, <1>1
    <3>2. DOMAIN number' = {b \in visited' : TopDown(b) \/ b \notin OnTrail'}
      BY <3>1, <2>1, <2>2, <1>1, <1>4, <1>6
    <3> QED BY <3>1, <3>2, <2>1, <1>2, RegisterStays DEF NumbersSound
  <2>3. CASE TopDown(a)
    <3>1. a \notin DOMAIN number /\ DOMAIN number \subseteq register.assets
      BY <2>1, <1>3, <1>4
    <3>2. /\ DOMAIN number' = DOMAIN number \cup {a}
          /\ \A b \in DOMAIN number : number'[b] = number[b]
          /\ \A b \in DOMAIN number : b \in InGroup(a) => number[b] < number'[a]
          /\ \A x \in register.assets :
               {number'[b] : b \in DOMAIN number' \cap InGroup(x)}
                 = 1..Cardinality(DOMAIN number' \cap InGroup(x))
      BY <3>1, <2>1, <2>3, <1>1, <1>2, Recording
    <3>3. DOMAIN number' = {b \in visited' : TopDown(b) \/ b \notin OnTrail'}
      BY <3>2, <2>1, <2>3, <1>1, <1>4, <1>6
    <3>4. ASSUME NEW b \in register.assets, ParentIn(b) # None
          PROVE  /\ TopDown(b) /\ b \in DOMAIN number' => number'[ParentIn(b)] < number'[b]
                 /\ ~TopDown(b) /\ ParentIn(b) \in DOMAIN number' => number'[b] < number'[ParentIn(b)]
      <4>1. ParentIn(b) \in InGroup(b) /\ ParentIn(b) # b /\ (TopDown(ParentIn(b)) <=> TopDown(b))
        BY <3>4, <1>2, GroupFacts
      <4>2. ParentIn(b) \in register.assets /\ b \in InGroup(ParentIn(b))
        BY <4>1, <1>2, GroupFacts
      <4>3. ASSUME TopDown(b), b \in DOMAIN number' PROVE number'[ParentIn(b)] < number'[b]
        <5>1. b \in visited \/ b = a
          BY <4>3, <3>3, <1>1
        <5>2. ParentIn(b) \in visited
          BY <5>1, <3>4, <1>2, <1>3, <1>4, <1>5 DEF WalkSound
        <5>3. ParentIn(b) \in DOMAIN number
          BY <5>2, <4>1, <4>3, <2>1
        <5>4. CASE b = a
          BY <5>4, <5>3, <4>1, <3>2
        <5>5. CASE b # a
          BY <5>5, <5>3, <4>3, <3>2, <3>4, <2>1
        <5> QED BY <5>4, <5>5
      <4>4. ASSUME ~TopDown(b), ParentIn(b) \in DOMAIN number' PROVE number'[b] < number'[ParentIn(b)]
        <5>1. ParentIn(b) # a /\ ParentIn(b) \in DOMAIN number
          BY <4>1, <4>4, <3>2, <2>3
        <5>2. ParentIn(b) \in Finished
          BY <5>1, <4>1, <4>4, <2>1 DEF Finished
        <5>3. b \in Finished
          BY <5>2, <1>2 DEF WalkSound
        <5>4. b \in DOMAIN number
          BY <5>3, <2>1 DEF Finished
        <5> QED BY <5>1, <5>4, <4>4, <3>2, <3>4, <2>1
      <4> QED BY <4>3, <4>4
    <3>5. ASSUME NEW b \in register.assets, NEW d \in register.assets, Siblings(b, d), ByTag(b, d),
                 d \in DOMAIN number', NEW c \in register.assets, c = b \/ ParentIn(c) = b
          PROVE  number'[c] < number'[d]
      <4>1. b \in Finished
        BY <3>5, <3>3, <1>1, <1>2, <1>7 DEF WalkSound
      <4>2. c \in Finished
        BY <4>1, <3>5, <1>2 DEF WalkSound
      <4>3. c \in DOMAIN number
        BY <4>2, <2>1 DEF Finished
      <4>4. CASE d = a
        <5>1. d \in InGroup(b) /\ c \in InGroup(b)
          BY <3>5, <1>2, GroupFacts DEF Siblings
        <5>2. c \in InGroup(a)
          BY <5>1, <4>4, <1>2, GroupFacts
        <5> QED BY <5>2, <4>3, <4>4, <3>2
      <4>5. CASE d # a
        BY <4>3, <4>5, <3>2, <3>5, <2>1
      <4> QED BY <4>4, <4>5
    <3> QED BY <3>2, <3>3, <3>4, <3>5, <1>2, RegisterStays DEF NumbersSound
  <2> QED BY <2>2, <2>3
<1> QED BY <1>2, <1>8, <1>9 DEF NumberSound

LEMMA InitialPart ==
  ASSUME NEW S, NEW s \in Seq(S), NEW n \in 0..Len(s)
  PROVE  /\ SubSeq(s, 1, n) \in Seq(S) /\ Len(SubSeq(s, 1, n)) = n
         /\ \A i \in 1..n : SubSeq(s, 1, n)[i] = s[i]
OBVIOUS

(* An asset whose children have all been entered is left.                  *)
LEMMA NumberLeave == ASSUME NumberSound, LeaveAsset PROVE NumberSound'
<1> DEFINE a == trail[Len(trail)]
<1>1. /\ Unvisited(a) = {} /\ trail # <<>>
      /\ number' = IF TopDown(a) THEN number ELSE Recorded(a)
      /\ trail' = SubSeq(trail, 1, Len(trail) - 1) /\ visited' = visited
  BY DEF LeaveAsset
<1>2. /\ planStep = "number" /\ planStep' = "number" /\ register' = register
      /\ IsRegister(register) /\ WalkSound /\ NumbersSound
  BY DEF LeaveAsset, NumberSound
<1>3. /\ trail \in Seq(register.assets) /\ visited \subseteq register.assets
      /\ \A i \in DOMAIN trail :
           trail[i] \in visited /\ ParentIn(trail[i]) = IF i = 1 THEN None ELSE trail[i - 1]
      /\ \A i, j \in DOMAIN trail : trail[i] = trail[j] => i = j
  BY <1>2 DEF WalkSound
<1>4. /\ Len(trail) \in Nat \ {0} /\ DOMAIN trail = 1..Len(trail)
      /\ trail' \in Seq(register.assets) /\ DOMAIN trail' = 1..(Len(trail) - 1)
      /\ \A i \in DOMAIN trail' : trail'[i] = trail[i]
      /\ a \in register.assets /\ a \in visited
  <2>1. Len(trail) \in Nat \ {0} /\ DOMAIN trail = 1..Len(trail)
    BY <1>1, <1>3
  <2>2. Len(trail) \in DOMAIN trail /\ Len(trail) - 1 \in 0..Len(trail)
    BY <2>1
  <2>3. /\ SubSeq(trail, 1, Len(trail) - 1) \in Seq(register.assets)
        /\ Len(SubSeq(trail, 1, Len(trail) - 1)) = Len(trail) - 1
        /\ \A i \in 1..(Len(trail) - 1) : SubSeq(trail, 1, Len(trail) - 1)[i] = trail[i]
    <3>1. ASSUME NEW n \in 0..Len(trail)
          PROVE  /\ SubSeq(trail, 1, n) \in Seq(register.assets) /\ Len(SubSeq(trail, 1, n)) = n
                 /\ \A i \in 1..n : SubSeq(trail, 1, n)[i] = trail[i]
      <4>1. trail \in Seq(register.assets)
        BY <1>3
      <4> QED BY <4>1, InitialPart
    <3> QED BY <3>1, <2>2
  <2> QED BY <2>1, <2>2, <2>3, <1>1, <1>3
<1>5. OnTrail' = OnTrail \ {a} /\ Finished' = Finished \cup {a} /\ a \in OnTrail
  <2>1. a \in OnTrail
    BY <1>4 DEF OnTrail
  <2>2. ASSUME NEW b \in OnTrail' PROVE b \in OnTrail \ {a}
    <3>1. PICK i \in DOMAIN trail' : b = trail'[i]
      BY DEF OnTrail
    <3> QED BY <3>1, <1>3, <1>4 DEF OnTrail
  <2>3. ASSUME NEW b \in OnTrail \ {a} PROVE b \in OnTrail'
    <3>1. PICK i \in DOMAIN trail : b = trail[i]
      BY DEF OnTrail
    <3>2. i \in DOMAIN trail' /\ trail'[i] = b
      BY <3>1, <1>4
    <3> QED BY <3>2 DEF OnTrail
  <2> QED BY <2>1, <2>2, <2>3, <1>1, <1>4 DEF Finished
<1>6. ASSUME NEW c \in register.assets, ParentIn(c) = a PROVE c \in Finished
  <2>1. c \in visited
    BY <1>1, <1>6 DEF Unvisited
  <2>2. ASSUME NEW i \in DOMAIN trail, trail[i] = c PROVE FALSE
    <3>1. ParentIn(c) = IF i = 1 THEN None ELSE trail[i - 1]
      BY <2>2, <1>3
    <3>2. i # 1 /\ i - 1 \in DOMAIN trail /\ trail[i - 1] = trail[Len(trail)]
      BY <3>1, <1>2, <1>4, <1>6, GroupFacts
    <3>3. Len(trail) \in DOMAIN trail
      BY <1>4
    <3> QED BY <3>2, <3>3, <1>3, <1>4
  <2> QED BY <2>1, <2>2 DEF Finished, OnTrail
<1> HIDE DEF a
<1>7. WalkSound'
  <2>1. \A i \in DOMAIN trail' :
          trail'[i] \in visited' /\ ParentIn(trail'[i]) = IF i = 1 THEN None ELSE trail'[i - 1]
    <3> SUFFICES ASSUME NEW i \in DOMAIN trail'
                 PROVE  trail'[i] \in visited' /\ ParentIn(trail'[i]) = IF i = 1 THEN None ELSE trail'[i - 1]
      OBVIOUS
    <3>1. i \in DOMAIN trail /\ (i = 1 \/ i - 1 \in DOMAIN trail')
      BY <1>4
    <3> QED BY <3>1, <1>1, <1>3, <1>4
  <2>2. \A i, j \in DOMAIN trail' : trail'[i] = trail'[j] => i = j
    BY <1>3, <1>4
  <2>3. /\ \A b \in visited : ParentIn(b) # None => ParentIn(b) \in visited
        /\ \A b \in Finished, c \in register.assets : ParentIn(c) = b => c \in Finished
        /\ \A b, c \in register.assets : Siblings(b, c) /\ ByTag(b, c) /\ c \in visited => b \in Finished
    BY <1>2 DEF WalkSound
  <2> QED BY <2>1, <2>2, <2>3, <1>1, <1>2, <1>3, <1>4, <1>5, <1>6, RegisterStays DEF WalkSound
<1>8. NumbersSound'
  <2>1. /\ DOMAIN number = {b \in visited : TopDown(b) \/ b \notin OnTrail}
        /\ \A x \in register.assets :
             {number[b] : b \in DOMAIN number \cap InGroup(x)} = 1..Cardinality(DOMAIN number \cap InGroup(x))
        /\ \A b \in register.assets : ParentIn(b) # None =>
             /\ TopDown(b) /\ b \in DOMAIN number => number[ParentIn(b)] < number[b]
             /\ ~TopDown(b) /\ ParentIn(b) \in DOMAIN number => number[b] < number[ParentIn(b)]
        /\ \A b, d \in register.assets : Siblings(b, d) /\ ByTag(b, d) /\ d \in DOMAIN number =>
             \A c \in register.assets : c = b \/ ParentIn(c) = b => number[c] < number[d]
    BY <1>2 DEF NumbersSound
  <2>2. CASE TopDown(a)
    <3>1. number' = number
      BY <2>2, <1>1 DEF a
    <3>2. DOMAIN number' = {b \in visited' : TopDown(b) \/ b \notin OnTrail'}
      BY <3>1, <2>1, <2>2, <1>1, <1>5
    <3> QED BY <3>1, <3>2, <2>1, <1>2, RegisterStays DEF NumbersSound
  <2>3. CASE ~TopDown(a)
    <3>1. a \notin DOMAIN number /\ DOMAIN number \subseteq register.assets /\ number' = Recorded(a)
      BY <2>1, <2>3, <1>1, <1>3, <1>5 DEF a
    <3>2. /\ DOMAIN number' = DOMAIN number \cup {a}
          /\ \A b \in DOMAIN number : number'[b] = number[b]
          /\ \A b \in DOMAIN number : b \in InGroup(a) => number[b] < number'[a]
          /\ \A x \in register.assets :
               {number'[b] : b \in DOMAIN number' \cap InGroup(x)}
                 = 1..Cardinality(DOMAIN number' \cap InGroup(x))
      BY <3>1, <2>1, <1>2, <1>4, Recording
    <3>3. DOMAIN number' = {b \in visited' : TopDown(b) \/ b \notin OnTrail'}
      BY <3>2, <2>1, <2>3, <1>1, <1>4, <1>5
    <3>4. ASSUME NEW b \in register.assets, ParentIn(b) # None
          PROVE  /\ TopDown(b) /\ b \in DOMAIN number' => number'[ParentIn(b)] < number'[b]
                 /\ ~TopDown(b) /\ ParentIn(b) \in DOMAIN number' => number'[b] < number'[ParentIn(b)]
      <4>1. ParentIn(b) \in InGroup(b) /\ ParentIn(b) # b /\ (TopDown(ParentIn(b)) <=> TopDown(b))
        BY <3>4, <1>2, GroupFacts
      <4>2. ParentIn(b) \in register.assets /\ b \in InGroup(ParentIn(b))
        BY <4>1, <1>2, GroupFacts
      <4>3. ASSUME TopDown(b), b \in DOMAIN number' PROVE number'[ParentIn(b)] < number'[b]
        <5>1. b \in DOMAIN number /\ b \in visited
          BY <4>3, <3>2, <2>1, <2>3
        <5>2. ParentIn(b) \in visited
          BY <5>1, <3>4, <1>2 DEF WalkSound
        <5>3. ParentIn(b) \in DOMAIN number
          BY <5>2, <4>1, <4>3, <2>1
        <5> QED BY <5>1, <5>3, <4>3, <3>2, <3>4, <2>1
      <4>4. ASSUME ~TopDown(b), ParentIn(b) \in DOMAIN number' PROVE number'[b] < number'[ParentIn(b)]
        <5>1. CASE ParentIn(b) = a
          <6>1. b \in DOMAIN number
            BY <5>1, <1>6, <2>1 DEF Finished
          <6> QED BY <6>1, <5>1, <4>2, <3>2
        <5>2. CASE ParentIn(b) # a
          <6>1. ParentIn(b) \in DOMAIN number
            BY <5>2, <4>4, <3>2
          <6>2. ParentIn(b) \in Finished
            BY <6>1, <4>1, <4>4, <2>1 DEF Finished
          <6>3. b \in Finished
            BY <6>2, <1>2 DEF WalkSound
          <6>4. b \in DOMAIN number
            BY <6>3, <2>1 DEF Finished
          <6> QED BY <6>1, <6>4, <4>4, <3>2, <3>4, <2>1
        <5> QED BY <5>1, <5>2
      <4> QED BY <4>3, <4>4
    <3>5. ASSUME NEW b \in register.assets, NEW d \in register.assets, Siblings(b, d), ByTag(b, d),
                 d \in DOMAIN number', NEW c \in register.assets, c = b \/ ParentIn(c) = b
          PROVE  number'[c] < number'[d]
      <4>1. b \in Finished
        BY <3>5, <3>3, <1>1, <1>2 DEF WalkSound
      <4>2. c \in Finished
        BY <4>1, <3>5, <1>2 DEF WalkSound
      <4>3. c \in DOMAIN number
        BY <4>2, <2>1 DEF Finished
      <4>4. CASE d = a
        <5>1. d \in InGroup(b) /\ c \in InGroup(b)
          BY <3>5, <1>2, GroupFacts DEF Siblings
        <5>2. c \in InGroup(a)
          BY <5>1, <4>4, <1>2, GroupFacts
        <5> QED BY <5>2, <4>3, <4>4, <3>2
      <4>5. CASE d # a
        BY <4>3, <4>5, <3>2, <3>5, <2>1
      <4> QED BY <4>4, <4>5
    <3> QED BY <3>2, <3>3, <3>4, <3>5, <1>2, RegisterStays DEF NumbersSound
  <2> QED BY <2>2, <2>3
<1> QED BY <1>2, <1>7, <1>8 DEF NumberSound

LEMMA NumberNext == ASSUME NumberSound, [PlanNext]_planVars PROVE NumberSound'
<1>1. CASE StartOrder
  <2>1. /\ planStep' = "order" /\ IsRegister(register')
        /\ trail' = <<>> /\ visited' = {} /\ number' = <<>>
    BY <1>1 DEF StartOrder, numberVars, NumberSound
  <2>2. WalkSound'
    BY <2>1 DEF WalkSound, Finished, OnTrail
  <2>3. NumbersSound'
    <3>1. DOMAIN number' = {}
      BY <2>1
    <3>2. \A S : S \cap DOMAIN number' = {} /\ Cardinality({}) = 0
      BY <3>1, FS_EmptySet
    <3>3. \A a : {number'[b] : b \in (DOMAIN number') \cap InGroup(a)'} = {} /\ 1..0 = {}
      BY <3>1
    <3>4. \A a \in register'.assets : ParentIn(a)' # None =>
            /\ TopDown(a)' /\ a \in DOMAIN number' => number'[ParentIn(a)'] < number'[a]
            /\ ~TopDown(a)' /\ ParentIn(a)' \in DOMAIN number' => number'[a] < number'[ParentIn(a)']
      BY <3>1
    <3> QED BY <2>1, <3>1, <3>2, <3>3, <3>4 DEF NumbersSound
  <2> QED BY <2>1, <2>2, <2>3 DEF NumberSound
<1>2. CASE EnterAsset
  BY <1>2, NumberEnter
<1>3. CASE LeaveAsset
  BY <1>3, NumberLeave
<1>4. CASE UNCHANGED <<register, numberVars>> /\ (planStep' = planStep \/ EndOrder \/ EndNumber)
  <2>1. /\ register' = register /\ trail' = trail /\ visited' = visited /\ number' = number
    BY <1>4 DEF numberVars
  <2>2. WalkSound' = WalkSound /\ NumbersSound' = NumbersSound /\ Unvisited(None)' = Unvisited(None)
    BY <2>1 DEF WalkSound, NumbersSound, Finished, OnTrail, Siblings, ParentIn, InGroup, TopDown, ByTag,
         Unvisited
  <2> QED BY <2>1, <2>2, <1>4 DEF NumberSound, EndOrder, EndNumber
<1> QED BY <1>1, <1>2, <1>3, <1>4 DEF PlanNext, PlanSteps, PlaceSystem, EndOrder, EndNumber, planVars

(* Every group has a root as long as the parents of the register make no   *)
(* loop.                                                                   *)
Rooted == \A S \in SUBSET register.assets : S # {} => \E a \in S : register.parent[a] \notin S

LEMMA NumbersHold == ASSUME NumberSound, planStep # "off" => Rooted PROVE EveryAssetNumbered
<1> SUFFICES ASSUME planStep = "planned"
             PROVE /\ DOMAIN number = register.assets
                   /\ \A a \in register.assets : {number[b] : b \in InGroup(a)} = 1..Cardinality(InGroup(a))
                   /\ \A a \in register.assets : ParentIn(a) # None => Before(ParentIn(a), a)
                   /\ \A a, b \in register.assets :
                        ParentIn(a) = ParentIn(b) /\ b \in InGroup(a) \ {a} /\ ByTag(a, b) =>
                          \A c \in register.assets : c = a \/ ParentIn(c) = a => number[c] < number[b]
  BY DEF EveryAssetNumbered
<1>1. /\ IsRegister(register) /\ WalkSound /\ NumbersSound /\ Rooted
      /\ trail = <<>> /\ Unvisited(None) = {}
  BY DEF NumberSound
<1>2. Finished = visited /\ OnTrail = {} /\ visited \subseteq register.assets
  BY <1>1 DEF Finished, OnTrail, WalkSound
<1>3. register.assets \ visited = {}
  <2> SUFFICES ASSUME register.assets \ visited # {} PROVE FALSE
    OBVIOUS
  <2>1. PICK a \in register.assets \ visited : register.parent[a] \notin register.assets \ visited
    BY <1>1 DEF Rooted
  <2>2. ParentIn(a) # None
    BY <1>1, <2>1 DEF Unvisited
  <2>3. ParentIn(a) = register.parent[a] /\ ParentIn(a) \in register.assets
    BY <2>2, <1>1, GroupFacts DEF ParentIn
  <2> QED BY <2>1, <2>3, <1>1, <1>2 DEF WalkSound
<1>4. DOMAIN number = register.assets
  BY <1>1, <1>2, <1>3 DEF NumbersSound
<1>5. ASSUME NEW a \in register.assets PROVE {number[b] : b \in InGroup(a)} = 1..Cardinality(InGroup(a))
  <2>1. DOMAIN number \cap InGroup(a) = InGroup(a)
    BY <1>1, <1>4, GroupFacts
  <2> QED BY <2>1, <1>1 DEF NumbersSound
<1>6. ASSUME NEW a \in register.assets, ParentIn(a) # None PROVE Before(ParentIn(a), a)
  <2>1. ParentIn(a) \in register.assets /\ (TopDown(ParentIn(a)) <=> TopDown(a))
    BY <1>1, <1>6, GroupFacts
  <2> QED BY <2>1, <1>1, <1>4, <1>6 DEF NumbersSound, Before
<1> QED BY <1>1, <1>4, <1>5, <1>6 DEF NumbersSound, Siblings

------------------------------------------------------------------------------
(* The ladder of ladder.ts: of any activities one is ahead of all.         *)
LEMMA FirstExists ==
  ASSUME NEW schedule, NEW S, S \subseteq Nat, S # {}
  PROVE  \E i \in S : IsFirstOf(schedule, i, S)
<1> DEFINE M == {i \in S : schedule[i].milestone}
<1>1. CASE M # {}
  <2>1. PICK i \in M : \A j \in M : i <= j
    BY <1>1, LeastNatural
  <2> QED BY <2>1 DEF IsFirstOf, Ahead
<1>2. CASE M = {}
  <2>1. PICK i \in S : \A j \in S : i <= j
    BY LeastNatural
  <2> QED BY <2>1, <1>2 DEF IsFirstOf, Ahead
<1> QED BY <1>1, <1>2

LEMMA FirstIsOne ==
  ASSUME NEW schedule, NEW S, S \subseteq Nat, NEW i, NEW j,
         IsFirstOf(schedule, i, S), IsFirstOf(schedule, j, S)
  PROVE  i = j
<1>1. i \in Nat /\ j \in Nat /\ Ahead(schedule, i, j) /\ Ahead(schedule, j, i)
  BY DEF IsFirstOf
<1> QED BY <1>1 DEF Ahead

(* What an asset is given, by the rung it is given it on.                  *)
LEMMA MilestoneGiven ==
  ASSUME NEW schedule, DOMAIN schedule \subseteq Nat, NEW tag, NEW system,
         NEW D, D = Naming(schedule, tag), NEW C, C = Claiming(schedule, KeyOf(system))
  PROVE  /\ D # {} => \E i \in D : IsFirstOf(schedule, i, D)
                        /\ Milestone(schedule, tag, system) = Assigned(1, i)
         /\ D = {} /\ C # {} =>
              \E i \in C : IsFirstOf(schedule, i, C) /\ \E rung \in {2, 3} :
                             /\ rung = (IF KeyOf(schedule[i].upn) = KeyOf(system) THEN 2 ELSE 3)
                             /\ Milestone(schedule, tag, system) = Assigned(rung, i)
         /\ D = {} /\ C = {} => Milestone(schedule, tag, system) = Assigned(4, None)
<1> DEFINE First(S) == CHOOSE i \in S : IsFirstOf(schedule, i, S)
<1>1. D \subseteq Nat /\ C \subseteq Nat
  BY DEF Naming, Claiming
<1>2. ASSUME NEW S, S \subseteq Nat, S # {} PROVE First(S) \in S /\ IsFirstOf(schedule, First(S), S)
  BY <1>2, FirstExists
<1>3. Milestone(schedule, tag, system) =
        IF D # {} THEN Assigned(1, First(D))
        ELSE IF C # {} THEN
          Assigned(IF KeyOf(schedule[First(C)].upn) = KeyOf(system) THEN 2 ELSE 3, First(C))
        ELSE Assigned(4, None)
  BY DEF Milestone
<1> HIDE DEF First
<1> QED BY <1>1, <1>2, <1>3, Zenon

(* A longer schedule against the one without its last row.                 *)
LEMMA RowAdded ==
  ASSUME NEW schedule, NEW before, NEW n \in Nat, DOMAIN schedule = 1..n, DOMAIN before = 1..(n - 1), n > 0,
         \A i \in 1..(n - 1) : before[i] = schedule[i], NEW tag, NEW key
  PROVE  /\ Naming(before, tag) = Naming(schedule, tag) \ {n}
         /\ Claiming(before, key) = Claiming(schedule, key) \ {n}
         /\ \A S \in SUBSET (1..(n - 1)) : \A i : IsFirstOf(before, i, S) <=> IsFirstOf(schedule, i, S)
         /\ n \notin Naming(before, tag) \cup Claiming(before, key)
         /\ Naming(before, tag) \subseteq 1..(n - 1) /\ Claiming(before, key) \subseteq 1..(n - 1)
         /\ Naming(schedule, tag) \subseteq Nat /\ Claiming(schedule, key) \subseteq Nat
<1>1. (1..n) \ {n} = 1..(n - 1) /\ n \notin 1..(n - 1) /\ 1..n \subseteq Nat /\ 1..(n - 1) \subseteq Nat
  OBVIOUS
<1>2. Naming(before, tag) = Naming(schedule, tag) \ {n}
  BY <1>1 DEF Naming
<1>3. \A i \in 1..(n - 1) : Named(before[i]) = Named(schedule[i])
  BY DEF Named
<1>4. Claiming(before, key) = Claiming(schedule, key) \ {n}
  BY <1>1, <1>3 DEF Claiming
<1>5. ASSUME NEW S \in SUBSET (1..(n - 1)), NEW i
      PROVE  IsFirstOf(before, i, S) <=> IsFirstOf(schedule, i, S)
  BY DEF IsFirstOf, Ahead
<1>6. Naming(before, tag) \subseteq 1..(n - 1) /\ Claiming(before, key) \subseteq 1..(n - 1)
  BY DEF Naming, Claiming
<1>7. Naming(schedule, tag) \subseteq Nat /\ Claiming(schedule, key) \subseteq Nat
  BY <1>1 DEF Naming, Claiming
<1> QED BY <1>1, <1>2, <1>4, <1>5, <1>6, <1>7

(* The first of some rows is still the first when a row is added to them,  *)
(* unless the new row is a milestone.                                      *)
LEMMA FirstWithRow ==
  ASSUME NEW schedule, NEW n \in Nat, NEW S, S \subseteq 1..(n - 1), NEW T, T \subseteq Nat, S = T \ {n},
         NEW i, IsFirstOf(schedule, i, S), NEW j, IsFirstOf(schedule, j, T)
  PROVE  j = i \/ (j = n /\ schedule[n].milestone)
<1>1. CASE j = n
  <2>1. i \in T /\ i \in 1..(n - 1) /\ Ahead(schedule, n, i)
    BY <1>1 DEF IsFirstOf
  <2> QED BY <2>1, <1>1 DEF Ahead
<1>2. CASE j # n
  <2>1. IsFirstOf(schedule, j, S)
    BY <1>2 DEF IsFirstOf
  <2>2. S \subseteq Nat
    OBVIOUS
  <2> QED BY <2>1, <2>2, FirstIsOne
<1> QED BY <1>1, <1>2

(* The rows that name an asset, and those that claim its system, before    *)
(* (D, C) and with the new row (E, B), and what the asset is given.        *)
Given(schedule, D, C, Rung, given) ==
  /\ D # {} => \E i \in D : IsFirstOf(schedule, i, D) /\ given = Assigned(1, i)
  /\ D = {} /\ C # {} =>
       \E i \in C : IsFirstOf(schedule, i, C) /\ Rung[i] \in {2, 3} /\ given = Assigned(Rung[i], i)

LessTheNew(n, D, E) == n \in Nat /\ D \subseteq 1..(n - 1) /\ E \subseteq Nat /\ D = E \ {n}
Keeps(schedule, n, early, late) ==
  \/ late = early
  \/ late.activity = n /\ (schedule[n].milestone \/ (late.rung = 1 /\ early.rung > 1))

LEMMA GivenWithRow ==
  ASSUME NEW schedule, NEW n, NEW D, NEW E, NEW C, NEW B, NEW early, NEW late, NEW Rung,
         LessTheNew(n, D, E), LessTheNew(n, C, B)
  PROVE  (D = {} => C # {}) /\ Given(schedule, D, C, Rung, early) /\ Given(schedule, E, B, Rung, late) =>
         Keeps(schedule, n, early, late)
<1>1. \A rung, i : Assigned(rung, i).rung = rung /\ Assigned(rung, i).activity = i
  BY DEF Assigned
<1>2. ASSUME NEW i, NEW j, IsFirstOf(schedule, i, D), IsFirstOf(schedule, j, E)
      PROVE  j = i \/ (j = n /\ schedule[n].milestone)
  BY <1>2, FirstWithRow DEF LessTheNew
<1>3. ASSUME NEW i, NEW j, IsFirstOf(schedule, i, C), IsFirstOf(schedule, j, B)
      PROVE  j = i \/ (j = n /\ schedule[n].milestone)
  BY <1>3, FirstWithRow DEF LessTheNew
<1>4. SUFFICES ASSUME D = {} => C # {}, Given(schedule, D, C, Rung, early), Given(schedule, E, B, Rung, late)
               PROVE  Keeps(schedule, n, early, late)
  OBVIOUS
<1>5. CASE D # {}
  <2>1. PICK i \in D : IsFirstOf(schedule, i, D) /\ early = Assigned(1, i)
    BY <1>5, <1>4 DEF Given, LessTheNew
  <2>2. PICK j \in E : IsFirstOf(schedule, j, E) /\ late = Assigned(1, j)
    BY <1>5, <1>4 DEF Given, LessTheNew
  <2>3. j = i \/ (j = n /\ schedule[n].milestone)
    BY <2>1, <2>2, <1>2
  <2> QED BY <2>1, <2>2, <2>3, <1>1 DEF Keeps
<1>6. CASE D = {}
  <2>1. PICK i \in C : IsFirstOf(schedule, i, C) /\ Rung[i] \in {2, 3} /\ early = Assigned(Rung[i], i)
    BY <1>6, <1>4 DEF Given, LessTheNew
  <2>2. CASE E # {}
    <3>1. E = {n}
      <4>1. E \ {n} = {}
        BY <1>6 DEF LessTheNew
      <4> QED BY <4>1, <2>2
    <3>2. late = Assigned(1, n)
      BY <3>1, <2>2, <1>4 DEF Given
    <3>3. Rung[i] > 1
      BY <2>1
    <3> QED BY <3>2, <3>3, <2>1, <1>1 DEF Keeps
  <2>3. CASE E = {}
    <3>1. PICK j \in B : IsFirstOf(schedule, j, B) /\ Rung[j] \in {2, 3} /\ late = Assigned(Rung[j], j)
      BY <2>1, <2>3, <1>4 DEF Given, LessTheNew
    <3>2. j = i \/ (j = n /\ schedule[n].milestone)
      BY <2>1, <3>1, <1>3
    <3> QED BY <2>1, <3>1, <3>2, <1>1 DEF Keeps
  <2> QED BY <2>2, <2>3
<1> QED BY <1>5, <1>6

LEMMA RowKeeps ==
  ASSUME NEW schedule, NEW before, NEW n \in Nat, DOMAIN schedule = 1..n, DOMAIN before = 1..(n - 1), n > 0,
         \A i \in 1..(n - 1) : before[i] = schedule[i], NEW tag, NEW system,
         NEW early, early = Milestone(before, tag, system), early.activity # None,
         NEW late, late = Milestone(schedule, tag, system)
  PROVE  Keeps(schedule, n, early, late)
<1> DEFINE key == KeyOf(system)
           D == Naming(before, tag)
           E == Naming(schedule, tag)
           C == Claiming(before, key)
           B == Claiming(schedule, key)
           Rung == [i \in Nat |-> IF KeyOf(schedule[i].upn) = key THEN 2 ELSE 3]
<1>1. D = E \ {n}
  BY RowAdded
<1>2. C = B \ {n}
  BY RowAdded
<1>3. D \subseteq 1..(n - 1)
  BY RowAdded
<1>4. C \subseteq 1..(n - 1)
  BY RowAdded
<1>5. E \subseteq Nat
  BY RowAdded
<1>6. B \subseteq Nat
  BY RowAdded
<1>7. ASSUME NEW S, S \subseteq 1..(n - 1), NEW i, IsFirstOf(before, i, S) PROVE IsFirstOf(schedule, i, S)
  BY <1>7 DEF IsFirstOf, Ahead
<1>8. /\ DOMAIN schedule \subseteq Nat /\ DOMAIN before \subseteq Nat
      /\ \A i \in 1..(n - 1) : KeyOf(before[i].upn) = KeyOf(schedule[i].upn)
      /\ \A i \in Nat : Rung[i] = (IF KeyOf(schedule[i].upn) = key THEN 2 ELSE 3)
  OBVIOUS
<1> HIDE DEF key, D, E, C, B, Rung
<1>9. D # {} => \E i \in D : IsFirstOf(before, i, D) /\ early = Assigned(1, i)
  BY <1>8, MilestoneGiven DEF D
<1>10. D = {} /\ C # {} => \E i \in C : IsFirstOf(before, i, C) /\ \E rung \in {2, 3} :
                             /\ rung = (IF KeyOf(before[i].upn) = key THEN 2 ELSE 3)
                             /\ early = Assigned(rung, i)
  BY <1>8, MilestoneGiven DEF D, C, key
<1>11. D = {} /\ C = {} => early = Assigned(4, None)
  BY <1>8, MilestoneGiven DEF D, C, key
<1>12. E # {} => \E i \in E : IsFirstOf(schedule, i, E) /\ late = Assigned(1, i)
  BY <1>8, MilestoneGiven DEF E
<1>13. E = {} /\ B # {} => \E i \in B : IsFirstOf(schedule, i, B) /\ \E rung \in {2, 3} :
                             /\ rung = (IF KeyOf(schedule[i].upn) = key THEN 2 ELSE 3)
                             /\ late = Assigned(rung, i)
  BY <1>8, MilestoneGiven DEF E, B, key
<1>14. D = {} => C # {}
  BY <1>11 DEF Assigned
<1>15. Given(schedule, D, C, Rung, early)
  <2>1. D # {} => \E i \in D : IsFirstOf(schedule, i, D) /\ early = Assigned(1, i)
    BY <1>9, <1>7, <1>3
  <2>2. ASSUME D = {}, C # {}
        PROVE  \E i \in C : IsFirstOf(schedule, i, C) /\ Rung[i] \in {2, 3} /\ early = Assigned(Rung[i], i)
    <3>1. PICK i \in C : IsFirstOf(before, i, C) /\ \E rung \in {2, 3} :
                               /\ rung = (IF KeyOf(before[i].upn) = key THEN 2 ELSE 3)
                               /\ early = Assigned(rung, i)
      BY <2>2, <1>10
    <3>2. i \in 1..(n - 1) /\ i \in Nat
      BY <1>4
    <3>3. IsFirstOf(schedule, i, C)
      BY <3>1, <1>7, <1>4
    <3> QED BY <3>1, <3>2, <3>3, <1>8
  <2> QED BY <2>1, <2>2 DEF Given
<1>16. Given(schedule, E, B, Rung, late)
  <2>1. E = {} /\ B # {} =>
          \E i \in B : IsFirstOf(schedule, i, B) /\ Rung[i] \in {2, 3} /\ late = Assigned(Rung[i], i)
    BY <1>13, <1>8, <1>6
  <2> QED BY <2>1, <1>12 DEF Given
<1>17. LessTheNew(n, D, E) /\ LessTheNew(n, C, B)
  BY <1>1, <1>2, <1>3, <1>4, <1>5, <1>6 DEF LessTheNew
<1> QED BY <1>14, <1>15, <1>16, <1>17, GivenWithRow

LEMMA ScheduleKeeps ==
  ASSUME NEW schedule, NEW n \in Nat, n > 0, DOMAIN schedule = 1..n, Len(schedule) = n,
         DOMAIN SubSeq(schedule, 1, n - 1) = 1..(n - 1),
         \A i \in 1..(n - 1) : SubSeq(schedule, 1, n - 1)[i] = schedule[i]
  PROVE  FullerKeeps(schedule, register)
<1> DEFINE before == SubSeq(schedule, 1, n - 1)
           early(a) == Milestone(before, register.tag[a], register.system[a])
           late(a) == Milestone(schedule, register.tag[a], register.system[a])
<1>1. ASSUME NEW a \in register.assets, early(a).activity # None
      PROVE  Keeps(schedule, n, early(a), late(a))
  <2> HIDE DEF before
  <2>1. DOMAIN before = 1..(n - 1) /\ \A i \in 1..(n - 1) : before[i] = schedule[i]
    BY DEF before
  <2> QED BY <1>1, <2>1, RowKeeps
<1>2. \A a \in register.assets :
        Milestones(before, register)[a] = early(a) /\ Milestones(schedule, register)[a] = late(a)
  BY DEF Milestones
<1> HIDE DEF early, late, before
<1>3. ASSUME NEW a \in register.assets, Milestones(before, register)[a].activity # None
      PROVE  \/ Milestones(schedule, register)[a] = Milestones(before, register)[a]
             \/ /\ Milestones(schedule, register)[a].activity = n
                /\ \/ schedule[n].milestone
                   \/ /\ Milestones(schedule, register)[a].rung = 1
                      /\ Milestones(before, register)[a].rung > 1
  BY <1>1, <1>2, <1>3 DEF Keeps
<1> QED BY <1>3 DEF FullerKeeps, before

(* What the ladder gives an asset of the register.                         *)
LEMMA ActivityGiven ==
  ASSUME NEW schedule, DOMAIN schedule \subseteq Nat, NEW tag, NEW system,
         NEW given, given = Milestone(schedule, tag, system)
  PROVE  LET D == Naming(schedule, tag)
             C == Claiming(schedule, KeyOf(system))
         IN
         /\ D # {} => given.rung = 1 /\ given.activity \in D /\ IsFirstOf(schedule, given.activity, D)
         /\ D = {} /\ C # {} =>
              given.rung \in {2, 3} /\ given.activity \in C /\ IsFirstOf(schedule, given.activity, C)
         /\ D = {} /\ C = {} => given.rung = 4
<1> DEFINE key == KeyOf(system)
           D == Naming(schedule, tag)
           C == Claiming(schedule, key)
<1>1. \A rung, i : Assigned(rung, i).rung = rung /\ Assigned(rung, i).activity = i
  BY DEF Assigned
<1> HIDE DEF key, D, C
<1>2. D # {} => \E i \in D : IsFirstOf(schedule, i, D) /\ given = Assigned(1, i)
  BY MilestoneGiven DEF key, D, C
<1>3. D = {} /\ C # {} => \E i \in C : IsFirstOf(schedule, i, C) /\ \E rung \in {2, 3} :
                             /\ rung = (IF KeyOf(schedule[i].upn) = key THEN 2 ELSE 3)
                             /\ given = Assigned(rung, i)
  BY MilestoneGiven DEF key, D, C
<1>4. D = {} /\ C = {} => given = Assigned(4, None)
  BY MilestoneGiven DEF key, D, C
<1>5. /\ D # {} => given.rung = 1 /\ given.activity \in D /\ IsFirstOf(schedule, given.activity, D)
      /\ D = {} /\ C # {} =>
           given.rung \in {2, 3} /\ given.activity \in C /\ IsFirstOf(schedule, given.activity, C)
      /\ D = {} /\ C = {} => given.rung = 4
  BY <1>1, <1>2, <1>3, <1>4
<1> QED BY <1>5 DEF key, D, C

LEMMA AssetGiven ==
  ASSUME NEW schedule, DOMAIN schedule \subseteq Nat, NEW a \in register.assets,
         NEW given, given = Milestones(schedule, register)[a],
         NEW D, D = Naming(schedule, register.tag[a]), NEW C, C = Claiming(schedule, SystemOf(a))
  PROVE  /\ D # {} => given.rung = 1 /\ given.activity \in D /\ IsFirstOf(schedule, given.activity, D)
         /\ D = {} /\ C # {} =>
              given.rung \in {2, 3} /\ given.activity \in C /\ IsFirstOf(schedule, given.activity, C)
         /\ D = {} /\ C = {} => given.rung = 4
<1> DEFINE tag == register.tag[a]
           system == register.system[a]
<1>1. given = Milestone(schedule, tag, system)
  BY DEF Milestones
<1>2. D = Naming(schedule, tag) /\ C = Claiming(schedule, KeyOf(system))
  BY DEF SystemOf, KeyOf
<1> HIDE DEF tag, system
<1> QED BY <1>1, <1>2, ActivityGiven

LEMMA ScheduleFills ==
  ASSUME NEW schedule, DOMAIN schedule \subseteq Nat, IsRegister(register)
  PROVE  FillsGaps(schedule, register)
<1> SUFFICES ASSUME NEW a \in register.assets, NEW given, given = Milestones(schedule, register)[a],
                    given.rung \in {2, 3}
             PROVE  \/ schedule[given.activity].milestone
                    \/ ~\E j \in Claiming(schedule, SystemOf(a)) : schedule[j].milestone
  BY DEF FillsGaps
<1>1. IsFirstOf(schedule, given.activity, Claiming(schedule, SystemOf(a)))
  BY AssetGiven
<1> QED BY <1>1 DEF IsFirstOf, Ahead

LEMMA ScheduleExplains ==
  ASSUME NEW schedule, DOMAIN schedule \subseteq Nat, IsRegister(register)
  PROVE  UnusedIsExplained(schedule, register)
<1> SUFFICES ASSUME NEW i \in DOMAIN Unmatched(schedule, register), NEW a \in register.assets,
                    NEW given, given = Milestones(schedule, register)[a]
             PROVE  /\ i \in Naming(schedule, register.tag[a]) =>
                         given.rung = 1 /\ Unmatched(schedule, register)[i] # "no-identifier"
                    /\ i \in Claiming(schedule, SystemOf(a)) =>
                         given.activity # None /\ Unmatched(schedule, register)[i] # "no-identifier"
                    /\ /\ Unmatched(schedule, register)[i] = "superseded"
                       /\ i \in Claiming(schedule, SystemOf(a)) /\ given.rung > 1
                       => schedule[given.activity].milestone \/ given.activity < i
  BY DEF UnusedIsExplained
<1>1. /\ i \in DOMAIN schedule /\ given.activity # i /\ i \in Nat
      /\ Unmatched(schedule, register)[i] = Reason(schedule, i)
  BY DEF Unmatched
<1> DEFINE D == Naming(schedule, register.tag[a])
           C == Claiming(schedule, SystemOf(a))
<1>2. D \subseteq DOMAIN schedule /\ C \subseteq DOMAIN schedule
  BY DEF Naming, Claiming
<1>3. ASSUME i \in D PROVE given.rung = 1 /\ Reason(schedule, i) # "no-identifier"
  <2>1. given.rung = 1
    <3>1. D = Naming(schedule, register.tag[a]) /\ C = Claiming(schedule, SystemOf(a)) /\ D # {}
      BY <1>3
    <3> HIDE DEF D, C
    <3> QED BY <3>1, AssetGiven
  <2>2. register.tag[a] # None /\ TagKeyOf(schedule[i].tag) = TagKeyOf(register.tag[a])
    BY <1>3 DEF Naming
  <2>3. register.tag[a] \in DOMAIN TagKey
    BY <2>2 DEF IsRegister
  <2>4. schedule[i].tag # None
    BY <2>2, <2>3, CommissioningAssumption DEF TagKeyOf
  <2> QED BY <2>1, <2>4 DEF Reason
<1>4. ASSUME i \in C PROVE given.activity # None /\ Reason(schedule, i) # "no-identifier"
  <2>1. Named(schedule[i]) # {}
    BY <1>4 DEF Claiming
  <2>2. given.activity \in D \cup C
    BY <1>4, AssetGiven
  <2>3. given.activity # None
    BY <2>2, <1>2, CommissioningAssumption
  <2> QED BY <2>1, <2>3 DEF Reason
<1>5. ASSUME i \in C, given.rung > 1
      PROVE  schedule[given.activity].milestone \/ given.activity < i
  <2>1. D = {}
    BY <1>5, AssetGiven
  <2>2. given.activity \in C /\ IsFirstOf(schedule, given.activity, C)
    BY <1>5, <2>1, AssetGiven
  <2>3. given.activity \in Nat /\ Ahead(schedule, given.activity, i)
    BY <2>2, <1>2, <1>5 DEF IsFirstOf
  <2> QED BY <2>3, <1>1 DEF Ahead
<1> QED BY <1>1, <1>3, <1>4, <1>5

LEMMA LadderHolds ==
  ASSUME NEW schedule, IsSchedule(schedule), IsRegister(register)
  PROVE  MilestonesHold(schedule)
<1> SUFFICES ASSUME NEW n \in DOMAIN schedule, NEW known, known = SubSeq(schedule, 1, n)
             PROVE  /\ FullerKeeps(known, register) /\ FillsGaps(known, register)
                    /\ UnusedIsExplained(known, register)
  BY DEF MilestonesHold
<1> DEFINE Rows == {schedule[i] : i \in DOMAIN schedule}
<1>1. schedule \in Seq(Rows) /\ n \in 1..Len(schedule)
  BY DEF IsSchedule
<1> HIDE DEF Rows
<1>2. known \in Seq(Rows) /\ Len(known) = n /\ DOMAIN known = 1..n /\ n \in Nat /\ n > 0
  BY <1>1
<1>3. /\ DOMAIN SubSeq(known, 1, n - 1) = 1..(n - 1)
      /\ \A i \in 1..(n - 1) : SubSeq(known, 1, n - 1)[i] = known[i]
  BY <1>2
<1>4. FullerKeeps(known, register)
  BY <1>2, <1>3, ScheduleKeeps
<1>5. DOMAIN known \subseteq Nat
  BY <1>2
<1> QED BY <1>4, <1>5, ScheduleFills, ScheduleExplains
=============================================================================
