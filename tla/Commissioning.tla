--------------------------- MODULE Commissioning ---------------------------
(***************************************************************************)
(* packages/scheduling: from a compile to the order of commissioning.      *)
(*                                                                         *)
(*   order   predecessors.ts: relations that cross systems become edges    *)
(*           between them, and Kahn's sort places every system it can      *)
(*   number  sequence.ts: within its (building, discipline, system) group, *)
(*           each asset gets a number, parents first or parents last       *)
(*                                                                         *)
(* One action is one turn of a loop of the code.  The milestones of        *)
(* ladder.ts are operators on a schedule.  Assets are numbers in id order; *)
(* KeyRank gives the natural order of system keys, Folded a key without    *)
(* its case, TagKey a tag without its typography.                          *)
(***************************************************************************)
EXTENDS EngineValues, Integers, Sequences, FiniteSets

CONSTANTS Folded, KeyRank, TagKey

(* Tags are numbers in natural order, and a tag is more than typography.   *)
ASSUME CommissioningAssumption ==
  None \notin Int /\ DOMAIN TagKey \subseteq Int /\ \A t \in DOMAIN TagKey : TagKey[t] # None

VARIABLES
  register,  \* what the functions are given, None before
  planStep,  \* off / order / number / planned
  degree,    \* inDegree: the unplaced predecessors of a system
  ready,     \* the queue: systems that have none
  order,     \* the startup order
  trail,     \* the assets walk is in the middle of, outermost first
  visited,   \* the assets it has entered
  number     \* the sequence numbers given

orderVars  == <<degree, ready, order>>
numberVars == <<trail, visited, number>>
planVars   == <<register, planStep, orderVars, numberVars>>

(* The assets; their tag; their system, None where it was not resolved;    *)
(* their group; the parent of those that have one; the relations [from,    *)
(* to] to what they depend on; the groups numbered top-down.               *)
IsRegister(r) ==
  /\ r.assets \subseteq Int /\ None \notin r.assets /\ IsFiniteSet(r.assets)
  /\ r.tag \in [r.assets -> DOMAIN TagKey \cup {None}]
  /\ DOMAIN r.group = r.assets /\ DOMAIN r.system = r.assets
  /\ r.parent \in [r.assets -> r.assets \cup {None}]
  /\ r.relations \subseteq [from : r.assets, to : r.assets]
------------------------------------------------------------------------------
SystemOf(a) == IF register.system[a] = None THEN None ELSE Folded[register.system[a]]
Systems == {SystemOf(a) : a \in {b \in register.assets : register.system[b] # None}}
(* Faulty: a relation within a system makes it its own predecessor.        *)
PrecedenceWithin ==
  {e \in Systems \X Systems :
     \E r \in register.relations : <<SystemOf(r.from), SystemOf(r.to)>> = e}
(* The systems joined by a relation of two of their assets.                *)
Precedence ==
  {e \in Systems \X Systems :
     /\ e[1] # e[2]
     /\ \E r \in register.relations : <<SystemOf(r.from), SystemOf(r.to)>> = e}
Predecessors(s) == {e \in Precedence : e[2] = s}
Placed == {order[i] : i \in DOMAIN order}

PlanInit ==
  /\ register = None /\ planStep = "off"
  /\ degree = <<>> /\ ready = {} /\ order = <<>>
  /\ trail = <<>> /\ visited = {} /\ number = <<>>

(* topologicalOrder, up to its loop ...                                    *)
StartOrder ==
  /\ planStep = "off" /\ planStep' = "order"
  /\ IsRegister(register')
  /\ degree' = [s \in Systems' |-> Cardinality(Predecessors(s)')]
  /\ ready' = {s \in Systems' : Predecessors(s)' = {}}
  /\ UNCHANGED <<order, numberVars>>
(* ... one turn of it: the first of the ready systems is placed, and those *)
(* that waited only for it become ready.                                   *)
PlaceSystem ==
  /\ planStep = "order"
  /\ \E s \in ready :
       /\ \A t \in ready : KeyRank[s] <= KeyRank[t]
       /\ order' = Append(order, s)
       /\ degree' = [t \in Systems |-> IF <<s, t>> \in Precedence THEN degree[t] - 1 ELSE degree[t]]
       /\ ready' = (ready \ {s}) \cup {t \in Systems : <<s, t>> \in Precedence /\ degree'[t] = 0}
  /\ UNCHANGED <<register, planStep, numberVars>>
EndOrder ==
  /\ planStep = "order" /\ ready = {}
  /\ planStep' = "number"
  /\ UNCHANGED <<register, orderVars, numberVars>>
------------------------------------------------------------------------------
(* A parent in another group is not a parent here.                         *)
InGroup(a) == {b \in register.assets : register.group[b] = register.group[a]}
ParentIn(a) ==
  IF register.parent[a] \in InGroup(a) \ {a} THEN register.parent[a] ELSE None
ByTag(a, b) ==
  LET s == register.tag[a]
      t == register.tag[b]
  IN  IF s = t THEN a <= b ELSE IF s = None THEN TRUE ELSE t # None /\ s <= t
IsNext(a, S) == a \in S /\ \A b \in S : ByTag(a, b)

Unvisited(p) == {a \in register.assets \ visited : ParentIn(a) = p}
TopDown(a) == register.group[a] \in register.topDown
(* Faulty: the count goes on from group to group.                          *)
RecordedOnward(a) ==
  [b \in DOMAIN number \cup {a} |-> IF b = a THEN 1 + Cardinality(DOMAIN number) ELSE number[b]]
Recorded(a) ==
  [b \in DOMAIN number \cup {a} |->
     IF b = a THEN 1 + Cardinality(DOMAIN number \cap InGroup(a)) ELSE number[b]]

(* walk, from a root or down to a child.  Groups are numbered apart, so    *)
(* the roots of all of them may be taken in one order.                     *)
EnterAsset ==
  /\ planStep = "number"
  /\ \E a \in register.assets :
       /\ IsNext(a, Unvisited(IF trail = <<>> THEN None ELSE trail[Len(trail)]))
       /\ trail' = Append(trail, a) /\ visited' = visited \cup {a}
       /\ number' = IF TopDown(a) THEN Recorded(a) ELSE number
  /\ UNCHANGED <<register, planStep, orderVars>>
LeaveAsset ==
  /\ planStep = "number" /\ trail # <<>>
  /\ LET a == trail[Len(trail)]
     IN  /\ Unvisited(a) = {}
         /\ number' = IF TopDown(a) THEN number ELSE Recorded(a)
  /\ trail' = SubSeq(trail, 1, Len(trail) - 1)
  /\ UNCHANGED <<register, planStep, orderVars, visited>>
EndNumber ==
  /\ planStep = "number" /\ trail = <<>> /\ Unvisited(None) = {}
  /\ planStep' = "planned"
  /\ UNCHANGED <<register, orderVars, numberVars>>

PlanSteps == PlaceSystem \/ EndOrder \/ EnterAsset \/ LeaveAsset \/ EndNumber
PlanNext  == StartOrder \/ PlanSteps
PlanSpec  == PlanInit /\ [][PlanNext]_planVars
------------------------------------------------------------------------------
(* ladder.ts.  An activity is [milestone, tag, upn, names], names being    *)
(* the systems read out of its name.  Milestones claim before other rows,  *)
(* and within each the schedule's order decides.                           *)
IsSchedule(schedule) == schedule \in Seq({schedule[i] : i \in DOMAIN schedule})
Ahead(schedule, i, j) ==
  \/ schedule[i].milestone /\ ~schedule[j].milestone
  \/ (schedule[i].milestone <=> schedule[j].milestone) /\ i <= j
IsFirstOf(schedule, i, S) == i \in S /\ \A j \in S : Ahead(schedule, i, j)
KeyOf(text) == IF text = None THEN None ELSE Folded[text]
TagKeyOf(tag) == IF tag = None THEN None ELSE TagKey[tag]

Naming(schedule, tag) == {i \in DOMAIN schedule : tag # None /\ TagKeyOf(schedule[i].tag) = TagKeyOf(tag)}
Named(activity) == {KeyOf(n) : n \in activity.names} \cup ({KeyOf(activity.upn)} \ {None})
Claiming(schedule, key) == {i \in DOMAIN schedule : key # None /\ key \in Named(schedule[i])}

Assigned(rung, activity) == [rung |-> rung, activity |-> activity]
(* An asset's milestone: of the activity that names its tag, else of the   *)
(* one that claimed its system, by its column or by its name, else none.   *)
Milestone(schedule, tag, system) ==
  LET direct == Naming(schedule, tag)
      claim  == Claiming(schedule, KeyOf(system))
      first(S) == CHOOSE i \in S : IsFirstOf(schedule, i, S)
  IN  IF direct # {} THEN Assigned(1, first(direct))
      ELSE IF claim # {} THEN
        Assigned(IF KeyOf(schedule[first(claim)].upn) = KeyOf(system) THEN 2 ELSE 3, first(claim))
      ELSE Assigned(4, None)
Milestones(schedule, r) == [a \in r.assets |-> Milestone(schedule, r.tag[a], r.system[a])]

(* Why an activity that no asset uses was not used.                        *)
Reason(schedule, i) ==
  LET activity == schedule[i]
  IN  IF activity.tag = None /\ Named(activity) = {} THEN "no-identifier"
      ELSE IF \/ IsFirstOf(schedule, i, Naming(schedule, activity.tag))
              \/ \E key \in Named(activity) : IsFirstOf(schedule, i, Claiming(schedule, key))
      THEN "no-matching-asset" ELSE "superseded"
Unmatched(schedule, r) ==
  [i \in DOMAIN schedule \ {Milestones(schedule, r)[a].activity : a \in r.assets} |->
     Reason(schedule, i)]
------------------------------------------------------------------------------
(* The startup order can be followed: a system comes after everything it   *)
(* waits for, and what is left out is exactly what waits, directly or      *)
(* through others, for itself (predecessors.ts:20-21).                     *)
Awaits(t, s) ==
  s # t /\ \E r \in register.relations : SystemOf(r.to) = t /\ SystemOf(r.from) = s
Waiting(S) == \A t \in S : \E s \in S : Awaits(t, s)
StartupOrderHolds ==
  planStep \in {"number", "planned"} =>
    /\ \A i, j \in DOMAIN order : order[i] = order[j] => i = j
    /\ \A j \in DOMAIN order, s \in Systems :
         Awaits(order[j], s) => \E i \in 1..(j - 1) : order[i] = s
    /\ Placed \subseteq Systems /\ Waiting(Systems \ Placed)
    /\ \A S \in SUBSET Systems : Waiting(S) => S \cap Placed = {}

(* No asset disappears from the register: each group is numbered from one  *)
(* without a gap, and an asset lies between its parent and its parent's    *)
(* next child, on the side its discipline asks for (sequence.ts:10-16).    *)
Before(a, b) == IF TopDown(a) THEN number[a] < number[b] ELSE number[b] < number[a]
EveryAssetNumbered ==
  planStep = "planned" =>
    /\ DOMAIN number = register.assets
    /\ \A a \in register.assets : {number[b] : b \in InGroup(a)} = 1..Cardinality(InGroup(a))
    /\ \A a \in register.assets : ParentIn(a) # None => Before(ParentIn(a), a)
    /\ \A a, b \in register.assets :
         ParentIn(a) = ParentIn(b) /\ b \in InGroup(a) \ {a} /\ ByTag(a, b) =>
           \A c \in register.assets : c = a \/ ParentIn(c) = a => number[c] < number[b]

(* A fuller schedule never takes a milestone away: with one more row, an   *)
(* asset that had an activity has one, the same unless the new row is a    *)
(* milestone or names the asset.  Rows that are no milestones only fill    *)
(* gaps, and one that no asset uses names no asset, and no system but of   *)
(* assets that are named, or that another row holds (ladder.ts:4-6, 18-36).*)
FullerKeeps(schedule, r) ==
  LET n      == Len(schedule)
      before == Milestones(SubSeq(schedule, 1, n - 1), r)
      after  == Milestones(schedule, r)
  IN  \A a \in r.assets :
        before[a].activity # None =>
          \/ after[a] = before[a]
          \/ /\ after[a].activity = n
             /\ schedule[n].milestone \/ (after[a].rung = 1 /\ before[a].rung > 1)
FillsGaps(schedule, r) ==
  \A a \in r.assets : Milestones(schedule, r)[a].rung \in {2, 3} =>
    LET i == Milestones(schedule, r)[a].activity
    IN  schedule[i].milestone \/ ~\E j \in Claiming(schedule, SystemOf(a)) : schedule[j].milestone
UnusedIsExplained(schedule, r) ==
  \A i \in DOMAIN Unmatched(schedule, r), a \in r.assets :
    LET given == Milestones(schedule, r)[a]
    IN  /\ i \in Naming(schedule, r.tag[a]) =>
             given.rung = 1 /\ Unmatched(schedule, r)[i] # "no-identifier"
        /\ i \in Claiming(schedule, SystemOf(a)) =>
             given.activity # None /\ Unmatched(schedule, r)[i] # "no-identifier"
        /\ /\ Unmatched(schedule, r)[i] = "superseded"
           /\ i \in Claiming(schedule, SystemOf(a)) /\ given.rung > 1
           => schedule[given.activity].milestone \/ given.activity < i
MilestonesHold(schedule) ==
  \A n \in DOMAIN schedule :
    LET known == SubSeq(schedule, 1, n)
    IN  FullerKeeps(known, register) /\ FillsGaps(known, register) /\ UnusedIsExplained(known, register)
=============================================================================
