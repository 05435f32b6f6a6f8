---------------------------- MODULE LearnedRules ----------------------------
(***************************************************************************)
(* packages/learned-rules: what a finished export teaches about parents,   *)
(* and what it then proposes.  Training reads the links of the export,     *)
(* keeps the pairs of classes that repeat, and grades each class by        *)
(* replaying the policy on the links themselves; a proposal of a class     *)
(* that earned it is a claim.                                              *)
(*                                                                         *)
(* An export is a sequence of rows [tag, parent, system, description,      *)
(* discipline, family], None where the cell is blank.  Text is abstract:   *)
(* RoleClass is the class a tag's letters name, SharedRun the longest run  *)
(* of numbers two tags share, Extended the pairs of which the first        *)
(* continues the second by enough past a separator, BodyLength what is     *)
(* left of a tag without separators, Pattern a description with its        *)
(* numbers masked, Folded a text without its case.                         *)
(***************************************************************************)
EXTENDS EngineValues, Integers, Sequences, FiniteSets

CONSTANTS RoleClass, SharedRun, Extended, BodyLength, Pattern, Folded

(* thresholds.ts; rates and shares are percentages.                        *)
MinConfidence      == 90
MinAffinity        == 3
ChildOnlyBelow     == 5
MinSightings       == 10
ParentCapableFrom  == 15
MinParentings      == 5
GradeMinPredicted  == 10
GradeMinPrecision  == 85

Fold(text) == IF text = None THEN None ELSE Folded[text]
ClassOf(tag) == IF tag = None THEN None ELSE RoleClass[tag]
------------------------------------------------------------------------------
(* The pairing policy, one for training and for use.  An item is           *)
(* [id, tag, class, family]; its peers are the others of its system; the   *)
(* model says which classes are only children, which may be parents, and   *)
(* how often a pair of classes was seen.                                   *)
Containers(item, peers) == {p \in peers : <<item.tag, p.tag>> \in Extended}
IsNearestContainer(p, item, peers) ==
  /\ p \in Containers(item, peers)
  /\ \A q \in Containers(item, peers) :
       \/ BodyLength[q.tag] < BodyLength[p.tag]
       \/ /\ BodyLength[q.tag] = BodyLength[p.tag]
          /\ p.tag < q.tag \/ (p.tag = q.tag /\ p.id <= q.id)

Pairs(model, child, parent) ==
  IF <<child, parent>> \in DOMAIN model.affinity THEN model.affinity[<<child, parent>>] ELSE 0
SameFamily(item, p) == IF item.family # None /\ p.family = item.family THEN 1 ELSE 0
Run(item, p) == IF None \in {item.tag, p.tag} THEN 0 ELSE SharedRun[<<item.tag, p.tag>>]

(* Family first, then numbers, then classes.                               *)
Better(item, p, q, model) ==
  \/ SameFamily(item, p) > SameFamily(item, q)
  \/ /\ SameFamily(item, p) = SameFamily(item, q)
     /\ \/ Run(item, p) > Run(item, q)
        \/ /\ Run(item, p) = Run(item, q)
           /\ Pairs(model, item.class, p.class) > Pairs(model, item.class, q.class)
Contenders(item, peers, model) == {p \in peers : p.class \in model.capable /\ Run(item, p) >= 1}
Best(item, peers, model) ==
  {p \in Contenders(item, peers, model) :
     \A q \in Contenders(item, peers, model) : ~Better(item, q, p, model)}
(* A pair that repeats, and nobody else fits as well: a tie is no answer.  *)
Fits(p, item, peers, model) ==
  /\ item.class \in model.childOnly
  /\ p \in Best(item, peers, model)
  /\ Pairs(model, item.class, p.class) >= MinAffinity
  /\ \A q \in Best(item, peers, model) : q.id = p.id

PickParent(item, peers, model) ==
  IF Containers(item, peers) # {}
  THEN [rule |-> "containment", parent |-> (CHOOSE p \in peers : IsNearestContainer(p, item, peers)).id]
  ELSE IF \E p \in peers : Fits(p, item, peers, model)
  THEN [rule |-> "role-affinity", parent |-> (CHOOSE p \in peers : Fits(p, item, peers, model)).id]
  ELSE None
------------------------------------------------------------------------------
(* The links of an export: a row and the first row with its parent's tag,  *)
(* when both are of one stated system and each tag names a class.          *)
IsFirstRow(rows, i) == \A j \in 1..(i - 1) : rows[j].tag # rows[i].tag
Links(rows) ==
  {l \in [child : DOMAIN rows, parent : DOMAIN rows] :
     LET c == rows[l.child]
         p == rows[l.parent]
     IN  /\ c.parent \notin {None, c.tag} /\ p.tag = c.parent /\ IsFirstRow(rows, l.parent)
         /\ c.system # None /\ p.system # None /\ Fold(p.system) = Fold(c.system)
         /\ None \notin {ClassOf(c.tag), ClassOf(p.tag)}}
ChildClass(rows, l)  == ClassOf(rows[l.child].tag)
ParentClass(rows, l) == ClassOf(rows[l.parent].tag)
AsChild(rows, c)  == Cardinality({l \in Links(rows) : ChildClass(rows, l) = c})
AsParent(rows, c) == Cardinality({l \in Links(rows) : ParentClass(rows, l) = c})

LinkedClasses(rows) == {ChildClass(rows, l) : l \in Links(rows)} \cup {ParentClass(rows, l) : l \in Links(rows)}
ChildOnly(rows) ==
  {c \in LinkedClasses(rows) :
     /\ 100 * AsParent(rows, c) < ChildOnlyBelow * (AsParent(rows, c) + AsChild(rows, c))
     /\ AsChild(rows, c) >= MinSightings}
Capable(rows) ==
  {c \in LinkedClasses(rows) :
     /\ 100 * AsParent(rows, c) >= ParentCapableFrom * (AsParent(rows, c) + AsChild(rows, c))
     /\ AsParent(rows, c) >= MinParentings}
Observed(rows) ==
  [pair \in {<<ChildClass(rows, l), ParentClass(rows, l)>> : l \in Links(rows)} |->
     Cardinality({l \in Links(rows) : <<ChildClass(rows, l), ParentClass(rows, l)>> = pair})]
LiveModel(rows) ==
  [childOnly |-> ChildOnly(rows), capable |-> Capable(rows), affinity |-> Observed(rows)]

(* Self-grading: the policy is asked for the parent of each link.          *)
RowItem(row) == [id |-> row.tag, tag |-> row.tag, class |-> ClassOf(row.tag), family |-> Fold(row.family)]
RowPeers(rows, i) ==
  {RowItem(rows[j]) : j \in {k \in DOMAIN rows :
     /\ rows[k].system # None /\ Fold(rows[k].system) = Fold(rows[i].system)
     /\ rows[k].tag # rows[i].tag}}
Replay(rows, l, model) == PickParent(RowItem(rows[l.child]), RowPeers(rows, l.child), model)
Predicted(rows, c, model) ==
  {l \in Links(rows) : /\ ChildClass(rows, l) = c
                       /\ Replay(rows, l, model) # None /\ Replay(rows, l, model).rule = "role-affinity"}
Correct(rows, c, model) ==
  {l \in Predicted(rows, c, model) : Replay(rows, l, model).parent = rows[l.parent].tag}
EarnsClaim(rows, c, model) ==
  LET predicted == Cardinality(Predicted(rows, c, model))
      correct   == Cardinality(Correct(rows, c, model))
  IN  predicted >= GradeMinPredicted /\ 100 * correct >= GradeMinPrecision * predicted
Grades(rows) ==
  [c \in {ChildClass(rows, l) : l \in Links(rows)} \cap ChildOnly(rows) |->
     IF EarnsClaim(rows, c, LiveModel(rows)) THEN "claim" ELSE "proposal"]

(* Description patterns: the class most of the rows with a pattern have,   *)
(* the first of several in order, and its share rounded to a percent.      *)
PatternKey(row) == <<Fold(row.discipline), Pattern[row.description]>>
Described(rows) == {i \in DOMAIN rows : rows[i].description # None /\ ClassOf(rows[i].tag) # None}
Votes(rows, key, c) ==
  Cardinality({i \in Described(rows) : PatternKey(rows[i]) = key /\ ClassOf(rows[i].tag) = c})
IsDominant(rows, key, c) ==
  \A d \in {ClassOf(rows[i].tag) : i \in Described(rows)} :
    Votes(rows, key, d) < Votes(rows, key, c) \/ (Votes(rows, key, d) = Votes(rows, key, c) /\ c <= d)
Rounded(count, total) == (200 * count + total) \div (2 * total)
Classification(rows) ==
  [key \in {PatternKey(rows[i]) : i \in Described(rows)} |->
     LET top   == CHOOSE c \in {ClassOf(rows[i].tag) : i \in Described(rows)} : IsDominant(rows, key, c)
         total == Cardinality({i \in Described(rows) : PatternKey(rows[i]) = key})
     IN  [class |-> top, confidence |-> Rounded(Votes(rows, key, top), total)]]

(* Faulty: a pair seen just as often as it has to be is left out.          *)
RepeatedMore(rows) == {pair \in DOMAIN Observed(rows) : Observed(rows)[pair] > MinAffinity}
Repeated(rows) == {pair \in DOMAIN Observed(rows) : Observed(rows)[pair] >= MinAffinity}

(* The rule set that is kept in the profile.                               *)
Train(rows) ==
  [childOnly |-> ChildOnly(rows), capable |-> Capable(rows),
   affinity  |-> [pair \in Repeated(rows) |-> Observed(rows)[pair]],
   grades    |-> Grades(rows), classification |-> Classification(rows)]
------------------------------------------------------------------------------
(* Use.  An asset is [tag, system, description, discipline, family]; its   *)
(* class is what its description was learned to mean, never its own tag's. *)
Classify(rules, asset) ==
  LET key == PatternKey(asset)
  IN  IF asset.description = None \/ key \notin DOMAIN rules.classification THEN None
      ELSE IF rules.classification[key].confidence < MinConfidence THEN None
      ELSE rules.classification[key].class
AssetItem(rules, assets, a) ==
  [id |-> a, tag |-> assets[a].tag, class |-> Classify(rules, assets[a]), family |-> Fold(assets[a].family)]
Partition(assets, a) ==
  {b \in DOMAIN assets : assets[b].system # None /\ Fold(assets[b].system) = Fold(assets[a].system)}
AssetPeers(rules, assets, a) == {AssetItem(rules, assets, b) : b \in Partition(assets, a) \ {a}}
GradeOf(rules, class) == IF class \in DOMAIN rules.grades THEN rules.grades[class] ELSE "proposal"
ProposeNestings(rules, assets) ==
  LET pick(a) == PickParent(AssetItem(rules, assets, a), AssetPeers(rules, assets, a), rules)
  IN  {[child |-> a, parent |-> pick(a).parent, rule |-> pick(a).rule,
        grade |-> IF pick(a).rule = "containment" THEN "claim"
                  ELSE GradeOf(rules, AssetItem(rules, assets, a).class)] :
         a \in {b \in DOMAIN assets : assets[b].system # None /\ pick(b) # None}}
=============================================================================
