-------------------------- MODULE RegisterExports --------------------------
(***************************************************************************)
(* packages/exto-export and packages/mel-export: the registers that leave  *)
(* the program.  A prior registry teaches which work-breakdown code each   *)
(* system has and which item master each kind of equipment, by majority;   *)
(* the upload sheet is filled from the model, then from what was learned,  *)
(* then not at all; and two revisions of the register are compared.        *)
(*                                                                         *)
(* A registry is a set of rows [tag, system, discipline, class,            *)
(* description, master, wbs, times], the last how often the row occurs.    *)
(* Item masters and codes are numbers in their code unit order.  Of texts, *)
(* Folded is the spelling that comparing ignores, FirstWord the word a     *)
(* description begins with, UnitRank the code unit order; Gear names the   *)
(* masters of electrical apparatus, Electrical the disciplines that have   *)
(* it, Placeholders the masters that stand for none.                       *)
(***************************************************************************)
EXTENDS EngineValues, Integers, FiniteSets, FiniteSetsExt

CONSTANTS Folded, FirstWord, UnitRank, Gear, Electrical, Placeholders

Part(text) == IF text = None THEN None ELSE Folded[text]
Word(text) == IF text = None THEN None ELSE FirstWord[text]
------------------------------------------------------------------------------
(* A rung files rows and looks assets up under one key: the system for a   *)
(* code; for a master the class, or the first word, within the system.     *)
Rungs == {"system", "class", "description"}
Key(rung, x) ==
  CASE x.system = None        -> None
    [] rung = "system"        -> <<Part(x.system)>>
    [] rung = "class"         -> IF x.class = None THEN None
                                 ELSE <<Part(x.discipline), Part(x.class), Part(x.system)>>
    [] rung = "description"   -> IF x.description = None THEN None
                                 ELSE <<Part(x.discipline), Part(x.system), Word(x.description)>>
Answer(rung, row) == IF rung = "system" THEN row.wbs ELSE row.master

(* Bulk fill and copy-paste teach nothing.                                 *)
IsSuspect(row) ==
  \/ row.master \in Placeholders \cup {None}
  \/ row.master \in Gear /\ row.discipline \notin Electrical
(* Faulty: suspect rows are learned from.                                  *)
TeachesSuspects(rung, row) ==
  /\ Key(rung, row) # None /\ Answer(rung, row) # None
  /\ rung # "system" => row.tag # None
Teaches(rung, row) ==
  /\ Key(rung, row) # None /\ Answer(rung, row) # None
  /\ rung # "system" => row.tag # None /\ ~IsSuspect(row)

(* A registry is finite, and a row that is there occurs.                   *)
IsRegistry(registry) ==
  /\ IsFiniteSet(registry)
  /\ \A r \in registry :
       r.times \in Nat \ {0} /\ {r.wbs, r.master} \subseteq Int \cup {None}
Times(rows) == MapThenSumSet(LAMBDA r : r.times, rows)
Filed(registry, rung, key) == {r \in registry : Teaches(rung, r) /\ Key(rung, r) = key}
Voting(registry, rung, key, value) == {r \in Filed(registry, rung, key) : Answer(rung, r) = value}
IsDominant(registry, rung, key, value) ==
  \A r \in Filed(registry, rung, key) :
    LET ours   == Times(Voting(registry, rung, key, value))
        theirs == Times(Voting(registry, rung, key, Answer(rung, r)))
    IN  ours > theirs \/ (ours = theirs /\ value <= Answer(rung, r))

(* The share of the most frequent answer, to four places.                  *)
Share(count, total) == (20000 * count + total) \div (2 * total)
Gate == 9000
Entry(registry, rung, key) ==
  LET top == CHOOSE v \in {Answer(rung, r) : r \in Filed(registry, rung, key)} :
               IsDominant(registry, rung, key, v)
  IN  [answer     |-> top,
       confidence |-> Share(Times(Voting(registry, rung, key, top)), Times(Filed(registry, rung, key)))]
Table(registry, rung) ==
  [key \in {Key(rung, r) : r \in {s \in registry : Teaches(rung, s)}} |-> Entry(registry, rung, key)]
TrainTables(registry) == [rung \in Rungs |-> Table(registry, rung)]

(* Below the gate an entry is a proposal to a reviewer, and no answer.     *)
Clears(tables, rung, x) ==
  Key(rung, x) \in DOMAIN tables[rung] /\ tables[rung][Key(rung, x)].confidence >= Gate
AssignWbs(tables, x) ==
  IF Clears(tables, "system", x) THEN tables["system"][Key("system", x)].answer ELSE None
AssignItemMaster(tables, x) ==
  IF Clears(tables, "class", x) THEN tables["class"][Key("class", x)].answer
  ELSE IF Clears(tables, "description", x) THEN tables["description"][Key("description", x)].answer
  ELSE None
------------------------------------------------------------------------------
(* The upload sheet.  The register's assets are a function to [tag,        *)
(* description, type, building, discipline, system, parent, dependencies,  *)
(* status, wbs, itemMaster, classification], ids in the order the catalog  *)
(* lists them.                                                             *)
OrElse(value, other) == IF value # None THEN value ELSE other
Keyed(x) ==
  [system |-> x.system, discipline |-> x.discipline, description |-> x.description,
   class |-> OrElse(x.classification, x.type)]
Bearers(assets, a) == {b \in DOMAIN assets : assets[b].tag = assets[a].tag}
(* The learned masters are held by tag, the last assignment under each.    *)
LearnedMaster(tables, assets, a) ==
  LET assigned == {b \in Bearers(assets, a) : AssignItemMaster(tables, Keyed(assets[b])) # None}
  IN  IF assigned = {} THEN None ELSE AssignItemMaster(tables, Keyed(assets[Max(assigned)]))
(* A child hangs under its parent's tag, and where there is none to write  *)
(* under its system.                                                       *)
ClosestParent(x) ==
  IF x.parent # None THEN [tag |-> x.parent]
  ELSE IF x.system # None THEN [system |-> x.system] ELSE None
(* classes: what the learned descriptions make of each asset.              *)
ExtoRow(tables, classes, assets, a) ==
  [tag |-> assets[a].tag, upn |-> assets[a].system, closestParent |-> ClosestParent(assets[a]),
   wbs |-> OrElse(assets[a].wbs, AssignWbs(tables, assets[a])),
   itemMaster |-> OrElse(assets[a].itemMaster, LearnedMaster(tables, assets, a)),
   dependencies |-> assets[a].dependencies,
   class |-> OrElse(Keyed(assets[a]).class, classes[a])]
------------------------------------------------------------------------------
(* Revisions.  Of the rows with one tag, None for those without, the first *)
(* as printed is compared: by system, none last, then as listed.           *)
PrintedBefore(assets, a, b) ==
  LET s == assets[a].system
      t == assets[b].system
  IN  IF s = t THEN a <= b ELSE t = None \/ (s # None /\ UnitRank[s] < UnitRank[t])
Tags(assets) == {assets[a].tag : a \in DOMAIN assets}
WithTag(assets, t) == {a \in DOMAIN assets : assets[a].tag = t}
FirstRows(assets) ==
  [t \in Tags(assets) |->
     assets[CHOOSE a \in WithTag(assets, t) : \A b \in WithTag(assets, t) : PrintedBefore(assets, a, b)]]
Reasons(assets, t) ==
  (IF Cardinality(WithTag(assets, t)) > 1 THEN {"DUPLICATE_TAG"} ELSE {})
  \cup ({assets[a].status : a \in WithTag(assets, t)}
        \cap {"DUPLICATE_MODEL_TAG", "MODEL_CONFLICT", "UNRESOLVED_IDENTITY"})

(* A hint claims that one tag is another, renamed; one that does not fit   *)
(* the two revisions is refused.                                           *)
HintsApply(renamed, previous, current) ==
  /\ DOMAIN renamed \subseteq Tags(previous) \ Tags(current)
  /\ {renamed[t] : t \in DOMAIN renamed} \subseteq Tags(current) \ Tags(previous)
  /\ \A s, t \in DOMAIN renamed : renamed[s] = renamed[t] => s = t
PreviousTag(renamed, t) ==
  IF \E s \in DOMAIN renamed : renamed[s] = t THEN CHOOSE s \in DOMAIN renamed : renamed[s] = t ELSE t

Compared == {"description", "system", "building", "discipline", "parent"}
DiffRevisions(previous, current, renamed) ==
  LET before  == FirstRows(previous)
      after   == FirstRows(current)
      kept    == {t \in DOMAIN after : PreviousTag(renamed, t) \in DOMAIN before}
      was(t)  == before[PreviousTag(renamed, t)]
  IN  [added   |-> {after[t] : t \in DOMAIN after \ kept},
       removed |-> {before[t] : t \in DOMAIN before \ (DOMAIN after \cup DOMAIN renamed)},
       renamed |-> {[tag |-> t, before |-> PreviousTag(renamed, t)] :
                      t \in {u \in kept : PreviousTag(renamed, u) # u}},
       changed |-> {[tag |-> c[1], field |-> c[2], before |-> was(c[1])[c[2]], after |-> after[c[1]][c[2]]] :
                      c \in {d \in kept \X Compared : was(d[1])[d[2]] # after[d[1]][d[2]]}},
       gained  |-> UNION {{[tag |-> t, on |-> d] : d \in after[t].dependencies \ was(t).dependencies} : t \in kept},
       lost    |-> UNION {{[tag |-> t, on |-> d] : d \in was(t).dependencies \ after[t].dependencies} : t \in kept},
       conflicts |-> {t \in DOMAIN after :
                        ~(Reasons(current, t) \subseteq Reasons(previous, PreviousTag(renamed, t)))}]
------------------------------------------------------------------------------
(* The rows that speak of an asset: of its system, and for a master of its *)
(* kind too; no bulk fill, and no gear on what is not electrical.          *)
Evidence(registry, rung, x) ==
  {r \in registry :
     /\ Key(rung, x) # None /\ Key(rung, r) = Key(rung, x)
     /\ IF rung = "system" THEN r.wbs # None
        ELSE /\ r.tag # None /\ r.master \notin Placeholders \cup {None}
             /\ r.master \in Gear => r.discipline \in Electrical}
(* What nine rows in ten of them say, to the four places of a share.       *)
Agreed(registry, rung, x) ==
  LET rows == Evidence(registry, rung, x)
  IN  {v \in {Answer(rung, r) : r \in rows} :
         20000 * Times({r \in rows : Answer(rung, r) = v}) >= 17999 * Times(rows)}
(* The class is asked before the description.                              *)
Earned(registry, x) ==
  IF Agreed(registry, "class", x) # {} THEN Agreed(registry, "class", x)
  ELSE Agreed(registry, "description", x)
(* A learned cell is filled only where the registry agrees, and always     *)
(* there; a master by what one of the assets with the row's tag earned.    *)
LearnedCellsHold(registry, assets, rows) ==
  \A a \in DOMAIN assets :
    LET codes   == Agreed(registry, "system", assets[a])
        masters == UNION {Earned(registry, Keyed(assets[b])) : b \in Bearers(assets, a)}
    IN  /\ assets[a].wbs = None =>
             rows[a].wbs \in (IF codes = {} THEN {None} ELSE codes)
        /\ assets[a].itemMaster = None =>
             rows[a].itemMaster \in (IF masters = {} THEN {None} ELSE masters)

(* What is told of two revisions is all that happened: the previous        *)
(* register with the changes made to it is the current one, in every field *)
(* that is compared, and a conflict is told exactly when it is new.        *)
AllIsTold(previous, current, renamed) ==
  LET diff    == DiffRevisions(previous, current, renamed)
      before  == FirstRows(previous)
      after   == FirstRows(current)
      gone    == {x.tag : x \in diff.removed} \cup {r.before : r \in diff.renamed}
      new     == {x.tag : x \in diff.added}
      tags    == (DOMAIN before \ gone) \cup new \cup {r.tag : r \in diff.renamed}
      was(t)  == before[IF \E r \in diff.renamed : r.tag = t
                        THEN (CHOOSE r \in diff.renamed : r.tag = t).before ELSE t]
      now(t, f) == IF \E c \in diff.changed : c.tag = t /\ c.field = f
                   THEN (CHOOSE c \in diff.changed : c.tag = t /\ c.field = f).after ELSE was(t)[f]
  IN  /\ tags = DOMAIN after
      /\ {x.tag : x \in diff.removed} \cap {r.before : r \in diff.renamed} = {}
      /\ \A t \in tags :
           IF t \in new THEN after[t] \in diff.added
           ELSE /\ \A f \in Compared : now(t, f) = after[t][f]
                /\ (was(t).dependencies \ {d.on : d \in {e \in diff.lost : e.tag = t}})
                   \cup {d.on : d \in {e \in diff.gained : e.tag = t}} = after[t].dependencies
      /\ \A t \in tags :
           t \in diff.conflicts <=>
             IF t \in new THEN Reasons(current, t) # {}
             ELSE \E r \in Reasons(current, t) : r \notin Reasons(previous, was(t).tag)
=============================================================================
