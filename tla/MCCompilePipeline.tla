------------------------- MODULE MCCompilePipeline -------------------------
(***************************************************************************)
(* Families of small projects for CompilePipeline, each about one part of  *)
(* the engine.  All share four objects, tagged 10 to 40 where tagged.      *)
(***************************************************************************)
EXTENDS CompilePipeline

MCObjects   == 1..4
(* The words of header rows, and the tests each passes.                    *)
FromBus    == 201
ToBus      == 202
From       == 203
To         == 204
Panel      == 205
Instrument == 206
PointTag   == 207
CableTag   == 208
Origin     == 209
Equipment  == 210
Tag        == 211
Upn        == 212
About      == 213
StartBus   == 214
IdName     == 215
MCWords    == 201..215
(* Nothing but space, and 20 with space around it.                         *)
MCTrimmed == [c \in {0, 21} |-> IF c = 0 THEN None ELSE 20]
MCReads ==
  [t \in
     {"panel", "panel ...", "instrument tag", "instrument, point tag or device tag", "card",
      "point position", "point type", "p&id", "location", "release", "description",
      "load name (to) or destination", "to, to bus or load name ... to", "panel (from) or origin",
      "from, from bus or panel ... from", "circuits id", "cable tag or number", "circuit number",
      "circuit id", "load rating", "reference or cable", "package or revision", "rfi", "cable length",
      "raceway", "start source", "from bus or source bus", "start ... source", "source", "id name",
      "to bus or load bus", "... id name ...", "final load or id", "load", "load description",
      "downstream n", "final source", "circuit", "equipment tag", "tag", "upn", "building",
      "system parent tag", "discipline", "system description", "project phase", "equipment description"} |->
     CASE t = "panel" -> {Panel}
       [] t = "panel ..." -> {Panel}
       [] t = "instrument tag" -> {Instrument}
       [] t = "instrument, point tag or device tag" -> {PointTag}
       [] t = "description" -> {About}
       [] t = "panel (from) or origin" -> {Origin}
       [] t = "from, from bus or panel ... from" -> {From, FromBus}
       [] t = "to, to bus or load name ... to" -> {To, ToBus}
       [] t = "cable tag or number" -> {CableTag}
       [] t = "source" -> {StartBus}
       [] t = "from bus or source bus" -> {FromBus}
       [] t = "to bus or load bus" -> {ToBus}
       [] t = "id name" -> {IdName}
       [] t = "... id name ..." -> {IdName}
       [] t = "equipment tag" -> {Equipment}
       [] t = "tag" -> {Tag}
       [] t = "upn" -> {Upn}
       [] t = "equipment description" -> {About}
       [] OTHER -> {}]
MCSpellings == {10, 20, 30, 40, 50, 60, 70, 80, 90, 110}
MCTexts     == MCSpellings \cup MCWords
MCAssets    == 1..4 \cup {10, 20, 30, 40} \cup 11..14 \cup 21..24
MCNormalTag  == [s \in MCTexts |-> IF s = 110 THEN 10 ELSE s]
MCAnatomyKey == [s \in MCTexts |-> IF s \in {30, 80} THEN "k30" ELSE IF s \in {10, 20, 90} THEN "k10" ELSE None]
MCExtends    == {<<60, 10>>, <<60, 20>>, <<90, 40>>}
MCNear       == {<<70, 10>>}
MCNormalKey  == [k \in {"A", "a", "B", "b", "C"} |-> IF k = "a" THEN "A" ELSE k]
MCSegmentOf  == [s \in MCSpellings |-> IF s = 10 THEN "A" ELSE None]
MCRoleOf     == [s \in MCSpellings |-> IF s = 10 THEN "panel" ELSE IF s \in {20, 30} THEN "load" ELSE None]
MCFamilyOf   == [s \in MCSpellings |-> IF s \in {10, 20, 30} THEN "f" ELSE None]

MCFolded     == [k \in {"A", "a", "B", "b", "C", "f", "u", "v", "w"} |-> CASE k = "a" -> "A" [] k = "b" -> "B" [] OTHER -> k]
MCKeyRank    == [k \in {"A", "B", "C"} |-> CASE k = "A" -> 1 [] k = "B" -> 2 [] OTHER -> 3]

MCUnitRank   == [k \in {"A", "B", "C", "a", "b"} |->
                   CASE k = "A" -> 1 [] k = "B" -> 2 [] k = "C" -> 3 [] k = "a" -> 4 [] OTHER -> 5]
MCFirstWord  == [d \in {"c", "p", "q"} |-> IF d = "q" THEN "v" ELSE "w"]

Blank ==
  [building |-> None, system |-> None, parent |-> None, discipline |-> None, description |-> None,
   type |-> None, wbs |-> None, itemMaster |-> None, classification |-> None]
(* n tagged objects side by side, the other objects not equipment.         *)
Flat(n) ==
  [parent |-> [o \in 1..4 |-> None],
   tag    |-> [o \in 1..4 |-> IF o <= n THEN 10 * o ELSE None],
   class  |-> [o \in 1..4 |-> IF o <= n THEN "unit" ELSE "other"],
   file   |-> [o \in 1..4 |-> "f"],
   values |-> [o \in 1..4 |-> Blank],
   sets   |-> [named |-> {1, 2}]]
PlainFilters ==
  [files |-> {}, excluded |-> {"other"}, included |-> {}, sets |-> {}, requireTag |-> FALSE,
   accepted |-> {}, collapse |-> FALSE, separate |-> {}]
Plain ==
  [cache |-> Flat(3), filters |-> PlainFilters, mel |-> <<>>, chain |-> <<>>, policy |-> "review",
   tiers |-> {"exact", "normalized", "alias", "anatomy", "suffix-unambiguous", "fuzzy-proposal"},
   alias |-> <<>>, workbooks |-> <<>>, lookup |-> {}, prior |-> {}, manual |-> {}, trainedFrom |-> None,
   roles |-> {}, assigned |-> <<>>, projection |-> <<>>, levels |-> <<>>, topDown |-> {}, schedule |-> None,
   registry |-> None, moves |-> 0,
   ladder |-> <<"manual", "profile-lookup", "prior-ssm">>]
Pair(c, p) == [child |-> c, parent |-> p]
Level(key, boundary, policy) == [key |-> key, boundary |-> boundary, policy |-> policy]
Located(cache, key, at) ==
  [cache EXCEPT !.values = [o \in 1..4 |->
     IF o \in DOMAIN at THEN [@[o] EXCEPT ![key] = at[o]] ELSE @[o]]]

(* Rungs that agree, disagree, tie and cross boundaries.                   *)
Ladders ==
  {[Plain EXCEPT !.cache = Located(Flat(3), "building", at), !.lookup = l, !.prior = p, !.manual = m,
      !.levels = <<Level("system", FALSE, "review"), Level("building", TRUE, "review")>>] :
     at \in {f \in [1..3 -> {"A", "B", None}] : f[1] # "B"},
     l \in SUBSET {Pair(10, 20), Pair(10, 30)}, p \in SUBSET {Pair(10, 20), Pair(10, 30)},
     m \in {{}, {Pair(10, 30)}, {Pair(10, None)}}}
(* Two boundaries, every policy, manual not on top.                        *)
Boundaries2 ==
  {[Plain EXCEPT
      !.cache = Located(Located(Flat(3), "building", at), "system", [o \in 1..2 |-> IF o = 1 THEN "A" ELSE s]),
      !.lookup = {Pair(10, 20)}, !.prior = p, !.manual = {Pair(20, 30)}, !.chain = <<"field">>,
      !.levels = <<Level("building", TRUE, policy), Level("system", TRUE, "review")>>,
      !.ladder = <<"profile-lookup", "manual", "prior-ssm">>] :
     at \in [1..3 -> {"A", "B", None}], s \in {"A", "B", None},
     p \in {{}, {Pair(20, 10)}, {Pair(10, 30)}},
     policy \in Policies}

(* Loops of every shape on four assets.                                    *)
Rings ==
  {[Plain EXCEPT !.cache = Flat(4), !.ladder = <<"profile-lookup", "prior-ssm">>,
      !.lookup = {Pair(c, to[c]) : c \in {d \in weak : to[d] # d}},
      !.prior  = {Pair(c, to[c]) : c \in {d \in {10, 20, 30, 40} \ weak : to[d] # d}}] :
     to \in [{10, 20, 30, 40} -> {10, 20, 30, 40}],
     weak \in {{}, {10}, {20, 30}, {10, 40}}}

(* Feeds between four spellings, none of them in the model.                *)
Row(f, t) == <<f, t>>
(* A sheet with its headers in the first row, and of some rows those given. *)
Sheet(headers, all, rows) ==
  [named |-> None, rows |-> <<headers>> \o SelectSeq(all, LAMBDA r : r \in rows), override |-> None]
Fed       == <<50, 60, 70, 80, 90>>
FeedRows  == [i \in 1..25 |-> Row(Fed[(i + 4) \div 5], Fed[((i - 1) % 5) + 1])]
SomeFeeds == {r \in Range(FeedRows) : r[1] # r[2] /\ 90 \notin Range(r)}
Feeders ==
  {[Plain EXCEPT !.cache = Flat(0), !.workbooks = << <<Sheet(<<FromBus, ToBus>>, FeedRows, obs)>> >>] :
     obs \in UNION {kSubset(k, SomeFeeds) : k \in 1..4}
             \cup {{Row(50, 60), Row(50, 70), Row(60, 80), Row(80, 50), Row(70, 50)},
                   {Row(50, 60), Row(60, 70), Row(70, 80), Row(80, 90), Row(90, 50), Row(70, 50)},
                   {Row(60, 50), Row(50, 60), Row(60, 70), Row(80, 90), Row(90, 80), Row(70, 90)}}}

(* Spellings that meet on one asset, that collide with an asset's id, that *)
(* nothing places, and the claims the connections become.                  *)
PowerRows == <<Row(10, 20), Row(50, 10), Row(80, 90)>>
CableRows == <<Row(110, 30)>>
PointRows == <<Row(110, 10), Row(60, 70)>>
WireSheets(S) ==
  << <<Sheet(<<FromBus, ToBus>>, PowerRows, S), Sheet(<<Origin, To>>, CableRows, S),
       Sheet(<<Panel, Instrument>>, PointRows, S)>> >>
Wiring ==
  {[Plain EXCEPT !.cache = Located(Flat(4), "building", [o \in 1..2 |-> "A"]),
      !.workbooks = WireSheets(obs), !.tiers = tiers, !.alias = alias,
      !.roles = {<<"panel", "load">>},
      !.levels = IF bounded THEN <<Level("building", TRUE, "unassigned-group")>> ELSE <<>>,
      !.ladder = <<"flow-family", "family-role", "model-tree">>] :
     obs \in {S \in SUBSET Range(PowerRows \o CableRows \o PointRows) : Cardinality(S) <= 3},
     tiers \in {Plain.tiers, {"alias"}, {"alias", "normalized"}},
     alias \in {[s \in {50} |-> 10], [s \in {50, 90} |-> 95], [s \in {110} |-> 20]},
     bounded \in BOOLEAN}

(* Inputs that mean no asset, one asset or several.                        *)
Statements ==
  {[Plain EXCEPT !.cache = Located(Flat(3), "parent", at), !.lookup = {Pair(l, q)}, !.prior = {Pair(20, l)},
      !.manual = m, !.alias = [s \in {50} |-> 20],
      !.ladder = <<"manual", "explicit-model", "profile-lookup", "prior-ssm">>] :
     at \in {[o \in {1} |-> 60], [o \in {1} |-> 20], [o \in {1} |-> 10], [o \in {2} |-> 80]},
     l \in {10, 60, 70}, q \in {10, 50, 110, 40},
     m \in {{}, {Pair(40, 10)}, {Pair(40, None)}, {Pair(10, 30), Pair(20, 10)}}}

(* Chains whose components disagree, and rows of a MEL that do.            *)
MelRow(tag, key, text) == [tag |-> tag, key |-> key, description |-> text]
Mels == {<<>>, <<MelRow(10, "a", "x"), MelRow(20, "B", "y")>>, <<MelRow(20, "A", "x"), MelRow(30, "A", "y")>>}
Systems3 ==
  {[Plain EXCEPT !.cache = Located(Flat(3), "system", at), !.mel = mel, !.chain = chain, !.policy = policy,
      !.assigned = by, !.lookup = {Pair(20, 10), Pair(30, 10)},
      !.levels = <<Level("system", TRUE, "review")>>] :
     at \in [1..2 -> {"A", "B", None}], mel \in Mels,
     chain \in {<<"field", "mel-by-tag">>, <<"segment", "mel-by-key", "mel-by-tag">>, <<"mel-by-tag", "manual", "field">>},
     policy \in {"review", "precedence"}, by \in {<<>>, [a \in {20} |-> "A"]}}

(* Objects inside objects: collapse, duplicates, classes kept apart.       *)
Forests ==
  {[Plain EXCEPT
      !.cache = [Flat(4) EXCEPT !.parent = up, !.tag = [o \in 1..4 |-> IF o = 4 THEN 10 ELSE tags[o]],
                                !.class = [o \in 1..4 |-> IF o = 3 THEN "valve" ELSE IF o = 2 THEN shell ELSE "unit"],
                                !.values = [o \in 1..4 |-> IF o = 4 THEN [Blank EXCEPT !.building = "A"] ELSE Blank]],
      !.filters = [PlainFilters EXCEPT !.collapse = TRUE, !.separate = apart],
      !.levels = <<Level("building", FALSE, "review")>>,
      !.ladder = <<"model-tree">>] :
     up \in {f \in [1..4 -> 1..3 \cup {None}] : \A o \in 1..4 : f[o] = None \/ f[o] < o},
     tags \in [1..3 -> {10, 20, None}],
     <<shell, apart>> \in {<<"unit", {}>>, <<"other", {}>>, <<"unit", {"valve"}>>}}
Filters ==
  {[Plain EXCEPT !.cache = Flat(3), !.filters =
      [PlainFilters EXCEPT !.sets = sets, !.included = inc, !.accepted = acc, !.requireTag = req]] :
     sets \in {{}, {"named"}, {"missing"}}, inc \in {{}, {"unit"}}, acc \in {{}, {10, 30}}, req \in BOOLEAN}

(* Exports.  A row's tag is 1000 * class + 10 * first + second number.     *)
First(t)  == CASE t < 1000 -> IF t = 40 THEN 2 ELSE 1 [] OTHER -> (t \div 10) % 100
Second(t) == CASE t < 1000 -> IF t \in {10, 20} THEN 1 ELSE 2 [] OTHER -> t % 10
ExportRow(tag, parent, text) ==
  [tag |-> tag, parent |-> parent, system |-> "A", description |-> text, discipline |-> None, family |-> None]
(* n children of class 1, numbered from k on, under each parent.           *)
ChildRows(n, k, parent) ==
  [i \in 1..n |-> ExportRow(1000 + 10 * First(parent) + k + i - 1, parent, "c")]
Heads == <<ExportRow(2010, None, "p"), ExportRow(2020, None, "p"), ExportRow(3030, None, "q")>>
Others(text) == <<ExportRow(4038, 3030, "c"), ExportRow(4039, 3030, text)>>
(* The second number of a child is that of no parent, so a child's parent  *)
(* is the one that shares its first, unless it says it is another.         *)
Astray(n, k, parent, said) == [i \in 1..n |-> [ChildRows(n, k, parent)[i] EXCEPT !.parent = said]]
InDiscipline(rows, d) == [i \in DOMAIN rows |-> [rows[i] EXCEPT !.discipline = d]]
Just == Heads \o Others(None) \o ChildRows(5, 1, 2010) \o ChildRows(4, 1, 2020) \o ChildRows(3, 1, 3030)
MCExports ==
  [just        |-> Just,
   disciplined |-> InDiscipline(Just, "B"),
   muddy       |-> Heads \o Others("c") \o ChildRows(9, 1, 2010) \o ChildRows(3, 1, 3030),
   seldom      |-> Heads \o Others(None) \o ChildRows(5, 1, 2010) \o ChildRows(1, 1, 2020) \o ChildRows(3, 1, 3030),
   imprecise   |-> Heads \o Others(None) \o ChildRows(5, 1, 2010) \o ChildRows(5, 1, 2020) \o Astray(2, 6, 2020, 3030),
   precise     |-> Heads \o Others(None) \o ChildRows(7, 1, 2010) \o ChildRows(6, 1, 2020)
                   \o Astray(3, 7, 2020, 2010) \o ChildRows(4, 1, 3030)]
MCTags      == {10, 20, 30, 40} \cup UNION {{MCExports[e][i].tag : i \in DOMAIN MCExports[e]} : e \in DOMAIN MCExports}
MCRoleClass == [t \in MCTags |-> IF t < 1000 THEN None ELSE t \div 1000]
MCSharedRun ==
  [p \in MCTags \X MCTags |->
     (IF First(p[1]) = First(p[2]) THEN 1 ELSE 0) + (IF Second(p[1]) = Second(p[2]) THEN 1 ELSE 0)]
MCExtended   == {<<40, 30>>, <<40, 20>>}
MCBodyLength == [t \in {20, 30} |-> IF t = 20 THEN 6 ELSE 7]
MCPattern    == [d \in {"c", "p", "q"} |-> d]
(* What the trained rules propose of three described assets.               *)
Training ==
  {[Plain EXCEPT
      !.cache = Located(Located(Located(Flat(4), "description", [o \in 1..4 |-> IF o = 4 THEN "p" ELSE text[o]]),
                                "system", [o \in 1..4 |-> IF o = 4 THEN far ELSE IF o = 3 THEN "B" ELSE "b"]),
                        "discipline", IF by = None THEN <<>> ELSE [o \in 1..4 |-> "A"]),
      !.projection = [d \in {"A"} |-> by], !.chain = <<"field">>, !.trainedFrom = e,
      !.ladder = <<"learned-description">>] :
     text \in [1..3 -> {"c", "p", "q"}], far \in {"A", "B"}, e \in DOMAIN MCExports, by \in {"B", None}}

(* Systems that wait for each other, through parents across a boundary.    *)
Startups ==
  {[Plain EXCEPT
      !.cache = Located(Flat(4), "system", [o \in 1..4 |-> <<"A", "B", "C", last>>[o]]),
      !.chain = <<"field">>, !.ladder = <<"profile-lookup", "prior-ssm">>, !.schedule = <<>>,
      !.levels = <<Level("system", TRUE, "review")>>,
      !.lookup = {Pair(c, to[c]) : c \in {d \in DOMAIN to : to[d] # d}},
      !.prior = IF to[10] = 10 THEN {Pair(30, 10), Pair(20, 40)} ELSE {}] :
     last \in {"A", "b", None}, to \in [{10, 20, 30, 40} -> {10, 20, 30, 40}]}
(* Blocks of assets that nest, of a discipline that starts at the top or   *)
(* at the bottom.                                                          *)
Blocks ==
  {[Plain EXCEPT
      !.cache = Located([Flat(4) EXCEPT !.tag = [o \in 1..4 |-> IF o = 3 THEN third ELSE 10 * o]],
                        "discipline", [o \in 1..4 |-> IF o = 4 THEN last ELSE first]),
      !.ladder = <<"manual">>, !.schedule = <<>>, !.topDown = {"A"},
      !.manual = {m \in {Pair(c, to[c]) : c \in DOMAIN to} : m.child # m.parent}] :
     third \in {30, None}, first \in {"A", "B"}, last \in {"A", "B"},
     to \in [{10, 20, 40} -> {10, 20, 40}]}
(* Schedules of up to three rows, for tagged assets and one without.       *)
Activity(milestone, tag, upn, names) == [milestone |-> milestone, tag |-> tag, upn |-> upn, names |-> names]
Activities ==
  {Activity(TRUE, None, "A", {}), Activity(FALSE, None, "a", {}), Activity(FALSE, 10, None, {}),
   Activity(TRUE, 110, None, {"A", "B"}), Activity(FALSE, None, "b", {"A"}), Activity(FALSE, None, None, {}),
   Activity(FALSE, 10, "B", {}), Activity(FALSE, 80, "C", {})}
Schedules ==
  {[Plain EXCEPT
      !.cache = Located([Flat(4) EXCEPT !.tag[4] = None], "system", [o \in 1..4 |-> <<"A", "A", "b", "A">>[o]]),
      !.chain = <<"field">>, !.schedule = rows] :
     rows \in UNION {[1..n -> Activities] : n \in 1..3}}

(* Registries that agree, that agree only by description or only just,     *)
(* and that were filled in bulk.                                           *)
Prior(system, class, text, master, wbs, times) ==
  [tag |-> 10, system |-> system, discipline |-> "B", class |-> class, description |-> text,
   master |-> master, wbs |-> wbs, times |-> times]
MCRegistries ==
  [agreed |-> {Prior("a", "u", "c", 1, 5, 9), Prior("A", "u", "p", 2, 6, 1), Prior("B", "u", "q", 2, 6, 3)},
   split  |-> {Prior("A", "u", "c", 1, None, 8), Prior("A", "u", "q", 2, 5, 1), Prior("b", "v", "p", 2, 6, 3),
               Prior("B", "u", None, 1, 6, 3)},
   barely |-> {Prior("A", None, "c", 1, 5, 17999), Prior("A", None, "p", 2, 6, 2001), Prior("B", "u", None, 1, 5, 1)},
   filled |-> {Prior("A", "u", "c", 4, 5, 10), Prior("A", "u", "c", 3, 5, 10), Prior("A", None, "p", 1, 5, 1),
               [Prior("B", "u", "c", 3, 6, 2) EXCEPT !.discipline = "A"],
               [Prior("B", "v", "c", 1, 6, 5) EXCEPT !.tag = None]}]
(* Registers of earlier compiles: one with other tags, one with doubles.   *)
Was(tag, system, parent, deps, status) ==
  [tag |-> tag, description |-> "c", type |-> None, building |-> None, discipline |-> "B", system |-> system,
   parent |-> parent, dependencies |-> deps, status |-> status,
   wbs |-> None, itemMaster |-> None, classification |-> None]
MCRevisions ==
  {[i \in {20, 30, 50} |-> Was(i, "A", IF i = 30 THEN 50 ELSE None, IF i = 20 THEN {30, 50} ELSE {}, "MODEL_CONFIRMED")],
   [i \in {3, 51, 52, 40} |-> Was(<<None, 50, 40>>[IF i = 3 THEN 1 ELSE IF i = 40 THEN 3 ELSE 2],
                                  IF i = 52 THEN "A" ELSE IF i = 51 THEN "B" ELSE None,
                                  None, {}, IF i \in {51, 52} THEN "DUPLICATE_MODEL_TAG" ELSE "MODEL_CONFIRMED")]}
(* Assets that share a tag, a kind or a system, or lack one.               *)
Ledgers ==
  {[Plain EXCEPT
      !.cache = [Flat(4) EXCEPT
        !.tag = tags,
        !.values = [o \in 1..4 |->
          [Blank EXCEPT !.system = <<"A", s, "b", "A">>[o], !.discipline = IF o = 3 THEN "A" ELSE "B",
                        !.type = <<"u", t, "u", None>>[o], !.description = <<"c", d, "c", "p">>[o],
                        !.wbs = IF o = 1 THEN stated ELSE None, !.itemMaster = IF o = 1 THEN stated ELSE None]]],
      !.chain = <<"field">>, !.levels = <<Level("system", TRUE, "review")>>,
      !.lookup = {Pair(20, 10), Pair(30, 10)}, !.registry = r, !.trainedFrom = e,
      !.ladder = <<"profile-lookup">>] :
     tags \in {<<10, 20, 30, 40>>, <<10, 10, 30, None>>, <<None, 20, None, None>>},
     s \in {"a", "B", None}, t \in {"u", "v", None}, d \in {"p", "q", None},
     r \in DOMAIN MCRegistries, <<stated, e>> \in {<<None, "just">>, <<7, None>>}}

(* Assets dragged about, one at a time or two before the next compile, in  *)
(* trees that were loops, across boundaries, over overrides of before.     *)
Drags ==
  {[Plain EXCEPT
      !.cache = Located(Flat(4), "building", at), !.moves = 1, !.manual = m,
      !.levels = <<Level("building", TRUE, "review")>>,
      !.lookup = {Pair(10, 20), Pair(20, 30)} \cup more,
      !.ladder = ladder] :
     at \in {[o \in 1..4 |-> "A"], [o \in 1..4 |-> IF o = 2 THEN "B" ELSE "A"]},
     m \in {{}, {Pair(30, 20)}, {Pair(10, 40), Pair(40, 10)}},
     more \in {{}, {Pair(30, 40)}, {Pair(30, 10)}},
     ladder \in {<<"manual", "profile-lookup">>, <<"profile-lookup", "manual">>}}
  \cup
  {[Plain EXCEPT !.moves = 2, !.lookup = {Pair(10, 20)} \cup more, !.ladder = <<"manual", "profile-lookup">>] :
     more \in {{}, {Pair(20, 10)}}}

(* Sheets whose headers are exact, loose, of two families or of none, at   *)
(* the top, below a banner, an empty row or too far down; sheets whose     *)
(* name says what they are, and what the caller says instead.              *)
Data == << <<10, 20, 30>>, <<None, None, None>>, <<20, 21, 10>>, <<0, 10, None>>, <<10, 20, None>> >>
Banner == <<None, 90, None>>
Headers ==
  {<<FromBus, ToBus, About>>, <<FromBus, ToBus, CableTag>>, <<From, To, CableTag>>, <<From, To, About>>,
   <<About, Panel, PointTag>>, <<Panel, PointTag, None>>, <<Tag, Upn, About>>, <<CableTag, To, Origin>>,
   <<StartBus, IdName, Equipment>>}
Tops ==
  {<<>>, <<Banner, <<None, None, None>> >>, << <<Panel, PointTag, About>> >>, << <<From, To, CableTag>> >>,
   <<Banner, Banner, Banner, Banner>>, <<Banner, Banner, Banner, Banner, <<0, None, None>> >>}
Tab(named, top, headers, by) == [named |-> named, rows |-> top \o <<headers>> \o Data, override |-> by]
Tabs ==
  {[Plain EXCEPT !.workbooks = Import!ConnectivityInputs(<< <<Tab(named, top, headers, None)>> \o others >>)] :
     named \in {None, "mel", "cable"}, top \in Tops, headers \in Headers,
     others \in {<<>>, <<[Tab(None, <<>>, <<CableTag, To, Origin>>, None) EXCEPT !.rows = SubSeq(@, 1, 2)]>>}}
  \cup
  {[Plain EXCEPT !.workbooks = << <<Tab(None, top, <<FromBus, ToBus, About>>, by)>> >>] :
     top \in Tops,
     by \in {Import!Mapping("pmd", 1, 3, 1), Import!Mapping("easypower", 4, 2, 1), Import!Mapping("cable", 1, 2, 4),
             Import!Mapping("pmd", 1, None, 1), Import!Mapping("easypower", 12, 2, 1),
             Import!Mapping("unknown", 1, 1, 2), Import!Mapping("mel", 1, 1, 2), Import!Mapping("cable", 0, 1, 2)}}

MCProjects ==
  {Tabs, Ladders, Boundaries2, Rings, Feeders, Wiring, Statements, Systems3, Forests, Filters,
   Training, Startups, Blocks, Schedules, Ledgers, Drags}
=============================================================================
