------------------------- MODULE ConnectivityImport -------------------------
(***************************************************************************)
(* packages/connectivity-import: which document family a sheet belongs to, *)
(* through which columns it is read, and what each of its rows says.       *)
(*                                                                         *)
(* A sheet is [named, rows, override]: the family its name claims, if any; *)
(* the rows of the worksheet, all of one width, None for no cell;          *)
(* what the caller would have in place of the detection, if anything.  A   *)
(* header row is counted from 1 among the rows that hold anything, 0 for   *)
(* none found.  Reads[t] are the cells that pass the test t of a header;   *)
(* Trimmed[c] is what is left of a cell with space around its text, None   *)
(* where nothing is.                                                       *)
(***************************************************************************)
EXTENDS EngineValues, Sequences, FiniteSets, SequencesExt

CONSTANTS Reads, Trimmed

HeaderScanRows == 5
DetectorOrder  == <<"pmd", "cable", "mel", "easypower">>
Connectivity   == {"pmd", "cable", "easypower"}
IsSheet(sheet) ==
  /\ Len(sheet.rows) \in Nat /\ DOMAIN sheet.rows = 1..Len(sheet.rows)
  /\ \A r \in DOMAIN sheet.rows :
       /\ Len(sheet.rows[r]) \in Nat \ {0} /\ Len(sheet.rows[r]) = Len(sheet.rows[1])
       /\ sheet.rows[r] = [c \in 1..Len(sheet.rows[r]) |-> sheet.rows[r][c]]
  /\ sheet.named \in Connectivity \cup {"mel", None}
  /\ sheet.override # None => sheet.override.kind \in Connectivity \cup {"mel", "unknown"}

(* A rung of a ladder of header tests; an exact form is trusted by itself. *)
Exact(test) == [exact |-> TRUE, test |-> test]
Loose(test) == [exact |-> FALSE, test |-> test]

(* The ends of a row in the order they are looked for, which of them is    *)
(* the upstream one, the columns of the family's own besides, and how many *)
(* exact ends make up for there being none of those.                       *)
Family ==
  [pmd |->
     [ends    |-> << <<Exact("panel"), Loose("panel ...")>>,
                     <<Exact("instrument tag"), Loose("instrument, point tag or device tag")>> >>,
      from |-> 1, to |-> 2, trusted |-> 2,
      details |-> {"card", "point position", "point type", "p&id", "location", "release", "description"}],
   cable |->
     [ends    |-> << <<Exact("load name (to) or destination"), Loose("to, to bus or load name ... to")>>,
                     <<Exact("panel (from) or origin"), Loose("from, from bus or panel ... from")>> >>,
      from |-> 2, to |-> 1, trusted |-> 1,
      details |-> {"circuits id", "cable tag or number", "circuit number", "circuit id", "load rating",
                   "reference or cable", "package or revision", "rfi", "cable length", "raceway"}],
   easypower |->
     [ends    |-> << <<Exact("start source"), Exact("from bus or source bus"),
                       Loose("start ... source"), Loose("source")>>,
                     <<Exact("id name"), Exact("to bus or load bus"), Loose("... id name ..."),
                       Loose("final load or id"), Loose("load"), Loose("load description")>> >>,
      from |-> 1, to |-> 2, trusted |-> 1,
      details |-> {"downstream n", "final source", "circuit", "load description"}]]
MelDetails ==
  {"upn", "building", "system parent tag", "discipline", "system description", "project phase",
   "equipment description"}
Tests ==
  UNION {{e[r].test : r \in DOMAIN e} : e \in {Family[k].ends[n] : k \in Connectivity, n \in {1, 2}}}
  \cup UNION {Family[k].details : k \in Connectivity} \cup MelDetails \cup {"equipment tag", "tag"}

(* What the rows of a family become.                                       *)
Shape ==
  [pmd       |-> [kind |-> "pmd", type |-> "CONTROLS"],
   cable     |-> [kind |-> "feed", type |-> "WIRED_TO"],
   easypower |-> [kind |-> "feed", type |-> "POWERS"]]
------------------------------------------------------------------------------
Carries(headers, test, taken) == \E c \in DOMAIN headers \ taken : headers[c] \in Reads[test]

(* The strongest rung any column passes, and its leftmost column: of what  *)
(* may be found, at most one.                                              *)
Locate(headers, ladder, taken) ==
  LET hits == {h \in (DOMAIN ladder) \X (DOMAIN headers \ taken) : headers[h[2]] \in Reads[ladder[h[1]].test]}
  IN  {[at |-> h[2], exact |-> ladder[h[1]].exact] :
         h \in {x \in hits : \A y \in hits : x[1] < y[1] \/ (x[1] = y[1] /\ x[2] <= y[2])}}

(* detectPmdColumns, detectCableColumns and detectEasyPowerColumns.        *)
Ends(family, headers) ==
  UNION {{<<first, second>> : second \in Locate(headers, family.ends[2], {first.at})} :
           first \in Locate(headers, family.ends[1], {})}
IsTrusted(family, headers, ends) ==
  \/ Cardinality({n \in {1, 2} : ends[n].exact}) >= family.trusted
  \/ \E test \in family.details : Carries(headers, test, {ends[1].at, ends[2].at})
DetectPair(family, headers) ==
  {[from |-> e[family.from].at, to |-> e[family.to].at, exact |-> e[1].exact /\ e[2].exact] :
     e \in {x \in Ends(family, headers) : IsTrusted(family, headers, x)}}

(* A MEL is told apart so that it is not read as connectivity.             *)
IsMel(headers, beside) ==
  /\ Carries(headers, "tag", {})
  /\ Cardinality(beside) >= 2 /\ {"upn", "system parent tag"} \cap beside # {}
DetectMel(headers) ==
  LET strong == Carries(headers, "equipment tag", {})
  IN  IF strong \/ IsMel(headers, {t \in MelDetails : Carries(headers, t, {})})
      THEN {[from |-> None, to |-> None, exact |-> strong]} ELSE {}
DetectColumns(kind, headers) ==
  IF kind = "mel" THEN DetectMel(headers) ELSE DetectPair(Family[kind], headers)
------------------------------------------------------------------------------
(* sheetAoa: the worksheet rows that hold anything, be it space, by their  *)
(* numbers, each in its turn.                                              *)
Written(sheet) == {r \in DOMAIN sheet.rows : Range(sheet.rows[r]) # {None}}
RowNums(sheet) ==
  LET turn == [r \in Written(sheet) |-> Cardinality({q \in Written(sheet) : q <= r})]
  IN  [i \in Range(turn) |-> CHOOSE r \in Written(sheet) : turn[r] = i]
AoaRow(sheet, i) == sheet.rows[RowNums(sheet)[i]]

(* The first row that suits each family.                                   *)
ScanCandidates(sheet) ==
  LET rows  == {n \in DOMAIN RowNums(sheet) : n <= HeaderScanRows}
      suits == UNION {{[order |-> k, row |-> i, found |-> f] :
                         f \in DetectColumns(DetectorOrder[k], AoaRow(sheet, i))} :
                        k \in DOMAIN DetectorOrder, i \in rows}
  IN  {c \in suits : \A d \in suits : d.order = c.order => c.row <= d.row}
(* Exact headers before corroborated ones, then the topmost row, then the  *)
(* detectors' order.                                                       *)
Outranks(c, d) ==
  IF c.found.exact # d.found.exact THEN c.found.exact
  ELSE c.row < d.row \/ (c.row = d.row /\ c.order <= d.order)
PickCandidate(candidates) ==
  IF candidates = {} THEN None ELSE CHOOSE c \in candidates : \A d \in candidates : Outranks(c, d)

Mapping(kind, row, from, to) == [kind |-> kind, row |-> row, from |-> from, to |-> to]
As(c) == Mapping(DetectorOrder[c.order], c.row, c.found.from, c.found.to)
(* A name decides the family, and never a layout.                          *)
DetectSheetKind(sheet) ==
  LET best == PickCandidate({c \in ScanCandidates(sheet) : sheet.named \in {None, DetectorOrder[c.order]}})
  IN  IF best # None THEN As(best)
      ELSE Mapping(IF sheet.named = None THEN "unknown" ELSE sheet.named, 0, None, None)

Applied(sheet) == IF sheet.override = None THEN DetectSheetKind(sheet) ELSE sheet.override
NotImportedReason(applied) ==
  IF applied.kind = "unknown" THEN "unknown-kind"
  ELSE IF applied.kind = "mel" THEN "not-connectivity"
  ELSE IF applied.row = 0 THEN "no-header-row" ELSE ""
(* An override that does not fit its sheet fails the whole import.         *)
Misfits(sheet, a) ==
  /\ NotImportedReason(a) = ""
  /\ ~ (a.row \in DOMAIN RowNums(sheet) /\ {a.from, a.to} \subseteq DOMAIN AoaRow(sheet, a.row))

SkipReason(from, to) ==
  IF from = None THEN "missing-from"
  ELSE IF to = None THEN "missing-to"
  ELSE IF from = to THEN "self-loop" ELSE ""
(* readRelationRows: each row below the headers, under its own number.     *)
Trim(cell) == IF cell \in DOMAIN Trimmed THEN Trimmed[cell] ELSE cell
RelationRows(sheet, a) ==
  {[from |-> Trim(AoaRow(sheet, i)[a.from]), to |-> Trim(AoaRow(sheet, i)[a.to]), row |-> RowNums(sheet)[i]] :
     i \in {n \in DOMAIN RowNums(sheet) : n > a.row}}
SheetObservations(sheet, a, place) ==
  IF NotImportedReason(a) # "" THEN {}
  ELSE {[from |-> r.from, to |-> r.to, kind |-> Shape[a.kind].kind, type |-> Shape[a.kind].type,
         place |-> Append(place, r.row)] :
          r \in {x \in RelationRows(sheet, a) : SkipReason(x.from, x.to) = ""}}

(* The workbooks a compile is given, in order; the place of an observation *)
(* is the turn of its workbook, its sheet and its row.                     *)
Imported(workbooks) ==
  UNION {UNION {SheetObservations(workbooks[w][s], Applied(workbooks[w][s]), <<w, s>>) : s \in DOMAIN workbooks[w]} :
           w \in DOMAIN workbooks}
MisfitIn(workbooks) ==
  \E w \in DOMAIN workbooks : \E s \in DOMAIN workbooks[w] : Misfits(workbooks[w][s], Applied(workbooks[w][s]))

(* The desktop registers a file once for each family among its sheets, and *)
(* a compile is given the whole file for each of its registrations.        *)
Roles(workbook) == {DetectSheetKind(workbook[s]).kind : s \in DOMAIN workbook} \cap Connectivity
ConnectivityInputs(files) ==
  FlattenSeq([f \in DOMAIN files |-> [r \in 1..Cardinality(Roles(files[f])) |-> files[f]]])
=============================================================================
