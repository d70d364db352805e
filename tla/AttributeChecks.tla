--------------------------- MODULE AttributeChecks ---------------------------
(***************************************************************************)
(* The ten deterministic checks of Layer 1                                 *)
(* (layer1_extract/attribute_checks.py), the sign-off parser and the       *)
(* assembly of an ExtractedEvidence (layer1_extract/orchestrator.py), as   *)
(* operators on the rows that were read from bronze.                       *)
(*                                                                         *)
(* A sheet is a function from row indexes to what the checks can tell of   *)
(* the row, NONE when it is absent.  Amounts are whole dollars, rates      *)
(* integers of one unit, shares hundredths of a percent.  A text is what   *)
(* the substring tests of Layer 1 and of the Layer 3 tools can tell of it. *)
(* Cell references are a constant of each check and are left out.          *)
(***************************************************************************)
EXTENDS Integers, FiniteSetsExt

CONSTANT NONE  \* Python's None

Plain == [blank |-> FALSE, denies |-> FALSE, n_a |-> FALSE, n_a_any_case |-> FALSE,
          marker |-> FALSE]
Blank == [Plain EXCEPT !.blank = TRUE]

\* blank after strip(); contains "no amendment filed" in any case; starts with
\* "N/A", or does in any case; contains one of _AMENDMENT_MARKERS in any case.
Texts == {t \in [blank : BOOLEAN, denies : BOOLEAN, n_a : BOOLEAN, n_a_any_case : BOOLEAN,
                 marker : BOOLEAN] :
            /\ t.n_a => t.n_a_any_case
            /\ t.denies => t.marker
            /\ t.denies \/ t.n_a_any_case \/ t.marker => ~t.blank}

ASSUME NoneAssumption == NONE \notin Texts \cup Int

\* A rate cell: what _parse_percent returns, whether the cell says that there is
\* no prior period, and the text.
RateCells(Rates) == [rate : Rates \cup {NONE}, no_prior : BOOLEAN, says : Texts]

NoCell == [rate |-> NONE, no_prior |-> FALSE, says |-> Blank]

\* A sign-off cell: it has the em dash the checks look for, it matches the
\* expression the parser wants, which also takes a hyphen, and its text.
SignOffCells == [dash : BOOLEAN, strict : BOOLEAN, says : Texts]

Controls == {"DC-2", "DC-9"}
Attributes(control) ==
  IF control = "DC-2" THEN {"A", "B", "C", "D"} ELSE {"A", "B", "C", "D", "E", "F"}

VarianceRows == 10..14
SheetRows(control) ==
  IF control = "DC-2" THEN {6, 7, 17} \cup VarianceRows
  ELSE {4, 5, 8, 9, 10, 13, 14, 16, 19, 20, 21, 22}

----------------------------------------------------------------------------
(* The rows of one read.  ingest never updates or deletes, so bronze may hold *)
(* several revisions of a workpaper; the reader returns the rows of all of    *)
(* them, in no order between two revisions of one row, and _find_row takes    *)
(* the first it meets.                                                        *)

Sheets(files, control) ==
  LET Having(i) == {f \in files : f.rows[i] # NONE}
      ambiguous == {i \in SheetRows(control) :
                      \E f, g \in Having(i) : f.rows[i] # g.rows[i]}
      Only(i)   == IF Having(i) = {} THEN NONE ELSE (CHOOSE f \in Having(i) : TRUE).rows[i]
  IN  {[i \in SheetRows(control) |-> IF i \in ambiguous THEN first[i].rows[i] ELSE Only(i)] :
         first \in {g \in [ambiguous -> files] : \A i \in ambiguous : g[i] \in Having(i)}}

Cell(row, default) == IF row = NONE THEN default ELSE row

\* _parse_currency of a row's amount: NONE when the row is absent or unreadable.
Amount(row) == IF row = NONE THEN NONE ELSE row.amount

\* abs(a - b) > 1.0
Differ(a, b) == a - b > 1 \/ b - a > 1

Pass(v) == [status |-> "pass", value |-> v, notes |-> NONE]
Fail(v, n) == [status |-> "fail", value |-> v, notes |-> n]

----------------------------------------------------------------------------
(* DC-2 *)

\* Row 6: the feed total.  Row 7: the workbook total and the tie flag.
Dc2A(sheet) ==
  LET feed  == Amount(sheet[6])
      book  == Amount(sheet[7])
      value == [feed_total |-> feed, workbook_total |-> book]
  IN  IF feed = NONE \/ book = NONE THEN Fail(NONE, Plain)
      ELSE IF Differ(feed, book) THEN Fail(value, Plain)
      ELSE IF ~sheet[7].tie THEN Fail(NONE, Plain)
      ELSE Pass(value)

AboveThreshold(sheet) == {i \in VarianceRows : sheet[i] # NONE /\ sheet[i].above}

Dc2B(sheet) ==
  LET missing == {i \in AboveThreshold(sheet) : ~sheet[i].explained}
  IN  IF missing # {} THEN Fail([rows_missing_explanation |-> missing], Plain)
      ELSE Pass([above_threshold_rows |-> AboveThreshold(sheet)])

\* Rows without an explanation are DC-2.B's and are not counted twice.
Dc2C(sheet) ==
  LET explained == {i \in AboveThreshold(sheet) : sheet[i].explained}
      untied    == {i \in explained : ~sheet[i].tied}
  IN  IF untied # {} THEN Fail([rows_with_source_tie_no |-> untied], Plain)
      ELSE Pass([checked_rows |-> explained])

\* The sign-off checks of both controls look for the em dash and quote the cell
\* in their note.
SignOffCheck(cell) ==
  IF cell = NONE THEN Fail(NONE, Plain)
  ELSE IF ~cell.dash
    THEN Fail(NONE, [Plain EXCEPT !.marker = cell.says.marker, !.denies = cell.says.denies])
    ELSE Pass([text |-> cell.says])

Dc2D(sheet) == SignOffCheck(sheet[17])

----------------------------------------------------------------------------
(* DC-9 *)

Dc9A(sheet) == SignOffCheck(sheet[4])
Dc9B(sheet) == SignOffCheck(sheet[5])

RateUnit == 10000

\* fee against asset * rate, within a dollar.
Dc9C(sheet) ==
  LET asset == Amount(sheet[8])
      rate  == Cell(sheet[9], NoCell).rate
      fee   == Amount(sheet[10])
      value == [asset |-> asset, rate |-> rate, fee |-> fee]
      delta == fee * RateUnit - asset * rate
  IN  IF asset = NONE \/ rate = NONE \/ fee = NONE THEN Fail(NONE, Plain)
      ELSE IF delta > RateUnit \/ -delta > RateUnit THEN Fail(value, Plain)
      ELSE Pass(value)

\* Row 13: the prior rate.  Row 14: the current rate.  Row 16: the amendment.
UnreadableRatesNote(prior, current) ==
  [Plain EXCEPT !.marker = prior.marker \/ current.marker,
                !.denies = prior.denies \/ current.denies]
RatesDifferNote(amendment) ==
  [Plain EXCEPT !.marker = TRUE, !.denies = amendment.denies]

Unauthorised(amendment) == amendment.blank \/ amendment.denies \/ amendment.n_a

Dc9D(sheet) ==
  LET prior     == Cell(sheet[13], NoCell)
      current   == Cell(sheet[14], NoCell)
      amendment == Cell(sheet[16], Blank)
      changed   == [prior_rate |-> prior.rate, current_rate |-> current.rate,
                    amendment |-> amendment]
      unchanged == [prior_rate |-> prior.rate, current_rate |-> current.rate,
                    rate_change |-> FALSE]
  IN  IF prior.no_prior THEN [status |-> "n/a", value |-> NONE, notes |-> Plain]
      ELSE IF prior.rate = NONE \/ current.rate = NONE
        THEN Fail(NONE, UnreadableRatesNote(prior.says, current.says))
      ELSE IF prior.rate = current.rate THEN Pass(unchanged)
      ELSE IF Unauthorised(amendment) THEN Fail(changed, RatesDifferNote(amendment))
      ELSE Pass(changed)

\* closing = opening + additions - retirements, within a dollar.
Dc9E(sheet) ==
  LET opening     == Amount(sheet[19])
      additions   == Amount(sheet[20])
      retirements == Amount(sheet[21])
      closing     == Amount(sheet[22])
      value == [opening |-> opening, additions |-> additions, retirements |-> retirements,
                closing |-> closing]
  IN  IF opening = NONE \/ additions = NONE \/ retirements = NONE \/ closing = NONE
        THEN Fail(NONE, Plain)
      ELSE IF Differ(closing, opening + additions - retirements) THEN Fail(value, Plain)
      ELSE Pass(value)

\* Ownership: every limited-partner row of every revision that was read is added.
Dc9F(files) ==
  LET lines == UNION {{<<f, i>> : i \in DOMAIN f.shares} : f \in files}
      Share(l) == l[1].shares[l[2]]
      total == MapThenSumSet(Share, lines)
  IN  IF \E l \in lines : Share(l) = NONE THEN Fail(NONE, Plain)
      ELSE IF total > 10001 \/ total < 9999 THEN Fail([total |-> total], Plain)
      ELSE Pass([total |-> total])

----------------------------------------------------------------------------
(* check_attribute and extract *)

Dc2Checks(sheet) ==
  [a \in Attributes("DC-2") |->
     CASE a = "A" -> Dc2A(sheet) [] a = "B" -> Dc2B(sheet)
       [] a = "C" -> Dc2C(sheet) [] a = "D" -> Dc2D(sheet)]

Dc9Checks(sheet, files) ==
  [a \in Attributes("DC-9") |->
     CASE a = "A" -> Dc9A(sheet) [] a = "B" -> Dc9B(sheet) [] a = "C" -> Dc9C(sheet)
       [] a = "D" -> Dc9D(sheet) [] a = "E" -> Dc9E(sheet) [] a = "F" -> Dc9F(files)]

CheckAttributes(control, sheet, files) ==
  IF control = "DC-2" THEN Dc2Checks(sheet) ELSE Dc9Checks(sheet, files)

\* _parse_signoff_cell: the initials and the date, or "??" and the ingest date.
ParsedSignOff(cell) == IF cell # NONE /\ cell.strict THEN "parsed" ELSE "??"

\* DC-2 has no preparer cell: one is made up.
SignOffs(control, sheet) ==
  IF control = "DC-9"
    THEN [preparer |-> ParsedSignOff(sheet[4]), reviewer |-> ParsedSignOff(sheet[5])]
    ELSE [preparer |-> "synthesised", reviewer |-> ParsedSignOff(sheet[17])]

\* What extract may return: the hash is that of the first row of the read,
\* whichever file that row is of.
Extractions(triple, files) ==
  {[control |-> triple.control, quarter |-> triple.quarter, source_file |-> f.file_hash,
    signoffs |-> SignOffs(triple.control, sheet),
    checks |-> CheckAttributes(triple.control, sheet, files)] :
     f \in files, sheet \in Sheets(files, triple.control)}
=============================================================================
