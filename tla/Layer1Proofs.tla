---------------------------- MODULE Layer1Proofs ----------------------------
(***************************************************************************)
(* Proofs about Layer 1 and the Layer 3 tools that read what it found.     *)
(* First the checks: the attribute check and the tool apply different text *)
(* tests to the same cell, and the lemmas say, for every cell a workpaper  *)
(* can have, where they agree.  Then the sweep, for every set of           *)
(* workpapers, order of scenarios and number of attempts: whatever it      *)
(* holds or has stored is an extraction of files bronze may have           *)
(* (TablesInv), and the scenarios behind it carry its mark (ProgressInv).  *)
(* Bronze only grows, so what was once read of it can still be read        *)
(* (LineageInv), and a sweep's steps are counted (SweepStepsLeft).         *)
(* The invariant is stated of Layer1's own initial states and steps, for   *)
(* the modules that run something beside it.                               *)
(***************************************************************************)
EXTENDS Layer1, EvidenceTools, TLAPS

\* The cells DC-9.D reads, whatever rates they hold.
RateRows(sheet) ==
  /\ sheet[13] \in RateCells(Int) \cup {NONE}
  /\ sheet[14] \in RateCells(Int) \cup {NONE}
  /\ sheet[16] \in Texts \cup {NONE}

----------------------------------------------------------------------------
\* The fields of a text, and that it is not None.
LEMMA TextFields ==
  ASSUME NEW t \in Texts
  PROVE  /\ t # NONE
         /\ t.n_a => t.n_a_any_case
         /\ t.denies \/ t.n_a_any_case \/ t.marker => ~t.blank
         /\ t.blank \in BOOLEAN /\ t.denies \in BOOLEAN /\ t.n_a \in BOOLEAN
         /\ t.n_a_any_case \in BOOLEAN /\ t.marker \in BOOLEAN
BY NoneAssumption DEF Texts

LEMMA PlainIsText == Plain \in Texts /\ Blank \in Texts
BY DEF Plain, Blank, Texts

\* What the amendment cell of a sheet says is a text.
LEMMA AmendmentCell ==
  ASSUME NEW sheet, RateRows(sheet)
  PROVE  Cell(sheet[16], Blank) \in Texts
BY PlainIsText DEF Cell, RateRows

\* The three forms of a DC-9.D check with a value: no change, an unauthorised change,
\* and an authorised one.
LEMMA RateCheckForms ==
  ASSUME NEW sheet, RateRows(sheet), Dc9D(sheet).value # NONE
  PROVE  LET check == Dc9D(sheet)
             amendment == Cell(sheet[16], Blank)
         IN  \/ /\ check.status = "pass" /\ check.notes = NONE
                /\ DOMAIN check.value = {"prior_rate", "current_rate", "rate_change"}
             \/ /\ check.status = "fail" /\ Unauthorised(amendment)
                /\ DOMAIN check.value = {"prior_rate", "current_rate", "amendment"}
                /\ check.value.amendment = amendment
             \/ /\ check.status = "pass" /\ ~Unauthorised(amendment)
                /\ DOMAIN check.value = {"prior_rate", "current_rate", "amendment"}
                /\ check.value.amendment = amendment
BY DEF Dc9D, Pass, Fail

\* RealOrNone finds what is an amendment, and nothing else.
LEMMA RealOrNoneFinds ==
  /\ RealOrNone(NONE) = NONE
  /\ \A t \in Texts :
       RealOrNone(t) # NONE <=> ~t.blank /\ ~t.denies /\ ~t.n_a_any_case
BY TextFields DEF RealOrNone, IsRealAmendment

\* compare_billing_rates and _dc9_d judge the amendment cell alike: when the rate of a
\* quarter is known, an amendment is reported exactly when the check passed a rate
\* change, but for a reference that begins with "n/a" in small letters, which passes
\* the check and is no amendment to the tool (tools.py:312, attribute_checks.py:368).
THEOREM AmendmentAgreesWithCheck ==
  ASSUME NEW sheet, RateRows(sheet), CoerceRate(Dc9D(sheet).value) # NONE
  PROVE  LET check == Dc9D(sheet)
         IN  (ResolveAmendment(check) # NONE)
               <=> /\ check.status = "pass"
                   /\ "amendment" \in DOMAIN check.value
                   /\ ~check.value.amendment.n_a_any_case
<1> DEFINE check == Dc9D(sheet)
           amendment == Cell(sheet[16], Blank)
<1>1. check.value # NONE
  BY DEF CoerceRate
<1>2. amendment \in Texts
  BY AmendmentCell
<1>3. CASE /\ check.status = "pass" /\ check.notes = NONE
           /\ DOMAIN check.value = {"prior_rate", "current_rate", "rate_change"}
  <2>1. "amendment" \notin DOMAIN check.value
    BY <1>3
  <2>2. ResolveAmendment(check) = NONE
    BY <1>3, <2>1, RealOrNoneFinds DEF ResolveAmendment, DetectAmendmentInNotes
  <2> QED  BY <2>1, <2>2
<1>4. CASE /\ check.status = "fail" /\ Unauthorised(amendment)
           /\ DOMAIN check.value = {"prior_rate", "current_rate", "amendment"}
           /\ check.value.amendment = amendment
  <2>1. ResolveAmendment(check) = RealOrNone(amendment)
    BY <1>1, <1>4 DEF ResolveAmendment
  <2>2. amendment.blank \/ amendment.denies \/ amendment.n_a_any_case
    BY <1>2, <1>4, TextFields DEF Unauthorised
  <2>3. ResolveAmendment(check) = NONE
    BY <1>2, <2>1, <2>2, RealOrNoneFinds
  <2> QED  BY <1>4, <2>3
<1>5. CASE /\ check.status = "pass" /\ ~Unauthorised(amendment)
           /\ DOMAIN check.value = {"prior_rate", "current_rate", "amendment"}
           /\ check.value.amendment = amendment
  <2>1. ResolveAmendment(check) = RealOrNone(amendment)
    BY <1>1, <1>5 DEF ResolveAmendment
  <2>2. ~amendment.blank /\ ~amendment.denies
    BY <1>5 DEF Unauthorised
  <2>3. (ResolveAmendment(check) # NONE) <=> ~amendment.n_a_any_case
    BY <1>2, <2>1, <2>2, RealOrNoneFinds
  <2> QED  BY <1>5, <2>3
<1> QED  BY <1>1, <1>3, <1>4, <1>5, RateCheckForms

\* An unauthorised change is never reported as authorised: when Layer 1 failed the
\* check with both rates readable, the tool finds no amendment, although the note of
\* that very check contains the word.
COROLLARY FailedChangeHasNoAmendment ==
  ASSUME NEW sheet, RateRows(sheet), CoerceRate(Dc9D(sheet).value) # NONE,
         Dc9D(sheet).status = "fail"
  PROVE  ResolveAmendment(Dc9D(sheet)) = NONE
BY AmendmentAgreesWithCheck

\* The note on DC-2.B, which read_reviewer_comments takes for an explanation
\* (tools.py:548-552), is there exactly when an explanation is missing
\* (attribute_checks.py:162-182).
THEOREM NoteMeansMissingExplanation ==
  ASSUME NEW sheet
  PROVE  /\ Dc2B(sheet).notes # NONE <=> Dc2B(sheet).status = "fail"
         /\ Dc2B(sheet).status = "fail"
              <=> \E i \in AboveThreshold(sheet) : ~sheet[i].explained
<1> DEFINE missing == {i \in AboveThreshold(sheet) : ~sheet[i].explained}
<1>1. Plain # NONE
  BY PlainIsText, TextFields
<1>2. missing # {} <=> \E i \in AboveThreshold(sheet) : ~sheet[i].explained
  OBVIOUS
<1>3. CASE missing # {}
  <2>1. Dc2B(sheet).notes = Plain /\ Dc2B(sheet).status = "fail"
    BY <1>3 DEF Dc2B, Fail, Pass
  <2> QED  BY <1>1, <1>2, <1>3, <2>1
<1>4. CASE missing = {}
  <2>1. Dc2B(sheet).notes = NONE /\ Dc2B(sheet).status = "pass"
    BY <1>4 DEF Dc2B, Fail, Pass
  <2> QED  BY <1>2, <1>4, <2>1
<1> QED  BY <1>3, <1>4

\* One file has one reading: no row is ambiguous.
LEMMA SheetOfOneFile ==
  ASSUME NEW f, NEW control
  PROVE  Sheets({f}, control)
           = {[i \in SheetRows(control) |-> IF f.rows[i] = NONE THEN NONE ELSE f.rows[i]]}
<1> DEFINE files == {f}
           Having(i) == {g \in files : g.rows[i] # NONE}
           ambiguous == {i \in SheetRows(control) :
                           \E g, h \in Having(i) : g.rows[i] # h.rows[i]}
           Only(i) == IF Having(i) = {} THEN NONE ELSE (CHOOSE g \in Having(i) : TRUE).rows[i]
           firsts == {g \in [ambiguous -> files] : \A i \in ambiguous : g[i] \in Having(i)}
           Sheet(first) == [i \in SheetRows(control) |->
                              IF i \in ambiguous THEN first[i].rows[i] ELSE Only(i)]
           sheet == [i \in SheetRows(control) |-> IF f.rows[i] = NONE THEN NONE ELSE f.rows[i]]
<1>1. ambiguous = {}
  OBVIOUS
<1>2. firsts # {}
  <2>1. [i \in ambiguous |-> f] \in firsts
    BY <1>1
  <2> QED  BY <2>1
<1>3. \A i : Only(i) = IF f.rows[i] = NONE THEN NONE ELSE f.rows[i]
  <2> SUFFICES ASSUME NEW i PROVE Only(i) = IF f.rows[i] = NONE THEN NONE ELSE f.rows[i]
    OBVIOUS
  <2>1. CASE f.rows[i] = NONE
    <3>1. Having(i) = {}
      BY <2>1
    <3> QED  BY <2>1, <3>1
  <2>2. CASE f.rows[i] # NONE
    <3>1. Having(i) = {f}
      BY <2>2
    <3>2. (CHOOSE g \in Having(i) : TRUE) = f
      BY <3>1
    <3>3. Having(i) # {}
      BY <3>1
    <3> HIDE DEF Having
    <3> QED  BY <2>2, <3>2, <3>3
  <2> QED  BY <2>1, <2>2
<1>4. \A first \in firsts : Sheet(first) = sheet
  <2> HIDE DEF Only, ambiguous
  <2> QED  BY <1>1, <1>3
<1>5. Sheets(files, control) = {Sheet(first) : first \in firsts}
  BY DEF Sheets
<1> HIDE DEF firsts, Sheet, sheet
<1>6. {Sheet(first) : first \in firsts} = {sheet}
  BY <1>2, <1>4
<1> QED  BY <1>5, <1>6 DEF sheet

\* Layer 1 is deterministic on one file, and then the hash it records is that of the
\* file its checks read (orchestrator.extract): the lineage of a record is only in
\* doubt when bronze holds two revisions of a workpaper.
THEOREM OneFileOneExtraction ==
  ASSUME NEW triple, NEW f
  PROVE  \E sheet : Extractions(triple, {f})
           = {[control |-> triple.control, quarter |-> triple.quarter,
               source_file |-> f.file_hash,
               signoffs |-> SignOffs(triple.control, sheet),
               checks |-> CheckAttributes(triple.control, sheet, {f})]}
<1>1. PICK sheet : Sheets({f}, triple.control) = {sheet}
  BY SheetOfOneFile
<1> QED  BY <1>1 DEF Extractions

-----------------------------------------------------------------------------
(* The sweep *)

\* Everything Layer 1 can ever say of a triple.
Known(t) == UNION {Extractions(t, files) : files \in SUBSET Files(t)}

RowsOf(t) == [evidence : Known(t), sweep : 0..MaxSweeps]

TablesInv ==
  /\ bronze \in [Triples -> SUBSET UNION {Files(t) : t \in Triples}]
  /\ \A t \in Triples : bronze[t] \subseteq Files(t)
  /\ silver = [t \in Triples |-> silver[t]]
  /\ \A t \in Triples : silver[t] \in RowsOf(t) \cup {NONE}

Stored(i) == silver[Order[i]] # NONE /\ silver[Order[i]].sweep = sweeps

ProgressInv ==
  /\ phase \in Phases
  /\ sweeps \in 0..MaxSweeps
  /\ scenario \in 1..(Len(Order) + 1)
  /\ tries \in 0..(MaxTries - 1)
  /\ phase \in {"extract", "write"} =>
       scenario <= Len(Order) /\ \A i \in 1..(scenario - 1) : Stored(i)
  /\ phase = "write" => record \in RowsOf(Order[scenario]) /\ record.sweep = sweeps
  /\ phase = "done" => \A i \in 1..Len(Order) : Stored(i)

Layer1Inv == TablesInv /\ ProgressInv

----------------------------------------------------------------------------
\* A row of silver is not None.
LEMMA RowIsNotNone ==
  ASSUME NEW t \in Triples, NEW x \in RowsOf(t)
  PROVE  x # NONE
<1>1. PICK files \in SUBSET Files(t) : x.evidence \in Extractions(t, files)
  BY DEF RowsOf, Known
<1>2. [evidence |-> x.evidence, sweep |-> x.sweep] # NONE
  BY <1>1, NoRecordAssumption DEF RowsOf
<1>3. x = [evidence |-> x.evidence, sweep |-> x.sweep]
  BY DEF RowsOf
<1> QED  BY <1>2, <1>3

\* A read of some files has a first row, so there is a sheet ...
LEMMA SheetsExist ==
  ASSUME NEW files, NEW control
  PROVE  Sheets(files, control) # {}
<1> DEFINE Having(i) == {f \in files : f.rows[i] # NONE}
           ambiguous == {i \in SheetRows(control) :
                           \E f, g \in Having(i) : f.rows[i] # g.rows[i]}
           Only(i) == IF Having(i) = {} THEN NONE ELSE (CHOOSE f \in Having(i) : TRUE).rows[i]
           firsts == {g \in [ambiguous -> files] : \A i \in ambiguous : g[i] \in Having(i)}
           Sheet(first) == [i \in SheetRows(control) |->
                              IF i \in ambiguous THEN first[i].rows[i] ELSE Only(i)]
<1>1. [i \in ambiguous |-> CHOOSE f \in Having(i) : TRUE] \in firsts
  <2>1. \A i \in ambiguous : (CHOOSE f \in Having(i) : TRUE) \in Having(i)
    OBVIOUS
  <2>2. \A i : Having(i) \subseteq files
    OBVIOUS
  <2> HIDE DEF Having, ambiguous
  <2> QED  BY <2>1, <2>2
<1>2. Sheets(files, control) = {Sheet(first) : first \in firsts}
  BY DEF Sheets
<1> HIDE DEF firsts, Sheet
<1> QED  BY <1>1, <1>2

\* ... and an extraction, which is a row that Layer 1 may store.
LEMMA ExtractedRows ==
  ASSUME NEW t \in Triples, NEW files \in SUBSET Files(t), NEW n \in 0..MaxSweeps
  PROVE  /\ Extracted(t, files, n) \subseteq {x \in RowsOf(t) : x.sweep = n}
         /\ files # {} => Extracted(t, files, n) # {}
<1>1. Extractions(t, files) \subseteq Known(t)
  BY DEF Known
<1>2. Extracted(t, files, n) \subseteq {x \in RowsOf(t) : x.sweep = n}
  BY <1>1 DEF Extracted, RowsOf
<1>3. ASSUME files # {}
      PROVE  Extracted(t, files, n) # {}
  <2>1. Sheets(files, t.control) # {}
    BY SheetsExist
  <2>2. PICK f \in files, sheet \in Sheets(files, t.control) : TRUE
    BY <1>3, <2>1
  <2> DEFINE e == [control |-> t.control, quarter |-> t.quarter, source_file |-> f.file_hash,
                   signoffs |-> SignOffs(t.control, sheet),
                   checks |-> CheckAttributes(t.control, sheet, files)]
  <2>3. e \in Extractions(t, files)
    BY <2>2 DEF Extractions
  <2> HIDE DEF e
  <2> QED  BY <2>3 DEF Extracted
<1> QED  BY <1>2, <1>3

LEMMA OrderIsOfTriples ==
  /\ Len(Order) \in Nat /\ DOMAIN Order = 1..Len(Order)
  /\ \A i \in 1..Len(Order) : Order[i] \in Triples
  /\ MaxSweeps \in Nat /\ MaxTries \in Nat \ {0}
BY ScenariosAssumption, TriesAssumption

----------------------------------------------------------------------------
LEMMA Layer1Starts == Layer1Init => Layer1Inv
<1> SUFFICES ASSUME Layer1Init PROVE Layer1Inv
  OBVIOUS
<1>1. \A t \in Triples : bronze[t] \subseteq Files(t)
  BY DEF Layer1Init, Files
<1>2. bronze = [t \in Triples |-> bronze[t]]
  BY BronzeAssumption DEF Layer1Init
<1>3. bronze \in [Triples -> SUBSET UNION {Files(t) : t \in Triples}]
  <2>1. \A t \in Triples : bronze[t] \in SUBSET UNION {Files(u) : u \in Triples}
    BY <1>1
  <2> QED  BY <1>2, <2>1
<1>4. \A t \in Triples : silver[t] \in RowsOf(t) \cup {NONE}
  <2> SUFFICES ASSUME NEW t \in Triples, bronze[t] # {} PROVE silver[t] \in RowsOf(t)
    BY DEF Layer1Init
  <2>1. silver[t] \in Extracted(t, bronze[t], 0)
    BY <1>1, ExtractedRows, OrderIsOfTriples DEF Layer1Init
  <2> QED  BY <1>1, <2>1, ExtractedRows, OrderIsOfTriples
<1>5. silver = [t \in Triples |-> silver[t]]
  BY DEF Layer1Init
<1>6. ProgressInv
  BY OrderIsOfTriples DEF Layer1Init, ProgressInv, Phases
<1> QED  BY <1>1, <1>3, <1>4, <1>5, <1>6 DEF Layer1Inv, TablesInv

LEMMA IngestKeeps ==
  ASSUME Layer1Inv, NEW t \in Triples, Ingest(t)
  PROVE  Layer1Inv'
<1>1. PICK f \in Revisions[t] : bronze' = [bronze EXCEPT ![t] = @ \cup {f}]
  BY DEF Ingest
<1>2. f \in Files(t)
  BY DEF Files
<1>3. \A u \in Triples : bronze'[u] \subseteq Files(u)
  BY <1>1, <1>2 DEF Layer1Inv, TablesInv
<1>4. bronze' \in [Triples -> SUBSET UNION {Files(u) : u \in Triples}]
  <2>1. \A u \in Triples : bronze'[u] \in SUBSET UNION {Files(v) : v \in Triples}
    BY <1>3
  <2>2. bronze' = [u \in Triples |-> bronze'[u]]
    BY <1>1 DEF Layer1Inv, TablesInv
  <2> QED  BY <2>1, <2>2
<1>5. TablesInv'
  BY <1>3, <1>4 DEF Layer1Inv, TablesInv, Ingest
<1>6. ProgressInv'
  BY DEF Layer1Inv, ProgressInv, Ingest, sweepVars, Stored
<1> QED  BY <1>5, <1>6 DEF Layer1Inv

LEMMA StartSweepKeeps ==
  ASSUME Layer1Inv, StartSweep
  PROVE  Layer1Inv'
<1>1. TablesInv'
  BY DEF Layer1Inv, TablesInv, StartSweep
<1>2. Order = <<>> <=> Len(Order) = 0
  BY ScenariosAssumption
<1>3. ProgressInv'
  BY <1>2, OrderIsOfTriples DEF Layer1Inv, ProgressInv, StartSweep, Stored, Phases
<1> QED  BY <1>1, <1>3 DEF Layer1Inv

LEMMA ExtractKeeps ==
  ASSUME Layer1Inv, ExtractScenario
  PROVE  Layer1Inv'
<1>1. TablesInv'
  BY DEF Layer1Inv, TablesInv, ExtractScenario
<1>2. CASE SweepRaises
  <2>1. ProgressInv'
    BY <1>2, OrderIsOfTriples DEF Layer1Inv, ProgressInv, ExtractScenario, SweepRaises, Phases, Stored
  <2> QED  BY <1>1, <2>1 DEF Layer1Inv
<1>3. CASE /\ record' \in Extracted(Order[scenario], bronze[Order[scenario]], sweeps)
           /\ phase' = "write"
           /\ UNCHANGED tries
  <2>1. scenario \in 1..Len(Order) /\ Order[scenario] \in Triples
    BY OrderIsOfTriples DEF Layer1Inv, ProgressInv, ExtractScenario
  <2>2. record' \in RowsOf(Order[scenario]) /\ record'.sweep = sweeps
    BY <1>3, <2>1, ExtractedRows DEF Layer1Inv, TablesInv, ProgressInv
  <2>3. UNCHANGED <<silver, sweeps, scenario>>
    BY DEF ExtractScenario
  <2>4. ProgressInv'
    BY <1>3, <2>2, <2>3 DEF Layer1Inv, ProgressInv, ExtractScenario, Phases, Stored
  <2> QED  BY <1>1, <2>4 DEF Layer1Inv
<1> QED  BY <1>1, <1>2, <1>3 DEF ExtractScenario, Layer1Inv

\* Whatever a write leaves in silver, the scenarios behind it stay marked.
LEMMA MergeMarks ==
  ASSUME Layer1Inv, phase = "write", MergeEvidence \/ UNCHANGED silver, UNCHANGED <<bronze, sweeps>>
  PROVE  /\ TablesInv'
         /\ \A i \in 1..(scenario - 1) : Stored(i)'
         /\ MergeEvidence => \A i \in 1..scenario : Stored(i)'
<1> DEFINE t == Order[scenario]
<1>1. scenario \in 1..Len(Order) /\ t \in Triples
  BY OrderIsOfTriples DEF Layer1Inv, ProgressInv
<1>2. record \in RowsOf(t) /\ record # NONE /\ record.sweep = sweeps
  BY <1>1, RowIsNotNone DEF Layer1Inv, ProgressInv
<1>3. \A i \in 1..(scenario - 1) : Order[i] \in Triples /\ Stored(i)
  BY <1>1, OrderIsOfTriples DEF Layer1Inv, ProgressInv
<1>4. CASE MergeEvidence
  <2>1. /\ silver' = [u \in Triples |-> silver'[u]]
        /\ \A u \in Triples : silver'[u] = IF u = t THEN record ELSE silver[u]
    BY <1>1, <1>4 DEF MergeEvidence, Layer1Inv, TablesInv
  <2>2. TablesInv'
    BY <1>2, <2>1 DEF Layer1Inv, TablesInv
  <2>3. \A i \in 1..(scenario - 1) : Stored(i)'
    BY <1>2, <1>3, <2>1 DEF Stored
  <2>4. \A i \in 1..scenario : Stored(i)'
    <3> SUFFICES ASSUME NEW i \in 1..scenario PROVE Stored(i)'
      OBVIOUS
    <3>1. CASE i = scenario
      BY <1>1, <1>2, <2>1, <3>1 DEF Stored
    <3>2. CASE i # scenario
      BY <1>1, <2>3, <3>2
    <3> QED  BY <3>1, <3>2
  <2> QED  BY <2>2, <2>3, <2>4
<1>5. CASE UNCHANGED silver /\ ~MergeEvidence
  BY <1>3, <1>5 DEF Layer1Inv, TablesInv, Stored
<1> QED  BY <1>4, <1>5

LEMMA WriteKeeps ==
  ASSUME Layer1Inv, WriteEvidence
  PROVE  Layer1Inv'
<1>1. /\ phase = "write"
      /\ MergeEvidence \/ UNCHANGED silver
      /\ UNCHANGED <<bronze, sweeps>>
  BY DEF WriteEvidence
<1>2. /\ TablesInv'
      /\ \A i \in 1..(scenario - 1) : Stored(i)'
      /\ MergeEvidence => \A i \in 1..scenario : Stored(i)'
  BY <1>1, MergeMarks
<1>3. scenario \in 1..Len(Order) /\ tries \in 0..(MaxTries - 1)
  BY <1>1, OrderIsOfTriples DEF Layer1Inv, ProgressInv
<1>4. CASE MergeEvidence /\ NextScenario
  <2>1. \A i \in 1..scenario : Stored(i)'
    BY <1>2, <1>4 DEF Stored
  <2>2. scenario' = scenario + 1 /\ scenario' - 1 = scenario
    <3>1. scenario' = scenario + 1
      BY <1>4 DEF NextScenario
    <3>2. scenario \in Int
      BY <1>3, OrderIsOfTriples
    <3> QED  BY <3>1, <3>2
  <2>3. /\ tries' = 0 /\ sweeps' = sweeps /\ sweeps \in 0..MaxSweeps
        /\ phase' = IF scenario = Len(Order) THEN "done" ELSE "extract"
    BY <1>1, <1>4 DEF Layer1Inv, ProgressInv, NextScenario
  <2>4. \A i \in 1..(scenario' - 1) : Stored(i)'
    BY <2>1, <2>2 DEF Stored
  <2>5. ASSUME scenario = Len(Order)
        PROVE  ProgressInv'
    <3>1. \A i \in 1..Len(Order) : Stored(i)'
      BY <2>1, <2>5 DEF Stored
    <3>2. phase' = "done"
      BY <2>3, <2>5
    <3>3. scenario' \in 1..(Len(Order) + 1) /\ 0 \in 0..(MaxTries - 1)
      BY <1>3, <2>2, OrderIsOfTriples
    <3> QED  BY <2>3, <3>1, <3>2, <3>3 DEF ProgressInv, Phases
  <2>6. ASSUME scenario # Len(Order)
        PROVE  ProgressInv'
    <3>1. phase' = "extract"
      BY <2>3, <2>6
    <3>2. /\ scenario' \in 1..(Len(Order) + 1) /\ scenario' <= Len(Order)
          /\ 0 \in 0..(MaxTries - 1)
      <4> DEFINE n == Len(Order)
      <4>1. n \in Nat /\ scenario \in 1..n /\ MaxTries \in Nat \ {0}
        BY <1>3, OrderIsOfTriples
      <4>2. scenario # n /\ scenario' = scenario + 1
        BY <2>2, <2>6
      <4> HIDE DEF n
      <4>3. /\ scenario' \in 1..(n + 1) /\ scenario' <= n
            /\ 0 \in 0..(MaxTries - 1)
        BY <4>1, <4>2
      <4> QED  BY <4>3 DEF n
    <3> QED  BY <2>3, <2>4, <3>1, <3>2 DEF ProgressInv, Phases
  <2>7. ProgressInv'
    BY <2>5, <2>6
  <2> QED  BY <1>2, <2>7 DEF Layer1Inv
<1>5. CASE MergeFails
  <2>1. CASE tries + 1 < MaxTries
    <3>1. tries' = tries + 1 /\ UNCHANGED <<scenario, phase, record>>
      BY <1>5, <2>1 DEF MergeFails
    <3>2. ProgressInv'
      BY <1>1, <1>2, <1>3, <2>1, <3>1, OrderIsOfTriples DEF Layer1Inv, ProgressInv, Phases
    <3> QED  BY <1>2, <3>2 DEF Layer1Inv
  <2>2. CASE ~(tries + 1 < MaxTries)
    <3>1. SweepRaises /\ UNCHANGED scenario
      BY <1>5, <2>2 DEF MergeFails
    <3>2. ProgressInv'
      BY <1>1, <1>3, <3>1, OrderIsOfTriples DEF Layer1Inv, ProgressInv, SweepRaises, Phases
    <3> QED  BY <1>2, <3>2 DEF Layer1Inv
  <2> QED  BY <2>1, <2>2
<1> QED  BY <1>4, <1>5 DEF WriteEvidence

LEMMA Layer1Keeps == Layer1Inv /\ [Layer1Next]_layer1Vars => Layer1Inv'
<1> SUFFICES ASSUME Layer1Inv, [Layer1Next]_layer1Vars PROVE Layer1Inv'
  OBVIOUS
<1>1. CASE UNCHANGED layer1Vars
  BY <1>1 DEF layer1Vars, Layer1Inv, TablesInv, ProgressInv, Stored
<1>2. CASE Layer1Next
  BY <1>2, IngestKeeps, StartSweepKeeps, ExtractKeeps, WriteKeeps DEF Layer1Next, SweepStep
<1> QED  BY <1>1, <1>2

\* A sweep that ended without raising has stored every scenario (run_layer1.run_sweep).
THEOREM SweepsAreComplete ==
  Layer1Init /\ [][Layer1Next]_layer1Vars => []FinishedSweepIsStored
<1>1. Layer1Inv => FinishedSweepIsStored
  BY OrderIsOfTriples DEF Layer1Inv, ProgressInv, FinishedSweepIsStored, Stored
<1> QED  BY <1>1, Layer1Starts, Layer1Keeps, PTL

----------------------------------------------------------------------------
(* The lineage of a record *)

\* What one read of some of the files that bronze holds of a triple may say.
ReadOfBronze(t, e) == \E files \in SUBSET bronze[t] : e \in Extractions(t, files)

\* What silver says of a triple, some read of bronze says.
SilverIsARead == \A t \in Triples : silver[t] # NONE => ReadOfBronze(t, silver[t].evidence)

LineageInv ==
  /\ SilverIsARead
  /\ phase = "write" => ReadOfBronze(Order[scenario], record.evidence)

\* A record's checks and its hash are of one file while bronze holds no other.
OneRevisionHasItsLineage ==
  \A t \in Triples : \A f : bronze[t] = {f} /\ silver[t] # NONE =>
    silver[t].evidence \in Extractions(t, {f})

\* No step takes a file away.
LEMMA BronzeGrows ==
  ASSUME TablesInv, [Layer1Next]_layer1Vars, NEW t \in Triples
  PROVE  bronze[t] \subseteq bronze'[t]
<1>1. CASE \E u \in Triples : Ingest(u)
  BY <1>1 DEF Ingest, TablesInv
<1>2. CASE StartSweep \/ SweepStep \/ UNCHANGED layer1Vars
  BY <1>2 DEF StartSweep, SweepStep, ExtractScenario, WriteEvidence, layer1Vars
<1> QED  BY <1>1, <1>2 DEF Layer1Next

\* So what could be read of it still can.
LEMMA ReadsLast ==
  ASSUME TablesInv, [Layer1Next]_layer1Vars, NEW t \in Triples, NEW e, ReadOfBronze(t, e)
  PROVE  \E files \in SUBSET bronze'[t] : e \in Extractions(t, files)
BY BronzeGrows DEF ReadOfBronze

LEMMA LineageStarts == Layer1Init => LineageInv
<1> SUFFICES ASSUME Layer1Init PROVE LineageInv
  OBVIOUS
<1>1. ASSUME NEW t \in Triples, silver[t] # NONE
      PROVE  ReadOfBronze(t, silver[t].evidence)
  <2>1. bronze[t] # {} /\ bronze[t] \in SUBSET Files(t)
    BY <1>1, Layer1Starts DEF Layer1Init, Layer1Inv, TablesInv
  <2>2. silver[t] \in Extracted(t, bronze[t], 0)
    BY <2>1, ExtractedRows, OrderIsOfTriples DEF Layer1Init
  <2>3. silver[t].evidence \in Extractions(t, bronze[t])
    BY <2>2 DEF Extracted
  <2> QED  BY <2>3 DEF ReadOfBronze
<1>2. phase # "write"
  BY DEF Layer1Init
<1> QED  BY <1>1, <1>2 DEF LineageInv, SilverIsARead

LEMMA LineageKept == Layer1Inv /\ LineageInv /\ [Layer1Next]_layer1Vars => LineageInv'
<1> SUFFICES ASSUME Layer1Inv, LineageInv, [Layer1Next]_layer1Vars PROVE LineageInv'
  OBVIOUS
<1>1. \A t \in Triples : \A e : ReadOfBronze(t, e) =>
        \E files \in SUBSET bronze'[t] : e \in Extractions(t, files)
  BY ReadsLast DEF Layer1Inv
<1>2. /\ phase = "write" => scenario \in 1..Len(Order) /\ Order[scenario] \in Triples
      /\ phase = "extract" => scenario \in 1..Len(Order) /\ Order[scenario] \in Triples
  BY OrderIsOfTriples DEF Layer1Inv, ProgressInv
<1>3. ASSUME NEW t \in Triples, silver'[t] # NONE
      PROVE  ReadOfBronze(t, silver[t].evidence)'
  <2>1. CASE silver'[t] = silver[t]
    <3>1. ReadOfBronze(t, silver[t].evidence)
      BY <1>3, <2>1 DEF LineageInv, SilverIsARead
    <3> QED  BY <1>1, <2>1, <3>1 DEF ReadOfBronze
  <2>2. CASE silver'[t] # silver[t]
    <3>1. phase = "write" /\ MergeEvidence
      BY <2>2 DEF Layer1Next, Ingest, StartSweep, SweepStep, ExtractScenario, WriteEvidence,
                  layer1Vars
    <3>2. t = Order[scenario] /\ silver'[t] = record
      BY <1>2, <2>2, <3>1 DEF MergeEvidence, Layer1Inv, TablesInv
    <3>3. ReadOfBronze(t, record.evidence)
      BY <3>1, <3>2 DEF LineageInv
    <3> QED  BY <1>1, <3>2, <3>3 DEF ReadOfBronze
  <2> QED  BY <2>1, <2>2
<1>4. ASSUME phase' = "write"
      PROVE  ReadOfBronze(Order[scenario], record.evidence)'
  <2>1. CASE phase = "write"
    <3>1. scenario' = scenario /\ record' = record
      BY <1>4, <2>1 DEF Layer1Next, Ingest, StartSweep, SweepStep, ExtractScenario,
             WriteEvidence, MergeFails, NextScenario, SweepRaises, layer1Vars, sweepVars
    <3>2. ReadOfBronze(Order[scenario], record.evidence)
      BY <2>1 DEF LineageInv
    <3> QED  BY <1>1, <1>2, <2>1, <3>1, <3>2 DEF ReadOfBronze
  <2>2. CASE phase # "write"
    <3>1. /\ phase = "extract" /\ UNCHANGED <<bronze, scenario>>
          /\ record' \in Extracted(Order[scenario], bronze[Order[scenario]], sweeps)
      BY <1>4, <2>2 DEF Layer1Next, Ingest, StartSweep, SweepStep, ExtractScenario,
             WriteEvidence, SweepRaises, layer1Vars, sweepVars
    <3>2. record'.evidence \in Extractions(Order[scenario], bronze[Order[scenario]])
      BY <3>1 DEF Extracted
    <3> QED  BY <3>1, <3>2 DEF ReadOfBronze
  <2> QED  BY <2>1, <2>2
<1> QED  BY <1>3, <1>4 DEF LineageInv, SilverIsARead

\* Without files there is nothing to say, so of one file there is one reading.
LEMMA OneFileToRead ==
  ASSUME NEW t \in Triples, NEW f, bronze[t] = {f}, NEW e, ReadOfBronze(t, e)
  PROVE  e \in Extractions(t, {f})
<1>1. PICK files \in SUBSET {f} : e \in Extractions(t, files)
  BY DEF ReadOfBronze
<1>2. files # {}
  BY <1>1 DEF Extractions
<1> QED  BY <1>1, <1>2

\* However ingests and sweeps interleave, a row of silver is what Layer 1 reads off files
\* that bronze holds, all of one triple and of one read: an old sweep leaves nothing
\* else behind.  And the promise of models/evidence.py:102 about the hash is broken by
\* nothing but a second revision: while bronze holds one file of a triple, the row's
\* checks and its hash are that file's (EvidenceIsOfItsSourceFile fails with two).
THEOREM LineageHolds ==
  Layer1Init /\ [][Layer1Next]_layer1Vars => [](SilverIsARead /\ OneRevisionHasItsLineage)
<1>1. LineageInv => SilverIsARead /\ OneRevisionHasItsLineage
  BY OneFileToRead DEF LineageInv, SilverIsARead, OneRevisionHasItsLineage
<1> QED  BY <1>1, Layer1Starts, Layer1Keeps, LineageStarts, LineageKept, PTL

----------------------------------------------------------------------------
(* A sweep ends *)

\* What a sweep may still do: a read and MaxTries attempts to write for each scenario.
SweepStepsLeft ==
  CASE phase = "extract" -> (Len(Order) - scenario + 1) * (MaxTries + 1)
    [] phase = "write"   -> (Len(Order) - scenario) * (MaxTries + 1) + MaxTries - tries
    [] OTHER             -> 0

\* A sweep counts down, begins when none is running, or is not concerned.
SweepCountsDown ==
  \/ SweepStep /\ SweepStepsLeft' < SweepStepsLeft
  \/ StartSweep /\ SweepStepsLeft = 0
  \/ UNCHANGED <<sweepVars, SweepStepsLeft>>

\* The scenarios after this one, one scenario at a time.
LEMMA Scenarios ==
  ASSUME NEW n \in Nat, NEW i \in 1..n, NEW m \in Nat
  PROVE  /\ (n - i) * m \in Nat
         /\ (n - i + 1) * m = (n - i) * m + m
         /\ (n - (i + 1) + 1) * m = (n - i) * m
         /\ (n - i + 1) * m <= n * m
<1>1. /\ n - i \in Nat /\ n - (i + 1) + 1 = n - i
      /\ i - 1 \in Nat /\ n = (n - i + 1) + (i - 1)
  OBVIOUS
<1>2. \A a, b \in Nat : a * b \in Nat
  OBVIOUS
<1>3. \A a, b, c \in Nat : (a + b) * c = a * c + b * c
  OBVIOUS
<1>4. (n - i + 1) * m = (n - i) * m + m
  BY <1>1, <1>3
<1>5. n * m = (n - i + 1) * m + (i - 1) * m
  BY <1>1, <1>3
<1>6. (n - i) * m \in Nat /\ (i - 1) * m \in Nat /\ (n - i + 1) * m \in Nat
  BY <1>1, <1>2
<1> QED  BY <1>1, <1>4, <1>5, <1>6

LEMMA SweepStepsType ==
  ASSUME ProgressInv
  PROVE  /\ SweepStepsLeft \in 0..(Len(Order) * (MaxTries + 1))
         /\ phase \in {"idle", "done", "raised"} <=> SweepStepsLeft = 0
<1> DEFINE n == Len(Order)
           m == MaxTries + 1
<1>1. n \in Nat /\ MaxTries \in Nat \ {0} /\ m \in Nat
  BY OrderIsOfTriples
<1>2. tries \in 0..(MaxTries - 1) /\ phase \in Phases
  BY DEF ProgressInv
<1>3. CASE phase \in {"extract", "write"}
  <2>1. scenario \in 1..n
    BY <1>1, <1>3 DEF ProgressInv
  <2>2. /\ (n - scenario) * m \in Nat
        /\ (n - scenario + 1) * m = (n - scenario) * m + m
        /\ (n - scenario + 1) * m <= n * m
    BY <1>1, <2>1, Scenarios
  <2>3. SweepStepsLeft = IF phase = "extract" THEN (n - scenario + 1) * m
                         ELSE (n - scenario) * m + MaxTries - tries
    BY <1>3 DEF SweepStepsLeft
  <2> DEFINE rest == (n - scenario) * m
             whole == (n - scenario + 1) * m
             all == n * m
  <2>4. rest \in Nat /\ whole = rest + m /\ whole <= all /\ all \in Nat
    BY <1>1, <2>2
  <2>5. SweepStepsLeft = IF phase = "extract" THEN whole ELSE rest + MaxTries - tries
    BY <2>3
  <2> HIDE DEF rest, whole, all, n
  <2>6. SweepStepsLeft \in 0..all /\ SweepStepsLeft # 0
    BY <1>1, <1>2, <2>4, <2>5
  <2> QED  BY <1>3, <2>6 DEF all, n
<1>4. CASE phase \notin {"extract", "write"}
  <2>1. SweepStepsLeft = 0
    BY <1>4 DEF SweepStepsLeft
  <2>2. n * m \in Nat
    BY <1>1
  <2> QED  BY <1>2, <1>4, <2>1, <2>2 DEF Phases
<1> QED  BY <1>3, <1>4

LEMMA SweepCounted == Layer1Inv /\ [Layer1Next]_layer1Vars => [SweepCountsDown]_layer1Vars
<1> SUFFICES ASSUME Layer1Inv, Layer1Next PROVE SweepCountsDown
  OBVIOUS
<1> DEFINE n == Len(Order)
           m == MaxTries + 1
<1>1. n \in Nat /\ MaxTries \in Nat \ {0} /\ m \in Nat /\ tries \in 0..(MaxTries - 1)
  BY OrderIsOfTriples DEF Layer1Inv, ProgressInv
<1>2. CASE \E t \in Triples : Ingest(t)
  BY <1>2 DEF SweepCountsDown, Ingest, sweepVars, SweepStepsLeft
<1>3. CASE StartSweep
  BY <1>3 DEF SweepCountsDown, SweepStepsLeft, StartSweep
<1>4. CASE SweepStep
  <2>1. scenario \in 1..n /\ phase \in {"extract", "write"}
    BY <1>1, <1>4 DEF SweepStep, ExtractScenario, WriteEvidence, Layer1Inv, ProgressInv
  <2> DEFINE rest == (n - scenario) * m
  <2>2. /\ rest \in Nat
        /\ (n - scenario + 1) * m = rest + m
        /\ (n - (scenario + 1) + 1) * m = rest
    BY <1>1, <2>1, Scenarios
  <2>3. SweepStepsLeft = IF phase = "extract" THEN rest + m ELSE rest + MaxTries - tries
    BY <2>1, <2>2 DEF SweepStepsLeft
  <2>4. CASE phase' \in {"done", "raised"}
    <3>1. SweepStepsLeft' = 0
      BY <2>4 DEF SweepStepsLeft
    <3> HIDE DEF rest, n
    <3>2. 0 < SweepStepsLeft
      BY <1>1, <2>1, <2>2, <2>3
    <3> QED  BY <1>4, <3>1, <3>2 DEF SweepCountsDown
  <2>5. CASE ExtractScenario /\ phase' = "write"
    <3>1. phase = "extract" /\ tries' = tries /\ scenario' = scenario
      BY <2>5 DEF ExtractScenario, SweepRaises
    <3>2. SweepStepsLeft' = rest + MaxTries - tries
      BY <2>5, <3>1 DEF SweepStepsLeft
    <3> HIDE DEF rest, n
    <3>3. SweepStepsLeft' < SweepStepsLeft
      BY <1>1, <2>2, <2>3, <3>1, <3>2
    <3> QED  BY <1>4, <3>3 DEF SweepCountsDown
  <2>6. CASE WriteEvidence /\ phase' = "write"
    <3>1. phase = "write" /\ tries' = tries + 1 /\ scenario' = scenario
      BY <2>6 DEF WriteEvidence, NextScenario, MergeFails, SweepRaises
    <3>2. SweepStepsLeft' = rest + MaxTries - (tries + 1)
      BY <2>6, <3>1 DEF SweepStepsLeft
    <3> HIDE DEF rest, n
    <3>3. SweepStepsLeft' < SweepStepsLeft
      BY <1>1, <2>2, <2>3, <3>1, <3>2
    <3> QED  BY <1>4, <3>3 DEF SweepCountsDown
  <2>7. CASE phase' = "extract"
    <3>1. phase = "write" /\ scenario' = scenario + 1
      BY <1>4, <2>7 DEF SweepStep, ExtractScenario, WriteEvidence, NextScenario, MergeFails,
                         SweepRaises
    <3>2. SweepStepsLeft' = rest
      BY <2>2, <2>7, <3>1 DEF SweepStepsLeft
    <3> HIDE DEF rest, n
    <3>3. SweepStepsLeft' < SweepStepsLeft
      BY <1>1, <2>2, <2>3, <3>1, <3>2
    <3> QED  BY <1>4, <3>3 DEF SweepCountsDown
  <2>8. phase' \in Phases \ {"idle"}
    BY <1>4, <2>1 DEF SweepStep, ExtractScenario, WriteEvidence, NextScenario, MergeFails,
                      SweepRaises, Phases
  <2> QED  BY <1>4, <2>4, <2>5, <2>6, <2>7, <2>8 DEF SweepStep, Phases
<1> QED  BY <1>2, <1>3, <1>4 DEF Layer1Next

\* A sweep takes at most MaxTries + 1 steps a scenario, each nearer to its end, whatever
\* is ingested beside it: no attempt to write is made twice, none begins a scenario
\* again, and a new sweep begins only when the last one is over.
THEOREM SweepsCountDown ==
  Layer1Init /\ [][Layer1Next]_layer1Vars =>
    /\ [](SweepStepsLeft \in 0..(Len(Order) * (MaxTries + 1)))
    /\ [][SweepCountsDown]_layer1Vars
<1>1. Layer1Inv => SweepStepsLeft \in 0..(Len(Order) * (MaxTries + 1))
  BY SweepStepsType DEF Layer1Inv
<1> QED  BY <1>1, Layer1Starts, Layer1Keeps, SweepCounted, PTL
=============================================================================
