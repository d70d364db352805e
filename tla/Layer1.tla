------------------------------- MODULE Layer1 -------------------------------
(***************************************************************************)
(* Layer 1 around its two tables: workpapers arrive in                     *)
(* bronze.workpapers_raw (ingest/bronze_smoke.py and the MERGE of          *)
(* infra/databricks/notebooks/bronze_smoke_ingest.py, which only inserts), *)
(* and scripts/run_layer1.py re-extracts one (control, quarter) after the  *)
(* other into silver.evidence.  Nothing orders an ingest and a sweep.      *)
(*                                                                         *)
(* Reads retry inside one call and change nothing: a read is one step that *)
(* answers or raises.  A MERGE that raises may have been committed.        *)
(***************************************************************************)
EXTENDS AttributeChecks, Sequences, Functions

CONSTANTS
  Order,       \* the scenarios of a sweep, as (control, quarter) records
  Triples,     \* every (control, quarter) with a workpaper
  FirstBronze, \* what bronze may hold when the story begins: one file of a triple at most
  Revisions,   \* the files of each triple that may be ingested later
  MaxSweeps,   \* bound: sweeps that operators start
  MaxTries     \* stop_after_attempt of SilverWriter.write_evidence

ASSUME ScenariosAssumption == Order \in Seq(Triples) /\ Triples \subseteq [control : Controls, quarter : STRING]
ASSUME TriesAssumption == MaxSweeps \in Nat /\ MaxTries \in Nat \ {0}

\* The files that bronze may ever hold of a triple.
Files(t) == (UNION {b[t] : b \in FirstBronze}) \cup Revisions[t]

ASSUME BronzeAssumption == \A b \in FirstBronze : b = [t \in Triples |-> b[t]]

\* The cells DC-9.D reads are rate cells and a text, or absent.
ASSUME CellsAssumption ==
  \A t \in Triples : t.control = "DC-9" =>
    \A f \in Files(t) : /\ f.rows[13] \in RateCells(Int) \cup {NONE}
                        /\ f.rows[14] \in RateCells(Int) \cup {NONE}
                        /\ f.rows[16] \in Texts \cup {NONE}

\* None is not a record.
ASSUME NoRecordAssumption ==
  \A t \in Triples : \A files \in SUBSET Files(t) : \A e \in Extractions(t, files) :
    /\ \A a \in DOMAIN e.checks : e.checks[a] # NONE
    /\ \A sweep \in 0..MaxSweeps : [evidence |-> e, sweep |-> sweep] # NONE

VARIABLES
  bronze,    \* the files of each triple that have rows in bronze
  silver,    \* silver.evidence: what its rows say of each triple, NONE for no row
  sweeps,    \* sweeps started so far
  scenario,  \* the scenario the sweep is at
  phase,     \* of the sweep
  record,    \* the ExtractedEvidence in memory
  tries      \* failed attempts of the MERGE in progress

layer1Vars == <<bronze, silver, sweeps, scenario, phase, record, tries>>
sweepVars == <<sweeps, scenario, phase, record, tries>>

Phases == {"idle", "extract", "write", "done", "raised"}

\* An extraction and the sweep it was made by; what was there before is sweep 0.
Extracted(t, files, sweep) ==
  {[evidence |-> e, sweep |-> sweep] : e \in Extractions(t, files)}

\* Layer 1 has run once on what bronze holds.
Layer1Init ==
  /\ bronze \in FirstBronze
  /\ silver = [t \in Triples |->
                 IF bronze[t] = {} THEN NONE
                 ELSE CHOOSE x \in Extracted(t, bronze[t], 0) : TRUE]
  /\ sweeps = 0
  /\ scenario = 1
  /\ phase = "idle"
  /\ record = NONE
  /\ tries = 0

\* A replaced workpaper: its rows have a new hash and go in beside the old ones;
\* the rows of a file that is already there match and are left alone.
Ingest(t) ==
  /\ \E f \in Revisions[t] : bronze' = [bronze EXCEPT ![t] = @ \cup {f}]
  /\ UNCHANGED <<silver, sweepVars>>

StartSweep ==
  /\ phase \in {"idle", "done", "raised"}
  /\ sweeps < MaxSweeps
  /\ sweeps' = sweeps + 1
  /\ scenario' = 1
  /\ phase' = IF Order = <<>> THEN "done" ELSE "extract"
  /\ UNCHANGED <<bronze, silver, record, tries>>

SweepRaises == phase' = "raised" /\ record' = NONE /\ tries' = 0

\* extract: no rows is an ExtractionError, and a read that keeps failing raises;
\* the sweep catches neither.
ExtractScenario ==
  LET t == Order[scenario]
  IN  /\ phase = "extract"
      /\ \/ /\ record' \in Extracted(t, bronze[t], sweeps)
            /\ phase' = "write"
            /\ UNCHANGED tries
         \/ SweepRaises
      /\ UNCHANGED <<bronze, silver, sweeps, scenario>>

NextScenario ==
  /\ scenario' = scenario + 1
  /\ phase' = IF scenario = Len(Order) THEN "done" ELSE "extract"
  /\ record' = NONE
  /\ tries' = 0

\* The MERGE replaces every row of the triple at once.
MergeEvidence == silver' = [silver EXCEPT ![Order[scenario]] = record]

\* Mutant: a scenario that cannot be written is skipped.
MergeFailsSkips ==
  IF tries + 1 < MaxTries
    THEN tries' = tries + 1 /\ UNCHANGED <<scenario, phase, record>>
    ELSE NextScenario

\* Mutant: the retry never gives up.
MergeFailsForever == tries' = tries + 1 /\ UNCHANGED <<scenario, phase, record>>

MergeFails ==
  IF tries + 1 < MaxTries
    THEN tries' = tries + 1 /\ UNCHANGED <<scenario, phase, record>>
    ELSE SweepRaises /\ UNCHANGED scenario

WriteEvidence ==
  /\ phase = "write"
  /\ \/ MergeEvidence /\ NextScenario
     \/ MergeEvidence /\ MergeFails
     \/ UNCHANGED silver /\ MergeFails
  /\ UNCHANGED <<bronze, sweeps>>

SweepStep == ExtractScenario \/ WriteEvidence

Layer1Next == (\E t \in Triples : Ingest(t)) \/ StartSweep \/ SweepStep

----------------------------------------------------------------------------
(* A sweep that ends without raising has replaced the evidence of every one   *)
(* of its scenarios (run_layer1.run_sweep: write_evidence retries, a committed *)
(* attempt may still raise, and nothing is caught).                           *)
FinishedSweepIsStored ==
  phase = "done" =>
    \A i \in DOMAIN Order : silver[Order[i]] # NONE /\ silver[Order[i]].sweep = sweeps

(* models/evidence.py:102 promises, with the checks, "a SHA256 hash of the    *)
(* source bronze file for lineage": what silver says of a triple is what the  *)
(* checks say of that file alone.                                             *)
EvidenceIsOfItsSourceFile ==
  \A t \in Triples : silver[t] # NONE =>
    \E f \in bronze[t] : silver[t].evidence \in Extractions(t, {f})
=============================================================================
