------------------------------- MODULE Layer2 -------------------------------
(***************************************************************************)
(* Layer 2 around the warehouse tables: operators start command-line runs  *)
(* of the narrative sweep (scripts/run_layer2.py), the judge sweep         *)
(* (scripts/run_judge_sweep.py) and the re-fact-check                      *)
(* (scripts/re_fact_check.py) for one engagement and prompt version, while *)
(* Layer 1 re-extracts silver evidence.  Nothing orders these runs: each   *)
(* works on what it has read, and writes by key.                           *)
(*                                                                         *)
(* Texts, evidence and verdicts are represented by where they come from: a *)
(* text by the generate() call that produced it, evidence by the number of *)
(* its extraction, a fact-check verdict by the text and the evidence that  *)
(* FactChecker.check, a function of the two, was given.                    *)
(***************************************************************************)
EXTENDS NarrativeGenerator, Judge, Sequences, FiniteSetsExt, Functions

CONSTANTS
  Rechecks,    \* runs of scripts/re_fact_check.py
  Order,       \* the narratable combinations, in the order of the sweeps
  TripleOf,    \* the (engagement, control, quarter) of a combination
  MaxVersion,  \* bound: extractions of one triple
  MaxRuns,     \* bound: runs that operators start
  MaxAttempts, \* stop_after_attempt of the writers
  HISTORICAL,  \* the generation_run_id of the baseline that was there before
  NULL

Combos == Range(Order)
Triples == Range(TripleOf)
Billing == Sweeps \cup Judgings
Processes == Billing \cup Rechecks

ASSUME OrderAssumption == /\ Order \in Seq(Combos) /\ Order # <<>> /\ IsInjective(Order)
                          /\ TripleOf \in [Combos -> Triples]
ASSUME BoundsAssumption == MaxVersion \in Nat \ {0} /\ MaxRuns \in Nat /\ MaxAttempts \in Nat \ {0}
ASSUME DistinctRuns == /\ Sweeps \cap Judgings = {} /\ Billing \cap Rechecks = {}
                       /\ HISTORICAL \notin Processes /\ NULL \notin Processes \cup {HISTORICAL}

NarrativeTexts == (Sweeps \cup {HISTORICAL}) \X Combos
FactCheckVerdicts == [text : NarrativeTexts, evidence : 1..MaxVersion]
NarrativeRows ==
  [text : NarrativeTexts, narrative_call_id : NarrativeTexts \cup {NULL},
   generation_run_id : Sweeps \cup {HISTORICAL}, evidence : 1..MaxVersion,
   verdict : FactCheckVerdicts]
OutcomeRows ==
  [narrative_run_id : NarrativeTexts \cup Sweeps \cup {HISTORICAL}, judged : NarrativeTexts,
   evidence : 1..MaxVersion, fact_check_verdict : FactCheckVerdicts]

ASSUME NullAssumption == /\ {NULL, HISTORICAL} \cap NarrativeTexts = {}
                         /\ NULL \notin NarrativeRows

VARIABLES
  stage,      \* where each run is
  todo,       \* the places in Order its loop has left
  cache,      \* its silver_cache: the extraction of each triple, 0 while absent
  snapshot,   \* the narratives a judge sweep or re-fact-check has listed
  attempt,    \* failed attempts of the write in progress
  counted,    \* the combinations in n_total of a judge sweep
  silver,     \* silver.evidence: the extraction of each triple, 0 for none
  narratives, \* gold.narratives: the row of each combination
  outcomes,   \* gold.judge_outcomes: the row of a judge sweep and a combination ...
  copies,     \* ... and how often it was inserted
  cost_rows   \* gold.cost_telemetry: the runs that have their row

runVars == <<stage, todo, cache, snapshot, attempt, counted>>
tables == <<silver, narratives, outcomes, copies, cost_rows>>
vars == <<runVars, tables, generatorVars, judgeVars>>

Stages == {"idle", "evidence", "llm", "write", "cost", "done", "raised", "died"}
Running == {"evidence", "llm", "write", "cost"}
Ended == {"done", "raised", "died"}

NoNarratives == [c \in Combos |-> NULL]

\* A row written before the narrative_call_id column existed.
HistoricalRow(c) ==
  [text |-> <<HISTORICAL, c>>, narrative_call_id |-> NULL,
   generation_run_id |-> HISTORICAL, evidence |-> 1,
   verdict |-> [text |-> <<HISTORICAL, c>>, evidence |-> 1]]

\* The tables may hold an earlier baseline of evidence and narratives.
Layer2Init ==
  /\ GeneratorInit
  /\ JudgeInit
  /\ stage = [p \in Processes |-> "idle"]
  /\ todo = [p \in Processes |-> {}]
  /\ cache = [p \in Processes |-> [t \in Triples |-> 0]]
  /\ snapshot = [p \in Judgings \cup Rechecks |-> NoNarratives]
  /\ attempt = [p \in Processes |-> 0]
  /\ counted = [j \in Judgings |-> {}]
  /\ \/ /\ silver = [t \in Triples |-> 0]
        /\ narratives = NoNarratives
     \/ /\ silver = [t \in Triples |-> 1]
        /\ \E old \in SUBSET Combos :
             narratives = [c \in Combos |-> IF c \in old THEN HistoricalRow(c) ELSE NULL]
  /\ outcomes = [j \in Judgings |-> NoNarratives]
  /\ copies = [j \in Judgings |-> [c \in Combos |-> 0]]
  /\ cost_rows = {}
-----------------------------------------------------------------------------
(* What the three loops share *)

At(p, from) == stage[p] = from
To(p, to) == stage' = [stage EXCEPT ![p] = to]

\* An operator starts the run.
Launched(p) == At(p, "idle") /\ Cardinality({q \in Processes : ~At(q, "idle")}) < MaxRuns

\* The loops go through their lists in order.
Combo(p) == Order[Min(todo[p])]
Triple(p) == TripleOf[Combo(p)]

\* On to the next combination, or past the loop once there is none.
NextCombo(p, afterwards) ==
  /\ todo' = [todo EXCEPT ![p] = @ \ {Min(@)}]
  /\ To(p, IF todo[p] = {Min(todo[p])} THEN afterwards ELSE "evidence")
  /\ attempt' = [attempt EXCEPT ![p] = 0]

\* Mutant: no silver_cache.
EvidenceInHandUncached(p) ==
  /\ silver[Triple(p)] # 0
  /\ cache' = [cache EXCEPT ![p][Triple(p)] = silver[Triple(p)]]

\* The cached evidence of the triple, or what silver holds now.
EvidenceInHand(p) ==
  IF cache[p][Triple(p)] # 0
  THEN UNCHANGED cache
  ELSE /\ silver[Triple(p)] # 0
       /\ cache' = [cache EXCEPT ![p][Triple(p)] = silver[Triple(p)]]

\* Mutant: no rows yet means waiting for Layer 1.
EvidenceMissingWaits(p) ==
  cache[p][Triple(p)] = 0 /\ silver[Triple(p)] # 0 /\ UNCHANGED cache

\* All read attempts failed, or silver has no row for the triple.
EvidenceMissing(p) == cache[p][Triple(p)] = 0 /\ UNCHANGED cache

Evidence(p) == cache[p][Triple(p)]

\* Mutant: one attempt too many.
AgainOffByOne(p) ==
  /\ attempt[p] < MaxAttempts
  /\ attempt' = [attempt EXCEPT ![p] = @ + 1]
  /\ UNCHANGED <<stage, todo>>

\* tenacity: try the same write again.
Again(p) ==
  /\ attempt[p] + 1 < MaxAttempts
  /\ attempt' = [attempt EXCEPT ![p] = @ + 1]
  /\ UNCHANGED <<stage, todo>>

LastAttempt(p) == attempt[p] + 1 = MaxAttempts

\* The MERGE of the run's one cost row, after its loop.
WriteCost(p) ==
  /\ At(p, "cost")
  /\ LET Merge == cost_rows' = cost_rows \cup {p}
     IN \/ Merge /\ To(p, "done") /\ UNCHANGED <<todo, attempt>>
        \/ (Merge \/ UNCHANGED cost_rows) /\ Again(p)
        \/ /\ Merge \/ UNCHANGED cost_rows
           /\ LastAttempt(p) /\ To(p, "raised") /\ UNCHANGED <<todo, attempt>>
  /\ UNCHANGED <<cache, snapshot, counted, silver, narratives, outcomes, copies,
                 generatorVars, judgeVars>>
-----------------------------------------------------------------------------
(* scripts/run_layer1.py, as Layer 2 sees it: one MERGE replaces a triple's rows. *)

Extract(t) ==
  /\ silver[t] < MaxVersion
  /\ silver' = [silver EXCEPT ![t] = @ + 1]
  /\ UNCHANGED <<runVars, narratives, outcomes, copies, cost_rows, generatorVars, judgeVars>>
-----------------------------------------------------------------------------
(* scripts/run_layer2.py *)

SweepStart(s) ==
  /\ Launched(s)
  /\ To(s, "evidence")
  /\ todo' = [todo EXCEPT ![s] = DOMAIN Order]
  /\ UNCHANGED <<cache, snapshot, attempt, counted, tables, generatorVars, judgeVars>>

SweepEvidence(s) ==
  /\ At(s, "evidence")
  /\ \/ EvidenceInHand(s) /\ Generate(s) /\ To(s, "llm") /\ UNCHANGED <<todo, attempt>>
     \/ EvidenceMissing(s) /\ NextCombo(s, "cost") /\ UNCHANGED generatorVars
  /\ UNCHANGED <<snapshot, counted, tables, judgeVars>>

SweepGenerates(s) ==
  /\ At(s, "llm")
  /\ GeneratorCalls(s)
  /\ UNCHANGED <<runVars, tables, judgeVars>>

SweepGenerateRaises(s) ==
  /\ At(s, "llm")
  /\ GenerateTaken(s, "raised")
  /\ NextCombo(s, "cost")
  /\ UNCHANGED <<cache, snapshot, counted, tables, judgeVars>>

\* Mutant: the call id is minted once per sweep.
NewCallIdPerSweep(s) == <<s, Order[1]>>

\* The id minted for this call of generate.
NewCallId(s) == <<s, Combo(s)>>

\* The narrative with the verdict on it, from the evidence it was generated from.
NarrativeRecord(s) ==
  [text |-> <<s, Combo(s)>>, narrative_call_id |-> NewCallId(s),
   generation_run_id |-> s, evidence |-> Evidence(s),
   verdict |-> [text |-> <<s, Combo(s)>>, evidence |-> Evidence(s)]]

SweepChecks(s) ==
  /\ At(s, "llm")
  /\ GenerateTaken(s, "returned")
  /\ To(s, "write")
  /\ UNCHANGED <<todo, cache, snapshot, attempt, counted, tables, judgeVars>>

\* The MERGE replaces every column of the combination's row.
MergeNarrative(s) == narratives' = [narratives EXCEPT ![Combo(s)] = NarrativeRecord(s)]

SweepWrite(s) ==
  /\ At(s, "write")
  /\ \/ MergeNarrative(s) /\ NextCombo(s, "cost")
     \/ (MergeNarrative(s) \/ UNCHANGED narratives) /\ Again(s)
     \/ UNCHANGED narratives /\ LastAttempt(s) /\ NextCombo(s, "cost")
  /\ UNCHANGED <<cache, snapshot, counted, silver, outcomes, copies, cost_rows,
                 generatorVars, judgeVars>>

SweepStep(s) ==
  \/ SweepEvidence(s)
  \/ SweepGenerates(s)
  \/ SweepGenerateRaises(s)
  \/ SweepChecks(s)
  \/ SweepWrite(s)
  \/ WriteCost(s)
-----------------------------------------------------------------------------
(* scripts/run_judge_sweep.py *)

Listed == {i \in DOMAIN Order : narratives[Order[i]] # NULL}

\* iter_narratives, with its retries: the cohort as it is now, or an exception when
\* the read fails or there is no row.
JudgeStart(j) ==
  /\ Launched(j)
  /\ \/ /\ narratives # NoNarratives
        /\ snapshot' = [snapshot EXCEPT ![j] = narratives]
        /\ todo' = [todo EXCEPT ![j] = Listed]
        /\ To(j, "evidence")
     \/ To(j, "raised") /\ UNCHANGED <<todo, snapshot>>
  /\ UNCHANGED <<cache, attempt, counted, tables, generatorVars, judgeVars>>

\* With the evidence in hand, the gold lookup or the prompt may still fail.
JudgeEvidence(j) ==
  /\ At(j, "evidence")
  /\ \/ EvidenceInHand(j) /\ Evaluate(j) /\ To(j, "llm") /\ UNCHANGED <<todo, attempt>>
     \/ (EvidenceInHand(j) \/ EvidenceMissing(j)) /\ NextCombo(j, "cost") /\ UNCHANGED judgeVars
  /\ UNCHANGED <<snapshot, counted, tables, generatorVars>>

JudgeEvaluates(j) ==
  /\ At(j, "llm")
  /\ JudgeCalls(j)
  /\ UNCHANGED <<runVars, tables, generatorVars>>

JudgeEvaluateRaises(j) ==
  /\ At(j, "llm")
  /\ EvaluateTaken(j, "raised")
  /\ NextCombo(j, "cost")
  /\ UNCHANGED <<cache, snapshot, counted, tables, generatorVars>>

JudgeReturns(j) ==
  /\ At(j, "llm")
  /\ EvaluateTaken(j, "returned")
  /\ To(j, "write")
  /\ UNCHANGED <<todo, cache, snapshot, attempt, counted, tables, generatorVars>>

\* narrative_call_id, or generation_run_id for a historical row.
NarrativeRunId(row) ==
  IF row.narrative_call_id # NULL THEN row.narrative_call_id ELSE row.generation_run_id

\* Mutant: the outcome is joined to the row as it is now, not as it was judged.
JudgeOutcomeRowNow(j) ==
  LET row == narratives[Combo(j)]
  IN [narrative_run_id |-> NarrativeRunId(row), judged |-> row.text,
      evidence |-> Evidence(j), fact_check_verdict |-> row.verdict]

JudgeOutcomeRow(j) ==
  LET row == snapshot[j][Combo(j)]
  IN [narrative_run_id |-> NarrativeRunId(row), judged |-> row.text,
      evidence |-> Evidence(j), fact_check_verdict |-> row.verdict]

InsertOutcome(j) ==
  /\ outcomes' = [outcomes EXCEPT ![j][Combo(j)] = JudgeOutcomeRow(j)]
  /\ copies' = [copies EXCEPT ![j][Combo(j)] = @ + 1]

NoInsert == UNCHANGED <<outcomes, copies>>

Count(j) == counted' = [counted EXCEPT ![j] = @ \cup {Combo(j)}]

\* Mutant: a row that could not be written is counted all the same.
JudgeGivesUpCounted(j) ==
  NoInsert /\ LastAttempt(j) /\ NextCombo(j, "cost") /\ Count(j)

\* The last attempt raised and the sweep's except clause skips the row: not counted,
\* although the INSERT may have been committed.
JudgeGivesUp(j) ==
  (InsertOutcome(j) \/ NoInsert) /\ LastAttempt(j) /\ NextCombo(j, "cost") /\ UNCHANGED counted

JudgeWrite(j) ==
  /\ At(j, "write")
  /\ \/ InsertOutcome(j) /\ NextCombo(j, "cost") /\ Count(j)
     \/ (InsertOutcome(j) \/ NoInsert) /\ Again(j) /\ UNCHANGED counted
     \/ JudgeGivesUp(j)
  /\ UNCHANGED <<cache, snapshot, silver, narratives, cost_rows,
                 generatorVars, judgeVars>>

JudgeStep(j) ==
  \/ JudgeEvidence(j)
  \/ JudgeEvaluates(j)
  \/ JudgeEvaluateRaises(j)
  \/ JudgeReturns(j)
  \/ JudgeWrite(j)
  \/ WriteCost(j)
-----------------------------------------------------------------------------
(* scripts/re_fact_check.py; --dry-run, which only prints, is left out *)

RecheckStart(r) ==
  /\ Launched(r)
  /\ snapshot' = [snapshot EXCEPT ![r] = narratives]
  /\ todo' = [todo EXCEPT ![r] = Listed]
  /\ To(r, IF narratives = NoNarratives THEN "done" ELSE "evidence")
  /\ UNCHANGED <<cache, attempt, counted, tables, generatorVars, judgeVars>>

\* The SELECT failed.
RecheckStartRaises(r) ==
  /\ Launched(r)
  /\ To(r, "raised")
  /\ UNCHANGED <<todo, cache, snapshot, attempt, counted, tables, generatorVars, judgeVars>>

\* There is no catch around a row: missing evidence ends the run.
RecheckEvidence(r) ==
  /\ At(r, "evidence")
  /\ \/ EvidenceInHand(r) /\ To(r, "write")
     \/ EvidenceMissing(r) /\ To(r, "raised")
  /\ UNCHANGED <<todo, snapshot, attempt, counted, tables, generatorVars, judgeVars>>

Recheck(r) == [text |-> snapshot[r][Combo(r)].text, evidence |-> Evidence(r)]

\* Mutant: the row that was read is written back with the new verdict.
UpdateWholeRow(r) ==
  narratives' = [narratives EXCEPT ![Combo(r)] = [snapshot[r][Combo(r)] EXCEPT !.verdict = Recheck(r)]]

\* UPDATE ... SET the verdict columns WHERE the composite key: whichever text is there.
UpdateVerdict(r) == narratives' = [narratives EXCEPT ![Combo(r)].verdict = Recheck(r)]

\* One attempt; an exception ends the run.
RecheckWrite(r) ==
  /\ At(r, "write")
  /\ \/ UpdateVerdict(r) /\ NextCombo(r, "done")
     \/ (UpdateVerdict(r) \/ UNCHANGED narratives) /\ To(r, "raised") /\ UNCHANGED <<todo, attempt>>
  /\ UNCHANGED <<cache, snapshot, counted, silver, outcomes, copies, cost_rows,
                 generatorVars, judgeVars>>

RecheckStep(r) == RecheckEvidence(r) \/ RecheckWrite(r)
-----------------------------------------------------------------------------
\* A process is killed between two steps: what it has not written is gone.
Die(p) ==
  /\ stage[p] \in Running
  /\ To(p, "died")
  /\ todo' = [todo EXCEPT ![p] = {}]
  /\ cache' = [cache EXCEPT ![p] = [t \in Triples |-> 0]]
  /\ attempt' = [attempt EXCEPT ![p] = 0]
  /\ UNCHANGED <<snapshot, counted, tables, generatorVars, judgeVars>>

Layer2Next ==
  \/ \E t \in Triples : Extract(t)
  \/ \E s \in Sweeps : SweepStart(s) \/ SweepStep(s)
  \/ \E j \in Judgings : JudgeStart(j) \/ JudgeStep(j)
  \/ \E r \in Rechecks : RecheckStart(r) \/ RecheckStartRaises(r) \/ RecheckStep(r)
  \/ \E p \in Processes : Die(p)

\* A run that has been started keeps running until it ends or is killed.
Layer2Spec ==
  /\ Layer2Init /\ [][Layer2Next]_vars
  /\ \A s \in Sweeps : WF_vars(SweepStep(s))
  /\ \A j \in Judgings : WF_vars(JudgeStep(j))
  /\ \A r \in Rechecks : WF_vars(RecheckStep(r))
-----------------------------------------------------------------------------
\* The shapes of the tables and of the runs' state; in particular the retries of a
\* write stay below MaxAttempts, and a run past its loop has nothing left to do.
Layer2TypeOK ==
  /\ GeneratorTypeOK
  /\ JudgeTypeOK
  /\ stage \in [Processes -> Stages]
  /\ \A p \in Processes :
       /\ todo[p] \subseteq DOMAIN Order
       /\ stage[p] \in {"evidence", "llm", "write"} => todo[p] # {}
       /\ stage[p] = "cost" => todo[p] = {}
  /\ cache \in [Processes -> [Triples -> 0..MaxVersion]]
  /\ snapshot \in [Judgings \cup Rechecks -> [Combos -> NarrativeRows \cup {NULL}]]
  /\ attempt \in [Processes -> 0..(MaxAttempts - 1)]
  /\ counted \in [Judgings -> SUBSET Combos]
  /\ silver \in [Triples -> 0..MaxVersion]
  /\ narratives \in [Combos -> NarrativeRows \cup {NULL}]
  /\ outcomes \in [Judgings -> [Combos -> OutcomeRows \cup {NULL}]]
  /\ copies \in [Judgings -> [Combos -> 0..MaxAttempts]]
  /\ cost_rows \subseteq Billing

SameTriple(c, d) == TripleOf[c] = TripleOf[d]

\* However often Layer 1 re-extracts meanwhile, the narratives one sweep wrote for a
\* quarter of a control rest on the same extraction, and so do the judgements of one
\* judge sweep: a reader never sees half a quarter from each of two extractions.
OneExtractionPerRun ==
  \A c, d \in Combos : SameTriple(c, d) =>
    /\ (/\ narratives[c] # NULL /\ narratives[d] # NULL
        /\ narratives[c].generation_run_id = narratives[d].generation_run_id)
         => narratives[c].evidence = narratives[d].evidence
    /\ \A j \in Judgings :
         (outcomes[j][c] # NULL /\ outcomes[j][d] # NULL)
           => outcomes[j][c].evidence = outcomes[j][d].evidence

\* Whatever is rewritten while the judge works, an outcome whose narrative_run_id is
\* the call id of a stored narrative was rendered against that very text.
JoinFindsJudgedText ==
  \A j \in Judgings, c, d \in Combos :
    (/\ outcomes[j][c] # NULL /\ narratives[d] # NULL
     /\ outcomes[j][c].narrative_run_id = narratives[d].narrative_call_id)
    => outcomes[j][c].judged = narratives[d].text

\* The summary of a judge sweep never counts a narrative whose outcome is missing,
\* although writes fail and rows are skipped; and no outcome is stored of a narrative
\* that was not listed.
CountedOutcomesAreStored ==
  \A j \in Judgings, c \in Combos :
    /\ c \in counted[j] => copies[j][c] > 0
    /\ copies[j][c] > 0 => snapshot[j][c] # NULL

\* However the retries nest, a fifth completion for one narrative, or a third for one
\* judgement, is never asked for.
CallsBounded ==
  /\ \A s \in Sweeps : billed[s] < 4
  /\ \A j \in Judgings : judge_billed[j] < 2

\* The text of a stored narrative changes only while the sweep that generated the new
\* text is writing it, with its verdict: once that sweep has gone on, a text that was
\* replaced never comes back, and neither a judge sweep nor a re-fact-check brings in a
\* text.
TextsComeFromTheirSweep ==
  [][\A c \in Combos :
       \/ narratives'[c] = narratives[c]
       \/ /\ narratives[c] # NULL
          /\ narratives'[c] = [narratives[c] EXCEPT !.verdict = narratives'[c].verdict]
       \/ \E s \in Sweeps : /\ stage[s] = "write" /\ Combo(s) = c
                            /\ narratives'[c].text = <<s, c>>
                            /\ narratives'[c].verdict.text = <<s, c>>]_vars

\* Every run that was started ends, whatever fails and whatever the other runs do; and
\* a sweep or judge sweep that ends well has its cost row.
EveryRunEnds ==
  \A p \in Processes :
    (stage[p] \in Running)
      ~> (\/ stage[p] \in {"raised", "died"}
          \/ stage[p] = "done" /\ (p \in Billing => p \in cost_rows))

\* What infra/terraform/modules/databricks_uc/tables_gold.tf says of the column
\* fact_check_passed: it is FactChecker's verdict on the row's narrative_text.
VerdictIsAboutStoredText ==
  \A c \in Combos : narratives[c] # NULL => narratives[c].verdict.text = narratives[c].text
-----------------------------------------------------------------------------
(* What the tables promise their readers *)

TextOf(row) == IF row = NULL THEN NULL ELSE row.text

Texts(table) == [c \in Combos |-> TextOf(table[c])]

CheckedTexts == [c \in Combos |-> IF narratives[c] = NULL THEN NULL ELSE narratives[c].verdict.text]

JudgedTexts ==
  [j \in Judgings |->
     [c \in Combos |-> IF copies[j][c] = 0 THEN NULL ELSE outcomes[j][c].judged]]

\* The combinations a run has not passed, while it lives.
Ahead == [p \in Processes |-> {Order[i] : i \in IF stage[p] \in Running THEN todo[p] ELSE {}}]

Promise ==
  INSTANCE NarrativesContract WITH
    text    <- Texts(narratives),
    checked <- CheckedTexts,
    begun   <- {p \in Processes : stage[p] # "idle"},
    listed  <- [p \in Judgings \cup Rechecks |-> Texts(snapshot[p])],
    ahead   <- Ahead,
    judged  <- JudgedTexts

\* The scripts keep the promise without a lock or a transaction among them.
ImplementsNarrativesContract == Promise!Spec
=============================================================================
