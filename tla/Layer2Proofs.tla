---------------------------- MODULE Layer2Proofs ----------------------------
(***************************************************************************)
(* Proofs about Layer 2, for any number of sweeps, judge sweeps and        *)
(* re-fact-checks started in any order, any list of combinations and any   *)
(* number of extractions and write attempts.                               *)
(***************************************************************************)
EXTENDS Layer2, FiniteSetTheorems, WellFoundedInduction, TLAPS

Looping == {"evidence", "llm", "write"}
Readers == Judgings \cup Rechecks

\* The retry counters pay for every completion that was billed.
CallsInv ==
  /\ GeneratorTypeOK
  /\ JudgeTypeOK
  /\ \A s \in Sweeps : billed[s] <= 2 * (word_attempt[s] - 1) + json_attempt[s] - 1
  /\ \A j \in Judgings : judge_billed[j] <= judge_attempt[j] - 1

\* Where each run is in its loop; past the look-up of the evidence it is in the cache.
PlaceOK(p) ==
  /\ stage[p] \in Looping => todo[p] # {}
  /\ stage[p] = "cost" => todo[p] = {}
  /\ stage[p] \in {"llm", "write"} => cache[p][Triple(p)] # 0

LoopInv ==
  /\ stage \in [Processes -> Stages]
  /\ todo \in [Processes -> SUBSET DOMAIN Order]
  /\ cache \in [Processes -> [Triples -> 0..MaxVersion]]
  /\ attempt \in [Processes -> 0..(MaxAttempts - 1)]
  /\ silver \in [Triples -> 0..MaxVersion]
  /\ \A p \in Processes : PlaceOK(p)

\* A row's text is by the run it names, and its call id, if it has one, is of that text.
RowOf(row, c) ==
  /\ row.text = <<row.generation_run_id, c>>
  /\ row.narrative_call_id \in {NULL, row.text}
  /\ row.generation_run_id = HISTORICAL => row.evidence = 1
  /\ row.narrative_call_id = NULL => row.generation_run_id = HISTORICAL

RowsOf(table) ==
  /\ table \in [Combos -> NarrativeRows \cup {NULL}]
  /\ \A c \in Combos : table[c] # NULL => RowOf(table[c], c)

\* The stored narratives, and what the readers saw of them: a listed combination has a
\* row, then and ever after.
RowsInv ==
  /\ RowsOf(narratives)
  /\ snapshot \in [Readers -> [Combos -> NarrativeRows \cup {NULL}]]
  /\ \A p \in Readers :
       /\ RowsOf(snapshot[p])
       /\ \A c \in Combos : snapshot[p][c] # NULL => narratives[c] # NULL
       /\ \A i \in todo[p] : snapshot[p][Order[i]] # NULL

\* An outcome is of a stored text, named by its call id, or of a historical one.
OutcomesInv ==
  /\ outcomes \in [Judgings -> [Combos -> OutcomeRows \cup {NULL}]]
  /\ \A j \in Judgings, c \in Combos :
       outcomes[j][c] # NULL => outcomes[j][c].narrative_run_id \in {outcomes[j][c].judged, HISTORICAL}

\* What a living run wrote rests on the evidence in its cache.
EvidenceInv ==
  /\ OneExtractionPerRun
  /\ \A s \in Sweeps, c \in Combos :
       (narratives[c] # NULL /\ narratives[c].generation_run_id = s /\ stage[s] # "died")
         => narratives[c].evidence = cache[s][TripleOf[c]]
  /\ \A j \in Judgings, c \in Combos :
       (outcomes[j][c] # NULL /\ stage[j] # "died")
         => outcomes[j][c].evidence = cache[j][TripleOf[c]]

\* The attempts that may have inserted the outcome of place i.
Tried(j, i) == IF stage[j] = "write" /\ i = Min(todo[j]) THEN attempt[j] ELSE 0

CopiesInv ==
  /\ counted \in [Judgings -> SUBSET Combos]
  /\ copies \in [Judgings -> [Combos -> 0..MaxAttempts]]
  /\ CountedOutcomesAreStored
  /\ \A j \in Judgings :
       /\ stage[j] = "idle" => \A c \in Combos : copies[j][c] = 0
       /\ \A i \in todo[j] : copies[j][Order[i]] <= Tried(j, i)

Layer2Inv == CallsInv /\ LoopInv /\ RowsInv /\ OutcomesInv /\ EvidenceInv /\ CopiesInv
                      /\ cost_rows \subseteq Billing
-----------------------------------------------------------------------------
(* The constants *)

LEMMA Constants ==
  /\ MaxVersion \in Nat /\ MaxVersion >= 1 /\ 1 \in 1..MaxVersion
  /\ MaxAttempts \in Nat /\ MaxAttempts >= 1 /\ 0 \in 0..(MaxAttempts - 1)
BY BoundsAssumption

LEMMA OrderFacts ==
  /\ DOMAIN Order \subseteq Nat
  /\ DOMAIN Order # {}
  /\ \A i \in DOMAIN Order : Order[i] \in Combos /\ TripleOf[Order[i]] \in Triples
  /\ \A i, k \in DOMAIN Order : Order[i] = Order[k] => i = k
  /\ \A c \in Combos : TripleOf[c] \in Triples
  /\ \A c \in Combos : \E i \in DOMAIN Order : c = Order[i]
<1>1. Order \in Seq(Combos) /\ TripleOf \in [Combos -> Triples]
  BY OrderAssumption
<1>2. DOMAIN Order \subseteq Nat /\ \A i \in DOMAIN Order : Order[i] \in Combos
  BY <1>1
<1>3. DOMAIN Order # {}
  <2>1. /\ Len(Order) \in Nat /\ DOMAIN Order = 1..Len(Order)
        /\ Order = <<>> <=> Len(Order) = 0
    BY <1>1
  <2>2. 1 \in DOMAIN Order
    BY <2>1, OrderAssumption
  <2> QED  BY <2>2
<1>4. \A i, k \in DOMAIN Order : Order[i] = Order[k] => i = k
  BY OrderAssumption DEF IsInjective
<1>5. \A c \in Combos : \E i \in DOMAIN Order : c = Order[i]
  BY DEF Combos, Range
<1> QED  BY <1>1, <1>2, <1>3, <1>4, <1>5

\* A set of naturals that is not empty holds its minimum.
LEMMA MinFacts ==
  ASSUME NEW S \in SUBSET Nat, S # {}
  PROVE  Min(S) \in S
<1>1. PICK x \in S : \A y \in S : ~(<<y, x>> \in OpToRel(<, Nat))
  BY WFMin, NatLessThanWellFounded
<1>2. \A y \in S : ~(y < x)
  BY <1>1 DEF OpToRel
<1>3. \A y \in S : x =< y
  BY <1>2
<1> QED  BY <1>3 DEF Min

\* A run in its loop is at a combination of the list.
LEMMA AtCombo ==
  ASSUME LoopInv, NEW p \in Processes, stage[p] \in Looping
  PROVE  /\ Min(todo[p]) \in todo[p] /\ Min(todo[p]) \in DOMAIN Order
         /\ Combo(p) \in Combos /\ Triple(p) \in Triples
<1>1. todo[p] \in SUBSET DOMAIN Order /\ todo[p] # {}
  BY DEF LoopInv, PlaceOK
<1>2. Min(todo[p]) \in todo[p]
  BY <1>1, MinFacts, OrderFacts
<1> QED  BY <1>1, <1>2, OrderFacts DEF Combo, Triple
-----------------------------------------------------------------------------
(* The retries *)

LEMMA CallsInit == Layer2Init => CallsInv
BY DEF Layer2Init, GeneratorInit, JudgeInit, CallsInv, GeneratorTypeOK, JudgeTypeOK

LEMMA GeneratorPays ==
  ASSUME CallsInv, NEW s \in Sweeps,
         Generate(s) \/ GeneratorCalls(s) \/ (\E how \in {"returned", "raised"} : GenerateTaken(s, how))
  PROVE  /\ GeneratorTypeOK'
         /\ \A q \in Sweeps : billed'[q] <= 2 * (word_attempt'[q] - 1) + json_attempt'[q] - 1
<1> USE DEF GeneratorTo, GenerateEnds, Bill
<1> DEFINE Paid(q) == billed[q] <= 2 * (word_attempt[q] - 1) + json_attempt[q] - 1
           Same(q) == /\ billed'[q] = billed[q] /\ word_attempt'[q] = word_attempt[q]
                      /\ json_attempt'[q] = json_attempt[q]
<1>0. /\ GeneratorTypeOK
      /\ \A q \in Sweeps : /\ word_attempt[q] \in {1, 2} /\ json_attempt[q] \in {1, 2}
                           /\ billed[q] \in Nat /\ Paid(q)
  BY DEF CallsInv, GeneratorTypeOK
<1>1. CASE Generate(s) \/ \E how \in {"returned", "raised"} : GenerateTaken(s, how)
  BY <1>0, <1>1 DEF Generate, GenerateTaken, GeneratorTypeOK
<1>2. ASSUME NEW how \in {"returned", "raised"}, GenerateEnds(s, how)
      PROVE  GeneratorTypeOK' /\ \A q \in Sweeps : Paid(q)'
  <2>1. GeneratorTypeOK'
    BY <1>0, <1>2 DEF GeneratorTypeOK
  <2>2. billed'[s] = 0 /\ word_attempt'[s] = 1 /\ json_attempt'[s] = 1
    BY <1>0, <1>2 DEF GeneratorTypeOK
  <2>3. \A q \in Sweeps : q # s => Same(q)
    BY <1>0, <1>2 DEF GeneratorTypeOK
  <2> QED  BY <1>0, <2>1, <2>2, <2>3
<1>3. CASE CompletionMalformed(s) /\ json_attempt[s] = 1
  <2>1. GeneratorTypeOK'
    BY <1>0, <1>3 DEF GeneratorTypeOK, CompletionMalformed
  <2>2. billed'[s] = billed[s] + 1 /\ word_attempt'[s] = word_attempt[s] /\ json_attempt'[s] = 2
    BY <1>0, <1>3 DEF GeneratorTypeOK, CompletionMalformed
  <2>3. \A q \in Sweeps : q # s => Same(q)
    BY <1>0, <1>3 DEF GeneratorTypeOK, CompletionMalformed
  <2>4. Paid(s)'
    BY <1>0, <1>3, <2>2
  <2> QED  BY <1>0, <2>1, <2>3, <2>4
<1>4. CASE CompletionTooLong(s)
  <2>1. GeneratorTypeOK'
    BY <1>0, <1>4 DEF GeneratorTypeOK, CompletionTooLong
  <2>2. billed'[s] = billed[s] + 1 /\ word_attempt[s] = 1 /\ word_attempt'[s] = 2 /\ json_attempt'[s] = 1
    BY <1>0, <1>4 DEF GeneratorTypeOK, CompletionTooLong
  <2>3. \A q \in Sweeps : q # s => Same(q)
    BY <1>0, <1>4 DEF GeneratorTypeOK, CompletionTooLong
  <2>4. Paid(s)'
    BY <1>0, <2>2
  <2> QED  BY <1>0, <2>1, <2>3, <2>4
<1> QED  BY <1>1, <1>2, <1>3, <1>4
         DEF GeneratorCalls, CompletionRaises, CompletionAccepted, CompletionMalformed

LEMMA JudgePays ==
  ASSUME CallsInv, NEW j \in Judgings,
         Evaluate(j) \/ JudgeCalls(j) \/ (\E how \in {"returned", "raised"} : EvaluateTaken(j, how))
  PROVE  /\ JudgeTypeOK'
         /\ \A q \in Judgings : judge_billed'[q] <= judge_attempt'[q] - 1
<1> USE DEF CallsInv, JudgeTypeOK, JudgeTo, EvaluateEnds, JudgeAgain
<1>1. CASE Evaluate(j)
  BY <1>1 DEF Evaluate
<1>2. CASE JudgementRaises(j)
  BY <1>2 DEF JudgementRaises
<1>3. CASE JudgementUnusable(j)
  BY <1>3 DEF JudgementUnusable
<1>4. CASE JudgementParsed(j) \/ JudgementNotAnObject(j)
  BY <1>4 DEF JudgementParsed, JudgementNotAnObject
<1>5. CASE \E how \in {"returned", "raised"} : EvaluateTaken(j, how)
  BY <1>5 DEF EvaluateTaken
<1> QED  BY <1>1, <1>2, <1>3, <1>4, <1>5 DEF JudgeCalls

\* A step is a call's, or leaves both kinds of calls alone.
LEMMA CallSteps ==
  ASSUME [Layer2Next]_vars
  PROVE  /\ \/ UNCHANGED generatorVars
            \/ \E s \in Sweeps : \/ Generate(s) \/ GeneratorCalls(s)
                                 \/ \E how \in {"returned", "raised"} : GenerateTaken(s, how)
         /\ \/ UNCHANGED judgeVars
            \/ \E j \in Judgings : \/ Evaluate(j) \/ JudgeCalls(j)
                                   \/ \E how \in {"returned", "raised"} : EvaluateTaken(j, how)
<1> DEFINE G == \/ UNCHANGED generatorVars
                \/ \E s \in Sweeps : \/ Generate(s) \/ GeneratorCalls(s)
                                     \/ \E how \in {"returned", "raised"} : GenerateTaken(s, how)
           J == \/ UNCHANGED judgeVars
                \/ \E j \in Judgings : \/ Evaluate(j) \/ JudgeCalls(j)
                                       \/ \E how \in {"returned", "raised"} : EvaluateTaken(j, how)
<1>1. ASSUME NEW s \in Sweeps, SweepStart(s) \/ SweepStep(s) PROVE G /\ J
  BY <1>1 DEF SweepStart, SweepStep, SweepEvidence, SweepGenerates, SweepGenerateRaises,
              SweepChecks, SweepWrite, WriteCost
<1>2. ASSUME NEW j \in Judgings, JudgeStart(j) \/ JudgeStep(j) PROVE G /\ J
  BY <1>2 DEF JudgeStart, JudgeStep, JudgeEvidence, JudgeEvaluates, JudgeEvaluateRaises,
              JudgeReturns, JudgeWrite, WriteCost
<1>3. ASSUME NEW r \in Rechecks, RecheckStart(r) \/ RecheckStartRaises(r) \/ RecheckStep(r) PROVE G /\ J
  BY <1>3 DEF RecheckStart, RecheckStartRaises, RecheckStep, RecheckEvidence, RecheckWrite
<1>4. ASSUME NEW p \in Processes, Die(p) PROVE G /\ J
  BY <1>4 DEF Die
<1>5. ASSUME NEW t \in Triples, Extract(t) PROVE G /\ J
  BY <1>5 DEF Extract
<1>6. ASSUME UNCHANGED vars PROVE G /\ J
  <2>1. UNCHANGED generatorVars /\ UNCHANGED judgeVars
    BY <1>6 DEF vars, generatorVars, judgeVars
  <2> QED  BY <2>1
<1> HIDE DEF G, J
<1>7. G /\ J
  BY <1>1, <1>2, <1>3, <1>4, <1>5, <1>6 DEF Layer2Next
<1> QED  BY <1>7 DEF G, J

LEMMA CallsNext ==
  ASSUME CallsInv, [Layer2Next]_vars
  PROVE  CallsInv'
<1>1. /\ GeneratorTypeOK'
      /\ \A q \in Sweeps : billed'[q] <= 2 * (word_attempt'[q] - 1) + json_attempt'[q] - 1
  <2>1. CASE UNCHANGED generatorVars
    BY <2>1 DEF CallsInv, GeneratorTypeOK, generatorVars
  <2> QED  BY <2>1, CallSteps, GeneratorPays
<1>2. /\ JudgeTypeOK'
      /\ \A q \in Judgings : judge_billed'[q] <= judge_attempt'[q] - 1
  <2>1. CASE UNCHANGED judgeVars
    BY <2>1 DEF CallsInv, JudgeTypeOK, judgeVars
  <2> QED  BY <2>1, CallSteps, JudgePays
<1> QED  BY <1>1, <1>2 DEF CallsInv

\* However the retries nest, a call ends within its four or two completions.
LEMMA CallsInvBounds == CallsInv => CallsBounded
BY DEF CallsInv, CallsBounded, GeneratorTypeOK, JudgeTypeOK
-----------------------------------------------------------------------------
(* The loops *)

LEMMA LookUp ==
  ASSUME LoopInv, NEW p \in Processes, stage[p] \in Looping, EvidenceInHand(p)
  PROVE  /\ cache' \in [Processes -> [Triples -> 0..MaxVersion]]
         /\ cache'[p][Triple(p)] # 0
         /\ \A q \in Processes, t \in Triples : cache[q][t] # 0 => cache'[q][t] = cache[q][t]
         /\ \A q \in Processes : q # p => cache'[q] = cache[q]
<1>1. Triple(p) \in Triples
  BY AtCombo
<1>2. CASE cache[p][Triple(p)] # 0
  BY <1>2 DEF EvidenceInHand, LoopInv
<1>3. CASE cache[p][Triple(p)] = 0
  <2> DEFINE t == Triple(p)
  <2>1. /\ cache' = [cache EXCEPT ![p][t] = silver[t]] /\ silver[t] # 0
        /\ silver[t] \in 0..MaxVersion /\ t \in Triples
        /\ cache \in [Processes -> [Triples -> 0..MaxVersion]] /\ cache[p][t] = 0
    BY <1>1, <1>3 DEF EvidenceInHand, LoopInv
  <2> HIDE DEF t
  <2>2. cache'[p] = [cache[p] EXCEPT ![t] = silver[t]] /\ cache[p] \in [Triples -> 0..MaxVersion]
    BY <2>1
  <2>3. \A q \in Processes : q # p => cache'[q] = cache[q]
    BY <2>1
  <2>4. cache' \in [Processes -> [Triples -> 0..MaxVersion]]
    BY <2>1
  <2>5. cache'[p][t] # 0 /\ \A u \in Triples : u # t => cache'[p][u] = cache[p][u]
    BY <2>1, <2>2
  <2> QED  BY <2>1, <2>3, <2>4, <2>5 DEF t
<1> QED  BY <1>2, <1>3

LEMMA NextKeeps ==
  ASSUME LoopInv, NEW p \in Processes, stage[p] \in Looping,
         NEW after \in {"cost", "done"}, NextCombo(p, after)
  PROVE  /\ stage' \in [Processes -> Stages]
         /\ todo' \in [Processes -> SUBSET DOMAIN Order]
         /\ attempt' \in [Processes -> 0..(MaxAttempts - 1)]
         /\ todo'[p] \subseteq todo[p] /\ Min(todo[p]) \notin todo'[p]
         /\ stage'[p] \in {"evidence", after}
         /\ stage'[p] = "evidence" => todo'[p] # {}
         /\ stage'[p] = after => todo'[p] = {}
         /\ \A q \in Processes : q # p => /\ stage'[q] = stage[q] /\ todo'[q] = todo[q]
                                          /\ attempt'[q] = attempt[q]
<1> DEFINE m == Min(todo[p])
<1>1. m \in todo[p] /\ todo[p] \in SUBSET DOMAIN Order
  BY AtCombo DEF LoopInv
<1>2. /\ stage' = [stage EXCEPT ![p] = IF todo[p] = {m} THEN after ELSE "evidence"]
      /\ todo' = [todo EXCEPT ![p] = todo[p] \ {m}]
      /\ attempt' = [attempt EXCEPT ![p] = 0]
  BY DEF NextCombo, To, LoopInv
<1> HIDE DEF m
<1>3. /\ stage' \in [Processes -> Stages] /\ attempt' \in [Processes -> 0..(MaxAttempts - 1)]
      /\ todo' \in [Processes -> SUBSET DOMAIN Order]
  BY <1>1, <1>2, Constants DEF LoopInv, Stages
<1>4. todo'[p] = todo[p] \ {m} /\ stage'[p] = IF todo[p] = {m} THEN after ELSE "evidence"
  BY <1>2 DEF LoopInv
<1>5. \A q \in Processes : q # p => /\ stage'[q] = stage[q] /\ todo'[q] = todo[q]
                                    /\ attempt'[q] = attempt[q]
  BY <1>2 DEF LoopInv
<1>6. todo[p] # {m} => todo[p] \ {m} # {}
  BY <1>1
<1>7. /\ m \notin todo'[p] /\ todo'[p] \subseteq todo[p] /\ stage'[p] \in {"evidence", after}
      /\ stage'[p] = "evidence" => todo'[p] # {}
      /\ stage'[p] = after => todo'[p] = {}
  BY <1>4, <1>6
<1> QED  BY <1>3, <1>5, <1>7 DEF m

\* A step of one run leaves the others where they are.
LEMMA OneMoves ==
  ASSUME LoopInv, NEW p \in Processes,
         /\ stage' \in [Processes -> Stages]
         /\ todo' \in [Processes -> SUBSET DOMAIN Order]
         /\ cache' \in [Processes -> [Triples -> 0..MaxVersion]]
         /\ attempt' \in [Processes -> 0..(MaxAttempts - 1)]
         /\ silver' = silver,
         \A q \in Processes : q # p => /\ stage'[q] = stage[q] /\ todo'[q] = todo[q]
                                       /\ cache'[q] = cache[q],
         PlaceOK(p)'
  PROVE  LoopInv'
<1>1. \A q \in Processes : q # p => PlaceOK(q)'
  BY DEF LoopInv, PlaceOK, Triple, Combo
<1> QED  BY <1>1 DEF LoopInv

LEMMA LoopInit == Layer2Init => LoopInv
<1> SUFFICES ASSUME Layer2Init PROVE LoopInv
  OBVIOUS
<1>1. silver \in [Triples -> 0..MaxVersion]
  BY Constants DEF Layer2Init
<1>2. /\ stage \in [Processes -> Stages] /\ todo \in [Processes -> SUBSET DOMAIN Order]
      /\ cache \in [Processes -> [Triples -> 0..MaxVersion]]
      /\ attempt \in [Processes -> 0..(MaxAttempts - 1)]
  BY Constants DEF Layer2Init, Stages
<1>3. \A p \in Processes : PlaceOK(p)
  BY DEF Layer2Init, PlaceOK, Looping
<1> QED  BY <1>1, <1>2, <1>3 DEF LoopInv

\* If there are narratives, they are listed.
LEMMA ListedFacts ==
  ASSUME RowsInv
  PROVE  Listed \in SUBSET DOMAIN Order /\ (narratives # NoNarratives => Listed # {})
<1>1. narratives \in [Combos -> NarrativeRows \cup {NULL}]
  BY DEF RowsInv, RowsOf
<1>2. ASSUME narratives # NoNarratives PROVE Listed # {}
  <2>1. PICK c \in Combos : narratives[c] # NULL
    BY <1>1, <1>2 DEF NoNarratives
  <2>2. PICK i \in DOMAIN Order : c = Order[i]
    BY OrderFacts
  <2> QED  BY <2>1, <2>2 DEF Listed
<1> QED  BY <1>2 DEF Listed

\* On to the next combination, whatever happened to the last one.
LEMMA LoopGoesOn ==
  ASSUME LoopInv, NEW p \in Processes, stage[p] \in Looping,
         NEW after \in {"cost", "done"}, NextCombo(p, after), silver' = silver,
         UNCHANGED cache \/ EvidenceInHand(p)
  PROVE  LoopInv'
<1>1. /\ cache' \in [Processes -> [Triples -> 0..MaxVersion]]
      /\ \A q \in Processes : q # p => cache'[q] = cache[q]
  BY LookUp DEF LoopInv
<1>2. PlaceOK(p)'
  BY NextKeeps DEF PlaceOK, Looping
<1> QED  BY <1>1, <1>2, NextKeeps, OneMoves

\* The run moves within its loop, or leaves it, with the same list.
LEMMA LoopMoves ==
  ASSUME LoopInv, NEW p \in Processes, NEW to \in Stages, To(p, to),
         UNCHANGED <<todo, attempt, silver>>,
         \/ UNCHANGED cache /\ to \notin Looping \cup {"cost"}
         \/ UNCHANGED cache /\ stage[p] = "llm" /\ to = "write"
         \/ stage[p] \in Looping /\ EvidenceInHand(p) /\ to \in Looping
  PROVE  LoopInv'
<1>1. stage' = [stage EXCEPT ![p] = to] /\ stage \in [Processes -> Stages]
  BY DEF To, LoopInv
<1>2. /\ stage' \in [Processes -> Stages] /\ stage'[p] = to
      /\ \A q \in Processes : q # p => stage'[q] = stage[q]
  BY <1>1
<1>3. /\ cache' \in [Processes -> [Triples -> 0..MaxVersion]]
      /\ \A q \in Processes : q # p => cache'[q] = cache[q]
  BY LookUp DEF LoopInv
<1>4. PlaceOK(p)
  BY DEF LoopInv
<1>5. PlaceOK(p)'
  <2>1. CASE UNCHANGED cache /\ to \notin Looping \cup {"cost"}
    BY <1>2, <2>1 DEF PlaceOK, Looping
  <2>2. CASE UNCHANGED cache /\ stage[p] = "llm" /\ to = "write"
    BY <1>2, <1>4, <2>2 DEF PlaceOK, Looping, Triple, Combo
  <2>3. CASE stage[p] \in Looping /\ EvidenceInHand(p) /\ to \in Looping
    <3>1. cache'[p][Triple(p)] # 0 /\ Triple(p)' = Triple(p)
      BY <2>3, LookUp DEF Triple, Combo
    <3> QED  BY <1>2, <1>4, <2>3, <3>1 DEF PlaceOK, Looping
  <2> QED  BY <2>1, <2>2, <2>3
<1> QED  BY <1>2, <1>3, <1>5, OneMoves DEF LoopInv

\* Another attempt of the write in progress.
LEMMA LoopTriesAgain ==
  ASSUME LoopInv, NEW p \in Processes, Again(p), UNCHANGED <<cache, silver>>
  PROVE  LoopInv'
<1>1. attempt' \in [Processes -> 0..(MaxAttempts - 1)]
  <2>1. attempt \in [Processes -> 0..(MaxAttempts - 1)] /\ attempt[p] + 1 \in 0..(MaxAttempts - 1)
    BY Constants DEF LoopInv, Again
  <2> QED  BY <2>1 DEF Again
<1>2. PlaceOK(p)'
  BY DEF LoopInv, PlaceOK, Triple, Combo, Again
<1> QED  BY <1>1, <1>2, OneMoves DEF LoopInv, Again

\* A run begins with a list, or is refused.
LEMMA LoopStarts ==
  ASSUME LoopInv, NEW p \in Processes, NEW to \in Stages, To(p, to),
         NEW list \in SUBSET DOMAIN Order, todo' = [todo EXCEPT ![p] = list],
         (to = "evidence" /\ list # {}) \/ to \in {"done", "raised"},
         UNCHANGED <<cache, attempt, silver>>
  PROVE  LoopInv'
<1>1. /\ stage' = [stage EXCEPT ![p] = to] /\ stage \in [Processes -> Stages]
      /\ todo \in [Processes -> SUBSET DOMAIN Order]
  BY DEF To, LoopInv
<1>2. /\ stage' \in [Processes -> Stages] /\ todo' \in [Processes -> SUBSET DOMAIN Order]
      /\ stage'[p] = to /\ todo'[p] = list
      /\ \A q \in Processes : q # p => stage'[q] = stage[q] /\ todo'[q] = todo[q]
  BY <1>1
<1>3. PlaceOK(p)'
  BY <1>2 DEF PlaceOK, Looping
<1> QED  BY <1>2, <1>3, OneMoves DEF LoopInv

LEMMA LoopNext ==
  ASSUME LoopInv, RowsInv, [Layer2Next]_vars
  PROVE  LoopInv'
<1> USE DEF tables, runVars
<1>0. /\ Sweeps \subseteq Processes /\ Judgings \subseteq Processes /\ Rechecks \subseteq Processes
      /\ {"evidence", "llm", "write", "done", "raised", "died"} \subseteq Stages
      /\ {"evidence", "llm", "write"} \subseteq Looping
      /\ {"done", "raised", "died"} \cap (Looping \cup {"cost"}) = {}
  BY DEF Processes, Billing, Stages, Looping
<1>1. ASSUME NEW t \in Triples, Extract(t) PROVE LoopInv'
  <2>1. silver' \in [Triples -> 0..MaxVersion]
    BY <1>1, Constants DEF Extract, LoopInv
  <2> QED  BY <1>1, <2>1 DEF Extract, LoopInv, PlaceOK, Triple, Combo
<1>2. ASSUME NEW p \in Processes, WriteCost(p) PROVE LoopInv'
  <2>1. CASE Again(p)
    BY <1>2, <2>1, LoopTriesAgain DEF WriteCost
  <2>2. CASE \E to \in {"done", "raised"} : To(p, to) /\ UNCHANGED <<todo, attempt>>
    BY <1>0, <1>2, <2>2, LoopMoves DEF WriteCost
  <2> QED  BY <1>2, <2>1, <2>2 DEF WriteCost
<1>3. ASSUME NEW s \in Sweeps, SweepStart(s) PROVE LoopInv'
  BY <1>0, <1>3, LoopStarts, OrderFacts DEF SweepStart
<1>4. ASSUME NEW s \in Sweeps, SweepStep(s) PROVE LoopInv'
  <2>1. CASE SweepEvidence(s)
    BY <1>0, <2>1, LoopMoves, LoopGoesOn DEF SweepEvidence, EvidenceMissing, At
  <2>2. CASE SweepGenerates(s)
    BY <2>2 DEF SweepGenerates, LoopInv, PlaceOK, Triple, Combo
  <2>3. CASE SweepGenerateRaises(s)
    BY <1>0, <2>3, LoopGoesOn DEF SweepGenerateRaises, At
  <2>4. CASE SweepChecks(s)
    BY <1>0, <2>4, LoopMoves DEF SweepChecks, At
  <2>5. CASE SweepWrite(s)
    BY <1>0, <2>5, LoopGoesOn, LoopTriesAgain DEF SweepWrite, At
  <2> QED  BY <1>0, <1>2, <1>4, <2>1, <2>2, <2>3, <2>4, <2>5 DEF SweepStep
<1>5. ASSUME NEW j \in Judgings, JudgeStart(j) PROVE LoopInv'
  <2>1. CASE To(j, "raised") /\ UNCHANGED <<todo, snapshot>>
    BY <1>0, <1>5, <2>1, LoopMoves DEF JudgeStart
  <2>2. CASE /\ narratives # NoNarratives /\ To(j, "evidence")
             /\ todo' = [todo EXCEPT ![j] = Listed]
    BY <1>0, <1>5, <2>2, LoopStarts, ListedFacts DEF JudgeStart
  <2> QED  BY <1>5, <2>1, <2>2 DEF JudgeStart
<1>6. ASSUME NEW j \in Judgings, JudgeStep(j) PROVE LoopInv'
  <2>1. CASE JudgeEvidence(j)
    BY <1>0, <2>1, LoopMoves, LoopGoesOn DEF JudgeEvidence, EvidenceMissing, At
  <2>2. CASE JudgeEvaluates(j)
    BY <2>2 DEF JudgeEvaluates, LoopInv, PlaceOK, Triple, Combo
  <2>3. CASE JudgeEvaluateRaises(j)
    BY <1>0, <2>3, LoopGoesOn DEF JudgeEvaluateRaises, At
  <2>4. CASE JudgeReturns(j)
    BY <1>0, <2>4, LoopMoves DEF JudgeReturns, At
  <2>5. CASE JudgeWrite(j)
    BY <1>0, <2>5, LoopGoesOn, LoopTriesAgain DEF JudgeWrite, JudgeGivesUp, At
  <2> QED  BY <1>0, <1>2, <1>6, <2>1, <2>2, <2>3, <2>4, <2>5 DEF JudgeStep
<1>7. ASSUME NEW r \in Rechecks, RecheckStart(r) \/ RecheckStartRaises(r) PROVE LoopInv'
  <2>1. CASE RecheckStart(r) /\ narratives = NoNarratives
    BY <1>0, <2>1, LoopStarts, ListedFacts DEF RecheckStart
  <2>2. CASE RecheckStart(r) /\ narratives # NoNarratives
    BY <1>0, <2>2, LoopStarts, ListedFacts DEF RecheckStart
  <2>3. CASE RecheckStartRaises(r)
    BY <1>0, <2>3, LoopMoves DEF RecheckStartRaises
  <2> QED  BY <1>7, <2>1, <2>2, <2>3
<1>8. ASSUME NEW r \in Rechecks, RecheckStep(r) PROVE LoopInv'
  <2>1. CASE RecheckEvidence(r)
    BY <1>0, <2>1, LoopMoves DEF RecheckEvidence, EvidenceMissing, At
  <2>2. CASE RecheckWrite(r)
    BY <1>0, <2>2, LoopGoesOn, LoopMoves DEF RecheckWrite, At
  <2> QED  BY <1>8, <2>1, <2>2 DEF RecheckStep
<1>9. ASSUME NEW p \in Processes, Die(p) PROVE LoopInv'
  <2>1. /\ stage' = [stage EXCEPT ![p] = "died"] /\ todo' = [todo EXCEPT ![p] = {}]
        /\ cache' = [cache EXCEPT ![p] = [t \in Triples |-> 0]]
        /\ attempt' = [attempt EXCEPT ![p] = 0] /\ silver' = silver
    BY <1>9 DEF Die, To
  <2>2. /\ stage' \in [Processes -> Stages] /\ todo' \in [Processes -> SUBSET DOMAIN Order]
        /\ cache' \in [Processes -> [Triples -> 0..MaxVersion]]
        /\ attempt' \in [Processes -> 0..(MaxAttempts - 1)]
    BY <1>0, <2>1, Constants DEF LoopInv
  <2>3. /\ stage'[p] = "died" /\ todo'[p] = {}
        /\ \A q \in Processes : q # p => /\ stage'[q] = stage[q] /\ todo'[q] = todo[q]
                                         /\ cache'[q] = cache[q]
    BY <2>1 DEF LoopInv
  <2>4. PlaceOK(p)'
    BY <2>3 DEF PlaceOK, Looping
  <2> QED  BY <2>1, <2>2, <2>3, <2>4, OneMoves
<1>10. ASSUME UNCHANGED vars PROVE LoopInv'
  BY <1>10 DEF vars, LoopInv, PlaceOK, Triple, Combo
<1> QED  BY <1>1, <1>3, <1>4, <1>5, <1>6, <1>7, <1>8, <1>9, <1>10 DEF Layer2Next
-----------------------------------------------------------------------------
(* What a step may change *)

\* A living run's cache only grows, and the dead stay dead.
LEMMA CachesKeep ==
  ASSUME LoopInv, [Layer2Next]_vars
  PROVE  \A q \in Processes : stage'[q] # "died" =>
           /\ stage[q] # "died"
           /\ \A t \in Triples : cache[q][t] # 0 => cache'[q][t] = cache[q][t]
<1> DEFINE Lives == UNCHANGED stage \/ \E p \in Processes : stage[p] # "died" /\ \E to : To(p, to)
           Looks == UNCHANGED cache \/ \E p \in Processes : stage[p] \in Looping /\ EvidenceInHand(p)
<1> USE DEF tables, runVars, At
<1>0. Sweeps \subseteq Processes /\ Judgings \subseteq Processes /\ Rechecks \subseteq Processes
  BY DEF Processes, Billing
<1>1. ASSUME NEW p \in Processes, WriteCost(p) PROVE Lives /\ Looks
  BY <1>1 DEF WriteCost, Again
<1>2. ASSUME NEW s \in Sweeps, SweepStart(s) \/ SweepStep(s) PROVE Lives /\ Looks
  BY <1>0, <1>1, <1>2 DEF SweepStart, Launched, SweepStep, SweepEvidence, SweepGenerates,
     SweepGenerateRaises, SweepChecks, SweepWrite, EvidenceMissing, NextCombo, Again, Looping
<1>3. ASSUME NEW j \in Judgings, JudgeStart(j) \/ JudgeStep(j) PROVE Lives /\ Looks
  BY <1>0, <1>1, <1>3 DEF JudgeStart, Launched, JudgeStep, JudgeEvidence, JudgeEvaluates,
     JudgeEvaluateRaises, JudgeReturns, JudgeWrite, JudgeGivesUp, EvidenceMissing, NextCombo, Again,
     Looping
<1>4. ASSUME NEW r \in Rechecks, RecheckStart(r) \/ RecheckStartRaises(r) \/ RecheckStep(r)
      PROVE  Lives /\ Looks
  BY <1>0, <1>4 DEF RecheckStart, RecheckStartRaises, Launched, RecheckStep, RecheckEvidence,
     RecheckWrite, EvidenceMissing, NextCombo, Looping
<1>5. ASSUME NEW t \in Triples, Extract(t) PROVE Lives /\ Looks
  BY <1>5 DEF Extract
<1>6. ASSUME UNCHANGED vars PROVE Lives /\ Looks
  BY <1>6 DEF vars
<1>7. (Lives /\ Looks) \/ \E p \in Processes : Die(p)
  <2> HIDE DEF Lives, Looks
  <2> QED  BY <1>2, <1>3, <1>4, <1>5, <1>6 DEF Layer2Next
<1>8. ASSUME Lives, Looks PROVE \A q \in Processes : stage'[q] # "died" =>
           /\ stage[q] # "died"
           /\ \A t \in Triples : cache[q][t] # 0 => cache'[q][t] = cache[q][t]
  <2>1. \A q \in Processes, t \in Triples : cache[q][t] # 0 => cache'[q][t] = cache[q][t]
    BY <1>8, LookUp
  <2>2. \A q \in Processes : stage'[q] # "died" => stage[q] # "died"
    BY <1>8 DEF To, LoopInv
  <2> QED  BY <2>1, <2>2
<1>9. ASSUME NEW p \in Processes, Die(p) PROVE \A q \in Processes : stage'[q] # "died" =>
           /\ stage[q] # "died"
           /\ \A t \in Triples : cache[q][t] # 0 => cache'[q][t] = cache[q][t]
  BY <1>9 DEF Die, To, LoopInv
<1> QED  BY <1>7, <1>8, <1>9

\* Each table, and each reader's snapshot, has its writers.
LEMMA WhoWrites ==
  ASSUME [Layer2Next]_vars
  PROVE  /\ \/ UNCHANGED narratives
            \/ \E s \in Sweeps : SweepWrite(s)
            \/ \E r \in Rechecks : RecheckWrite(r)
         /\ \/ UNCHANGED snapshot
            \/ \E j \in Judgings : JudgeStart(j)
            \/ \E r \in Rechecks : RecheckStart(r)
         /\ \/ UNCHANGED <<outcomes, copies, counted>>
            \/ \E j \in Judgings : JudgeWrite(j)
<1> DEFINE N == \/ UNCHANGED narratives
                \/ \E s \in Sweeps : SweepWrite(s)
                \/ \E r \in Rechecks : RecheckWrite(r)
           S == \/ UNCHANGED snapshot
                \/ \E j \in Judgings : JudgeStart(j)
                \/ \E r \in Rechecks : RecheckStart(r)
           O == UNCHANGED <<outcomes, copies, counted>> \/ \E j \in Judgings : JudgeWrite(j)
<1> USE DEF tables, runVars
<1>2. ASSUME NEW s \in Sweeps, SweepStart(s) \/ SweepStep(s) PROVE N /\ S /\ O
  BY <1>2 DEF SweepStart, SweepStep, SweepEvidence, SweepGenerates,
              SweepGenerateRaises, SweepChecks, SweepWrite, WriteCost
<1>3. ASSUME NEW j \in Judgings, JudgeStart(j) \/ JudgeStep(j) PROVE N /\ S /\ O
  BY <1>3 DEF JudgeStart, JudgeStep, JudgeEvidence, JudgeEvaluates, JudgeEvaluateRaises,
              JudgeReturns, JudgeWrite, WriteCost
<1>4. ASSUME NEW r \in Rechecks, RecheckStart(r) \/ RecheckStartRaises(r) \/ RecheckStep(r)
      PROVE  N /\ S /\ O
  BY <1>4 DEF RecheckStart, RecheckStartRaises, RecheckStep, RecheckEvidence, RecheckWrite
<1>5. ASSUME NEW t \in Triples, Extract(t) PROVE N /\ S /\ O
  BY <1>5 DEF Extract
<1>6. ASSUME NEW p \in Processes, Die(p) PROVE N /\ S /\ O
  BY <1>6 DEF Die
<1>7. ASSUME UNCHANGED vars PROVE N /\ S /\ O
  BY <1>7 DEF vars
<1> HIDE DEF N, S, O
<1>8. N /\ S /\ O
  BY <1>2, <1>3, <1>4, <1>5, <1>6, <1>7 DEF Layer2Next
<1> QED  BY <1>8 DEF N, S, O

Rests(p) == stage'[p] = stage[p] /\ todo'[p] = todo[p] /\ attempt'[p] = attempt[p]

\* A reader's list is set by its start and shrinks from then on; a judge sweep passes
\* from a write only by the write or by dying.
LEMMA ReadersMove ==
  ASSUME LoopInv, [Layer2Next]_vars
  PROVE  \A p \in Readers :
           \/ Rests(p)
           \/ p \in Judgings /\ JudgeStart(p)
           \/ p \in Rechecks /\ RecheckStart(p)
           \/ /\ stage'[p] # "idle" /\ todo'[p] \subseteq todo[p]
              /\ (stage[p] = "write" /\ p \in Judgings) => todo'[p] = {} \/ JudgeWrite(p)
<1> DEFINE Moves(p) == \/ p \in Judgings /\ JudgeStart(p)
                       \/ p \in Rechecks /\ RecheckStart(p)
                       \/ /\ stage'[p] # "idle" /\ todo'[p] \subseteq todo[p]
                          /\ (stage[p] = "write" /\ p \in Judgings) => todo'[p] = {} \/ JudgeWrite(p)
           Only(q) == \A p \in Readers : p # q => Rests(p)
<1> USE DEF tables, runVars, At, To
<1>0. /\ Sweeps \subseteq Processes /\ Readers \subseteq Processes
      /\ Sweeps \cap Readers = {} /\ Judgings \cap Rechecks = {}
      /\ stage \in [Processes -> Stages] /\ todo \in [Processes -> SUBSET DOMAIN Order]
      /\ attempt \in [Processes -> 0..(MaxAttempts - 1)]
  BY DistinctRuns DEF Processes, Billing, Readers, LoopInv
<1>1. ASSUME NEW q \in Processes, WriteCost(q) PROVE Only(q) /\ (q \in Readers => Rests(q) \/ Moves(q))
  BY <1>0, <1>1 DEF WriteCost, Again, Rests
<1>2. ASSUME NEW q \in Processes, NEW after \in {"cost", "done"}, NextCombo(q, after)
      PROVE  Only(q) /\ stage'[q] # "idle" /\ todo'[q] \subseteq todo[q]
  BY <1>0, <1>2 DEF NextCombo, Rests
<1>3. ASSUME NEW q \in Processes, NEW to \in Stages, To(q, to), UNCHANGED <<todo, attempt>>
      PROVE  Only(q) /\ stage'[q] = to /\ todo'[q] = todo[q]
  BY <1>0, <1>3 DEF Rests
<1>4. ASSUME NEW q \in Processes, Again(q)
      PROVE  Only(q) /\ stage'[q] = stage[q] /\ todo'[q] = todo[q]
  BY <1>0, <1>4 DEF Again, Rests
<1>5. ASSUME NEW s \in Sweeps, SweepStart(s) \/ SweepStep(s) PROVE Only(s)
  <2>1. CASE SweepStart(s)
    BY <1>0, <2>1 DEF SweepStart, Rests
  <2>2. CASE SweepStep(s)
    BY <1>0, <1>1, <1>2, <1>3, <1>4, <2>2 DEF SweepStep, SweepEvidence, SweepGenerates,
       SweepGenerateRaises, SweepChecks, SweepWrite, Stages, Rests
  <2> QED  BY <1>5, <2>1, <2>2
<1>6. ASSUME NEW j \in Judgings, JudgeStart(j) PROVE Only(j) /\ Moves(j)
  BY <1>0, <1>6 DEF JudgeStart, Rests
<1>7. ASSUME NEW j \in Judgings, JudgeStep(j) PROVE Only(j) /\ (Rests(j) \/ Moves(j))
  <2> USE <1>0, <1>1, <1>2, <1>3, <1>4 DEF Readers
  <2>1. CASE JudgeEvidence(j)
    BY <2>1 DEF JudgeEvidence, Stages
  <2>2. CASE JudgeEvaluates(j)
    BY <2>2 DEF JudgeEvaluates, Rests
  <2>3. CASE JudgeEvaluateRaises(j)
    BY <2>3 DEF JudgeEvaluateRaises
  <2>4. CASE JudgeReturns(j)
    BY <2>4 DEF JudgeReturns, Stages
  <2>5. CASE JudgeWrite(j)
    BY <2>5 DEF JudgeWrite, JudgeGivesUp
  <2>6. CASE WriteCost(j)
    BY <2>6
  <2> QED  BY <1>7, <2>1, <2>2, <2>3, <2>4, <2>5, <2>6 DEF JudgeStep
<1>8. ASSUME NEW r \in Rechecks, RecheckStart(r) \/ RecheckStartRaises(r) \/ RecheckStep(r)
      PROVE  Only(r) /\ Moves(r)
  <2>1. CASE RecheckStart(r)
    BY <1>0, <2>1 DEF RecheckStart, Rests
  <2>2. CASE RecheckStartRaises(r)
    BY <1>0, <1>3, <2>2 DEF RecheckStartRaises, Stages, Readers
  <2>3. CASE RecheckStep(r)
    BY <1>0, <1>2, <1>3, <2>3 DEF RecheckStep, RecheckEvidence, RecheckWrite, Stages, Readers
  <2> QED  BY <1>8, <2>1, <2>2, <2>3
<1>9. ASSUME NEW p \in Processes, Die(p) PROVE Only(p) /\ Moves(p)
  BY <1>0, <1>9 DEF Die, Rests
<1>10. ASSUME (\E t \in Triples : Extract(t)) \/ UNCHANGED vars PROVE \A p \in Readers : Rests(p)
  BY <1>10 DEF Extract, vars, Rests
<1> HIDE DEF Moves
<1>11. \A p \in Readers : Rests(p) \/ Moves(p)
  <2> USE <1>0 DEF Readers
  <2>1. ASSUME NEW s \in Sweeps, SweepStart(s) \/ SweepStep(s) PROVE \A p \in Readers : Rests(p)
    BY <1>5, <2>1
  <2>2. ASSUME NEW q \in Processes, Only(q), q \in Readers => Rests(q) \/ Moves(q)
        PROVE  \A p \in Readers : Rests(p) \/ Moves(p)
    BY <2>2
  <2> QED  BY <1>6, <1>7, <1>8, <1>9, <1>10, <2>1, <2>2 DEF Layer2Next
<1> QED  BY <1>11 DEF Moves
-----------------------------------------------------------------------------
(* The narratives *)

LEMMA RowsInit == Layer2Init => RowsInv
<1> SUFFICES ASSUME Layer2Init PROVE RowsInv
  OBVIOUS
<1>1. ASSUME NEW c \in Combos PROVE HistoricalRow(c) \in NarrativeRows /\ RowOf(HistoricalRow(c), c)
  BY Constants DEF HistoricalRow, NarrativeRows, NarrativeTexts, FactCheckVerdicts, RowOf
<1>2. RowsOf(NoNarratives)
  BY DEF NoNarratives, RowsOf
<1>3. RowsOf(narratives)
  <2>1. CASE narratives = NoNarratives
    BY <1>2, <2>1
  <2>2. ASSUME NEW old \in SUBSET Combos,
               narratives = [c \in Combos |-> IF c \in old THEN HistoricalRow(c) ELSE NULL]
        PROVE  RowsOf(narratives)
    <3> HIDE DEF HistoricalRow
    <3> QED  BY <1>1, <2>2 DEF RowsOf
  <2> QED  BY <2>1, <2>2 DEF Layer2Init
<1>4. snapshot = [p \in Readers |-> NoNarratives] /\ todo = [p \in Processes |-> {}]
  BY DEF Layer2Init, Readers
<1>5. Readers \subseteq Processes
  BY DEF Readers, Processes, Billing
<1> QED  BY <1>2, <1>3, <1>4, <1>5 DEF RowsInv, NoNarratives

\* What a sweep writes is a row of its combination.
LEMMA RecordFacts ==
  ASSUME LoopInv, NEW s \in Sweeps, stage[s] = "write"
  PROVE  /\ Combo(s) \in Combos /\ NarrativeRecord(s) \in NarrativeRows
         /\ NarrativeRecord(s) # NULL /\ RowOf(NarrativeRecord(s), Combo(s))
         /\ NarrativeRecord(s).evidence = cache[s][TripleOf[Combo(s)]]
         /\ cache[s][TripleOf[Combo(s)]] # 0
<1>1. s \in Processes /\ s # HISTORICAL
  BY DistinctRuns DEF Processes, Billing
<1>2. Combo(s) \in Combos /\ Triple(s) \in Triples
  BY <1>1, AtCombo DEF Looping
<1>3. cache[s][Triple(s)] \in 1..MaxVersion
  <2>1. cache[s][Triple(s)] \in 0..MaxVersion /\ cache[s][Triple(s)] # 0
    BY <1>1, <1>2 DEF LoopInv, PlaceOK
  <2> QED  BY <2>1, Constants
<1>4. <<s, Combo(s)>> \in NarrativeTexts
  BY <1>2 DEF NarrativeTexts
<1>5. <<s, Combo(s)>> # NULL
  BY <1>4, NullAssumption
<1>6. NarrativeRecord(s) \in NarrativeRows
  BY <1>3, <1>4 DEF NarrativeRecord, NewCallId, NarrativeRows, FactCheckVerdicts, Evidence
<1>7. RowOf(NarrativeRecord(s), Combo(s))
  BY <1>1, <1>5 DEF NarrativeRecord, NewCallId, RowOf
<1> QED  BY <1>2, <1>3, <1>6, <1>7, NullAssumption DEF NarrativeRecord, Evidence, Triple

\* What a re-fact-check writes is a verdict, and there is a row to write it to.
LEMMA RecheckFacts ==
  ASSUME LoopInv, RowsInv, NEW r \in Rechecks, stage[r] = "write"
  PROVE  /\ Combo(r) \in Combos /\ narratives[Combo(r)] # NULL
         /\ Recheck(r) \in FactCheckVerdicts
<1>1. r \in Processes /\ r \in Readers
  BY DEF Processes, Readers
<1>2. Combo(r) \in Combos /\ Triple(r) \in Triples /\ Min(todo[r]) \in todo[r]
  BY <1>1, AtCombo DEF Looping
<1>3. snapshot[r][Combo(r)] # NULL
  BY <1>1, <1>2 DEF RowsInv, Combo
<1>4. snapshot[r][Combo(r)] \in NarrativeRows
  BY <1>1, <1>2, <1>3 DEF RowsInv
<1>5. cache[r][Triple(r)] \in 1..MaxVersion
  <2>1. cache[r][Triple(r)] \in 0..MaxVersion /\ cache[r][Triple(r)] # 0
    BY <1>1, <1>2 DEF LoopInv, PlaceOK
  <2> QED  BY <2>1, Constants
<1>6. Recheck(r) \in FactCheckVerdicts
  BY <1>4, <1>5 DEF Recheck, Evidence, NarrativeRows, FactCheckVerdicts
<1> QED  BY <1>1, <1>2, <1>3, <1>6 DEF RowsInv

\* A row stays, or a sweep replaces it, or it gets another verdict.
RowStep(c) ==
  \/ narratives'[c] = narratives[c]
  \/ \E s \in Sweeps : stage[s] = "write" /\ Combo(s) = c /\ narratives'[c] = NarrativeRecord(s)
  \/ /\ narratives[c] # NULL
     /\ \E v \in FactCheckVerdicts : narratives'[c] = [narratives[c] EXCEPT !.verdict = v]

LEMMA NarrativesMove ==
  ASSUME LoopInv, RowsInv, [Layer2Next]_vars
  PROVE  narratives' \in [Combos -> NarrativeRows \cup {NULL}] /\ \A c \in Combos : RowStep(c)
<1>0. narratives \in [Combos -> NarrativeRows \cup {NULL}]
  BY DEF RowsInv, RowsOf
<1>1. CASE UNCHANGED narratives
  BY <1>0, <1>1 DEF RowStep
<1>2. ASSUME NEW s \in Sweeps, SweepWrite(s)
      PROVE  narratives' \in [Combos -> NarrativeRows \cup {NULL}] /\ \A c \in Combos : RowStep(c)
  <2>1. stage[s] = "write" /\ (UNCHANGED narratives \/ MergeNarrative(s))
    BY <1>2 DEF SweepWrite, At
  <2>2. CASE MergeNarrative(s)
    BY <1>0, <2>1, <2>2, RecordFacts DEF MergeNarrative, RowStep
  <2> QED  BY <1>1, <2>1, <2>2
<1>3. ASSUME NEW r \in Rechecks, RecheckWrite(r)
      PROVE  narratives' \in [Combos -> NarrativeRows \cup {NULL}] /\ \A c \in Combos : RowStep(c)
  <2>1. stage[r] = "write" /\ (UNCHANGED narratives \/ UpdateVerdict(r))
    BY <1>3 DEF RecheckWrite, At
  <2>2. CASE UpdateVerdict(r)
    <3> DEFINE d == Combo(r)
               v == Recheck(r)
    <3>1. d \in Combos /\ narratives[d] # NULL /\ v \in FactCheckVerdicts
      BY <2>1, RecheckFacts
    <3>2. narratives' = [narratives EXCEPT ![d] = [narratives[d] EXCEPT !.verdict = v]]
      BY <2>2 DEF UpdateVerdict
    <3> HIDE DEF d, v
    <3>3. [narratives[d] EXCEPT !.verdict = v] \in NarrativeRows
      BY <1>0, <3>1 DEF NarrativeRows
    <3> QED  BY <1>0, <3>1, <3>2, <3>3 DEF RowStep
  <2> QED  BY <1>1, <2>1, <2>2
<1> QED  BY <1>1, <1>2, <1>3, WhoWrites

LEMMA RowsNext ==
  ASSUME LoopInv, RowsInv, [Layer2Next]_vars
  PROVE  RowsInv'
<1>0. /\ narratives \in [Combos -> NarrativeRows \cup {NULL}]
      /\ snapshot \in [Readers -> [Combos -> NarrativeRows \cup {NULL}]]
      /\ todo \in [Processes -> SUBSET DOMAIN Order]
      /\ Readers \subseteq Processes
  BY DEF RowsInv, RowsOf, LoopInv, Readers, Processes, Billing
<1>1. /\ narratives' \in [Combos -> NarrativeRows \cup {NULL}]
      /\ \A c \in Combos : RowStep(c)
  BY NarrativesMove
<1>2. \A c \in Combos : /\ narratives'[c] # NULL => RowOf(narratives'[c], c)
                        /\ narratives[c] # NULL => narratives'[c] # NULL
  <2> TAKE c \in Combos
  <2>1. RowStep(c) /\ (narratives[c] # NULL => RowOf(narratives[c], c) /\ narratives[c] \in NarrativeRows)
    BY <1>0, <1>1 DEF RowsInv, RowsOf
  <2>2. CASE narratives'[c] = narratives[c]
    BY <2>1, <2>2
  <2>3. CASE \E s \in Sweeps : stage[s] = "write" /\ Combo(s) = c /\ narratives'[c] = NarrativeRecord(s)
    BY <2>3, RecordFacts
  <2>4. ASSUME NEW v \in FactCheckVerdicts, narratives[c] # NULL,
               narratives'[c] = [narratives[c] EXCEPT !.verdict = v]
        PROVE  narratives'[c] # NULL /\ RowOf(narratives'[c], c)
    <3>1. narratives'[c] \in NarrativeRows
      BY <2>1, <2>4 DEF NarrativeRows
    <3>2. /\ narratives'[c].text = narratives[c].text
          /\ narratives'[c].narrative_call_id = narratives[c].narrative_call_id
          /\ narratives'[c].generation_run_id = narratives[c].generation_run_id
          /\ narratives'[c].evidence = narratives[c].evidence
      BY <2>1, <2>4 DEF NarrativeRows
    <3> QED  BY <2>1, <2>4, <3>1, <3>2, NullAssumption DEF RowOf
  <2> QED  BY <2>1, <2>2, <2>3, <2>4 DEF RowStep
<1>3. RowsOf(narratives)'
  BY <1>1, <1>2 DEF RowsOf
<1>4. snapshot' \in [Readers -> [Combos -> NarrativeRows \cup {NULL}]]
      /\ \A p \in Readers : snapshot'[p] = snapshot[p] \/ snapshot'[p] = narratives
  BY <1>0, WhoWrites DEF JudgeStart, RecheckStart, tables, Readers
<1>5. RowsOf(narratives)
  BY DEF RowsInv
<1>6. ASSUME NEW p \in Readers
      PROVE  RowsOf(snapshot'[p]) /\ \A c \in Combos : snapshot'[p][c] # NULL => narratives'[c] # NULL
  BY <1>0, <1>2, <1>4, <1>5 DEF RowsInv
<1>7. ASSUME NEW p \in Readers, NEW i \in todo'[p]
      PROVE  snapshot'[p][Order[i]] # NULL
  <2>1. \A k \in DOMAIN Order : Order[k] \in Combos
    BY OrderFacts
  <2>2. ASSUME todo'[p] \subseteq todo[p] PROVE snapshot'[p][Order[i]] # NULL
    <3>1. i \in DOMAIN Order /\ snapshot[p][Order[i]] # NULL
      BY <1>0, <1>7, <2>2 DEF RowsInv
    <3>2. narratives[Order[i]] # NULL
      BY <2>1, <3>1 DEF RowsInv
    <3> QED  BY <1>4, <3>1, <3>2
  <2>3. ASSUME JudgeStart(p) \/ RecheckStart(p), ~(todo'[p] \subseteq todo[p])
        PROVE  snapshot'[p][Order[i]] # NULL
    <3>1. snapshot'[p] = narratives /\ todo'[p] = Listed
      BY <1>0, <2>3 DEF JudgeStart, RecheckStart
    <3> QED  BY <1>7, <3>1 DEF Listed
  <2> QED  BY <2>2, <2>3, ReadersMove DEF Rests
<1> QED  BY <1>3, <1>4, <1>6, <1>7 DEF RowsInv, RowsOf

\* A text comes only from the sweep that generated it.
LEMMA TextsStep ==
  ASSUME LoopInv, RowsInv, [Layer2Next]_vars
  PROVE  \A c \in Combos :
           \/ narratives'[c] = narratives[c]
           \/ /\ narratives[c] # NULL
              /\ narratives'[c] = [narratives[c] EXCEPT !.verdict = narratives'[c].verdict]
           \/ \E s \in Sweeps : /\ stage[s] = "write" /\ Combo(s) = c
                                /\ narratives'[c].text = <<s, c>>
                                /\ narratives'[c].verdict.text = <<s, c>>
<1> TAKE c \in Combos
<1>1. RowStep(c)
  BY NarrativesMove
<1>2. ASSUME NEW s \in Sweeps, Combo(s) = c, narratives'[c] = NarrativeRecord(s)
      PROVE  narratives'[c].text = <<s, c>> /\ narratives'[c].verdict.text = <<s, c>>
  BY <1>2 DEF NarrativeRecord
<1>3. ASSUME NEW v \in FactCheckVerdicts, narratives[c] # NULL,
             narratives'[c] = [narratives[c] EXCEPT !.verdict = v]
      PROVE  narratives'[c] = [narratives[c] EXCEPT !.verdict = narratives'[c].verdict]
  <2>1. narratives[c] \in NarrativeRows
    BY <1>3 DEF RowsInv, RowsOf
  <2> QED  BY <1>3, <2>1 DEF NarrativeRows
<1> QED  BY <1>1, <1>2, <1>3 DEF RowStep
-----------------------------------------------------------------------------
(* The outcomes *)

LEMMA OutcomesInit == Layer2Init => OutcomesInv
BY DEF Layer2Init, OutcomesInv, NoNarratives

\* A judge sweep at its write has a listed narrative in hand.
LEMMA OutcomeFacts ==
  ASSUME LoopInv, RowsInv, NEW j \in Judgings, stage[j] = "write"
  PROVE  /\ Combo(j) \in Combos /\ Min(todo[j]) \in todo[j] /\ Min(todo[j]) \in DOMAIN Order
         /\ snapshot[j][Combo(j)] # NULL
         /\ JudgeOutcomeRow(j) \in OutcomeRows
         /\ JudgeOutcomeRow(j).narrative_run_id \in {JudgeOutcomeRow(j).judged, HISTORICAL}
         /\ JudgeOutcomeRow(j).evidence = cache[j][TripleOf[Combo(j)]]
         /\ cache[j][TripleOf[Combo(j)]] # 0
<1> DEFINE row == snapshot[j][Combo(j)]
<1>1. j \in Processes /\ j \in Readers
  BY DEF Processes, Billing, Readers
<1>2. /\ Combo(j) \in Combos /\ Triple(j) \in Triples
      /\ Min(todo[j]) \in todo[j] /\ Min(todo[j]) \in DOMAIN Order
  BY <1>1, AtCombo DEF Looping
<1>3. row # NULL
  BY <1>1, <1>2 DEF RowsInv, Combo
<1>4. row \in NarrativeRows /\ RowOf(row, Combo(j))
  BY <1>1, <1>2, <1>3 DEF RowsInv, RowsOf
<1>5. cache[j][Triple(j)] # 0 /\ cache[j][Triple(j)] \in 1..MaxVersion
  <2>1. cache[j][Triple(j)] \in 0..MaxVersion /\ cache[j][Triple(j)] # 0
    BY <1>1, <1>2 DEF LoopInv, PlaceOK
  <2> QED  BY <2>1, Constants
<1>6. JudgeOutcomeRow(j) = [narrative_run_id |-> NarrativeRunId(row), judged |-> row.text,
                            evidence |-> Evidence(j), fact_check_verdict |-> row.verdict]
  BY DEF JudgeOutcomeRow
<1> HIDE DEF row
<1>7. NarrativeRunId(row) \in {row.text, HISTORICAL}
  BY <1>4 DEF NarrativeRunId, RowOf
<1>8. row.text \in NarrativeTexts /\ row.verdict \in FactCheckVerdicts
  BY <1>4 DEF NarrativeRows
<1>9. JudgeOutcomeRow(j) \in OutcomeRows
  BY <1>5, <1>6, <1>7, <1>8 DEF OutcomeRows, Evidence
<1> QED  BY <1>2, <1>3, <1>5, <1>6, <1>7, <1>9 DEF Evidence, Triple, row

\* An outcome stays, or its judge sweep writes it.
OutcomeStep(j, c) ==
  \/ outcomes'[j][c] = outcomes[j][c]
  \/ stage[j] = "write" /\ Combo(j) = c /\ outcomes'[j][c] = JudgeOutcomeRow(j)

LEMMA OutcomesMove ==
  ASSUME LoopInv, RowsInv, OutcomesInv, [Layer2Next]_vars
  PROVE  /\ outcomes' \in [Judgings -> [Combos -> OutcomeRows \cup {NULL}]]
         /\ \A j \in Judgings, c \in Combos : OutcomeStep(j, c)
<1>0. outcomes \in [Judgings -> [Combos -> OutcomeRows \cup {NULL}]]
  BY DEF OutcomesInv
<1>1. CASE UNCHANGED outcomes
  BY <1>0, <1>1 DEF OutcomeStep
<1>2. ASSUME NEW j \in Judgings, JudgeWrite(j), ~UNCHANGED outcomes
      PROVE  /\ outcomes' \in [Judgings -> [Combos -> OutcomeRows \cup {NULL}]]
             /\ \A k \in Judgings, c \in Combos : OutcomeStep(k, c)
  <2> DEFINE d == Combo(j)
             row == JudgeOutcomeRow(j)
  <2>1. stage[j] = "write" /\ outcomes' = [outcomes EXCEPT ![j][d] = row]
    BY <1>2 DEF JudgeWrite, JudgeGivesUp, InsertOutcome, NoInsert, At
  <2>2. d \in Combos /\ row \in OutcomeRows
    BY <2>1, OutcomeFacts
  <2>3. \A k \in Judgings, c \in Combos :
          \/ outcomes'[k][c] = outcomes[k][c]
          \/ k = j /\ c = d /\ outcomes'[k][c] = row
    <3> HIDE DEF d, row
    <3> QED  BY <1>0, <2>1
  <2>4. outcomes' \in [Judgings -> [Combos -> OutcomeRows \cup {NULL}]]
    <3> HIDE DEF d, row
    <3> QED  BY <1>0, <2>1, <2>2
  <2> QED  BY <2>1, <2>3, <2>4 DEF OutcomeStep
<1> QED  BY <1>1, <1>2, WhoWrites

LEMMA OutcomesNext ==
  ASSUME LoopInv, RowsInv, OutcomesInv, [Layer2Next]_vars
  PROVE  OutcomesInv'
<1>1. ASSUME NEW j \in Judgings, NEW c \in Combos, outcomes'[j][c] # NULL
      PROVE  outcomes'[j][c].narrative_run_id \in {outcomes'[j][c].judged, HISTORICAL}
  <2>1. OutcomeStep(j, c)
    BY OutcomesMove
  <2> QED  BY <1>1, <2>1, OutcomeFacts DEF OutcomeStep, OutcomesInv
<1> QED  BY <1>1, OutcomesMove DEF OutcomesInv

\* A call id names one text, so a join on it finds what was judged.
LEMMA JoinOnCallId ==
  ASSUME RowsInv, OutcomesInv
  PROVE  JoinFindsJudgedText
<1> SUFFICES ASSUME NEW j \in Judgings, NEW c \in Combos, NEW d \in Combos,
                    outcomes[j][c] # NULL, narratives[d] # NULL,
                    outcomes[j][c].narrative_run_id = narratives[d].narrative_call_id
             PROVE  outcomes[j][c].judged = narratives[d].text
  BY DEF JoinFindsJudgedText
<1>1. narratives[d] \in NarrativeRows /\ RowOf(narratives[d], d) /\ outcomes[j][c] \in OutcomeRows
  BY DEF RowsInv, RowsOf, OutcomesInv
<1>2. narratives[d].text \in NarrativeTexts /\ outcomes[j][c].judged \in NarrativeTexts
  BY <1>1 DEF NarrativeRows, OutcomeRows
<1>3. narratives[d].narrative_call_id \in {NULL, narratives[d].text}
  BY <1>1 DEF RowOf
<1>4. outcomes[j][c].narrative_run_id \in {outcomes[j][c].judged, HISTORICAL}
  BY DEF OutcomesInv
<1>5. NULL # HISTORICAL /\ NULL \notin NarrativeTexts /\ HISTORICAL \notin NarrativeTexts
  BY DistinctRuns, NullAssumption
<1> QED  BY <1>2, <1>3, <1>4, <1>5
-----------------------------------------------------------------------------
(* The evidence *)

LEMMA EvidenceInit == Layer2Init => EvidenceInv
<1> SUFFICES ASSUME Layer2Init PROVE EvidenceInv
  OBVIOUS
<1>1. \A j \in Judgings, c \in Combos : outcomes[j][c] = NULL
  BY DEF Layer2Init, NoNarratives
<1>2. \A c \in Combos : narratives[c] # NULL =>
        narratives[c].evidence = 1 /\ narratives[c].generation_run_id = HISTORICAL
  BY DEF Layer2Init, NoNarratives, HistoricalRow
<1>3. HISTORICAL \notin Sweeps
  BY DistinctRuns DEF Processes, Billing
<1> QED  BY <1>1, <1>2, <1>3 DEF EvidenceInv, OneExtractionPerRun, SameTriple

LEMMA EvidenceNext ==
  ASSUME LoopInv, RowsInv, OutcomesInv, EvidenceInv, [Layer2Next]_vars
  PROVE  EvidenceInv'
<1> DEFINE Kept(c) == /\ narratives[c] # NULL
                      /\ narratives'[c].generation_run_id = narratives[c].generation_run_id
                      /\ narratives'[c].evidence = narratives[c].evidence
           New(s, c) == /\ narratives'[c].generation_run_id = s /\ stage[s] = "write"
                        /\ narratives'[c].evidence = cache[s][TripleOf[c]]
                        /\ cache[s][TripleOf[c]] # 0
           KeptOutcome(j, c) == outcomes[j][c] # NULL /\ outcomes'[j][c] = outcomes[j][c]
           NewOutcome(j, c) == /\ stage[j] = "write" /\ outcomes'[j][c].evidence = cache[j][TripleOf[c]]
                               /\ cache[j][TripleOf[c]] # 0
<1>0. Sweeps \subseteq Processes /\ Judgings \subseteq Processes
  BY DEF Processes, Billing
<1>1. ASSUME NEW c \in Combos, narratives'[c] # NULL
      PROVE  Kept(c) \/ \E s \in Sweeps : New(s, c)
  <2>1. CASE narratives'[c] = narratives[c]
    BY <1>1, <2>1
  <2>2. ASSUME NEW s \in Sweeps, stage[s] = "write", Combo(s) = c,
               narratives'[c] = NarrativeRecord(s)
        PROVE  New(s, c)
    <3>1. NarrativeRecord(s).generation_run_id = s
      BY DEF NarrativeRecord
    <3> QED  BY <2>2, <3>1, RecordFacts
  <2>3. ASSUME NEW v \in FactCheckVerdicts, narratives[c] # NULL,
               narratives'[c] = [narratives[c] EXCEPT !.verdict = v]
        PROVE  Kept(c)
    <3>1. narratives[c] \in NarrativeRows
      BY <2>3 DEF RowsInv, RowsOf
    <3> QED  BY <2>3, <3>1 DEF NarrativeRows
  <2> QED  BY <2>1, <2>2, <2>3, NarrativesMove DEF RowStep
<1>2. ASSUME NEW j \in Judgings, NEW c \in Combos, outcomes'[j][c] # NULL
      PROVE  KeptOutcome(j, c) \/ NewOutcome(j, c)
  BY <1>2, OutcomesMove, OutcomeFacts DEF OutcomeStep
<1>3. \A c \in Combos : TripleOf[c] \in Triples
  BY OrderFacts
<1>4. ASSUME NEW s \in Sweeps, NEW c \in Combos, narratives'[c] # NULL,
             narratives'[c].generation_run_id = s, stage'[s] # "died"
      PROVE  narratives'[c].evidence = cache'[s][TripleOf[c]]
  <2>1. stage[s] # "died" /\ (cache[s][TripleOf[c]] # 0 => cache'[s][TripleOf[c]] = cache[s][TripleOf[c]])
    BY <1>0, <1>3, <1>4, CachesKeep
  <2>2. CASE Kept(c)
    <3>1. narratives[c].evidence = cache[s][TripleOf[c]]
      BY <1>4, <2>1, <2>2 DEF EvidenceInv
    <3>2. narratives[c].evidence # 0
      BY <2>2, Constants DEF RowsInv, RowsOf, NarrativeRows
    <3> QED  BY <2>1, <2>2, <3>1, <3>2
  <2>3. ASSUME NEW q \in Sweeps, New(q, c) PROVE narratives'[c].evidence = cache'[s][TripleOf[c]]
    BY <1>4, <2>1, <2>3
  <2> QED  BY <1>1, <1>4, <2>2, <2>3
<1>5. ASSUME NEW j \in Judgings, NEW c \in Combos, outcomes'[j][c] # NULL, stage'[j] # "died"
      PROVE  outcomes'[j][c].evidence = cache'[j][TripleOf[c]]
  <2>1. stage[j] # "died" /\ (cache[j][TripleOf[c]] # 0 => cache'[j][TripleOf[c]] = cache[j][TripleOf[c]])
    BY <1>0, <1>3, <1>5, CachesKeep
  <2>2. CASE KeptOutcome(j, c)
    <3>1. outcomes[j][c].evidence = cache[j][TripleOf[c]]
      BY <2>1, <2>2 DEF EvidenceInv
    <3>2. outcomes[j][c].evidence # 0
      BY <2>2, Constants DEF OutcomesInv, OutcomeRows
    <3> QED  BY <2>1, <2>2, <3>1, <3>2
  <2>3. CASE NewOutcome(j, c)
    BY <2>1, <2>3
  <2> QED  BY <1>2, <1>5, <2>2, <2>3
<1>6. ASSUME NEW c \in Combos, NEW d \in Combos, SameTriple(c, d),
             narratives'[c] # NULL, narratives'[d] # NULL,
             narratives'[c].generation_run_id = narratives'[d].generation_run_id
      PROVE  narratives'[c].evidence = narratives'[d].evidence
  <2>0. TripleOf[c] = TripleOf[d]
    BY <1>6 DEF SameTriple
  <2>1. CASE Kept(c) /\ Kept(d)
    BY <1>6, <2>1 DEF EvidenceInv, OneExtractionPerRun
  <2>2. ASSUME NEW s \in Sweeps, New(s, c), Kept(d)
        PROVE  narratives'[c].evidence = narratives'[d].evidence
    <3>1. narratives[d].evidence = cache[s][TripleOf[d]]
      BY <1>6, <2>2 DEF EvidenceInv
    <3> QED  BY <2>0, <2>2, <3>1
  <2>3. ASSUME NEW s \in Sweeps, New(s, d), Kept(c)
        PROVE  narratives'[c].evidence = narratives'[d].evidence
    <3>1. narratives[c].evidence = cache[s][TripleOf[c]]
      BY <1>6, <2>3 DEF EvidenceInv
    <3> QED  BY <2>0, <2>3, <3>1
  <2>4. ASSUME NEW s \in Sweeps, New(s, c), NEW q \in Sweeps, New(q, d)
        PROVE  narratives'[c].evidence = narratives'[d].evidence
    BY <1>6, <2>0, <2>4
  <2> QED  BY <1>1, <1>6, <2>1, <2>2, <2>3, <2>4
<1>7. ASSUME NEW j \in Judgings, NEW c \in Combos, NEW d \in Combos, SameTriple(c, d),
             outcomes'[j][c] # NULL, outcomes'[j][d] # NULL
      PROVE  outcomes'[j][c].evidence = outcomes'[j][d].evidence
  <2>0. TripleOf[c] = TripleOf[d]
    BY <1>7 DEF SameTriple
  <2>1. CASE KeptOutcome(j, c) /\ KeptOutcome(j, d)
    BY <1>7, <2>1 DEF EvidenceInv, OneExtractionPerRun
  <2>2. CASE NewOutcome(j, c) /\ KeptOutcome(j, d)
    BY <2>0, <2>2 DEF EvidenceInv
  <2>3. CASE KeptOutcome(j, c) /\ NewOutcome(j, d)
    BY <2>0, <2>3 DEF EvidenceInv
  <2>4. CASE NewOutcome(j, c) /\ NewOutcome(j, d)
    BY <2>0, <2>4
  <2> QED  BY <1>2, <1>7, <2>1, <2>2, <2>3, <2>4
<1> HIDE DEF Kept, New, KeptOutcome, NewOutcome
<1>8. OneExtractionPerRun'
  BY <1>6, <1>7 DEF OneExtractionPerRun, SameTriple
<1> QED  BY <1>4, <1>5, <1>8 DEF EvidenceInv
-----------------------------------------------------------------------------
(* The copies *)

LEMMA CopiesInit == Layer2Init => CopiesInv
<1> SUFFICES ASSUME Layer2Init PROVE CopiesInv
  OBVIOUS
<1>1. /\ copies = [j \in Judgings |-> [c \in Combos |-> 0]]
      /\ counted = [j \in Judgings |-> {}] /\ todo = [p \in Processes |-> {}]
      /\ Judgings \subseteq Processes /\ 0 \in 0..MaxAttempts
  BY Constants DEF Layer2Init, Processes, Billing
<1>2. \A j \in Judgings : todo[j] = {} /\ counted[j] = {} /\ \A c \in Combos : copies[j][c] = 0
  BY <1>1
<1>3. copies \in [Judgings -> [Combos -> 0..MaxAttempts]] /\ counted \in [Judgings -> SUBSET Combos]
  BY <1>1
<1> QED  BY <1>2, <1>3 DEF CopiesInv, CountedOutcomesAreStored

\* The judge sweep's write inserts one copy of the outcome in hand, or none.
LEMMA CopiesMove ==
  ASSUME LoopInv, RowsInv, CopiesInv, NEW j \in Judgings, JudgeWrite(j)
  PROVE  /\ copies' \in [Judgings -> [Combos -> 0..MaxAttempts]]
         /\ counted' \in [Judgings -> SUBSET Combos]
         /\ copies[j][Combo(j)] <= attempt[j]
         /\ \A k \in Judgings, c \in Combos :
              (k # j \/ c # Combo(j)) => /\ copies'[k][c] = copies[k][c]
                                         /\ c \in counted'[k] => c \in counted[k]
         /\ copies'[j][Combo(j)] \in {copies[j][Combo(j)], copies[j][Combo(j)] + 1}
         /\ Combo(j) \in counted'[j] => copies'[j][Combo(j)] > 0
<1> DEFINE d == Combo(j)
<1>0. /\ copies \in [Judgings -> [Combos -> 0..MaxAttempts]]
      /\ counted \in [Judgings -> SUBSET Combos]
      /\ d \in Combos /\ Min(todo[j]) \in todo[j]
      /\ attempt[j] \in 0..(MaxAttempts - 1) /\ stage[j] = "write"
  <2>1. stage[j] = "write" /\ j \in Processes
    BY DEF JudgeWrite, At, Processes, Billing
  <2> QED  BY <2>1, OutcomeFacts DEF CopiesInv, LoopInv
<1>1. copies[j][d] <= attempt[j]
  BY <1>0 DEF CopiesInv, Tried, Combo
<1>2. \/ copies' = copies
      \/ copies' = [copies EXCEPT ![j][d] = copies[j][d] + 1]
  BY DEF JudgeWrite, JudgeGivesUp, InsertOutcome, NoInsert
<1>3. \/ counted' = counted
      \/ /\ counted' = [counted EXCEPT ![j] = counted[j] \cup {d}]
         /\ copies' = [copies EXCEPT ![j][d] = copies[j][d] + 1]
  BY DEF JudgeWrite, JudgeGivesUp, InsertOutcome, Count
<1>4. d \in counted[j] => copies[j][d] > 0
  BY <1>0 DEF CopiesInv, CountedOutcomesAreStored
<1> HIDE DEF d
<1>5. copies[j][d] \in Nat /\ copies[j][d] + 1 \in 0..MaxAttempts
  BY <1>0, <1>1, Constants
<1>6. /\ copies' \in [Judgings -> [Combos -> 0..MaxAttempts]]
      /\ counted' \in [Judgings -> SUBSET Combos]
  <2>1. copies' \in [Judgings -> [Combos -> 0..MaxAttempts]]
    BY <1>0, <1>2, <1>5
  <2>2. counted' \in [Judgings -> SUBSET Combos]
    BY <1>0, <1>3
  <2> QED  BY <2>1, <2>2
<1>7. \A k \in Judgings, c \in Combos : (k # j \/ c # d) =>
        copies'[k][c] = copies[k][c] /\ (c \in counted'[k] => c \in counted[k])
  BY <1>0, <1>2, <1>3
<1>8. copies'[j][d] \in {copies[j][d], copies[j][d] + 1}
  BY <1>0, <1>2
<1>9. d \in counted'[j] => copies'[j][d] > 0
  <2>1. CASE copies' = [copies EXCEPT ![j][d] = copies[j][d] + 1]
    <3>1. copies'[j][d] = copies[j][d] + 1
      BY <1>0, <2>1
    <3> QED  BY <1>5, <3>1
  <2>2. CASE copies' = copies /\ counted' = counted
    BY <1>4, <2>2
  <2> QED  BY <1>2, <1>3, <2>1, <2>2
<1> QED  BY <1>1, <1>6, <1>7, <1>8, <1>9 DEF d

LEMMA CopiesNext ==
  ASSUME LoopInv, RowsInv, LoopInv', RowsInv', CopiesInv, [Layer2Next]_vars
  PROVE  CopiesInv'
<1>0. /\ copies \in [Judgings -> [Combos -> 0..MaxAttempts]]
      /\ counted \in [Judgings -> SUBSET Combos]
      /\ Judgings \subseteq Processes /\ Judgings \subseteq Readers
      /\ todo \in [Processes -> SUBSET DOMAIN Order] /\ todo' \in [Processes -> SUBSET DOMAIN Order]
      /\ \A i \in DOMAIN Order : Order[i] \in Combos
      /\ \A p \in Processes : attempt'[p] \in Nat
  BY Constants, OrderFacts DEF CopiesInv, Processes, Billing, Readers, LoopInv
<1>1. /\ copies' \in [Judgings -> [Combos -> 0..MaxAttempts]]
      /\ counted' \in [Judgings -> SUBSET Combos]
  BY <1>0, WhoWrites, CopiesMove
<1>2. ASSUME NEW j \in Judgings, ~JudgeWrite(j)
      PROVE  \A c \in Combos : copies'[j][c] = copies[j][c] /\ (c \in counted'[j] => c \in counted[j])
  BY <1>0, <1>2, WhoWrites, CopiesMove
<1>3. ASSUME NEW j \in Judgings PROVE snapshot'[j] = snapshot[j] \/ JudgeStart(j)
  <2>1. ASSUME NEW p \in Readers, snapshot' = [snapshot EXCEPT ![p] = narratives], p # j
        PROVE  snapshot'[j] = snapshot[j]
    BY <1>0, <2>1 DEF RowsInv
  <2>2. \A r \in Rechecks : r # j /\ r \in Readers
    BY <1>0, DistinctRuns DEF Billing, Readers
  <2> QED  BY <1>0, <2>1, <2>2, WhoWrites DEF JudgeStart, RecheckStart
<1>4. ASSUME NEW j \in Judgings, stage[j] = "idle"
      PROVE  ~JudgeWrite(j) /\ \A c \in Combos : copies[j][c] = 0
  BY <1>4 DEF JudgeWrite, At, CopiesInv
<1>5. ASSUME NEW j \in Judgings, NEW c \in Combos
      PROVE  /\ c \in counted'[j] => copies'[j][c] > 0
             /\ copies'[j][c] > 0 => snapshot'[j][c] # NULL
  <2>0. /\ c \in counted[j] => copies[j][c] > 0
        /\ copies[j][c] > 0 => snapshot[j][c] # NULL
    BY DEF CopiesInv, CountedOutcomesAreStored
  <2>1. CASE JudgeStart(j)
    <3>1. stage[j] = "idle"
      BY <2>1 DEF JudgeStart, Launched, At
    <3>2. copies'[j][c] = 0 /\ c \notin counted'[j]
      BY <1>2, <1>4, <2>0, <3>1
    <3> QED  BY <3>2
  <2>2. CASE ~JudgeStart(j) /\ ~JudgeWrite(j)
    BY <1>2, <1>3, <2>0, <2>2
  <2>3. CASE ~JudgeStart(j) /\ JudgeWrite(j) /\ c # Combo(j)
    BY <1>3, <2>0, <2>3, CopiesMove
  <2>4. CASE ~JudgeStart(j) /\ JudgeWrite(j) /\ c = Combo(j)
    <3>1. snapshot[j][c] # NULL
      BY <2>4, OutcomeFacts DEF JudgeWrite, At
    <3> QED  BY <1>3, <2>4, <3>1, CopiesMove
  <2> QED  BY <2>1, <2>2, <2>3, <2>4
<1>6. ASSUME NEW j \in Judgings, stage'[j] = "idle"
      PROVE  \A c \in Combos : copies'[j][c] = 0
  <2>1. stage \in [Processes -> Stages] /\ j \in Processes /\ j \in Readers
    BY <1>0 DEF LoopInv
  <2>2. ~JudgeStart(j)
    BY <1>6, <2>1 DEF JudgeStart, To
  <2>3. j \notin Rechecks
    BY DistinctRuns DEF Billing
  <2>4. stage[j] = "idle"
    BY <1>6, <2>1, <2>2, <2>3, ReadersMove DEF Rests
  <2> QED  BY <1>2, <1>4, <2>4
<1>7. ASSUME NEW j \in Judgings, NEW i \in todo'[j]
      PROVE  copies'[j][Order[i]] <= Tried(j, i)'
  <2>0. /\ j \in Processes /\ j \in Readers /\ i \in DOMAIN Order /\ Order[i] \in Combos
        /\ j \notin Rechecks /\ Tried(j, i)' >= 0
    BY <1>0, <1>7, DistinctRuns DEF Billing, Tried
  <2>1. i \in todo[j] => copies[j][Order[i]] <= Tried(j, i) /\ copies[j][Order[i]] \in Nat
    BY <1>0, <2>0 DEF CopiesInv
  <2>2. CASE JudgeStart(j)
    <3>1. stage[j] = "idle"
      BY <2>2 DEF JudgeStart, Launched, At
    <3> QED  BY <1>2, <1>4, <2>0, <3>1
  <2>3. CASE JudgeWrite(j)
    <3>1. stage[j] = "write" /\ Combo(j) = Order[Min(todo[j])] /\ Min(todo[j]) \in DOMAIN Order
      BY <2>3, OutcomeFacts DEF JudgeWrite, At, Combo
    <3>2. i # Min(todo[j]) => Order[i] # Combo(j)
      BY <2>0, <3>1, OrderFacts
    <3>3. CASE NextCombo(j, "cost")
      <4>1. i \in todo[j] /\ i # Min(todo[j])
        BY <1>7, <2>0, <3>1, <3>3, NextKeeps DEF Looping
      <4>2. copies'[j][Order[i]] = copies[j][Order[i]]
        BY <2>0, <2>3, <3>2, <4>1, CopiesMove
      <4> QED  BY <2>0, <2>1, <4>1, <4>2 DEF Tried
    <3>4. CASE Again(j)
      <4>1. /\ stage'[j] = "write" /\ todo'[j] = todo[j] /\ attempt'[j] = attempt[j] + 1
            /\ attempt[j] \in Nat
        BY <1>0, <2>0, <3>1, <3>4, Constants DEF Again, LoopInv
      <4>2. CASE i # Min(todo[j])
        <5>1. copies'[j][Order[i]] = copies[j][Order[i]]
          BY <2>0, <2>3, <3>2, <4>2, CopiesMove
        <5> QED  BY <1>7, <2>0, <2>1, <4>1, <4>2, <5>1 DEF Tried
      <4>3. CASE i = Min(todo[j])
        <5>1. /\ copies[j][Order[i]] <= attempt[j] /\ copies[j][Order[i]] \in Nat
              /\ copies'[j][Order[i]] \in {copies[j][Order[i]], copies[j][Order[i]] + 1}
          BY <1>7, <2>1, <2>3, <3>1, <4>1, <4>3, CopiesMove
        <5>2. Tried(j, i)' = attempt[j] + 1
          BY <4>1, <4>3 DEF Tried
        <5> QED  BY <4>1, <5>1, <5>2
      <4> QED  BY <4>2, <4>3
    <3> QED  BY <2>3, <3>3, <3>4 DEF JudgeWrite, JudgeGivesUp
  <2>4. CASE ~JudgeStart(j) /\ ~JudgeWrite(j)
    <3>1. copies'[j][Order[i]] = copies[j][Order[i]]
      BY <1>2, <2>0, <2>4
    <3>2. CASE Rests(j)
      BY <1>7, <2>1, <3>1, <3>2 DEF Rests, Tried
    <3>3. CASE todo'[j] \subseteq todo[j] /\ stage[j] # "write"
      BY <1>7, <2>0, <2>1, <3>1, <3>3 DEF Tried
    <3> QED  BY <1>7, <2>0, <2>4, <3>2, <3>3, ReadersMove
  <2> QED  BY <2>2, <2>3, <2>4
<1> QED  BY <1>1, <1>5, <1>6, <1>7 DEF CopiesInv, CountedOutcomesAreStored
-----------------------------------------------------------------------------
(* The theorems *)

LEMMA Layer2InvInit == Layer2Init => Layer2Inv
<1>1. Layer2Init => cost_rows \subseteq Billing
  BY DEF Layer2Init
<1> QED  BY <1>1, CallsInit, LoopInit, RowsInit, OutcomesInit, EvidenceInit, CopiesInit DEF Layer2Inv

LEMMA Layer2InvNext == Layer2Inv /\ [Layer2Next]_vars => Layer2Inv'
<1> SUFFICES ASSUME Layer2Inv, [Layer2Next]_vars PROVE Layer2Inv'
  OBVIOUS
<1> USE DEF Layer2Inv
<1>1. CallsInv'
  BY CallsNext
<1>2. LoopInv'
  BY LoopNext
<1>3. RowsInv'
  BY RowsNext
<1>4. OutcomesInv'
  BY OutcomesNext
<1>5. EvidenceInv'
  BY EvidenceNext
<1>6. CopiesInv'
  BY <1>2, <1>3, CopiesNext
<1>7. cost_rows' \subseteq Billing
  <2>1. UNCHANGED cost_rows \/ \E p \in Billing : cost_rows' \subseteq cost_rows \cup {p}
    <3> DEFINE C == UNCHANGED cost_rows \/ \E p \in Billing : cost_rows' \subseteq cost_rows \cup {p}
    <3> USE DEF tables, runVars
    <3>1. ASSUME NEW s \in Sweeps, SweepStart(s) \/ SweepStep(s) PROVE C
      BY <3>1 DEF SweepStart, SweepStep, SweepEvidence, SweepGenerates, SweepGenerateRaises,
                  SweepChecks, SweepWrite, WriteCost, Billing
    <3>2. ASSUME NEW j \in Judgings, JudgeStart(j) \/ JudgeStep(j) PROVE C
      BY <3>2 DEF JudgeStart, JudgeStep, JudgeEvidence, JudgeEvaluates, JudgeEvaluateRaises,
                  JudgeReturns, JudgeWrite, WriteCost, Billing
    <3>3. ASSUME NEW r \in Rechecks, RecheckStart(r) \/ RecheckStartRaises(r) \/ RecheckStep(r) PROVE C
      BY <3>3 DEF RecheckStart, RecheckStartRaises, RecheckStep, RecheckEvidence, RecheckWrite
    <3>4. ASSUME (\E t \in Triples : Extract(t)) \/ (\E p \in Processes : Die(p)) PROVE C
      BY <3>4 DEF Extract, Die
    <3>5. ASSUME UNCHANGED vars PROVE C
      BY <3>5 DEF vars
    <3> HIDE DEF C
    <3>6. C
      BY <3>1, <3>2, <3>3, <3>4, <3>5 DEF Layer2Next
    <3> QED  BY <3>6 DEF C
  <2> QED  BY <2>1
<1> QED  BY <1>1, <1>2, <1>3, <1>4, <1>5, <1>6, <1>7

LEMMA Layer2Invariant == Layer2Spec => []Layer2Inv
<1> QED  BY Layer2InvInit, Layer2InvNext, PTL DEF Layer2Spec

\* The tables and the runs keep their shapes; write retries stay below MaxAttempts.
THEOREM Layer2TypeCorrect == Layer2Spec => []Layer2TypeOK
<1>1. Layer2Inv => Layer2TypeOK
  <2> SUFFICES ASSUME Layer2Inv PROVE Layer2TypeOK
    OBVIOUS
  <2>1. \A p \in Processes :
          /\ todo[p] \subseteq DOMAIN Order
          /\ stage[p] \in {"evidence", "llm", "write"} => todo[p] # {}
          /\ stage[p] = "cost" => todo[p] = {}
    BY DEF Layer2Inv, LoopInv, PlaceOK, Looping
  <2>2. GeneratorTypeOK /\ JudgeTypeOK
    BY DEF Layer2Inv, CallsInv
  <2>3. /\ stage \in [Processes -> Stages]
        /\ cache \in [Processes -> [Triples -> 0..MaxVersion]]
        /\ attempt \in [Processes -> 0..(MaxAttempts - 1)]
        /\ silver \in [Triples -> 0..MaxVersion]
    BY DEF Layer2Inv, LoopInv
  <2>4. /\ snapshot \in [Judgings \cup Rechecks -> [Combos -> NarrativeRows \cup {NULL}]]
        /\ narratives \in [Combos -> NarrativeRows \cup {NULL}]
    BY DEF Layer2Inv, RowsInv, RowsOf, Readers
  <2>5. /\ counted \in [Judgings -> SUBSET Combos]
        /\ outcomes \in [Judgings -> [Combos -> OutcomeRows \cup {NULL}]]
        /\ copies \in [Judgings -> [Combos -> 0..MaxAttempts]]
        /\ cost_rows \subseteq Billing
    BY DEF Layer2Inv, CopiesInv, OutcomesInv
  <2> QED  BY <2>1, <2>2, <2>3, <2>4, <2>5 DEF Layer2TypeOK
<1> QED  BY <1>1, Layer2Invariant, PTL

\* The narratives of one sweep for one quarter rest on one extraction, and so do the
\* judgements of one judge sweep, however often Layer 1 re-extracts meanwhile.
THEOREM OneExtraction == Layer2Spec => []OneExtractionPerRun
<1>1. Layer2Inv => OneExtractionPerRun
  BY DEF Layer2Inv, EvidenceInv
<1> QED  BY <1>1, Layer2Invariant, PTL

\* An outcome that joins to a stored narrative by its call id was rendered on that text.
THEOREM JoinIsSound == Layer2Spec => []JoinFindsJudgedText
<1>1. Layer2Inv => JoinFindsJudgedText
  BY JoinOnCallId DEF Layer2Inv
<1> QED  BY <1>1, Layer2Invariant, PTL

\* Whatever fails, a counted narrative has its outcome stored, and an outcome is of a
\* narrative that was listed.
THEOREM CountedAreStored == Layer2Spec => []CountedOutcomesAreStored
<1>1. Layer2Inv => CountedOutcomesAreStored
  BY DEF Layer2Inv, CopiesInv
<1> QED  BY <1>1, Layer2Invariant, PTL

\* One narrative costs at most four completions, one judgement at most two.
THEOREM CallsStayBounded == Layer2Spec => []CallsBounded
<1>1. Layer2Inv => CallsBounded
  BY CallsInvBounds DEF Layer2Inv
<1> QED  BY <1>1, Layer2Invariant, PTL

\* A text is brought in only by the sweep that generated it, with its own verdict, while
\* that sweep is writing it.
THEOREM TextsKeepTheirSweep == Layer2Spec => TextsComeFromTheirSweep
<1> DEFINE Step == \A c \in Combos :
                     \/ narratives'[c] = narratives[c]
                     \/ /\ narratives[c] # NULL
                        /\ narratives'[c] = [narratives[c] EXCEPT !.verdict = narratives'[c].verdict]
                     \/ \E s \in Sweeps : /\ stage[s] = "write" /\ Combo(s) = c
                                          /\ narratives'[c].text = <<s, c>>
                                          /\ narratives'[c].verdict.text = <<s, c>>
<1>1. Layer2Inv /\ [Layer2Next]_vars => [Step]_vars
  BY TextsStep DEF Layer2Inv
<1> QED  BY <1>1, Layer2Invariant, PTL DEF Layer2Spec, TextsComeFromTheirSweep
-----------------------------------------------------------------------------
(* Whose verdict a row carries *)

\* The verdict that was written with the row, or one that a re-fact-check gave to the
\* text it had listed.
OwnVerdict(row) == row.verdict = [text |-> row.text, evidence |-> row.evidence]

VerdictsHaveTheirGiver ==
  \A c \in Combos : narratives[c] # NULL =>
    \/ OwnVerdict(narratives[c])
    \/ \E r \in Rechecks : /\ snapshot[r][c] # NULL
                           /\ narratives[c].verdict.text = snapshot[r][c].text

VerdictInv ==
  /\ VerdictsHaveTheirGiver
  /\ \A p \in Readers : stage[p] = "idle" => snapshot[p] = NoNarratives

LEMMA VerdictsInit == Layer2Init => VerdictInv
<1> SUFFICES ASSUME Layer2Init PROVE VerdictInv
  OBVIOUS
<1>1. \A c \in Combos : narratives[c] # NULL => narratives[c] = HistoricalRow(c)
  BY DEF Layer2Init, NoNarratives
<1>2. \A c \in Combos : OwnVerdict(HistoricalRow(c))
  BY DEF OwnVerdict, HistoricalRow
<1>3. \A p \in Readers : snapshot[p] = NoNarratives
  BY DEF Layer2Init, Readers
<1> HIDE DEF OwnVerdict
<1> QED  BY <1>1, <1>2, <1>3 DEF VerdictInv, VerdictsHaveTheirGiver

\* A snapshot is taken once, when its reader starts.
LEMMA SnapshotsStay ==
  ASSUME LoopInv, RowsInv, [Layer2Next]_vars, NEW p \in Readers
  PROVE  /\ snapshot'[p] = snapshot[p] \/ stage[p] = "idle"
         /\ stage'[p] = "idle" => stage[p] = "idle" /\ snapshot'[p] = snapshot[p]
<1>0. /\ snapshot \in [Readers -> [Combos -> NarrativeRows \cup {NULL}]]
      /\ stage \in [Processes -> Stages] /\ Readers \subseteq Processes
  BY DEF RowsInv, LoopInv, Readers, Processes, Billing
<1>1. ASSUME NEW q \in Readers, JudgeStart(q) \/ RecheckStart(q)
      PROVE  /\ stage[q] = "idle" /\ stage'[q] # "idle"
             /\ \A x \in Readers : x # q => snapshot'[x] = snapshot[x]
  BY <1>0, <1>1 DEF JudgeStart, RecheckStart, Launched, At, To
<1>2. \/ UNCHANGED snapshot
      \/ \E q \in Readers : JudgeStart(q) \/ RecheckStart(q)
  BY WhoWrites DEF Readers
<1>3. stage'[p] = "idle" => stage[p] = "idle"
  BY <1>1, ReadersMove DEF Rests
<1> QED  BY <1>1, <1>2, <1>3

LEMMA VerdictsNext ==
  ASSUME LoopInv, RowsInv, VerdictInv, [Layer2Next]_vars
  PROVE  VerdictInv'
<1> DEFINE Given(c) == \E r \in Rechecks : /\ snapshot[r][c] # NULL
                                           /\ narratives[c].verdict.text = snapshot[r][c].text
<1>0. /\ narratives \in [Combos -> NarrativeRows \cup {NULL}]
      /\ \A c \in Combos : NoNarratives[c] = NULL
      /\ Rechecks \subseteq Readers
  BY DEF RowsInv, RowsOf, NoNarratives, Readers
<1>1. \A p \in Readers : stage'[p] = "idle" => snapshot'[p] = NoNarratives
  BY SnapshotsStay DEF VerdictInv
<1>2. ASSUME NEW r \in Rechecks, NEW c \in Combos, snapshot[r][c] # NULL
      PROVE  snapshot'[r] = snapshot[r]
  BY <1>0, <1>2, SnapshotsStay DEF VerdictInv
<1>3. ASSUME NEW c \in Combos, narratives'[c] = narratives[c], narratives[c] # NULL
      PROVE  OwnVerdict(narratives'[c]) \/ Given(c)'
  <2>1. OwnVerdict(narratives[c]) \/ Given(c)
    BY <1>3 DEF VerdictInv, VerdictsHaveTheirGiver
  <2>2. CASE OwnVerdict(narratives[c])
    BY <1>3, <2>2 DEF OwnVerdict
  <2>3. CASE Given(c)
    BY <1>2, <1>3, <2>3
  <2> QED  BY <2>1, <2>2, <2>3
<1>4. ASSUME NEW c \in Combos, NEW s \in Sweeps, narratives'[c] = NarrativeRecord(s), Combo(s) = c
      PROVE  OwnVerdict(narratives'[c])
  BY <1>4 DEF OwnVerdict, NarrativeRecord
<1>5. ASSUME NEW r \in Rechecks, RecheckWrite(r), NEW c \in Combos, narratives'[c] # narratives[c]
      PROVE  Given(c)'
  <2>1. /\ stage[r] = "write" /\ UpdateVerdict(r) /\ snapshot' = snapshot
    BY <1>5 DEF RecheckWrite, At
  <2>2. /\ Combo(r) \in Combos /\ narratives[Combo(r)] # NULL
        /\ snapshot[r][Combo(r)] # NULL
    <3>1. r \in Processes /\ r \in Readers
      BY DEF Processes, Readers
    <3>2. Min(todo[r]) \in todo[r]
      BY <2>1, <3>1, AtCombo DEF Looping
    <3> QED  BY <2>1, <3>1, <3>2, RecheckFacts DEF RowsInv, Combo
  <2>3. /\ c = Combo(r)
        /\ narratives'[c] = [narratives[c] EXCEPT !.verdict = Recheck(r)]
    BY <1>0, <1>5, <2>1, <2>2 DEF UpdateVerdict
  <2>4. narratives'[c].verdict = Recheck(r)
    BY <1>0, <2>2, <2>3 DEF NarrativeRows
  <2>5. narratives'[c].verdict.text = snapshot[r][c].text
    BY <2>3, <2>4 DEF Recheck
  <2> QED  BY <2>1, <2>2, <2>3, <2>5
<1>6. ASSUME NEW c \in Combos, narratives'[c] # NULL
      PROVE  OwnVerdict(narratives'[c]) \/ Given(c)'
  <2>1. CASE narratives'[c] = narratives[c]
    BY <1>3, <1>6, <2>1
  <2>2. ASSUME NEW s \in Sweeps, SweepWrite(s), narratives'[c] # narratives[c]
        PROVE  OwnVerdict(narratives'[c])
    <3>1. MergeNarrative(s)
      BY <2>2 DEF SweepWrite
    <3>2. c = Combo(s) /\ narratives'[c] = NarrativeRecord(s)
      BY <1>0, <2>2, <3>1 DEF MergeNarrative
    <3> QED  BY <1>4, <3>2
  <2> QED  BY <1>5, <2>1, <2>2, WhoWrites
<1> HIDE DEF OwnVerdict
<1>7. VerdictsHaveTheirGiver'
  BY <1>6 DEF VerdictsHaveTheirGiver
<1> QED  BY <1>1, <1>7 DEF VerdictInv

\* The verdict columns part from the text of their row in one way only: a re-fact-check
\* wrote the verdict on the text it had listed before a sweep replaced it.  While no
\* re-fact-check was started they are what tables_gold.tf says they are, whatever the
\* sweeps and judge sweeps do to each other.
THEOREM VerdictsStrayOnlyByRecheck ==
  Layer2Spec => [](/\ VerdictsHaveTheirGiver
                   /\ (\A r \in Rechecks : stage[r] = "idle") => VerdictIsAboutStoredText)
<1> DEFINE Claim == /\ VerdictsHaveTheirGiver
                    /\ (\A r \in Rechecks : stage[r] = "idle") => VerdictIsAboutStoredText
<1>1. Layer2Inv /\ VerdictInv /\ [Layer2Next]_vars => VerdictInv'
  BY VerdictsNext DEF Layer2Inv
<1>2. VerdictInv => Claim
  <2> SUFFICES ASSUME VerdictInv, \A r \in Rechecks : stage[r] = "idle",
                      NEW c \in Combos, narratives[c] # NULL
               PROVE  narratives[c].verdict.text = narratives[c].text
    BY DEF VerdictInv, VerdictIsAboutStoredText
  <2>1. \A r \in Rechecks : snapshot[r][c] = NULL
    BY DEF VerdictInv, Readers, NoNarratives
  <2>2. OwnVerdict(narratives[c])
    BY <2>1 DEF VerdictInv, VerdictsHaveTheirGiver
  <2> QED  BY <2>2 DEF OwnVerdict
<1> QED  BY <1>1, <1>2, VerdictsInit, Layer2Invariant, PTL DEF Layer2Spec
-----------------------------------------------------------------------------
(* Every run has an end *)

\* How many steps the call of generate, or of evaluate, can still take.
CallStepsLeft(p) ==
  IF p \in Sweeps
  THEN CASE generating[p] = "calling" -> 5 - 2 * (word_attempt[p] - 1) - (json_attempt[p] - 1)
         [] generating[p] = "idle"    -> 0
         [] OTHER                     -> 1
  ELSE IF p \in Judgings
  THEN CASE judging[p] = "calling" -> 4 - judge_attempt[p]
         [] judging[p] = "idle"    -> 0
         [] OTHER                  -> 1
  ELSE 0

\* The look-up of the evidence, a call and the attempts of the write.
ComboSteps == MaxAttempts + 6

\* The combinations after this one, and the cost row.
LaterSteps(p) == (Cardinality(todo[p]) - 1) * ComboSteps + MaxAttempts

RunSteps == Len(Order) * ComboSteps + MaxAttempts + 1

\* How many steps a run can still take.
RunStepsLeft(p) ==
  CASE stage[p] = "idle"     -> RunSteps
    [] stage[p] = "evidence" -> LaterSteps(p) + ComboSteps
    [] stage[p] = "llm"      -> LaterSteps(p) + MaxAttempts + CallStepsLeft(p)
    [] stage[p] = "write"    -> LaterSteps(p) + MaxAttempts - attempt[p]
    [] stage[p] = "cost"     -> MaxAttempts - attempt[p]
    [] OTHER                 -> 0

\* A step takes one run nearer to its end and leaves the other runs as far from theirs.
RunCountsDown ==
  \E p \in Processes : /\ RunStepsLeft(p)' < RunStepsLeft(p)
                       /\ \A q \in Processes : q # p => RunStepsLeft(q)' = RunStepsLeft(q)

ExtractionOnly ==
  /\ \E t \in Triples : silver[t] < MaxVersion /\ silver' = [silver EXCEPT ![t] = @ + 1]
  /\ \A p \in Processes : RunStepsLeft(p)' = RunStepsLeft(p)

\* The list of a run is finite, and a combination less is ComboSteps less.
LEMMA ListSizes ==
  ASSUME NEW S \in SUBSET DOMAIN Order
  PROVE  /\ Cardinality(S) \in 0..Len(Order) /\ Len(Order) \in Nat
         /\ S = {} <=> Cardinality(S) = 0
         /\ \A x \in S : Cardinality(S \ {x}) = Cardinality(S) - 1
<1>1. Len(Order) \in Nat /\ DOMAIN Order = 1..Len(Order)
  <2>1. Order \in Seq(Combos)
    BY OrderAssumption
  <2> QED  BY <2>1
<1>2. IsFiniteSet(DOMAIN Order) /\ Cardinality(DOMAIN Order) = Len(Order)
  <2>1. \A n \in Int : /\ IsFiniteSet(1..n)
                     /\ Cardinality(1..n) = IF 1 > n THEN 0 ELSE n - 1 + 1
    BY FS_Interval
  <2>2. /\ IsFiniteSet(1..Len(Order)) /\ Len(Order) >= 0
        /\ Cardinality(1..Len(Order)) = IF 1 > Len(Order) THEN 0 ELSE Len(Order) - 1 + 1
    BY <1>1, <2>1
  <2>3. (IF 1 > Len(Order) THEN 0 ELSE Len(Order) - 1 + 1) = Len(Order)
    BY <1>1
  <2> QED  BY <1>1, <2>2, <2>3
<1>3. IsFiniteSet(S) /\ Cardinality(S) <= Len(Order) /\ Cardinality(S) \in Nat
  BY <1>2, FS_Subset, FS_CardinalityType
<1>4. Cardinality(S) \in 0..Len(Order)
  BY <1>1, <1>3
<1>5. S = {} <=> Cardinality(S) = 0
  BY <1>3, FS_EmptySet
<1>6. \A x \in S : Cardinality(S \ {x}) = Cardinality(S) - 1
  BY <1>3, FS_RemoveElement
<1> QED  BY <1>1, <1>4, <1>5, <1>6

LEMMA ListSteps ==
  ASSUME NEW n \in Nat, NEW k \in 0..n
  PROVE  /\ ComboSteps \in Nat /\ ComboSteps > MaxAttempts + 5
         /\ n * ComboSteps \in Nat /\ k * ComboSteps \in 0..(n * ComboSteps)
         /\ k >= 1 => /\ (k - 1) * ComboSteps \in Nat
                      /\ k * ComboSteps = (k - 1) * ComboSteps + ComboSteps
<1>1. ComboSteps \in Nat /\ ComboSteps > MaxAttempts + 5
  BY Constants DEF ComboSteps
<1>2. \A a, b \in Nat : a * b \in Nat
  OBVIOUS
<1>3. \A a, b, c \in Nat : (a + b) * c = a * c + b * c
  OBVIOUS
<1>4. n - k \in Nat /\ n = k + (n - k)
  OBVIOUS
<1>5. n * ComboSteps = k * ComboSteps + (n - k) * ComboSteps
  BY <1>1, <1>3, <1>4
<1>6. k * ComboSteps \in Nat /\ (n - k) * ComboSteps \in Nat /\ n * ComboSteps \in Nat
  BY <1>1, <1>2, <1>4
<1>7. \A a, b, c \in Nat : a = b + c => b <= a
  OBVIOUS
<1>8. k * ComboSteps <= n * ComboSteps
  BY <1>5, <1>6, <1>7
<1>9. ASSUME k >= 1
      PROVE  /\ (k - 1) * ComboSteps \in Nat
             /\ k * ComboSteps = (k - 1) * ComboSteps + ComboSteps
  <2>1. k - 1 \in Nat /\ k = (k - 1) + 1
    BY <1>9
  <2>2. k * ComboSteps = (k - 1) * ComboSteps + 1 * ComboSteps
    BY <1>1, <1>3, <2>1
  <2>3. (k - 1) * ComboSteps \in Nat /\ 1 * ComboSteps = ComboSteps
    BY <1>1, <1>2, <2>1
  <2> QED  BY <2>2, <2>3
<1> QED  BY <1>1, <1>6, <1>8, <1>9

LEMMA CallStepsType ==
  ASSUME CallsInv, NEW p \in Processes
  PROVE  CallStepsLeft(p) \in 0..5
<1>1. ASSUME p \in Sweeps PROVE CallStepsLeft(p) \in 0..5
  <2>1. word_attempt[p] \in {1, 2} /\ json_attempt[p] \in {1, 2}
    BY <1>1 DEF CallsInv, GeneratorTypeOK
  <2> QED  BY <1>1, <2>1 DEF CallStepsLeft
<1>2. ASSUME p \notin Sweeps, p \in Judgings PROVE CallStepsLeft(p) \in 0..5
  <2>1. judge_attempt[p] \in {1, 2}
    BY <1>2 DEF CallsInv, JudgeTypeOK
  <2> QED  BY <1>2, <2>1 DEF CallStepsLeft
<1>3. ASSUME p \notin Sweeps, p \notin Judgings PROVE CallStepsLeft(p) \in 0..5
  BY <1>3 DEF CallStepsLeft
<1> QED  BY <1>1, <1>2, <1>3

\* What is left of a run in its loop, and of one that is not.
LEMMA RunStepsType ==
  ASSUME CallsInv, LoopInv, NEW p \in Processes
  PROVE  /\ RunSteps \in Nat /\ RunStepsLeft(p) \in 0..RunSteps
         /\ RunStepsLeft(p) = 0 <=> stage[p] \in Ended
         /\ stage[p] \in Looping => /\ LaterSteps(p) \in Nat /\ LaterSteps(p) >= MaxAttempts
                                    /\ RunStepsLeft(p) > LaterSteps(p)
                                    /\ RunStepsLeft(p) < RunSteps
<1> DEFINE n == Len(Order)
           k == Cardinality(todo[p])
<1>0. /\ todo[p] \in SUBSET DOMAIN Order /\ stage[p] \in Stages
      /\ attempt[p] \in Nat /\ attempt[p] < MaxAttempts /\ MaxAttempts \in Nat
      /\ CallStepsLeft(p) \in Nat /\ CallStepsLeft(p) <= 5
  <2>1. attempt[p] \in 0..(MaxAttempts - 1) /\ MaxAttempts \in Nat
    BY Constants DEF LoopInv
  <2> QED  BY <2>1, CallStepsType DEF LoopInv
<1>1. n \in Nat /\ k \in 0..n /\ (todo[p] = {} <=> k = 0)
  BY <1>0, ListSizes
<1>2. /\ ComboSteps \in Nat /\ ComboSteps > MaxAttempts + 5
      /\ n * ComboSteps \in Nat /\ k * ComboSteps \in 0..(n * ComboSteps)
      /\ k >= 1 => /\ (k - 1) * ComboSteps \in Nat
                   /\ k * ComboSteps = (k - 1) * ComboSteps + ComboSteps
  BY <1>1, ListSteps
<1>3. RunSteps \in Nat /\ RunSteps = n * ComboSteps + MaxAttempts + 1
  BY <1>0, <1>2 DEF RunSteps
<1>4. ASSUME stage[p] \in Looping
      PROVE  /\ LaterSteps(p) \in Nat /\ LaterSteps(p) >= MaxAttempts
             /\ LaterSteps(p) + ComboSteps < RunSteps
  <2>1. k >= 1
    BY <1>1, <1>4 DEF LoopInv, PlaceOK
  <2> DEFINE l == (k - 1) * ComboSteps
             m == n * ComboSteps
  <2>2. /\ LaterSteps(p) = l + MaxAttempts /\ RunSteps = m + MaxAttempts + 1
        /\ l \in Nat /\ m \in Nat /\ l + ComboSteps <= m
    BY <1>2, <1>3, <2>1 DEF LaterSteps
  <2> HIDE DEF l, m
  <2> QED  BY <1>0, <1>2, <2>2
<1> HIDE DEF n, k
<1>5. CASE stage[p] \in Looping
  <2>1. \/ stage[p] = "evidence" /\ RunStepsLeft(p) = LaterSteps(p) + ComboSteps
        \/ stage[p] = "llm" /\ RunStepsLeft(p) = LaterSteps(p) + MaxAttempts + CallStepsLeft(p)
        \/ stage[p] = "write" /\ RunStepsLeft(p) = LaterSteps(p) + MaxAttempts - attempt[p]
    BY <1>5 DEF Looping, RunStepsLeft
  <2>2. MaxAttempts >= 1
    BY Constants
  <2>3. RunStepsLeft(p) \in Nat /\ RunStepsLeft(p) > LaterSteps(p) /\ RunStepsLeft(p) < RunSteps
    BY <1>0, <1>2, <1>3, <1>4, <1>5, <2>1, <2>2
  <2>4. stage[p] \notin Ended /\ RunStepsLeft(p) # 0
    BY <1>4, <1>5, <2>3 DEF Looping, Ended
  <2> QED  BY <1>3, <1>4, <1>5, <2>3, <2>4
<1>6. CASE stage[p] = "idle"
  BY <1>0, <1>2, <1>3, <1>6 DEF RunStepsLeft, Ended, Looping
<1>7. CASE stage[p] = "cost"
  BY <1>0, <1>2, <1>3, <1>7 DEF RunStepsLeft, Ended, Looping
<1>8. CASE stage[p] \in Ended
  BY <1>0, <1>2, <1>3, <1>8 DEF RunStepsLeft, Ended, Looping
<1> QED  BY <1>0, <1>5, <1>6, <1>7, <1>8 DEF Stages, Looping, Ended

\* The same, in the form that is carried over to the state after a step.
LEMMA StepsAreTyped ==
  /\ CallsInv => \A q \in Processes : CallStepsLeft(q) \in 0..5
  /\ CallsInv /\ LoopInv => \A q \in Processes : stage[q] \in Looping => RunStepsLeft(q) < RunSteps
BY CallStepsType, RunStepsType

LEMMA StandsStill ==
  ASSUME NEW q, Rests(q), CallStepsLeft(q)' = CallStepsLeft(q)
  PROVE  RunStepsLeft(q)' = RunStepsLeft(q)
BY DEF Rests, RunStepsLeft, LaterSteps

\* A call moves towards its end and leaves the others alone.
LEMMA GenerateSteps ==
  ASSUME CallsInv, NEW s \in Sweeps, UNCHANGED judgeVars,
         Generate(s) \/ GeneratorCalls(s) \/ (\E how \in {"returned", "raised"} : GenerateTaken(s, how))
  PROVE  /\ \A q \in Processes : q # s => CallStepsLeft(q)' = CallStepsLeft(q)
         /\ GeneratorCalls(s) => CallStepsLeft(s)' < CallStepsLeft(s)
         /\ (\E how \in {"returned", "raised"} : GenerateTaken(s, how)) => CallStepsLeft(s) = 1
<1> USE DEF GeneratorTo, GenerateEnds, Bill
<1>0. /\ generating \in [Sweeps -> {"idle", "calling", "returned", "raised"}]
      /\ word_attempt \in [Sweeps -> 1..2] /\ json_attempt \in [Sweeps -> 1..2]
      /\ word_attempt[s] \in {1, 2} /\ json_attempt[s] \in {1, 2}
  BY DEF CallsInv, GeneratorTypeOK
<1>1. \A q \in Sweeps : q # s => /\ generating'[q] = generating[q]
                                 /\ word_attempt'[q] = word_attempt[q]
                                 /\ json_attempt'[q] = json_attempt[q]
  BY <1>0 DEF Generate, GenerateTaken, GeneratorCalls, CompletionRaises, CompletionMalformed,
              CompletionTooLong, CompletionAccepted
<1>2. \A q \in Processes : q # s => CallStepsLeft(q)' = CallStepsLeft(q)
  BY <1>1 DEF CallStepsLeft, judgeVars
<1>3. ASSUME GeneratorCalls(s) PROVE CallStepsLeft(s)' < CallStepsLeft(s)
  <2>1. CallStepsLeft(s) = 5 - 2 * (word_attempt[s] - 1) - (json_attempt[s] - 1)
    BY <1>3 DEF CallStepsLeft, GeneratorCalls, CompletionRaises, CompletionMalformed,
                CompletionTooLong, CompletionAccepted
  <2>2. \/ generating'[s] \in {"returned", "raised"}
        \/ /\ generating'[s] = "calling" /\ json_attempt[s] = 1 /\ json_attempt'[s] = 2
           /\ word_attempt'[s] = word_attempt[s]
        \/ /\ generating'[s] = "calling" /\ json_attempt'[s] = 1
           /\ word_attempt[s] = 1 /\ word_attempt'[s] = 2
    BY <1>0, <1>3 DEF GeneratorCalls, CompletionRaises, CompletionMalformed,
                      CompletionTooLong, CompletionAccepted
  <2>3. CASE generating'[s] \in {"returned", "raised"}
    <3>1. CallStepsLeft(s)' = 1
      BY <2>3 DEF CallStepsLeft
    <3> QED  BY <1>0, <2>1, <3>1
  <2>4. CASE generating'[s] = "calling"
    <3>1. CallStepsLeft(s)' = 5 - 2 * (word_attempt'[s] - 1) - (json_attempt'[s] - 1)
      BY <2>4 DEF CallStepsLeft
    <3> QED  BY <1>0, <2>1, <2>2, <2>4, <3>1
  <2> QED  BY <2>2, <2>3, <2>4
<1>4. ASSUME NEW how \in {"returned", "raised"}, GenerateTaken(s, how) PROVE CallStepsLeft(s) = 1
  BY <1>4 DEF GenerateTaken, CallStepsLeft
<1> QED  BY <1>2, <1>3, <1>4

LEMMA EvaluateSteps ==
  ASSUME CallsInv, NEW j \in Judgings, UNCHANGED generatorVars,
         Evaluate(j) \/ JudgeCalls(j) \/ (\E how \in {"returned", "raised"} : EvaluateTaken(j, how))
  PROVE  /\ \A q \in Processes : q # j => CallStepsLeft(q)' = CallStepsLeft(q)
         /\ JudgeCalls(j) => CallStepsLeft(j)' < CallStepsLeft(j)
         /\ (\E how \in {"returned", "raised"} : EvaluateTaken(j, how)) => CallStepsLeft(j) = 1
<1> USE DEF JudgeTo, EvaluateEnds, JudgeAgain
<1>0. /\ judging \in [Judgings -> {"idle", "calling", "returned", "raised"}]
      /\ judge_attempt \in [Judgings -> 1..2] /\ judge_attempt[j] \in {1, 2}
      /\ j \notin Sweeps
  BY DistinctRuns DEF CallsInv, JudgeTypeOK
<1>1. \A q \in Judgings : q # j => /\ judging'[q] = judging[q]
                                   /\ judge_attempt'[q] = judge_attempt[q]
  BY <1>0 DEF Evaluate, EvaluateTaken, JudgeCalls, JudgementRaises, JudgementUnusable,
              JudgementParsed, JudgementNotAnObject
<1>2. \A q \in Processes : q # j => CallStepsLeft(q)' = CallStepsLeft(q)
  BY <1>1 DEF CallStepsLeft, generatorVars
<1>3. ASSUME JudgeCalls(j) PROVE CallStepsLeft(j)' < CallStepsLeft(j)
  <2>1. CallStepsLeft(j) = 4 - judge_attempt[j]
    BY <1>0, <1>3 DEF CallStepsLeft, JudgeCalls, JudgementRaises, JudgementUnusable,
                      JudgementParsed, JudgementNotAnObject
  <2>2. \/ judging'[j] \in {"returned", "raised"}
        \/ judging'[j] = "calling" /\ judge_attempt[j] = 1 /\ judge_attempt'[j] = 2
    BY <1>0, <1>3 DEF JudgeCalls, JudgementRaises, JudgementUnusable,
                      JudgementParsed, JudgementNotAnObject
  <2>3. CASE judging'[j] \in {"returned", "raised"}
    <3>1. CallStepsLeft(j)' = 1
      BY <1>0, <2>3 DEF CallStepsLeft
    <3> QED  BY <1>0, <2>1, <3>1
  <2>4. CASE judging'[j] = "calling"
    <3>1. CallStepsLeft(j)' = 4 - judge_attempt'[j]
      BY <1>0, <2>4 DEF CallStepsLeft
    <3> QED  BY <1>0, <2>1, <2>2, <2>4, <3>1
  <2> QED  BY <2>2, <2>3, <2>4
<1>4. ASSUME NEW how \in {"returned", "raised"}, EvaluateTaken(j, how) PROVE CallStepsLeft(j) = 1
  BY <1>0, <1>4 DEF EvaluateTaken, CallStepsLeft
<1> QED  BY <1>2, <1>3, <1>4

\* On to the next combination, or past the loop.
LEMMA NextComboCounts ==
  ASSUME CallsInv, LoopInv, NEW p \in Processes, stage[p] \in Looping,
         NEW after \in {"cost", "done"}, NextCombo(p, after)
  PROVE  /\ RunStepsLeft(p)' < RunStepsLeft(p)
         /\ \A q \in Processes : q # p => Rests(q)
<1> DEFINE k == Cardinality(todo[p])
<1>1. /\ RunStepsLeft(p) > LaterSteps(p) /\ LaterSteps(p) = (k - 1) * ComboSteps + MaxAttempts
      /\ RunStepsLeft(p) \in Nat
  BY RunStepsType DEF LaterSteps
<1>2. /\ todo'[p] = todo[p] \ {Min(todo[p])} /\ attempt'[p] = 0
      /\ todo[p] \in SUBSET DOMAIN Order /\ Min(todo[p]) \in todo[p]
  BY AtCombo DEF NextCombo, LoopInv
<1>3. /\ stage'[p] \in {"evidence", after}
      /\ stage'[p] = "evidence" => todo'[p] # {}
      /\ todo'[p] \in SUBSET DOMAIN Order
      /\ \A q \in Processes : q # p => Rests(q)
  BY <1>2, NextKeeps DEF Rests
<1>4. /\ k \in Nat /\ Cardinality(todo'[p]) = k - 1 /\ k - 1 \in 0..Len(Order) /\ Len(Order) \in Nat
      /\ todo'[p] # {} => k - 1 # 0
  <2>1. Cardinality(todo[p] \ {Min(todo[p])}) = k - 1 /\ k \in 0..Len(Order) /\ Len(Order) \in Nat
    BY <1>2, ListSizes
  <2>2. /\ Cardinality(todo'[p]) \in 0..Len(Order)
        /\ todo'[p] # {} => Cardinality(todo'[p]) # 0
    BY <1>3, ListSizes
  <2>3. Cardinality(todo'[p]) = k - 1
    BY <1>2, <2>1
  <2> HIDE DEF k
  <2> QED  BY <2>1, <2>2, <2>3
<1>5. /\ MaxAttempts \in Nat /\ ComboSteps \in Nat /\ (k - 1) * ComboSteps \in Nat
      /\ k - 1 >= 1 => (k - 1) * ComboSteps = (k - 1 - 1) * ComboSteps + ComboSteps
  <2> DEFINE i == k - 1
  <2>1. i \in 0..Len(Order) /\ Len(Order) \in Nat
    BY <1>4
  <2> HIDE DEF i
  <2>2. /\ ComboSteps \in Nat /\ i * ComboSteps \in 0..(Len(Order) * ComboSteps)
        /\ Len(Order) * ComboSteps \in Nat
        /\ i >= 1 => i * ComboSteps = (i - 1) * ComboSteps + ComboSteps
    BY <2>1, ListSteps
  <2>3. i * ComboSteps \in Nat
    BY <2>2
  <2> QED  BY <2>2, <2>3, Constants DEF i
<1>6. k - 1 # 0 => k - 1 >= 1
  BY <1>4
<1>7. CASE stage'[p] = "evidence"
  <2>1. RunStepsLeft(p)' = (Cardinality(todo'[p]) - 1) * ComboSteps + MaxAttempts + ComboSteps
    BY <1>7 DEF RunStepsLeft, LaterSteps
  <2>2. RunStepsLeft(p)' = (k - 1 - 1) * ComboSteps + MaxAttempts + ComboSteps
    BY <1>4, <2>1
  <2>3. (k - 1) * ComboSteps = (k - 1 - 1) * ComboSteps + ComboSteps
    BY <1>3, <1>4, <1>5, <1>6, <1>7
  <2>4. (k - 1 - 1) * ComboSteps \in Int
    <3>1. \A a, b \in Int : a * b \in Int
      OBVIOUS
    <3>2. k - 1 - 1 \in Int /\ ComboSteps \in Int
      BY <1>4, <1>5
    <3> QED  BY <3>1, <3>2
  <2>5. \A a, b, c \in Int : a + b + c = (a + c) + b
    OBVIOUS
  <2>6. RunStepsLeft(p)' = LaterSteps(p)
    BY <1>1, <1>5, <2>2, <2>3, <2>4, <2>5
  <2> QED  BY <1>1, <1>3, <2>6
<1>8. CASE stage'[p] \in {"cost", "done"}
  <2>1. RunStepsLeft(p)' \in {0, MaxAttempts}
    BY <1>2, <1>5, <1>8 DEF RunStepsLeft
  <2>2. LaterSteps(p) \in Nat /\ LaterSteps(p) >= MaxAttempts
    BY RunStepsType
  <2> QED  BY <1>1, <1>3, <1>5, <2>1, <2>2
<1> QED  BY <1>3, <1>7, <1>8

\* Within the handling of one combination, or out of the loop early.
LEMMA ToCounts ==
  ASSUME CallsInv, CallsInv', LoopInv, NEW p \in Processes, NEW to \in Stages, To(p, to),
         UNCHANGED <<todo, attempt>>,
         \/ stage[p] = "evidence" /\ to \in {"llm", "write", "raised"}
         \/ stage[p] = "llm" /\ to = "write" /\ CallStepsLeft(p) = 1
         \/ stage[p] \in Running /\ to \in Ended
         \/ stage[p] = "idle" /\ to \in Ended
  PROVE  /\ RunStepsLeft(p)' < RunStepsLeft(p)
         /\ \A q \in Processes : q # p => Rests(q)
<1>0. /\ stage \in [Processes -> Stages] /\ attempt[p] \in 0..(MaxAttempts - 1)
      /\ MaxAttempts \in Nat /\ MaxAttempts >= 1 /\ ComboSteps \in Nat /\ ComboSteps > MaxAttempts + 5
  <2>1. 0 \in Nat /\ 0 \in 0..0
    OBVIOUS
  <2> QED  BY <2>1, Constants, ListSteps DEF LoopInv
<1>1. stage'[p] = to /\ \A q \in Processes : q # p => Rests(q)
  BY <1>0 DEF To, Rests
<1>2. CallStepsLeft(p) \in 0..5 /\ CallStepsLeft(p)' \in 0..5
  <2>1. (CallsInv => \A q \in Processes : CallStepsLeft(q) \in 0..5)'
    BY StepsAreTyped, PTL
  <2> QED  BY <2>1, CallStepsType
<1>3. LaterSteps(p)' = LaterSteps(p) /\ attempt'[p] = attempt[p]
  BY DEF LaterSteps
<1>4. CASE to \in Ended
  <2>1. RunStepsLeft(p)' = 0 /\ stage[p] \notin Ended
    BY <1>1, <1>4 DEF RunStepsLeft, Ended, Running
  <2> QED  BY <1>1, <2>1, RunStepsType
<1>5. CASE to = "llm" /\ stage[p] = "evidence"
  <2>1. /\ RunStepsLeft(p)' = LaterSteps(p) + MaxAttempts + CallStepsLeft(p)'
        /\ RunStepsLeft(p) = LaterSteps(p) + ComboSteps
    BY <1>1, <1>3, <1>5 DEF RunStepsLeft
  <2>2. LaterSteps(p) \in Nat
    BY <1>5, RunStepsType DEF Looping
  <2>3. \A a, b, c, d \in Nat : c <= 5 /\ d > b + 5 => a + b + c < a + d
    OBVIOUS
  <2>4. CallStepsLeft(p)' \in Nat /\ CallStepsLeft(p)' <= 5
    BY <1>2
  <2> QED  BY <1>0, <1>1, <2>1, <2>2, <2>3, <2>4
<1>6. CASE to = "write" /\ stage[p] \in {"evidence", "llm"}
  <2>1. /\ RunStepsLeft(p)' = LaterSteps(p) + MaxAttempts - attempt[p]
        /\ \/ RunStepsLeft(p) = LaterSteps(p) + ComboSteps
           \/ RunStepsLeft(p) = LaterSteps(p) + MaxAttempts + 1
    BY <1>1, <1>3, <1>6 DEF RunStepsLeft, Ended
  <2>2. LaterSteps(p) \in Nat
    BY <1>6, RunStepsType DEF Looping
  <2> QED  BY <1>0, <1>1, <2>1, <2>2
<1> QED  BY <1>4, <1>5, <1>6 DEF Ended

\* Another attempt of a write.
LEMMA AgainCounts ==
  ASSUME CallsInv, LoopInv, NEW p \in Processes, stage[p] \in {"write", "cost"}, Again(p)
  PROVE  /\ RunStepsLeft(p)' < RunStepsLeft(p)
         /\ \A q \in Processes : q # p => Rests(q)
<1>1. /\ attempt \in [Processes -> 0..(MaxAttempts - 1)] /\ attempt[p] \in Nat /\ MaxAttempts \in Nat
      /\ attempt' = [attempt EXCEPT ![p] = @ + 1] /\ UNCHANGED <<stage, todo>>
  <2>1. attempt[p] \in 0..(MaxAttempts - 1)
    BY DEF LoopInv
  <2> QED  BY <2>1, Constants DEF LoopInv, Again
<1>2. attempt'[p] = attempt[p] + 1 /\ \A q \in Processes : q # p => Rests(q)
  BY <1>1 DEF Rests
<1>3. LaterSteps(p)' = LaterSteps(p)
  BY <1>1 DEF LaterSteps
<1>4. CASE stage[p] = "write"
  <2>1. /\ RunStepsLeft(p)' = LaterSteps(p) + MaxAttempts - attempt'[p]
        /\ RunStepsLeft(p) = LaterSteps(p) + MaxAttempts - attempt[p]
    BY <1>1, <1>3, <1>4 DEF RunStepsLeft
  <2>2. LaterSteps(p) \in Nat
    BY <1>4, RunStepsType DEF Looping
  <2> QED  BY <1>1, <1>2, <2>1, <2>2
<1>5. CASE stage[p] = "cost"
  <2>1. /\ RunStepsLeft(p)' = MaxAttempts - attempt'[p]
        /\ RunStepsLeft(p) = MaxAttempts - attempt[p]
    BY <1>1, <1>5 DEF RunStepsLeft
  <2> QED  BY <1>1, <1>2, <2>1
<1> QED  BY <1>4, <1>5

\* Nothing of the run but its call moves.
LEMMA CallCounts ==
  ASSUME CallsInv, CallsInv', LoopInv, NEW p \in Processes, stage[p] = "llm", UNCHANGED runVars,
         CallStepsLeft(p)' < CallStepsLeft(p)
  PROVE  /\ RunStepsLeft(p)' < RunStepsLeft(p)
         /\ \A q \in Processes : q # p => Rests(q)
<1>1. stage' = stage /\ todo' = todo /\ attempt' = attempt
  BY DEF runVars
<1>2. LaterSteps(p)' = LaterSteps(p)
  BY <1>1 DEF LaterSteps
<1>3. /\ RunStepsLeft(p)' = LaterSteps(p) + MaxAttempts + CallStepsLeft(p)'
      /\ RunStepsLeft(p) = LaterSteps(p) + MaxAttempts + CallStepsLeft(p)
  BY <1>1, <1>2 DEF RunStepsLeft
<1>4. LaterSteps(p) \in Nat /\ MaxAttempts \in Nat
  BY RunStepsType, Constants DEF Looping
<1>5. CallStepsLeft(p) \in Nat /\ CallStepsLeft(p)' \in Nat
  <2>1. (CallsInv => \A q \in Processes : CallStepsLeft(q) \in 0..5)'
    BY StepsAreTyped, PTL
  <2> QED  BY <2>1, CallStepsType
<1>6. \A a, b, c, d \in Nat : c < d => a + b + c < a + b + d
  OBVIOUS
<1> QED  BY <1>1, <1>3, <1>4, <1>5, <1>6 DEF Rests

\* A run begins, with its list.
LEMMA StartCounts ==
  ASSUME CallsInv, LoopInv, CallsInv', LoopInv', NEW p \in Processes, stage[p] = "idle",
         NEW list, todo' = [todo EXCEPT ![p] = list], To(p, "evidence"), UNCHANGED attempt
  PROVE  /\ RunStepsLeft(p)' < RunStepsLeft(p)
         /\ \A q \in Processes : q # p => Rests(q)
<1>1. /\ stage'[p] = "evidence" /\ \A q \in Processes : q # p => Rests(q)
      /\ RunStepsLeft(p) = RunSteps
  BY DEF LoopInv, To, Rests, RunStepsLeft
<1>3. (CallsInv /\ LoopInv => \A q \in Processes : stage[q] \in Looping => RunStepsLeft(q) < RunSteps)'
  BY StepsAreTyped, PTL
<1>4. RunSteps' = RunSteps
  BY DEF RunSteps, ComboSteps
<1> QED  BY <1>1, <1>3, <1>4 DEF Looping

\* A run that ends has no step left.
LEMMA EndCounts ==
  ASSUME CallsInv, LoopInv, NEW p \in Processes, stage[p] \notin Ended, stage'[p] \in Ended
  PROVE  RunStepsLeft(p)' < RunStepsLeft(p)
<1>1. RunStepsLeft(p)' = 0
  BY DEF RunStepsLeft, Ended
<1> QED  BY <1>1, RunStepsType

\* One run moved, and the calls of the others did not.
LEMMA OneCountsDown ==
  ASSUME NEW p \in Processes, RunStepsLeft(p)' < RunStepsLeft(p),
         \A q \in Processes : q # p => Rests(q),
         \A q \in Processes : q # p => CallStepsLeft(q)' = CallStepsLeft(q)
  PROVE  RunCountsDown
BY StandsStill DEF RunCountsDown

LEMMA CallsRest ==
  ASSUME UNCHANGED generatorVars, UNCHANGED judgeVars
  PROVE  \A q \in Processes : CallStepsLeft(q)' = CallStepsLeft(q)
BY DEF CallStepsLeft, generatorVars, judgeVars

LEMMA SweepCounts ==
  ASSUME CallsInv, CallsInv', LoopInv, LoopInv', NEW s \in Sweeps, SweepStart(s) \/ SweepStep(s)
  PROVE  RunCountsDown
<1> USE DEF At, Looping, Running, Ended
<1>0. s \in Processes /\ {"evidence", "llm", "write", "done", "raised"} \subseteq Stages
  BY DEF Processes, Billing, Stages
<1>1. CASE SweepStart(s)
  BY <1>0, <1>1, StartCounts, CallsRest, OneCountsDown DEF SweepStart, Launched
<1>2. CASE SweepEvidence(s)
  <2>1. CASE Generate(s) /\ To(s, "llm") /\ UNCHANGED <<todo, attempt>>
    BY <1>0, <1>2, <2>1, ToCounts, GenerateSteps, OneCountsDown DEF SweepEvidence
  <2>2. CASE NextCombo(s, "cost") /\ UNCHANGED generatorVars
    BY <1>0, <1>2, <2>2, NextComboCounts, CallsRest, OneCountsDown DEF SweepEvidence
  <2> QED  BY <1>2, <2>1, <2>2 DEF SweepEvidence
<1>3. CASE SweepGenerates(s)
  <2>1. stage[s] = "llm" /\ GeneratorCalls(s) /\ UNCHANGED judgeVars /\ UNCHANGED runVars
    BY <1>3 DEF SweepGenerates
  <2>2. /\ CallStepsLeft(s)' < CallStepsLeft(s)
        /\ \A q \in Processes : q # s => CallStepsLeft(q)' = CallStepsLeft(q)
    BY <2>1, GenerateSteps
  <2> QED  BY <1>0, <2>1, <2>2, CallCounts, OneCountsDown
<1>4. CASE SweepGenerateRaises(s)
  BY <1>0, <1>4, NextComboCounts, GenerateSteps, OneCountsDown DEF SweepGenerateRaises
<1>5. CASE SweepChecks(s)
  BY <1>0, <1>5, ToCounts, GenerateSteps, OneCountsDown DEF SweepChecks
<1>6. CASE SweepWrite(s)
  <2>1. \A q \in Processes : CallStepsLeft(q)' = CallStepsLeft(q)
    BY <1>6, CallsRest DEF SweepWrite
  <2> QED  BY <1>0, <1>6, <2>1, NextComboCounts, AgainCounts, OneCountsDown DEF SweepWrite
<1>7. CASE WriteCost(s)
  <2>1. \A q \in Processes : CallStepsLeft(q)' = CallStepsLeft(q)
    BY <1>7, CallsRest DEF WriteCost
  <2> QED  BY <1>0, <1>7, <2>1, ToCounts, AgainCounts, OneCountsDown DEF WriteCost
<1> QED  BY <1>1, <1>2, <1>3, <1>4, <1>5, <1>6, <1>7 DEF SweepStep

LEMMA JudgeCounts ==
  ASSUME CallsInv, CallsInv', LoopInv, LoopInv', NEW j \in Judgings, JudgeStart(j) \/ JudgeStep(j)
  PROVE  RunCountsDown
<1> USE DEF At, Looping, Running, Ended
<1>0. j \in Processes /\ {"evidence", "llm", "write", "done", "raised"} \subseteq Stages
  BY DEF Processes, Billing, Stages
<1>1. CASE JudgeStart(j)
  <2>1. \A q \in Processes : CallStepsLeft(q)' = CallStepsLeft(q)
    BY <1>1, CallsRest DEF JudgeStart
  <2>2. CASE todo' = [todo EXCEPT ![j] = Listed] /\ To(j, "evidence")
    BY <1>0, <1>1, <2>1, <2>2, StartCounts, OneCountsDown DEF JudgeStart, Launched
  <2>3. CASE To(j, "raised") /\ UNCHANGED todo
    BY <1>0, <1>1, <2>1, <2>3, ToCounts, OneCountsDown DEF JudgeStart, Launched
  <2> QED  BY <1>1, <2>2, <2>3 DEF JudgeStart
<1>2. CASE JudgeEvidence(j)
  <2>1. CASE Evaluate(j) /\ To(j, "llm") /\ UNCHANGED <<todo, attempt>>
    BY <1>0, <1>2, <2>1, ToCounts, EvaluateSteps, OneCountsDown DEF JudgeEvidence
  <2>2. CASE NextCombo(j, "cost") /\ UNCHANGED judgeVars
    BY <1>0, <1>2, <2>2, NextComboCounts, CallsRest, OneCountsDown DEF JudgeEvidence
  <2> QED  BY <1>2, <2>1, <2>2 DEF JudgeEvidence
<1>3. CASE JudgeEvaluates(j)
  <2>1. stage[j] = "llm" /\ JudgeCalls(j) /\ UNCHANGED generatorVars /\ UNCHANGED runVars
    BY <1>3 DEF JudgeEvaluates
  <2>2. /\ CallStepsLeft(j)' < CallStepsLeft(j)
        /\ \A q \in Processes : q # j => CallStepsLeft(q)' = CallStepsLeft(q)
    BY <2>1, EvaluateSteps
  <2> QED  BY <1>0, <2>1, <2>2, CallCounts, OneCountsDown
<1>4. CASE JudgeEvaluateRaises(j)
  BY <1>0, <1>4, NextComboCounts, EvaluateSteps, OneCountsDown DEF JudgeEvaluateRaises
<1>5. CASE JudgeReturns(j)
  BY <1>0, <1>5, ToCounts, EvaluateSteps, OneCountsDown DEF JudgeReturns
<1>6. CASE JudgeWrite(j)
  <2>1. \A q \in Processes : CallStepsLeft(q)' = CallStepsLeft(q)
    BY <1>6, CallsRest DEF JudgeWrite
  <2> QED  BY <1>0, <1>6, <2>1, NextComboCounts, AgainCounts, OneCountsDown DEF JudgeWrite, JudgeGivesUp
<1>7. CASE WriteCost(j)
  <2>1. \A q \in Processes : CallStepsLeft(q)' = CallStepsLeft(q)
    BY <1>7, CallsRest DEF WriteCost
  <2> QED  BY <1>0, <1>7, <2>1, ToCounts, AgainCounts, OneCountsDown DEF WriteCost
<1> QED  BY <1>1, <1>2, <1>3, <1>4, <1>5, <1>6, <1>7 DEF JudgeStep

LEMMA RecheckCounts ==
  ASSUME CallsInv, CallsInv', LoopInv, LoopInv', NEW r \in Rechecks,
         RecheckStart(r) \/ RecheckStartRaises(r) \/ RecheckStep(r)
  PROVE  RunCountsDown
<1> USE DEF At, Looping, Running, Ended
<1>0. r \in Processes /\ {"evidence", "llm", "write", "done", "raised"} \subseteq Stages
  BY DEF Processes, Stages
<1>1. \A q \in Processes : CallStepsLeft(q)' = CallStepsLeft(q)
  <2>1. UNCHANGED generatorVars /\ UNCHANGED judgeVars
    BY DEF RecheckStart, RecheckStartRaises, RecheckStep, RecheckEvidence, RecheckWrite
  <2> QED  BY <2>1, CallsRest
<1>2. CASE RecheckStart(r)
  <2>1. CASE To(r, "evidence")
    BY <1>0, <1>1, <1>2, <2>1, StartCounts, OneCountsDown DEF RecheckStart, Launched
  <2>2. CASE To(r, "done")
    <3>1. stage[r] = "idle" /\ stage'[r] = "done" /\ \A q \in Processes : q # r => Rests(q)
      BY <1>0, <1>2, <2>2 DEF RecheckStart, Launched, To, Rests, LoopInv
    <3> QED  BY <1>0, <1>1, <3>1, EndCounts, OneCountsDown
  <2> QED  BY <1>2, <2>1, <2>2 DEF RecheckStart
<1>3. CASE RecheckStartRaises(r)
  BY <1>0, <1>1, <1>3, ToCounts, OneCountsDown DEF RecheckStartRaises, Launched
<1>4. CASE RecheckEvidence(r)
  BY <1>0, <1>1, <1>4, ToCounts, OneCountsDown DEF RecheckEvidence
<1>5. CASE RecheckWrite(r)
  BY <1>0, <1>1, <1>5, ToCounts, NextComboCounts, OneCountsDown DEF RecheckWrite
<1> QED  BY <1>2, <1>3, <1>4, <1>5 DEF RecheckStep

LEMMA DieCounts ==
  ASSUME CallsInv, LoopInv, NEW p \in Processes, Die(p)
  PROVE  RunCountsDown
<1>1. /\ stage[p] \notin Ended /\ stage'[p] \in Ended
      /\ \A q \in Processes : q # p => Rests(q)
  BY DEF Die, To, Rests, LoopInv, Running, Ended
<1>2. \A q \in Processes : CallStepsLeft(q)' = CallStepsLeft(q)
  BY CallsRest DEF Die
<1> QED  BY <1>1, <1>2, EndCounts, OneCountsDown

\* A started run takes at most Len(Order) * (MaxAttempts + 6) + MaxAttempts steps, and
\* none after it ended.  Whatever fails, and however the other runs, the deaths and the
\* extractions are interleaved with it, no step of it goes back and no other run's step
\* gives it more to do: EveryRunEnds needs no more than that its next step is taken.
THEOREM RunsCountDown ==
  Layer2Spec =>
    /\ [](\A p \in Processes : /\ RunStepsLeft(p) \in 0..RunSteps
                               /\ RunStepsLeft(p) = 0 <=> stage[p] \in Ended)
    /\ [][RunCountsDown \/ ExtractionOnly]_vars
<1>1. Layer2Inv => \A p \in Processes : /\ RunStepsLeft(p) \in 0..RunSteps
                                        /\ RunStepsLeft(p) = 0 <=> stage[p] \in Ended
  BY RunStepsType DEF Layer2Inv
<1>2. Layer2Inv /\ Layer2Inv' /\ [Layer2Next]_vars => [RunCountsDown \/ ExtractionOnly]_vars
  <2> SUFFICES ASSUME Layer2Inv, Layer2Inv', Layer2Next PROVE RunCountsDown \/ ExtractionOnly
    OBVIOUS
  <2>0. CallsInv /\ CallsInv' /\ LoopInv /\ LoopInv'
    BY DEF Layer2Inv
  <2>1. ASSUME NEW t \in Triples, Extract(t) PROVE ExtractionOnly
    <3>1. silver[t] < MaxVersion /\ silver' = [silver EXCEPT ![t] = @ + 1] /\ UNCHANGED runVars
      BY <2>1 DEF Extract
    <3>2. \A p \in Processes : CallStepsLeft(p)' = CallStepsLeft(p)
      BY <2>1, CallsRest DEF Extract
    <3>3. \A p \in Processes : RunStepsLeft(p)' = RunStepsLeft(p)
      BY <3>1, <3>2, StandsStill DEF Rests, runVars
    <3> QED  BY <3>1, <3>3 DEF ExtractionOnly
  <2> QED  BY <2>0, <2>1, SweepCounts, JudgeCounts, RecheckCounts, DieCounts DEF Layer2Next
<1> QED  BY <1>1, <1>2, Layer2Invariant, PTL DEF Layer2Spec
-----------------------------------------------------------------------------
(* The promise to the readers of the tables *)

Begun == {p \in Processes : stage[p] # "idle"}
ListedTexts == [p \in Readers |-> Texts(snapshot[p])]

\* Only this run moves, and not back.
Alone(p) ==
  /\ \A q \in Processes : q # p => Rests(q)
  /\ stage[p] \in Running /\ stage'[p] # "idle" /\ todo'[p] \subseteq todo[p]

LEMMA NextMovesAlone ==
  ASSUME LoopInv, NEW p \in Processes, stage[p] \in Looping,
         NEW after \in {"cost", "done"}, NextCombo(p, after)
  PROVE  Alone(p)
BY NextKeeps DEF Alone, Rests, Looping, Running

LEMMA ToMovesAlone ==
  ASSUME LoopInv, NEW p \in Processes, stage[p] \in Running,
         NEW to \in Running \cup Ended, To(p, to), UNCHANGED <<todo, attempt>>
  PROVE  Alone(p)
<1>1. stage \in [Processes -> Stages] /\ to # "idle"
  BY DEF LoopInv, Running, Ended
<1> QED  BY <1>1 DEF Alone, Rests, To

LEMMA AgainMovesAlone ==
  ASSUME LoopInv, NEW p \in Processes, stage[p] \in Running, Again(p)
  PROVE  Alone(p)
BY DEF Alone, Rests, Again, LoopInv, Running

LEMMA CallMovesAlone ==
  ASSUME LoopInv, NEW p \in Processes, stage[p] \in Running, UNCHANGED runVars
  PROVE  Alone(p)
<1>1. UNCHANGED <<stage, todo, attempt>>
  BY DEF runVars
<1> QED  BY <1>1 DEF Alone, Rests, Running

\* Whatever a run in its loop does, it begins nothing and goes on.
LEMMA AloneGoesOn ==
  ASSUME LoopInv, LoopInv', NEW p \in Processes, Alone(p)
  PROVE  Begun' = Begun /\ Promise!GoOn(p)
<1> DEFINE Keys(q) == {Order[i] : i \in IF stage[q] \in Running THEN todo[q] ELSE {}}
<1>1. Begun' = Begun
  BY DEF Begun, Alone, Rests, Running
<1>2. Ahead = [q \in Processes |-> Keys(q)] /\ Ahead' = [q \in Processes |-> Keys(q)']
  BY DEF Ahead
<1>3. \A q \in Processes : q # p => Keys(q)' = Keys(q)
  BY DEF Alone, Rests
<1>4. Keys(p)' \subseteq Keys(p)
  BY DEF Alone
<1> HIDE DEF Keys
<1>5. Ahead' = [Ahead EXCEPT ![p] = Keys(p)'] /\ Keys(p)' \in SUBSET Ahead[p]
  BY <1>2, <1>3, <1>4
<1> QED  BY <1>1, <1>5 DEF Promise!GoOn

\* A run that is at a combination has it ahead.
LEMMA AtKeyAhead ==
  ASSUME LoopInv, NEW p \in Processes, stage[p] \in Looping
  PROVE  Combo(p) \in Ahead[p] /\ Combo(p) \in Combos
<1>1. Min(todo[p]) \in todo[p] /\ Combo(p) = Order[Min(todo[p])] /\ Combo(p) \in Combos
  BY AtCombo DEF Combo
<1>2. stage[p] \in Running
  BY DEF Looping, Running
<1> QED  BY <1>1, <1>2 DEF Ahead

\* What a run does besides writing is nobody's business.
LEMMA NothingWritten ==
  ASSUME LoopInv, LoopInv', NEW p \in Processes, Alone(p),
         UNCHANGED <<narratives, snapshot, outcomes, copies>>
  PROVE  Promise!PassBy(p)
<1>1. /\ Texts(narratives)' = Texts(narratives) /\ CheckedTexts' = CheckedTexts
      /\ ListedTexts' = ListedTexts /\ JudgedTexts' = JudgedTexts
  BY DEF Texts, CheckedTexts, ListedTexts, JudgedTexts
<1>2. Begun' = Begun /\ Promise!GoOn(p)
  BY AloneGoesOn
<1> QED  BY <1>1, <1>2 DEF Promise!PassBy, Begun, ListedTexts, Readers

LEMMA SweepKeepsPromise ==
  ASSUME LoopInv, LoopInv', RowsInv, NEW s \in Sweeps, SweepStep(s)
  PROVE  Promise!PassBy(s) \/ \E c \in Combos : Promise!Store(s, c)
<1> USE DEF At
<1>0. /\ s \in Processes
      /\ {"evidence", "llm", "write", "cost"} \subseteq Running
      /\ {"evidence", "llm", "write"} \subseteq Looping
      /\ {"done", "raised"} \subseteq Ended
  BY DEF Processes, Billing, Running, Looping, Ended
<1>1. Alone(s)
  <2>1. CASE SweepEvidence(s)
    BY <1>0, <2>1, NextMovesAlone, ToMovesAlone DEF SweepEvidence
  <2>2. CASE SweepGenerates(s)
    BY <1>0, <2>2, CallMovesAlone DEF SweepGenerates
  <2>3. CASE SweepGenerateRaises(s)
    BY <1>0, <2>3, NextMovesAlone DEF SweepGenerateRaises
  <2>4. CASE SweepChecks(s)
    BY <1>0, <2>4, ToMovesAlone DEF SweepChecks
  <2>5. CASE SweepWrite(s)
    BY <1>0, <2>5, NextMovesAlone, AgainMovesAlone DEF SweepWrite
  <2>6. CASE WriteCost(s)
    BY <1>0, <2>6, ToMovesAlone, AgainMovesAlone DEF WriteCost
  <2> QED  BY <2>1, <2>2, <2>3, <2>4, <2>5, <2>6 DEF SweepStep
<1>2. UNCHANGED <<snapshot, outcomes, copies>>
  BY DEF SweepStep, SweepEvidence, SweepGenerates, SweepGenerateRaises, SweepChecks, SweepWrite,
         WriteCost, tables, runVars
<1>3. CASE UNCHANGED narratives
  BY <1>0, <1>1, <1>2, <1>3, NothingWritten
<1>4. CASE SweepWrite(s) /\ MergeNarrative(s)
  <2> DEFINE c == Combo(s)
             row == NarrativeRecord(s)
  <2>1. stage[s] = "write" /\ narratives' = [narratives EXCEPT ![c] = row]
    BY <1>4 DEF SweepWrite, MergeNarrative
  <2>2. /\ c \in Combos /\ row # NULL /\ row.text = <<s, c>> /\ row.verdict.text = <<s, c>>
        /\ c \in Ahead[s]
    BY <1>0, <2>1, RecordFacts, AtKeyAhead DEF NarrativeRecord
  <2>3. narratives \in [Combos -> NarrativeRows \cup {NULL}]
    BY DEF RowsInv, RowsOf
  <2> HIDE DEF c, row
  <2>4. Texts(narratives)' = [Texts(narratives) EXCEPT ![c] = <<s, c>>]
    BY <2>1, <2>2, <2>3 DEF Texts, TextOf
  <2>5. CheckedTexts' = [CheckedTexts EXCEPT ![c] = <<s, c>>]
    BY <2>1, <2>2, <2>3 DEF CheckedTexts
  <2>6. ListedTexts' = ListedTexts /\ JudgedTexts' = JudgedTexts
    BY <1>2 DEF ListedTexts, JudgedTexts, Texts
  <2>7. Begun' = Begun /\ Promise!GoOn(s)
    BY <1>0, <1>1, AloneGoesOn
  <2>8. Promise!Store(s, c)
    BY <2>2, <2>4, <2>5, <2>6, <2>7 DEF Promise!Store, Begun, ListedTexts, Readers
  <2> QED  BY <2>2, <2>8
<1>5. UNCHANGED narratives \/ (SweepWrite(s) /\ MergeNarrative(s))
  BY DEF SweepStep, SweepEvidence, SweepGenerates, SweepGenerateRaises, SweepChecks, SweepWrite,
         WriteCost, tables
<1> QED  BY <1>3, <1>4, <1>5

LEMMA RecheckKeepsPromise ==
  ASSUME LoopInv, LoopInv', RowsInv, RowsInv', NEW r \in Rechecks, RecheckStep(r)
  PROVE  Promise!PassBy(r) \/ \E c \in Combos : Promise!Recheck(r, c)
<1> USE DEF At
<1>0. /\ r \in Processes /\ r \in Readers
      /\ {"evidence", "write"} \subseteq Running /\ {"evidence", "write"} \subseteq Looping
      /\ {"done", "raised"} \subseteq Ended
  BY DEF Processes, Readers, Running, Looping, Ended
<1>1. Alone(r)
  <2>1. CASE RecheckEvidence(r)
    BY <1>0, <2>1, ToMovesAlone DEF RecheckEvidence
  <2>2. CASE RecheckWrite(r)
    BY <1>0, <2>2, NextMovesAlone, ToMovesAlone DEF RecheckWrite
  <2> QED  BY <2>1, <2>2 DEF RecheckStep
<1>2. UNCHANGED <<snapshot, outcomes, copies>>
  BY DEF RecheckStep, RecheckEvidence, RecheckWrite, tables
<1>3. CASE UNCHANGED narratives
  BY <1>0, <1>1, <1>2, <1>3, NothingWritten
<1>4. CASE RecheckWrite(r) /\ UpdateVerdict(r)
  <2> DEFINE c == Combo(r)
             v == Recheck(r)
             t == snapshot[r][c].text
  <2>1. /\ stage[r] = "write" /\ v.text = t
        /\ narratives' = [narratives EXCEPT ![c] = [narratives[c] EXCEPT !.verdict = v]]
    BY <1>4 DEF RecheckWrite, UpdateVerdict, Recheck
  <2>2. c \in Combos /\ c \in Ahead[r] /\ narratives[c] # NULL
    BY <1>0, <2>1, RecheckFacts, AtKeyAhead
  <2>3. snapshot[r][c] # NULL
    <3>1. Min(todo[r]) \in todo[r]
      BY <1>0, <2>1, AtCombo
    <3> QED  BY <1>0, <3>1 DEF RowsInv, Combo
  <2>4. /\ narratives \in [Combos -> NarrativeRows \cup {NULL}]
        /\ narratives' \in [Combos -> NarrativeRows \cup {NULL}]
        /\ narratives'[c] # NULL
    <3>1. /\ narratives \in [Combos -> NarrativeRows \cup {NULL}]
          /\ narratives' \in [Combos -> NarrativeRows \cup {NULL}]
      BY DEF RowsInv, RowsOf
    <3>2. snapshot'[r][c] # NULL
      BY <1>2, <2>3
    <3> QED  BY <1>0, <2>2, <3>1, <3>2 DEF RowsInv
  <2>5. ListedTexts[r][c] = t
    BY <1>0, <2>2, <2>3 DEF ListedTexts, Texts, TextOf
  <2> HIDE DEF c, v, t
  <2>6. /\ narratives'[c].text = narratives[c].text /\ narratives'[c].verdict = v
        /\ \A d \in Combos : d # c => narratives'[d] = narratives[d]
    BY <2>1, <2>2, <2>4 DEF NarrativeRows
  <2>7. Texts(narratives)' = Texts(narratives)
    BY <2>2, <2>4, <2>6 DEF Texts, TextOf
  <2>8. CheckedTexts' = [CheckedTexts EXCEPT ![c] = t]
    <3> DEFINE Of(d) == IF narratives[d] = NULL THEN NULL ELSE narratives[d].verdict.text
    <3>1. \A d \in Combos : Of(d)' = IF d = c THEN t ELSE Of(d)
      <4>1. v.text = t
        BY <2>1
      <4> QED  BY <2>4, <2>6, <4>1
    <3>2. CheckedTexts = [d \in Combos |-> Of(d)] /\ CheckedTexts' = [d \in Combos |-> Of(d)']
      BY DEF CheckedTexts
    <3> HIDE DEF Of
    <3> QED  BY <2>2, <3>1, <3>2
  <2>9. ListedTexts' = ListedTexts /\ JudgedTexts' = JudgedTexts
    BY <1>2 DEF ListedTexts, JudgedTexts, Texts
  <2>10. Begun' = Begun /\ Promise!GoOn(r)
    BY <1>0, <1>1, AloneGoesOn
  <2>11. Promise!Recheck(r, c)
    BY <2>2, <2>5, <2>7, <2>8, <2>9, <2>10 DEF Promise!Recheck, Begun, ListedTexts, Readers
  <2> QED  BY <2>2, <2>11
<1>5. UNCHANGED narratives \/ (RecheckWrite(r) /\ UpdateVerdict(r))
  BY DEF RecheckStep, RecheckEvidence, RecheckWrite, tables
<1> QED  BY <1>3, <1>4, <1>5

LEMMA JudgeKeepsPromise ==
  ASSUME LoopInv, LoopInv', RowsInv, OutcomesInv, CopiesInv, NEW j \in Judgings, JudgeStep(j)
  PROVE  Promise!PassBy(j) \/ \E c \in Combos : Promise!Judge(j, c)
<1> USE DEF At
<1>0. /\ j \in Processes /\ j \in Readers
      /\ {"evidence", "llm", "write", "cost"} \subseteq Running
      /\ {"evidence", "llm", "write"} \subseteq Looping
      /\ {"done", "raised"} \subseteq Ended
  BY DEF Processes, Billing, Readers, Running, Looping, Ended
<1>1. Alone(j)
  <2>1. CASE JudgeEvidence(j)
    BY <1>0, <2>1, NextMovesAlone, ToMovesAlone DEF JudgeEvidence
  <2>2. CASE JudgeEvaluates(j)
    BY <1>0, <2>2, CallMovesAlone DEF JudgeEvaluates
  <2>3. CASE JudgeEvaluateRaises(j)
    BY <1>0, <2>3, NextMovesAlone DEF JudgeEvaluateRaises
  <2>4. CASE JudgeReturns(j)
    BY <1>0, <2>4, ToMovesAlone DEF JudgeReturns
  <2>5. CASE JudgeWrite(j)
    BY <1>0, <2>5, NextMovesAlone, AgainMovesAlone DEF JudgeWrite, JudgeGivesUp
  <2>6. CASE WriteCost(j)
    BY <1>0, <2>6, ToMovesAlone, AgainMovesAlone DEF WriteCost
  <2> QED  BY <2>1, <2>2, <2>3, <2>4, <2>5, <2>6 DEF JudgeStep
<1>2. UNCHANGED <<snapshot, narratives>>
  BY DEF JudgeStep, JudgeEvidence, JudgeEvaluates, JudgeEvaluateRaises, JudgeReturns, JudgeWrite,
         WriteCost, tables, runVars
<1>3. CASE UNCHANGED <<outcomes, copies>>
  BY <1>0, <1>1, <1>2, <1>3, NothingWritten
<1>4. CASE JudgeWrite(j) /\ InsertOutcome(j)
  <2> DEFINE c == Combo(j)
             row == JudgeOutcomeRow(j)
             t == snapshot[j][c].text
  <2>1. /\ stage[j] = "write" /\ row.judged = t
        /\ outcomes' = [outcomes EXCEPT ![j][c] = row]
        /\ copies' = [copies EXCEPT ![j][c] = @ + 1]
    BY <1>4 DEF JudgeWrite, InsertOutcome, JudgeOutcomeRow
  <2>2. c \in Combos /\ c \in Ahead[j] /\ snapshot[j][c] # NULL
    BY <1>0, <2>1, OutcomeFacts, AtKeyAhead
  <2>3. ListedTexts[j][c] = t
    BY <1>0, <2>2 DEF ListedTexts, Texts, TextOf
  <2>4. /\ outcomes \in [Judgings -> [Combos -> OutcomeRows \cup {NULL}]]
        /\ copies \in [Judgings -> [Combos -> 0..MaxAttempts]]
    BY DEF OutcomesInv, CopiesInv
  <2> HIDE DEF c, row, t
  <2>5. copies'[j][c] # 0
    <3>1. copies[j][c] \in Nat /\ copies'[j][c] = copies[j][c] + 1
      BY <2>1, <2>2, <2>4
    <3> QED  BY <3>1
  <2>6. outcomes'[j][c] = row
    BY <2>1, <2>2, <2>4
  <2>7. \A k \in Judgings, d \in Combos : k # j \/ d # c =>
          outcomes'[k][d] = outcomes[k][d] /\ copies'[k][d] = copies[k][d]
    BY <2>1, <2>2, <2>4
  <2>8. JudgedTexts' = [JudgedTexts EXCEPT ![j][c] = t]
    <3> DEFINE Of(k, d) == IF copies[k][d] = 0 THEN NULL ELSE outcomes[k][d].judged
    <3>1. row.judged = t
      BY <2>1
    <3>2. \A k \in Judgings, d \in Combos : Of(k, d)' = IF k = j /\ d = c THEN t ELSE Of(k, d)
      BY <2>5, <2>6, <2>7, <3>1
    <3>3. /\ JudgedTexts = [k \in Judgings |-> [d \in Combos |-> Of(k, d)]]
          /\ JudgedTexts' = [k \in Judgings |-> [d \in Combos |-> Of(k, d)']]
      BY DEF JudgedTexts
    <3> HIDE DEF Of
    <3>4. JudgedTexts[j] = [d \in Combos |-> Of(j, d)]
      BY <3>3
    <3>5. [JudgedTexts EXCEPT ![j][c] = t] =
            [k \in Judgings |-> [d \in Combos |-> IF k = j /\ d = c THEN t ELSE Of(k, d)]]
      BY <2>2, <3>3, <3>4
    <3>6. JudgedTexts' = [k \in Judgings |-> [d \in Combos |-> IF k = j /\ d = c THEN t ELSE Of(k, d)]]
      BY <3>2, <3>3
    <3> QED  BY <3>5, <3>6
  <2>9. /\ Texts(narratives)' = Texts(narratives) /\ CheckedTexts' = CheckedTexts
        /\ ListedTexts' = ListedTexts
    BY <1>2 DEF Texts, CheckedTexts, ListedTexts
  <2>10. Begun' = Begun /\ Promise!GoOn(j)
    BY <1>0, <1>1, AloneGoesOn
  <2>11. Promise!Judge(j, c)
    BY <2>2, <2>3, <2>8, <2>9, <2>10 DEF Promise!Judge, Begun, ListedTexts, Readers
  <2> QED  BY <2>2, <2>11
<1>5. UNCHANGED <<outcomes, copies>> \/ (JudgeWrite(j) /\ InsertOutcome(j))
  BY DEF JudgeStep, JudgeEvidence, JudgeEvaluates, JudgeEvaluateRaises, JudgeReturns, JudgeWrite,
         JudgeGivesUp, NoInsert, WriteCost, tables, runVars
<1> QED  BY <1>3, <1>4, <1>5

\* A run that begins with a list has the keys of that list ahead.
LEMMA BeginsWith ==
  ASSUME LoopInv, NEW p \in Processes, stage[p] = "idle", NEW to \in Stages \ {"idle"}, To(p, to),
         \A q \in Processes : q # p => todo'[q] = todo[q]
  PROVE  /\ p \notin Begun /\ Begun' = Begun \cup {p}
         /\ \A keys : keys = {Order[i] : i \in IF to \in Running THEN todo'[p] ELSE {}}
                        => Ahead' = [Ahead EXCEPT ![p] = keys]
<1>1. stage'[p] = to /\ \A q \in Processes : q # p => stage'[q] = stage[q]
  BY DEF To, LoopInv
<1>2. p \notin Begun /\ Begun' = Begun \cup {p}
  BY <1>1 DEF Begun
<1> DEFINE Keys(q) == {Order[i] : i \in IF stage[q] \in Running THEN todo[q] ELSE {}}
<1>3. Ahead = [q \in Processes |-> Keys(q)] /\ Ahead' = [q \in Processes |-> Keys(q)']
  BY DEF Ahead
<1>4. \A q \in Processes : q # p => Keys(q)' = Keys(q)
  BY <1>1
<1>5. Keys(p)' = {Order[i] : i \in IF to \in Running THEN todo'[p] ELSE {}}
  BY <1>1
<1>6. ASSUME NEW keys, keys = Keys(p)' PROVE Ahead' = [Ahead EXCEPT ![p] = keys]
  <2> HIDE DEF Keys
  <2> QED  BY <1>3, <1>4, <1>6
<1> HIDE DEF Keys
<1> QED  BY <1>2, <1>5, <1>6

\* The list of a reader is the list of the stored texts.
LEMMA ListIsTheTexts ==
  ASSUME RowsInv
  PROVE  {Order[i] : i \in Listed} = {c \in Combos : Texts(narratives)[c] # NULL}
<1>1. \A c \in Combos : Texts(narratives)[c] # NULL <=> narratives[c] # NULL
  <2>1. narratives \in [Combos -> NarrativeRows \cup {NULL}]
    BY DEF RowsInv, RowsOf
  <2>2. \A row \in NarrativeRows : row.text # NULL
    BY NullAssumption DEF NarrativeRows
  <2> QED  BY <2>1, <2>2 DEF Texts, TextOf
<1>2. \A c \in Combos : (\E i \in Listed : c = Order[i]) <=> narratives[c] # NULL
  BY OrderFacts DEF Listed
<1>3. \A i \in Listed : Order[i] \in Combos
  BY OrderFacts DEF Listed
<1> QED  BY <1>1, <1>2, <1>3

LEMMA SweepBegins ==
  ASSUME LoopInv, NEW s \in Sweeps, SweepStart(s)
  PROVE  Promise!BeginSweep(s)
<1>1. /\ s \in Processes /\ stage[s] = "idle" /\ To(s, "evidence") /\ "evidence" \in Stages \ {"idle"}
      /\ "evidence" \in Running
      /\ todo' = [todo EXCEPT ![s] = DOMAIN Order]
      /\ UNCHANGED <<narratives, snapshot, outcomes, copies>>
  BY DEF SweepStart, Launched, At, Processes, Billing, Stages, Running, tables
<1>2. todo'[s] = DOMAIN Order /\ \A q \in Processes : q # s => todo'[q] = todo[q]
  BY <1>1 DEF LoopInv
<1>3. PICK to : to = "evidence"
  OBVIOUS
<1>4. s \notin Begun /\ Begun' = Begun \cup {s} /\ Ahead' = [Ahead EXCEPT ![s] = Combos]
  <2>1. Combos = {Order[i] : i \in IF to \in Running THEN todo'[s] ELSE {}}
    BY <1>1, <1>2, <1>3, OrderFacts
  <2>2. to \in Stages \ {"idle"} /\ To(s, to)
    BY <1>1, <1>3
  <2>3. s \in Processes /\ stage[s] = "idle" /\ \A q \in Processes : q # s => todo'[q] = todo[q]
    BY <1>1, <1>2
  <2>4. \A keys : keys = {Order[i] : i \in IF to \in Running THEN todo'[s] ELSE {}}
                   => Ahead' = [Ahead EXCEPT ![s] = keys]
    BY <2>2, <2>3, BeginsWith
  <2>5. s \notin Begun /\ Begun' = Begun \cup {s}
    BY <2>2, <2>3, BeginsWith
  <2> QED  BY <2>1, <2>4, <2>5
<1>5. /\ Texts(narratives)' = Texts(narratives) /\ CheckedTexts' = CheckedTexts
      /\ ListedTexts' = ListedTexts /\ JudgedTexts' = JudgedTexts
  BY <1>1 DEF Texts, CheckedTexts, ListedTexts, JudgedTexts
<1> QED  BY <1>4, <1>5 DEF Promise!BeginSweep, Promise!Begin, Begun, ListedTexts, Readers

\* A reader begins by listing, if it can.
LEMMA ReaderLists ==
  ASSUME LoopInv, RowsInv, NEW r \in Readers, stage[r] = "idle",
         NEW to \in {"evidence", "done"}, To(r, to),
         to = "done" => Listed = {},
         snapshot' = [snapshot EXCEPT ![r] = narratives],
         todo' = [todo EXCEPT ![r] = Listed],
         UNCHANGED <<narratives, outcomes, copies>>
  PROVE  Promise!List(r)
<1>1. r \in Processes /\ to \in Stages \ {"idle"} /\ "evidence" \in Running
  BY DEF Readers, Processes, Billing, Stages, Running
<1>2. todo'[r] = Listed /\ \A q \in Processes : q # r => todo'[q] = todo[q]
  BY <1>1 DEF LoopInv
<1>3. {Order[i] : i \in Listed} = {Order[i] : i \in IF to \in Running THEN todo'[r] ELSE {}}
  BY <1>1, <1>2
<1>4. /\ r \notin Begun /\ Begun' = Begun \cup {r}
      /\ Ahead' = [Ahead EXCEPT ![r] = {Order[i] : i \in Listed}]
  BY <1>1, <1>2, <1>3, BeginsWith
<1>5. Ahead' = [Ahead EXCEPT ![r] = {c \in Combos : Texts(narratives)[c] # NULL}]
  BY <1>4, ListIsTheTexts
<1>6. ListedTexts' = [ListedTexts EXCEPT ![r] = Texts(narratives)]
  <2>1. \A p \in Readers : Texts(snapshot'[p]) = IF p = r THEN Texts(narratives) ELSE Texts(snapshot[p])
    BY DEF RowsInv
  <2>2. ListedTexts' = [p \in Readers |-> Texts(snapshot'[p])]
    BY DEF ListedTexts, Texts
  <2> QED  BY <2>1, <2>2 DEF ListedTexts
<1>7. /\ Texts(narratives)' = Texts(narratives) /\ CheckedTexts' = CheckedTexts
      /\ JudgedTexts' = JudgedTexts
  BY DEF Texts, CheckedTexts, JudgedTexts
<1> QED  BY <1>4, <1>5, <1>6, <1>7 DEF Promise!List, Promise!Begin, Begun, ListedTexts, Readers

LEMMA ReaderRefuses ==
  ASSUME LoopInv, NEW r \in Readers, stage[r] = "idle", To(r, "raised"),
         UNCHANGED <<todo, narratives, snapshot, outcomes, copies>>
  PROVE  Promise!Refuse(r)
<1>1. /\ r \in Processes /\ "raised" \in Stages \ {"idle"} /\ "raised" \notin Running
      /\ "idle" \notin Running
  BY DEF Readers, Processes, Billing, Stages, Running
<1>2. /\ r \notin Begun /\ Begun' = Begun \cup {r}
      /\ Ahead' = [Ahead EXCEPT ![r] = {}]
  <2>1. PICK to : to = "raised"
    OBVIOUS
  <2>2. to \in Stages \ {"idle"} /\ To(r, to)
    BY <1>1, <2>1
  <2>3. {} = {Order[i] : i \in IF to \in Running THEN todo'[r] ELSE {}}
    BY <1>1, <2>1
  <2> QED  BY <1>1, <2>2, <2>3, BeginsWith
<1>3. Ahead' = Ahead
  <2>1. Ahead[r] = {} /\ Ahead = [q \in Processes |-> Ahead[q]]
    BY <1>1 DEF Ahead
  <2> HIDE DEF Ahead
  <2> QED  BY <1>2, <2>1
<1>4. /\ Texts(narratives)' = Texts(narratives) /\ CheckedTexts' = CheckedTexts
      /\ ListedTexts' = ListedTexts /\ JudgedTexts' = JudgedTexts
  BY DEF Texts, CheckedTexts, ListedTexts, JudgedTexts
<1> QED  BY <1>2, <1>3, <1>4 DEF Promise!Refuse, Promise!Begin, Begun, ListedTexts, Readers

LEMMA PromiseStarts == Layer2Init => Promise!Init
<1> SUFFICES ASSUME Layer2Init PROVE Promise!Init
  OBVIOUS
<1>1. \E old \in SUBSET Combos :
        narratives = [c \in Combos |-> IF c \in old THEN HistoricalRow(c) ELSE NULL]
  <2>1. CASE narratives = NoNarratives
    <3>1. narratives = [c \in Combos |-> IF c \in {} THEN HistoricalRow(c) ELSE NULL]
      BY <2>1 DEF NoNarratives
    <3> WITNESS {} \in SUBSET Combos
    <3> QED  BY <3>1
  <2> QED  BY <2>1 DEF Layer2Init
<1>2. PICK old \in SUBSET Combos :
        narratives = [c \in Combos |-> IF c \in old THEN HistoricalRow(c) ELSE NULL]
  BY <1>1
<1>3. \A c \in Combos : /\ HistoricalRow(c) # NULL
                        /\ HistoricalRow(c).text = <<HISTORICAL, c>>
                        /\ HistoricalRow(c).verdict.text = <<HISTORICAL, c>>
  <2>1. \A c \in Combos : HistoricalRow(c) \in NarrativeRows
    BY Constants DEF HistoricalRow, NarrativeRows, NarrativeTexts, FactCheckVerdicts
  <2> QED  BY <2>1, NullAssumption DEF HistoricalRow
<1> HIDE DEF HistoricalRow
<1>4. /\ Texts(narratives) = [c \in Combos |-> IF c \in old THEN <<HISTORICAL, c>> ELSE NULL]
      /\ CheckedTexts = Texts(narratives)
  BY <1>2, <1>3 DEF Texts, TextOf, CheckedTexts
<1>5. Begun = {} /\ Ahead = [p \in Processes |-> {}]
  BY DEF Layer2Init, Begun, Ahead, Running
<1>6. /\ ListedTexts = [r \in Readers |-> Promise!NoTexts]
      /\ JudgedTexts = [j \in Judgings |-> Promise!NoTexts]
  BY DEF Layer2Init, ListedTexts, Readers, Texts, TextOf, NoNarratives, JudgedTexts, Promise!NoTexts
<1>7. Processes = Sweeps \cup Readers
  BY DEF Processes, Billing, Readers
<1> QED  BY <1>4, <1>5, <1>6, <1>7 DEF Promise!Init, Begun, ListedTexts, Readers, Promise!Readers

\* The readers of the Layer 2 tables get what NarrativesContract promises, from any number
\* of sweeps, judge sweeps and re-fact-checks that nothing orders, through failed, retried
\* and half-committed writes and killed runs: a text with its own verdict from the sweep
\* that is at its key, a later verdict or an outcome on a text that was stored when its run
\* listed it, and nothing from a run on a key that it has left.
THEOREM TablesKeepTheirPromise == Layer2Spec => ImplementsNarrativesContract
<1>1. Layer2Inv /\ Layer2Inv' /\ [Layer2Next]_vars => [Promise!Next]_Promise!contractVars
  <2> SUFFICES ASSUME Layer2Inv, Layer2Inv', [Layer2Next]_vars
               PROVE  [Promise!Next]_Promise!contractVars
    OBVIOUS
  <2> USE DEF Layer2Inv
  <2>1. ASSUME NEW s \in Sweeps, SweepStart(s) \/ SweepStep(s) PROVE Promise!Next
    BY <2>1, SweepBegins, SweepKeepsPromise DEF Promise!Next
  <2>2. ASSUME NEW j \in Judgings, JudgeStart(j) \/ JudgeStep(j) PROVE Promise!Next
    <3>1. CASE JudgeStep(j)
      BY <3>1, JudgeKeepsPromise DEF Promise!Next
    <3>2. CASE JudgeStart(j)
      <4>1. j \in Readers /\ stage[j] = "idle" /\ UNCHANGED <<narratives, outcomes, copies>>
        BY <3>2 DEF JudgeStart, Launched, At, Readers, tables
      <4>2. Promise!List(j) \/ Promise!Refuse(j)
        BY <3>2, <4>1, ReaderLists, ReaderRefuses DEF JudgeStart
      <4> QED  BY <4>2 DEF Promise!Next
    <3> QED  BY <2>2, <3>1, <3>2
  <2>3. ASSUME NEW r \in Rechecks, RecheckStart(r) \/ RecheckStartRaises(r) \/ RecheckStep(r)
        PROVE  Promise!Next
    <3>1. CASE RecheckStep(r)
      BY <3>1, RecheckKeepsPromise DEF Promise!Next
    <3>2. CASE RecheckStart(r)
      <4>1. r \in Readers /\ stage[r] = "idle" /\ UNCHANGED <<narratives, outcomes, copies>>
        BY <3>2 DEF RecheckStart, Launched, At, Readers, tables
      <4>2. narratives = NoNarratives => Listed = {}
        BY OrderFacts DEF Listed, NoNarratives
      <4>3. Promise!List(r)
        BY <3>2, <4>1, <4>2, ReaderLists DEF RecheckStart
      <4> QED  BY <4>3 DEF Promise!Next
    <3>3. CASE RecheckStartRaises(r)
      <4>1. /\ r \in Readers /\ stage[r] = "idle"
            /\ UNCHANGED <<todo, narratives, snapshot, outcomes, copies>>
        BY <3>3 DEF RecheckStartRaises, Launched, At, Readers, tables
      <4>2. Promise!Refuse(r)
        BY <3>3, <4>1, ReaderRefuses DEF RecheckStartRaises
      <4> QED  BY <4>2 DEF Promise!Next
    <3> QED  BY <2>3, <3>1, <3>2, <3>3
  <2>4. ASSUME NEW p \in Processes, Die(p) PROVE Promise!Next
    <3>1. Alone(p) /\ UNCHANGED <<narratives, snapshot, outcomes, copies>>
      BY <2>4 DEF Die, Alone, Rests, To, LoopInv, tables
    <3>2. Promise!PassBy(p)
      BY <3>1, NothingWritten
    <3> QED  BY <3>2 DEF Promise!Next, Processes, Billing
  <2>5. ASSUME (\E t \in Triples : Extract(t)) \/ UNCHANGED vars PROVE UNCHANGED Promise!contractVars
    <3>1. UNCHANGED <<stage, todo, narratives, snapshot, outcomes, copies>>
      BY <2>5 DEF Extract, vars, runVars, tables
    <3> QED  BY <3>1 DEF Promise!contractVars, Texts, CheckedTexts, Ahead, JudgedTexts
  <2> QED  BY <2>1, <2>2, <2>3, <2>4, <2>5 DEF Layer2Next
<1> QED  BY <1>1, PromiseStarts, Layer2Invariant, PTL
         DEF Layer2Spec, ImplementsNarrativesContract, Promise!Spec
=============================================================================
