--------------------------- MODULE BaselineProofs ---------------------------
(***************************************************************************)
(* Proofs about the baseline script, for every list of scopes, set of      *)
(* workpapers, number of retries and of model calls, with Layer 1 running  *)
(* beside it.  The script's steps are steps of GoldPersistence and leave   *)
(* Layer 1's alone, so the invariants of those two are reused; the rest    *)
(* says whose recorder the shared agents hold (AgentInv), that what was    *)
(* loaded is evidence (LoadedInv) and where the loop over the scopes       *)
(* stands (ScopesInv).                                                     *)
(***************************************************************************)
EXTENDS Baseline, GoldPersistenceProofs, Layer1Proofs

Waiting == {"waiting", "waiting_answer"}

AgentInv ==
  /\ react \in ReactStages /\ script \in ScriptStages /\ compiled \in BOOLEAN
  /\ calls \in 0..MaxCalls /\ (react \in Waiting => calls >= 1)
  /\ spans = IF react \in Waiting THEN {calls} ELSE {}
  /\ react # "off" => script = "extraction"
  /\ callback \in Runs \cup {NONE}
  /\ react \notin {"off", "raised"} => callback = run
  /\ recorder \in [Agents -> Runs \cup {NONE}]
  /\ script \in {"extraction", "validation", "narrative"} => recorder = [a \in Agents |-> run]
  /\ recorded \in [Runs -> SUBSET Runs]
  /\ \A r \in Runs : recorded[r] \subseteq {r}

Evidence == UNION {Known(t) : t \in Triples}

LoadedInv ==
  /\ loaded = [current |-> loaded.current, prior |-> loaded.prior]
  /\ script \in {"read_prior", "investigate", "extraction"} => loaded.current \in Evidence
  /\ script \in {"investigate", "extraction"} => loaded.prior \in Evidence

\* The scopes before the n-th.
Before(n) == {Scopes[k].run : k \in 1..(n - 1)}

ScopesInv ==
  /\ at \in 1..(Len(Scopes) + 1)
  /\ script \notin {"report"} \cup Over => at <= Len(Scopes)
  /\ script \in {"report", "ended", "raised"} => at = Len(Scopes) + 1
  /\ results \subseteq Runs /\ failures \subseteq Runs
  /\ results \cap failures = {}
  /\ script # "died" => results \cup failures = Before(at)
  /\ \A r \in results : stage[r] = "returned" /\ writers[r] = Writers
  /\ script \in {"extraction", "validation", "narrative", "gold"} => writers[run] = Writers
  /\ \A r \in Runs : agent_run_id[r] \in {NULL, r}
  /\ exit_code \in {NONE, 0, 1}
  /\ exit_code # NONE => script = "ended"
  /\ exit_code = 0 => failures = {}

BaselineInv == Layer1Inv /\ Inv /\ AgentInv /\ LoadedInv /\ ScopesInv

----------------------------------------------------------------------------
\* The scopes are a sequence, and none has the run of another.
LEMMA ScopeFacts ==
  /\ Len(Scopes) \in Nat /\ DOMAIN Scopes = 1..Len(Scopes)
  /\ Scopes = <<>> <=> Len(Scopes) = 0
  /\ \A k \in 1..Len(Scopes) :
       /\ Scopes[k].run \in Runs /\ Scopes[k].run \in AgentRunIds
       /\ [control |-> Scopes[k].control, quarter |-> Scopes[k].quarter] \in Triples
       /\ [control |-> Scopes[k].control, quarter |-> Scopes[k].prior_quarter] \in Triples
  /\ \A k, l \in 1..Len(Scopes) : Scopes[k].run = Scopes[l].run => k = l
<1> DEFINE Scope == [run : Runs, control : Controls, quarter : STRING, prior_quarter : STRING]
<1>1. Scopes \in Seq(Scope) /\ Runs \subseteq AgentRunIds
  BY ScopesAssumption
<1>2. /\ Len(Scopes) \in Nat /\ DOMAIN Scopes = 1..Len(Scopes)
      /\ Scopes = <<>> <=> Len(Scopes) = 0
  BY <1>1
<1>3. \A k \in 1..Len(Scopes) : Scopes[k] \in Scope
  <2> HIDE DEF Scope
  <2> QED  BY <1>1
<1>4. \A k \in 1..Len(Scopes) : Scopes[k].run \in Runs /\ Scopes[k].run \in AgentRunIds
  BY <1>1, <1>3
<1> QED  BY <1>2, <1>4, ScopesAssumption

\* While the script works it is at a scope, whose run is one of GoldPersistence's
\* and is not behind it.
LEMMA AtScope ==
  ASSUME ScopesInv, script \notin {"report"} \cup Over
  PROVE  /\ at \in 1..Len(Scopes)
         /\ run \in Runs /\ run \in AgentRunIds
         /\ Triple(Scopes[at].quarter) \in Triples
         /\ Triple(Scopes[at].prior_quarter) \in Triples
         /\ run \notin Before(at)
         /\ Before(at + 1) = Before(at) \cup {run}
<1>1. at \in 1..Len(Scopes)
  BY ScopeFacts DEF ScopesInv
<1>2. run \in Runs /\ run \in AgentRunIds
      /\ Triple(Scopes[at].quarter) \in Triples
      /\ Triple(Scopes[at].prior_quarter) \in Triples
  BY <1>1, ScopeFacts DEF run, Triple
<1>3. ASSUME run \in Before(at) PROVE FALSE
  <2>1. PICK k \in 1..(at - 1) : Scopes[k].run = Scopes[at].run
    BY <1>3 DEF Before, run
  <2>2. k \in 1..Len(Scopes) /\ k # at
    BY <1>1, ScopeFacts
  <2> QED  BY <1>1, <2>1, <2>2, ScopeFacts
<1>4. 1..((at + 1) - 1) = 1..(at - 1) \cup {at}
  BY <1>1, ScopeFacts
<1>5. Before(at + 1) = Before(at) \cup {run}
  BY <1>4 DEF Before, run
<1> QED  BY <1>1, <1>2, <1>3, <1>5

\* A step of the script or its death moves nothing of Layer 1.
LEMMA ScriptLeavesLayer1 ==
  ASSUME BaselineNext
  PROVE  [Layer1Next]_layer1Vars
<1>1. ScriptStep => UNCHANGED layer1Vars
  BY DEF ScriptStep, ReadCurrent, ReadPrior, Investigate, Extract, ExtractionReturns,
         ExtractionRaises, Validate, Narrate, Visit, OtherAgentRaises, WriteGold, ScopeEnds, Report
<1> QED  BY <1>1 DEF BaselineNext, ScriptDies, BesideTheScript

\* Every step is one of the scope's run in GoldPersistence, or none.
LEMMA ScriptDrivesGold ==
  ASSUME BaselineNext, ScopesInv
  PROVE  [Next]_vars
<1>1. CASE ScriptStep
  <2>1. CASE Investigate
    <3>1. run \in Runs /\ run \in AgentRunIds /\ Start(run, run, Writers)
      BY <2>1, AtScope DEF Investigate, Over
    <3> QED  BY <3>1 DEF Next
  <2>2. CASE ExtractionRaises \/ OtherAgentRaises
    <3>1. run \in Runs /\ GraphRaises(run)
      BY <2>2, AtScope DEF ExtractionRaises, OtherAgentRaises, Over
    <3> QED  BY <3>1 DEF Next, RunStep
  <2>3. CASE Narrate
    <3>1. run \in Runs /\ \E v \in Verdicts : GraphReturns(run, v)
      BY <2>3, AtScope DEF Narrate, Visit, Over
    <3> QED  BY <3>1 DEF Next, RunStep
  <2>4. CASE WriteGold
    <3>1. run \in Runs /\ (WriteCost(run) \/ WriteDecision(run))
      BY <2>4, AtScope DEF WriteGold, Over
    <3> QED  BY <3>1 DEF Next, RunStep
  <2>5. CASE ReadCurrent \/ ReadPrior \/ Extract \/ ExtractionReturns \/ Validate
               \/ ScopeEnds \/ Report
    <3>1. UNCHANGED goldVars
      BY <2>5 DEF ReadCurrent, ReadPrior, Extract, ExtractionReturns, Validate, ScopeEnds, Report
    <3> QED  BY <3>1 DEF goldVars, vars
  <2> QED  BY <1>1, <2>1, <2>2, <2>3, <2>4, <2>5 DEF ScriptStep
<1>2. CASE ScriptDies \/ BesideTheScript
  BY <1>2 DEF ScriptDies, BesideTheScript, goldVars, vars
<1> QED  BY <1>1, <1>2 DEF BaselineNext

\* A run that has returned stays so, and no step but its start changes its writers.
LEMMA ReturnedStays ==
  ASSUME Inv, [Next]_vars, NEW r \in Runs, stage[r] = "returned"
  PROVE  stage'[r] = "returned" /\ writers'[r] = writers[r]
<1>1. ASSUME NEW s \in Runs, NEW id \in AgentRunIds, NEW w \in SUBSET Writers, Start(s, id, w)
      PROVE  stage'[r] = "returned" /\ writers'[r] = writers[r]
  BY <1>1 DEF Inv, TypeOK, Start, MoveTo
<1>2. ASSUME NEW s \in Runs, RunStep(s) \/ Crash(s)
      PROVE  stage'[r] = "returned" /\ writers'[r] = writers[r]
  <2>1. writers' = writers
    BY <1>2 DEF RunStep, Crash, GraphReturns, GraphRaises, WriteCost, WriteDecision
  <2>2. stage[s] # "returned"
    BY <1>2 DEF RunStep, Crash, GraphReturns, GraphRaises, WriteCost, WriteDecision
  <2>3. \A u \in Runs \ {s} : stage'[u] = stage[u]
    BY <1>2 DEF RunStep, Crash, GraphReturns, GraphRaises, WriteCost, WriteDecision,
                Acknowledged, AttemptFails, MoveTo, Inv, TypeOK
  <2> QED  BY <2>1, <2>2, <2>3
<1>3. CASE UNCHANGED vars
  BY <1>3 DEF vars
<1> QED  BY <1>1, <1>2, <1>3 DEF Next

----------------------------------------------------------------------------
LEMMA BaselineStarts == BaselineInit => BaselineInv
<1> SUFFICES ASSUME BaselineInit PROVE BaselineInv
  OBVIOUS
<1>1. Layer1Inv /\ Inv
  BY Layer1Starts, InitInv DEF BaselineInit
<1>2. AgentInv
  <2>1. recorded = [r \in Runs |-> {}] /\ MaxCalls \in Nat
    BY ScopesAssumption, CallsAssumption DEF BaselineInit, AgentInit
  <2>2. script \in {"report", "read_current"}
    BY DEF BaselineInit
  <2>3. /\ react = "off" /\ calls = 0 /\ spans = {} /\ compiled = FALSE
        /\ recorder = [a \in Agents |-> NONE] /\ callback = NONE
    BY DEF BaselineInit, AgentInit
  <2>4. /\ recorded \in [Runs -> SUBSET Runs] /\ \A r \in Runs : recorded[r] \subseteq {r}
        /\ recorder \in [Agents -> Runs \cup {NONE}]
    BY <2>1, <2>3
  <2>5. 0 \in 0..MaxCalls
    BY <2>1
  <2> QED  BY <2>2, <2>3, <2>4, <2>5 DEF AgentInv, ReactStages, ScriptStages, Waiting
<1>3. LoadedInv
  BY DEF BaselineInit, LoadedInv, NothingLoaded
<1>4. ScopesInv
  <2>1. Before(1) = {}
    BY DEF Before
  <2>2. exit_code = NONE /\ NONE # 0
    BY NoneAssumption DEF BaselineInit
  <2> QED  BY <2>1, <2>2, ScopeFacts DEF BaselineInit, Init, ScopesInv, Over
<1> QED  BY <1>1, <1>2, <1>3, <1>4 DEF BaselineInv

\* The script leaves a scope: nobody's recorder is in use.
LEMMA NextScopeKeepsAgents ==
  ASSUME AgentInv, NextScope, run \in Runs, react' = "off", spans' = {}, calls' \in 0..MaxCalls,
         callback' \in Runs \cup {NONE}, UNCHANGED <<compiled, recorder>>
  PROVE  AgentInv'
<1>1. script' \in {"report", "read_current"}
  BY DEF NextScope
<1>2. /\ recorded' \in [Runs -> SUBSET Runs]
      /\ \A r \in Runs : recorded'[r] \subseteq {r}
  BY DEF AgentInv, NextScope
<1> QED  BY <1>1, <1>2 DEF AgentInv, ReactStages, ScriptStages, Waiting

\* A call is counted on the recorder of the scope the script is at.
LEMMA CountsOwn ==
  ASSUME AgentInv, run \in Runs, Counts(run, run)
  PROVE  /\ recorded' \in [Runs -> SUBSET Runs]
         /\ \A r \in Runs : recorded'[r] \subseteq {r}
BY DEF AgentInv, Counts

LEMMA AgentStepKeeps ==
  ASSUME AgentInv, script = "extraction", run \in Runs, AgentStep(run), UNCHANGED <<at, script>>
  PROVE  AgentInv'
<1>1. run' = run
  BY DEF run
<1>2. recorder = [a \in Agents |-> run] /\ recorder["extraction"] = run
  BY DEF AgentInv, Agents
<1>3. CASE Invoke
  BY <1>1, <1>2, <1>3 DEF AgentInv, Invoke, ReactStages, Waiting
<1>4. CASE CallStarts
  <2>1. MaxCalls \in Nat
    BY CallsAssumption
  <2>2. /\ UNCHANGED <<compiled, recorder, callback, recorded>>
        /\ react \in {"model", "answer"} /\ spans = {}
    BY <1>4 DEF CallStarts, AgentInv, Waiting
  <2>3. CASE calls < MaxCalls
    BY <1>1, <1>4, <2>1, <2>2, <2>3 DEF AgentInv, CallStarts, ReactStages, Waiting
  <2>4. CASE ~(calls < MaxCalls)
    BY <1>1, <1>4, <2>2, <2>4 DEF AgentInv, CallStarts, ReactStages, Waiting
  <2> QED  BY <2>3, <2>4
<1>5. CASE CallEnds(run)
  <2>1. react \in Waiting /\ callback = run /\ spans = {calls}
    BY <1>5 DEF AgentInv, CallEnds, Waiting
  <2>2. /\ react' \in {"tool", "answer", "parse"} /\ spans' = {}
        /\ UNCHANGED <<calls, compiled, recorder, callback>>
    BY <1>5, <2>1 DEF CallEnds, CloseSpan
  <2>3. /\ recorded' \in [Runs -> SUBSET Runs]
        /\ \A r \in Runs : recorded'[r] \subseteq {r}
    BY <1>5, <2>1, CountsOwn DEF CallEnds
  <2> QED  BY <1>1, <2>1, <2>2, <2>3 DEF AgentInv, ReactStages, Waiting
<1>6. CASE CallFails
  <2>1. /\ react' = "raised" /\ spans' = {}
        /\ UNCHANGED <<calls, compiled, recorder, callback, recorded>>
    BY <1>6 DEF CallFails, CloseSpan, AgentInv, Waiting
  <2> QED  BY <1>1, <2>1 DEF AgentInv, ReactStages, Waiting
<1>7. CASE UseTool \/ ParseAnswer
  BY <1>1, <1>7 DEF AgentInv, UseTool, ParseAnswer, ReactStages, Waiting
<1> QED  BY <1>3, <1>4, <1>5, <1>6, <1>7 DEF AgentStep

LEMMA AgentsKept ==
  ASSUME AgentInv, ScopesInv, BaselineNext
  PROVE  AgentInv'
<1>1. CASE ReadCurrent \/ ReadPrior \/ ScopeEnds \/ ExtractionRaises \/ OtherAgentRaises
  <2>1. run \in Runs /\ MaxCalls \in Nat
    BY <1>1, AtScope, CallsAssumption
    DEF ReadCurrent, ReadPrior, ScopeEnds, ExtractionRaises, OtherAgentRaises, Over
  <2>2. CASE NextScope
    <3>1. /\ react' = "off" /\ spans' = {} /\ calls' \in 0..MaxCalls
          /\ callback' \in Runs \cup {NONE} /\ UNCHANGED <<compiled, recorder>>
      BY <1>1, <2>1 DEF ReadCurrent, ReadPrior, ScopeEnds, ExtractionRaises, OtherAgentRaises,
                        runVars, ResetRun, AgentInv, Waiting
    <3> QED  BY <2>1, <2>2, <3>1, NextScopeKeepsAgents
  <2>3. CASE ~NextScope
    <3>1. /\ script \in {"read_current", "read_prior"}
          /\ script' \in {"read_prior", "investigate"}
          /\ UNCHANGED <<react, calls, spans, compiled, recorder, callback, recorded, at>>
      BY <1>1, <2>3 DEF ReadCurrent, ReadPrior, ScopeEnds, ExtractionRaises, OtherAgentRaises,
                        ScopeFails, runVars
    <3> QED  BY <3>1 DEF AgentInv, ReactStages, ScriptStages, Waiting
  <2> QED  BY <2>2, <2>3
<1>2. CASE Investigate
  <2>1. /\ react = "off" /\ run \in Runs /\ run' = run
        /\ script' = "extraction" /\ recorder' = [a \in Agents |-> run]
        /\ UNCHANGED <<react, calls, spans, compiled, callback, recorded>>
    BY <1>2, AtScope DEF Investigate, HoldRecorder, runVars, AgentInv, Over, run
  <2> QED  BY <2>1 DEF AgentInv, ReactStages, ScriptStages, Waiting
<1>3. CASE Extract
  <2>1. run \in Runs
    BY <1>3, AtScope DEF Extract, Over
  <2> QED  BY <1>3, <2>1, AgentStepKeeps DEF Extract
<1>4. CASE ExtractionReturns
  <2>1. run' = run /\ MaxCalls \in Nat
    BY <1>4, CallsAssumption DEF ExtractionReturns, run
  <2>2. /\ react' = "off" /\ calls' = 0 /\ spans' = {} /\ callback' = NONE
        /\ script = "extraction" /\ script' = "validation"
        /\ UNCHANGED <<compiled, recorder, recorded>>
    BY <1>4 DEF ExtractionReturns, ResetRun
  <2> QED  BY <2>1, <2>2 DEF AgentInv, ReactStages, ScriptStages, Waiting
<1>5. CASE Validate \/ Narrate
  <2>1. /\ script \in {"validation", "narrative"} /\ script' \in {"narrative", "gold"}
        /\ OtherAgentCalls(script, run)
        /\ UNCHANGED <<react, calls, spans, compiled, recorder, callback, at>>
    BY <1>5 DEF Validate, Narrate, Visit, OtherAgentCalls, runVars
  <2>2. run \in Runs /\ run' = run
    BY <2>1, AtScope DEF Over, run
  <2>3. Counts(run, run)
    BY <2>1 DEF OtherAgentCalls, AgentInv, Agents
  <2>4. /\ recorded' \in [Runs -> SUBSET Runs]
        /\ \A r \in Runs : recorded'[r] \subseteq {r}
    BY <2>2, <2>3, CountsOwn
  <2> QED  BY <2>1, <2>2, <2>4 DEF AgentInv, ReactStages, ScriptStages, Waiting
<1>6. CASE WriteGold \/ Report
  <2>1. /\ script \in {"gold", "report"} /\ script' \in {"gold", "ended", "raised"}
        /\ UNCHANGED <<react, calls, spans, compiled, recorder, callback, recorded, at>>
    BY <1>6 DEF WriteGold, Report, agentVars, scriptVars
  <2> QED  BY <2>1 DEF AgentInv, ReactStages, ScriptStages, Waiting
<1>7. CASE ScriptDies
  <2>1. /\ react' = "off" /\ calls' = 0 /\ spans' = {} /\ callback' = NONE /\ compiled' = FALSE
        /\ script' = "died" /\ recorder' = [a \in Agents |-> NONE]
        /\ recorded' = [r \in Runs |-> {}] /\ MaxCalls \in Nat
    BY <1>7, ScopesAssumption, CallsAssumption DEF ScriptDies, AgentForgets, ResetRun
  <2>2. /\ recorded' \in [Runs -> SUBSET Runs] /\ \A r \in Runs : recorded'[r] \subseteq {r}
        /\ recorder' \in [Agents -> Runs \cup {NONE}]
    BY <2>1
  <2>3. 0 \in 0..MaxCalls
    BY <2>1
  <2> QED  BY <2>1, <2>2, <2>3 DEF AgentInv, ReactStages, ScriptStages, Waiting
<1>8. CASE BesideTheScript
  BY <1>8 DEF BesideTheScript, agentVars, scriptVars, AgentInv, run
<1> QED  BY <1>1, <1>2, <1>3, <1>4, <1>5, <1>6, <1>7, <1>8 DEF BaselineNext, ScriptStep

\* What a row of silver says is evidence.
LEMMA SilverIsEvidence ==
  ASSUME Layer1Inv, NEW t \in Triples, silver[t] # NONE
  PROVE  silver[t].evidence \in Evidence
BY DEF Layer1Inv, TablesInv, RowsOf, Evidence

LEMMA LoadedKept ==
  ASSUME Layer1Inv, LoadedInv, ScopesInv, BaselineNext
  PROVE  LoadedInv'
<1>1. CASE NextScope \/ ScriptDies
  BY <1>1 DEF NextScope, ScriptDies, LoadedInv, NothingLoaded
<1>2. CASE ReadCurrent /\ ~NextScope
  <2>1. /\ silver[Triple(Scopes[at].quarter)].evidence \in Evidence
        /\ loaded' = [loaded EXCEPT !.current = silver[Triple(Scopes[at].quarter)].evidence]
        /\ script' = "read_prior"
    BY <1>2, AtScope, SilverIsEvidence DEF ReadCurrent, ScopeFails, Over
  <2> HIDE DEF Evidence
  <2> QED  BY <2>1 DEF LoadedInv
<1>3. CASE ReadPrior /\ ~NextScope
  <2>1. /\ silver[Triple(Scopes[at].prior_quarter)].evidence \in Evidence
        /\ loaded' = [loaded EXCEPT !.prior = silver[Triple(Scopes[at].prior_quarter)].evidence]
        /\ script = "read_prior" /\ script' = "investigate"
    BY <1>3, AtScope, SilverIsEvidence DEF ReadPrior, ScopeFails, Over
  <2> QED  BY <2>1 DEF LoadedInv
<1>4. CASE Investigate \/ Extract \/ ExtractionReturns \/ Validate \/ Narrate \/ WriteGold
           \/ Report \/ BesideTheScript
  BY <1>4 DEF Investigate, Extract, ExtractionReturns, Validate, Narrate, Visit, WriteGold,
              Report, BesideTheScript, scriptVars, LoadedInv
<1>5. ExtractionRaises \/ OtherAgentRaises \/ ScopeEnds => NextScope
  BY DEF ExtractionRaises, OtherAgentRaises, ScopeEnds, ScopeFails
<1> QED  BY <1>1, <1>2, <1>3, <1>4, <1>5 DEF BaselineNext, ScriptStep

\* No step changes the agent_run_id of a run, but for its start in Investigate.
LEMMA IdsKept ==
  ASSUME Inv, ScopesInv, BaselineNext
  PROVE  \A r \in Runs : agent_run_id'[r] \in {NULL, r}
<1>1. CASE Investigate
  <2>1. run \in Runs /\ Start(run, run, Writers)
    BY <1>1, AtScope DEF Investigate, Over
  <2> QED  BY <2>1 DEF Start, Inv, TypeOK, ScopesInv
<1>2. ~Investigate => agent_run_id' = agent_run_id
  BY DEF BaselineNext, ScriptStep, ReadCurrent, ReadPrior, Extract, ExtractionReturns,
         ExtractionRaises, Validate, Narrate, OtherAgentRaises, WriteGold, ScopeEnds, Report,
         ScriptDies, BesideTheScript, goldVars, GraphRaises, GraphReturns, WriteCost, WriteDecision
<1> QED  BY <1>1, <1>2 DEF ScopesInv

\* Only a scope's end adds to the results or to the failures, and moves on.
LEMMA NextScopeKeepsScopes ==
  ASSUME Inv, ScopesInv, script \notin {"report"} \cup Over, NextScope, UNCHANGED exit_code,
         \/ failures' = failures \cup {run} /\ UNCHANGED results
         \/ /\ results' = results \cup {run} /\ UNCHANGED failures
            /\ stage[run] = "returned" /\ writers[run] = Writers,
         \A r \in Runs : stage[r] = "returned" => stage'[r] = "returned" /\ writers'[r] = writers[r],
         \A r \in Runs : agent_run_id'[r] \in {NULL, r}
  PROVE  ScopesInv'
<1>1. /\ at \in 1..Len(Scopes) /\ Len(Scopes) \in Nat /\ run \in Runs /\ run \notin Before(at)
      /\ Before(at + 1) = Before(at) \cup {run}
  BY AtScope, ScopeFacts
<1>2. /\ at' = at + 1
      /\ script' = IF at = Len(Scopes) THEN "report" ELSE "read_current"
  BY DEF NextScope
<1>3. results \cup failures = Before(at) /\ results \cap failures = {}
  BY DEF ScopesInv, Over
<1>4. /\ results' \cap failures' = {} /\ results' \cup failures' = Before(at)'
      /\ results' \subseteq Runs /\ failures' \subseteq Runs
  <2>1. Before(at)' = Before(at) \cup {run}
    BY <1>1, <1>2 DEF Before
  <2> QED  BY <1>1, <1>3, <2>1 DEF ScopesInv
<1>5. \A r \in results' : stage'[r] = "returned" /\ writers'[r] = Writers
  BY <1>1 DEF ScopesInv
<1>6. exit_code' = NONE
  BY DEF ScopesInv, Over
<1>7. at' \in 1..(Len(Scopes) + 1)
  BY <1>1, <1>2
<1>8. /\ script' = "report" => at' = Len(Scopes) + 1
      /\ script' = "read_current" => at' <= Len(Scopes)
      /\ script' \in {"report", "read_current"}
  BY <1>1, <1>2
<1> QED  BY <1>4, <1>5, <1>6, <1>7, <1>8, NoneAssumption DEF ScopesInv, Over

\* A step within a scope, or beside the script.
LEMMA SameScopeKeepsScopes ==
  ASSUME Inv, ScopesInv, UNCHANGED <<at, results, failures, exit_code>>,
         \/ script' = script
         \/ script \notin {"report"} \cup Over /\ script' \notin {"report"} \cup Over,
         script' \in {"extraction", "validation", "narrative", "gold"} => writers'[run] = Writers,
         \A r \in Runs : stage[r] = "returned" => stage'[r] = "returned" /\ writers'[r] = writers[r],
         \A r \in Runs : agent_run_id'[r] \in {NULL, r}
  PROVE  ScopesInv'
<1>1. run' = run /\ Before(at)' = Before(at)
  BY DEF run, Before
<1>2. \A r \in results' : stage'[r] = "returned" /\ writers'[r] = Writers
  BY DEF ScopesInv
<1> QED  BY <1>1, <1>2 DEF ScopesInv, Over

LEMMA ScopesKept ==
  ASSUME Inv, ScopesInv, BaselineNext
  PROVE  ScopesInv'
<1>1. \A r \in Runs : stage[r] = "returned" => stage'[r] = "returned" /\ writers'[r] = writers[r]
  BY ScriptDrivesGold, ReturnedStays
<1>2. \A r \in Runs : agent_run_id'[r] \in {NULL, r}
  BY IdsKept
<1>3. CASE /\ ScopeFails
           /\ ReadCurrent \/ ReadPrior \/ ExtractionRaises \/ OtherAgentRaises \/ ScopeEnds
  <2>1. script \notin {"report"} \cup Over /\ UNCHANGED exit_code
    BY <1>3 DEF ReadCurrent, ReadPrior, ExtractionRaises, OtherAgentRaises, ScopeEnds, Over
  <2> QED  BY <1>1, <1>2, <1>3, <2>1, NextScopeKeepsScopes DEF ScopeFails
<1>4. CASE ScopeEnds /\ ~ScopeFails
  <2>1. /\ script = "gold" /\ UNCHANGED exit_code /\ NextScope
        /\ stage[run] = "returned" /\ results' = results \cup {run} /\ UNCHANGED failures
    BY <1>4 DEF ScopeEnds
  <2>2. writers[run] = Writers
    BY <2>1 DEF ScopesInv
  <2> QED  BY <1>1, <1>2, <2>1, <2>2, NextScopeKeepsScopes DEF Over
<1>5. CASE (ReadCurrent \/ ReadPrior) /\ ~ScopeFails
  <2>1. /\ script \in {"read_current", "read_prior"} /\ script' \in {"read_prior", "investigate"}
        /\ UNCHANGED <<at, results, failures, exit_code>>
    BY <1>5 DEF ReadCurrent, ReadPrior
  <2> QED  BY <1>1, <1>2, <2>1, SameScopeKeepsScopes DEF Over
<1>6. CASE Investigate
  <2>1. /\ script = "investigate" /\ script' = "extraction" /\ run \in Runs
        /\ UNCHANGED <<at, results, failures, exit_code>>
    BY <1>6, AtScope DEF Investigate, Over
  <2>2. writers'[run] = Writers
    BY <1>6, <2>1 DEF Investigate, Start, Inv, TypeOK
  <2> QED  BY <1>1, <1>2, <2>1, <2>2, SameScopeKeepsScopes DEF Over
<1>7. CASE Extract \/ ExtractionReturns \/ Validate \/ Narrate \/ WriteGold
  <2>1. /\ script \in {"extraction", "validation", "narrative", "gold"}
        /\ script' \in {"extraction", "validation", "narrative", "gold"}
        /\ UNCHANGED <<at, results, failures, exit_code>>
    BY <1>7 DEF Extract, ExtractionReturns, Validate, Narrate, Visit, WriteGold, scriptVars
  <2>2. writers' = writers
    BY <1>7 DEF Extract, ExtractionReturns, Validate, Narrate, WriteGold, goldVars,
                GraphReturns, WriteCost, WriteDecision
  <2>3. writers'[run] = Writers
    BY <2>1, <2>2 DEF ScopesInv
  <2> QED  BY <1>1, <1>2, <2>1, <2>3, SameScopeKeepsScopes DEF Over
<1>8. CASE Report
  <2>1. /\ script = "report" /\ script' \in {"ended", "raised"}
        /\ exit_code' = exit_code \/ exit_code' = IF failures = {} THEN 0 ELSE 1
        /\ exit_code' # exit_code => script' = "ended"
        /\ UNCHANGED <<at, results, failures, stage, writers>>
    BY <1>8 DEF Report, goldVars
  <2>2. exit_code = NONE /\ Before(at)' = Before(at)
    BY <2>1 DEF ScopesInv, Before
  <2> QED  BY <1>2, <2>1, <2>2, NoneAssumption DEF ScopesInv, Over
<1>9. CASE ScriptDies
  <2>1. /\ script' = "died" /\ results' = {} /\ failures' = {}
        /\ script \notin Over
        /\ UNCHANGED <<at, exit_code>>
    BY <1>9 DEF ScriptDies
  <2>2. exit_code = NONE
    BY <2>1 DEF ScopesInv, Over
  <2> QED  BY <1>2, <2>1, <2>2, NoneAssumption DEF ScopesInv, Over
<1>10. CASE BesideTheScript
  <2>1. /\ UNCHANGED <<at, script, results, failures, exit_code, writers>>
    BY <1>10 DEF BesideTheScript, scriptVars, goldVars
  <2>2. script' \in {"extraction", "validation", "narrative", "gold"} => writers'[run] = Writers
    BY <2>1 DEF ScopesInv
  <2> QED  BY <1>1, <1>2, <2>1, <2>2, SameScopeKeepsScopes
<1>11. ExtractionRaises \/ OtherAgentRaises => ScopeFails
  BY DEF ExtractionRaises, OtherAgentRaises
<1> QED  BY <1>3, <1>4, <1>5, <1>6, <1>7, <1>8, <1>9, <1>10, <1>11 DEF BaselineNext, ScriptStep

LEMMA BaselineKeeps == BaselineInv /\ [BaselineNext]_baselineVars => BaselineInv'
<1> SUFFICES ASSUME BaselineInv, [BaselineNext]_baselineVars PROVE BaselineInv'
  OBVIOUS
<1>1. CASE BaselineNext
  BY <1>1, ScriptLeavesLayer1, Layer1Keeps, ScriptDrivesGold, NextInv, AgentsKept, LoadedKept,
     ScopesKept DEF BaselineInv
<1>2. CASE UNCHANGED baselineVars
  <2>1. /\ UNCHANGED layer1Vars /\ UNCHANGED vars
        /\ UNCHANGED <<agentVars, scriptVars>>
    BY <1>2 DEF baselineVars, goldVars, vars
  <2>2. Layer1Inv' /\ Inv'
    BY <2>1, Layer1Keeps, NextInv DEF BaselineInv
  <2>3. AgentInv' /\ LoadedInv'
    BY <2>1 DEF BaselineInv, agentVars, scriptVars, AgentInv, LoadedInv, run
  <2>4. ScopesInv'
    BY <2>1 DEF BaselineInv, scriptVars, vars, ScopesInv, run, Before
  <2> QED  BY <2>2, <2>3, <2>4 DEF BaselineInv
<1> QED  BY <1>1, <1>2

LEMMA BaselineInvariant == BaselineSpec => []BaselineInv
BY BaselineStarts, BaselineKeeps, PTL DEF BaselineSpec

----------------------------------------------------------------------------
\* A recorder counts its own investigation's calls alone, whatever the shared agents
\* held before (supervisor.py:704-713).
THEOREM CostsOfTheirScope == BaselineSpec => []CostsAreOfTheirScope
<1>1. BaselineInv => CostsAreOfTheirScope
  BY DEF BaselineInv, AgentInv, CostsAreOfTheirScope
<1> QED  BY <1>1, BaselineInvariant, PTL

\* No span outlives its call (extraction_agent.py:500).
THEOREM SpansClosed == BaselineSpec => []OnlyTheCallInFlightHasASpan
<1>1. BaselineInv => OnlyTheCallInFlightHasASpan
  BY DEF BaselineInv, AgentInv, OnlyTheCallInFlightHasASpan, Waiting
<1> QED  BY <1>1, BaselineInvariant, PTL

\* Every scope is in the results or the failures once the loop is past it, and exit
\* code 0 means that the gold layer holds every scope's rows (run_layer3_baseline.main).
THEOREM ScopesAccountedFor == BaselineSpec => []EveryScopeIsAccountedFor
<1>1. BaselineInv => EveryScopeIsAccountedFor
  <2> SUFFICES ASSUME BaselineInv PROVE EveryScopeIsAccountedFor
    OBVIOUS
  <2>1. /\ results \cap failures = {}
        /\ script # "died" => results \cup failures = Before(at)
    BY DEF BaselineInv, ScopesInv
  <2>2. ASSUME exit_code = 0, NEW k \in DOMAIN Scopes
        PROVE  /\ cost_rows[Scopes[k].run] = Scopes[k].run
               /\ decision_rows[Scopes[k].run] > 0
    <3> DEFINE r == Scopes[k].run
    <3>1. k \in 1..Len(Scopes) /\ r \in Runs /\ r \in AgentRunIds /\ Len(Scopes) \in Nat
      BY <2>2, ScopeFacts
    <3>2. failures = {} /\ script = "ended" /\ at = Len(Scopes) + 1
      BY <2>2, NoneAssumption DEF BaselineInv, ScopesInv
    <3>3. r \in Before(at)
      BY <3>1, <3>2 DEF Before
    <3>4. r \in results /\ stage[r] = "returned" /\ writers[r] = Writers
      BY <2>1, <3>2, <3>3 DEF BaselineInv, ScopesInv
    <3>5. agent_run_id[r] = r
      BY <3>1, <3>4, NullAssumption DEF BaselineInv, ScopesInv, Inv, Behind
    <3>6. cost_rows[r] # NULL /\ cost_rows[r] \in Runs /\ agent_run_id[cost_rows[r]] = r
      <4>1. TypeOK /\ CostRowsInv /\ Behind(r)
        BY <3>1 DEF BaselineInv, Inv
      <4>2. "cost" \in writers[r]
        BY <3>4 DEF Writers
      <4>3. cost_rows[r] # NULL
        BY <3>4, <3>5, <4>1, <4>2 DEF Behind
      <4> QED  BY <3>1, <4>1, <4>3 DEF TypeOK, CostRowsInv
    <3>7. cost_rows[r] = r
      BY <3>1, <3>6, NullAssumption DEF BaselineInv, ScopesInv
    <3>8. decision_rows[r] \in Nat /\ decision_rows[r] >= 1
      BY <3>1, <3>4 DEF BaselineInv, Inv, TypeOK, RowsInv, Writers
    <3> QED  BY <3>7, <3>8
  <2> QED  BY <2>1, <2>2 DEF EveryScopeIsAccountedFor, Before
<1> QED  BY <1>1, BaselineInvariant, PTL

\* The sweeps of Layer 1 are as complete beside the script as without it.
THEOREM SweepsCompleteBesideTheScript == BaselineSpec => []FinishedSweepIsStored
<1>1. BaselineInv => FinishedSweepIsStored
  BY OrderIsOfTriples DEF BaselineInv, Layer1Inv, ProgressInv, FinishedSweepIsStored, Stored
<1> QED  BY <1>1, BaselineInvariant, PTL

----------------------------------------------------------------------------
\* A cell of a sheet is one of the files' cells, or absent.
LEMMA SheetCells ==
  ASSUME NEW files, NEW control, NEW sheet \in Sheets(files, control), NEW i \in SheetRows(control)
  PROVE  sheet[i] = NONE \/ \E f \in files : sheet[i] = f.rows[i]
<1> DEFINE Having(n) == {f \in files : f.rows[n] # NONE}
           ambiguous == {n \in SheetRows(control) :
                           \E f, g \in Having(n) : f.rows[n] # g.rows[n]}
           Only(n) == IF Having(n) = {} THEN NONE ELSE (CHOOSE f \in Having(n) : TRUE).rows[n]
           firsts == {g \in [ambiguous -> files] : \A n \in ambiguous : g[n] \in Having(n)}
           Sheet(first) == [n \in SheetRows(control) |->
                              IF n \in ambiguous THEN first[n].rows[n] ELSE Only(n)]
<1>1. PICK first \in firsts : sheet = Sheet(first)
  BY DEF Sheets
<1>2. sheet[i] = IF i \in ambiguous THEN first[i].rows[i] ELSE Only(i)
  BY <1>1
<1>3. CASE i \in ambiguous
  <2>1. first[i] \in files
    BY <1>3
  <2>2. sheet[i] = first[i].rows[i]
    BY <1>2, <1>3
  <2> QED  BY <2>1, <2>2
<1>4. CASE i \notin ambiguous
  <2>1. sheet[i] = Only(i)
    BY <1>2, <1>4
  <2>2. Having(i) # {} => (CHOOSE f \in Having(i) : TRUE) \in files
    <3>1. Having(i) # {} => (CHOOSE f \in Having(i) : TRUE) \in Having(i)
      OBVIOUS
    <3>2. Having(i) \subseteq files
      OBVIOUS
    <3> QED  BY <3>1, <3>2
  <2> QED  BY <2>1, <2>2
<1> QED  BY <1>3, <1>4

\* What evidence says: it is of a control, and its checks are those of a sheet, whose
\* rate cells are cells of a workpaper.
LEMMA EvidenceForms ==
  ASSUME NEW e \in Evidence
  PROVE  /\ \A a \in DOMAIN e.checks : e.checks[a] # NONE
         /\ DOMAIN e.checks = Attributes(e.control)
         /\ \/ /\ e.control = "DC-2"
               /\ \E sheet : /\ e.checks["B"] = Dc2B(sheet)
                             /\ e.checks["D"] = Dc2D(sheet)
            \/ /\ e.control = "DC-9"
               /\ \E sheet : RateRows(sheet) /\ e.checks["D"] = Dc9D(sheet)
<1>0. PICK t \in Triples : e \in Known(t)
  BY DEF Evidence
<1>1. PICK files \in SUBSET Files(t) : e \in Extractions(t, files)
  BY <1>0 DEF Known
<1>2. PICK f \in files, sheet \in Sheets(files, t.control) :
         /\ e.control = t.control
         /\ e.checks = CheckAttributes(t.control, sheet, files)
  BY <1>1 DEF Extractions
<1>3. \A a \in DOMAIN e.checks : e.checks[a] # NONE
  BY <1>1, NoRecordAssumption
<1>4. t.control \in {"DC-2", "DC-9"}
  BY ScenariosAssumption DEF Controls
<1>5. CASE t.control = "DC-2"
  <2>1. e.checks = Dc2Checks(sheet)
    BY <1>2, <1>5 DEF CheckAttributes
  <2>2. /\ DOMAIN e.checks = Attributes("DC-2")
        /\ e.checks["B"] = Dc2B(sheet) /\ e.checks["D"] = Dc2D(sheet)
    BY <2>1 DEF Dc2Checks, Attributes
  <2> QED  BY <1>2, <1>3, <1>5, <2>2
<1>6. CASE t.control = "DC-9"
  <2>1. e.checks = Dc9Checks(sheet, files)
    BY <1>2, <1>6 DEF CheckAttributes
  <2>2. /\ DOMAIN e.checks = Attributes("DC-9")
        /\ e.checks["D"] = Dc9D(sheet)
    BY <2>1 DEF Dc9Checks, Attributes
  <2>3. /\ sheet[13] = NONE \/ \E g \in files : sheet[13] = g.rows[13]
        /\ sheet[14] = NONE \/ \E g \in files : sheet[14] = g.rows[14]
        /\ sheet[16] = NONE \/ \E g \in files : sheet[16] = g.rows[16]
    BY <1>6, SheetCells DEF SheetRows
  <2>4. \A g \in files : /\ g.rows[13] \in RateCells(Int) \cup {NONE}
                         /\ g.rows[14] \in RateCells(Int) \cup {NONE}
                         /\ g.rows[16] \in Texts \cup {NONE}
    BY <1>1, <1>6, CellsAssumption
  <2>5. RateRows(sheet)
    BY <2>3, <2>4 DEF RateRows
  <2> QED  BY <1>2, <1>3, <1>6, <2>2, <2>5
<1> QED  BY <1>4, <1>5, <1>6

\* A sign-off is no rate.
LEMMA SignOffHasNoRate ==
  ASSUME NEW cell
  PROVE  CoerceRate(SignOffCheck(cell).value) = NONE
<1>1. SignOffCheck(cell).value \in {NONE, [text |-> cell.says]}
  BY DEF SignOffCheck, Pass, Fail
<1>2. DOMAIN [text |-> cell.says] = {"text"}
  OBVIOUS
<1> QED  BY <1>1, <1>2 DEF CoerceRate

\* A tool call resolves to evidence that was loaded, or to none.
LEMMA Resolves ==
  ASSUME AgentInv, LoadedInv, react = "tool", NEW q
  PROVE  ResolveEvidence(loaded, q) \in Evidence \cup {NONE}
BY DEF AgentInv, LoadedInv, ResolveEvidence

\* For every workpaper, the tool's answer about an amendment is the check's
\* (tools.py:323-342, attribute_checks.py:353-386).
THEOREM AmendmentAnswersAgree == BaselineSpec => []AmendmentAnswerAgrees
<1>1. BaselineInv => AmendmentAnswerAgrees
  <2> SUFFICES ASSUME BaselineInv, react = "tool", NEW q \in Quarters, NEW p \in Quarters,
                      CompareBillingRates(loaded, q, p).current_rate # NONE
               PROVE  LET check == FindCheck(ResolveEvidence(loaded, q), "D")
                      IN  CompareBillingRates(loaded, q, p).ima_amendment_found
                            = (/\ check.status = "pass"
                               /\ "amendment" \in DOMAIN check.value
                               /\ ~check.value.amendment.n_a_any_case)
    BY DEF AmendmentAnswerAgrees
  <2> DEFINE e == ResolveEvidence(loaded, q)
             check == FindCheck(e, "D")
  <2>1. /\ CompareBillingRates(loaded, q, p).current_rate = RateOf(check)
        /\ CompareBillingRates(loaded, q, p).ima_amendment_found
             = IF check = NONE THEN FALSE ELSE ResolveAmendment(check) # NONE
    BY DEF CompareBillingRates
  <2>2. check # NONE /\ CoerceRate(check.value) # NONE
    BY <2>1 DEF RateOf
  <2>3. e # NONE /\ "D" \in DOMAIN e.checks /\ check = e.checks["D"]
    BY <2>2 DEF FindCheck
  <2>4. e \in Evidence
    BY <2>3, Resolves DEF BaselineInv
  <2>5. PICK sheet : RateRows(sheet) /\ check = Dc9D(sheet)
    BY <2>2, <2>3, <2>4, EvidenceForms, SignOffHasNoRate DEF Dc2D
  <2>6. (ResolveAmendment(check) # NONE)
          <=> /\ check.status = "pass"
              /\ "amendment" \in DOMAIN check.value
              /\ ~check.value.amendment.n_a_any_case
    <3> HIDE DEF e, check
    <3> QED  BY <2>2, <2>5, AmendmentAgreesWithCheck
  <2>7. CompareBillingRates(loaded, q, p).ima_amendment_found = (ResolveAmendment(check) # NONE)
    <3> HIDE DEF e, check
    <3> QED  BY <2>1, <2>2
  <2> QED  BY <2>6, <2>7, Zenon
<1> QED  BY <1>1, BaselineInvariant, PTL

\* How far the tool is from tools.py:548-552: the only notes that Layer 1 writes on DC-2.B
\* are of its failures (attribute_checks.py:162-182), so read_reviewer_comments reports an
\* explanation exactly when Layer 1 found that one is missing.
ExplanationFoundMeansMissing ==
  react = "tool" =>
    \A q \in Quarters :
      LET evidence == ResolveEvidence(loaded, q)
      IN  evidence # NONE =>
            (evidence.control = "DC-2" =>
               (ReadReviewerComments(loaded, q, "B").variance_explanation_found
                  <=> evidence.checks["B"].status = "fail"))

\* NoteIsTheExplanation fails of every DC-2 workpaper that has a note, not of some: for
\* every workpaper and at every moment, each explanation reported is a missing one.
THEOREM ExplanationsAreMissing == BaselineSpec => []ExplanationFoundMeansMissing
<1>1. BaselineInv => ExplanationFoundMeansMissing
  <2> SUFFICES ASSUME BaselineInv, react = "tool", NEW q \in Quarters,
                      ResolveEvidence(loaded, q) # NONE,
                      ResolveEvidence(loaded, q).control = "DC-2"
               PROVE  ReadReviewerComments(loaded, q, "B").variance_explanation_found
                        <=> ResolveEvidence(loaded, q).checks["B"].status = "fail"
    BY DEF ExplanationFoundMeansMissing
  <2> DEFINE e == ResolveEvidence(loaded, q)
  <2>1. e \in Evidence
    BY Resolves DEF BaselineInv
  <2>2. PICK sheet : e.checks["B"] = Dc2B(sheet)
    BY <2>1, EvidenceForms
  <2>3. "B" \in DOMAIN e.checks /\ e.checks["B"] # NONE
    BY <2>1, EvidenceForms DEF Attributes
  <2>4. ReadReviewerComments(loaded, q, "B").variance_explanation_found
          = (e.checks["B"].notes # NONE)
    BY <2>3 DEF ReadReviewerComments, FindCheck
  <2> HIDE DEF e
  <2>5. ReadReviewerComments(loaded, q, "B").variance_explanation_found
          <=> e.checks["B"].status = "fail"
    BY <2>2, <2>4, NoteMeansMissingExplanation
  <2> QED  BY <2>5 DEF e
<1> QED  BY <1>1, BaselineInvariant, PTL

\* Every reachable state of the pipeline is well typed.
THEOREM PipelineTypeCorrect == BaselineSpec => []PipelineTypeOK
<1>1. BaselineInv => PipelineTypeOK
  <2> SUFFICES ASSUME BaselineInv PROVE PipelineTypeOK
    OBVIOUS
  <2>1. \A t \in Triples : silver[t] # NONE =>
          DOMAIN silver[t].evidence.checks = Attributes(t.control)
    <3> SUFFICES ASSUME NEW t \in Triples, silver[t] # NONE
                 PROVE  DOMAIN silver[t].evidence.checks = Attributes(t.control)
      OBVIOUS
    <3>1. silver[t].evidence \in Evidence
      BY SilverIsEvidence DEF BaselineInv
    <3>2. silver[t].evidence.control = t.control
      <4>1. silver[t].evidence \in Known(t)
        BY DEF BaselineInv, Layer1Inv, TablesInv, RowsOf
      <4> QED  BY <4>1 DEF Known, Extractions
    <3> QED  BY <3>1, <3>2, EvidenceForms
  <2>2. TypeOK /\ Investigations = Runs /\ MaxCalls \in Nat
    BY ScopesAssumption, CallsAssumption DEF BaselineInv, Inv
  <2>3. spans \subseteq 1..MaxCalls
    BY <2>2 DEF BaselineInv, AgentInv
  <2>4. /\ sweeps \in 0..MaxSweeps /\ scenario \in 1..(Len(Order) + 1)
        /\ phase \in Phases /\ tries \in 0..(MaxTries - 1)
    BY DEF BaselineInv, Layer1Inv, ProgressInv
  <2>5. /\ react \in ReactStages /\ calls \in 0..MaxCalls /\ compiled \in BOOLEAN
        /\ recorder \in [Agents -> Investigations \cup {NONE}]
        /\ callback \in Investigations \cup {NONE}
        /\ recorded \in [Investigations -> SUBSET Runs]
        /\ script \in ScriptStages
    BY <2>2 DEF BaselineInv, AgentInv
  <2>6. /\ at \in 1..(Len(Scopes) + 1) /\ results \subseteq Runs /\ failures \subseteq Runs
        /\ exit_code \in {NONE, 0, 1}
    BY DEF BaselineInv, ScopesInv
  <2> QED  BY <2>1, <2>2, <2>3, <2>4, <2>5, <2>6 DEF PipelineTypeOK
<1> QED  BY <1>1, BaselineInvariant, PTL

----------------------------------------------------------------------------
(* The composition implements its parts *)

\* Seen through the gold layer alone the script is a set of calls of run_investigation
\* that start, write and end as GoldPersistence says, each started once: nothing that
\* the shared agents, a failing scope or Layer 1 do shows there.
THEOREM BaselineImplementsGold == BaselineSpec => Init /\ [][Next]_vars
<1>1. BaselineInit => Init
  BY DEF BaselineInit
<1>2. BaselineInv /\ [BaselineNext]_baselineVars => [Next]_vars
  BY ScriptDrivesGold DEF BaselineInv, baselineVars, goldVars, vars
<1> QED  BY <1>1, <1>2, BaselineInvariant, PTL DEF BaselineSpec

\* And Layer 1 runs as if the script were not there: it reads and never writes.
THEOREM BaselineImplementsLayer1 ==
  BaselineSpec => Layer1Init /\ [][Layer1Next]_layer1Vars
<1>1. BaselineInit => Layer1Init
  BY DEF BaselineInit
<1>2. [BaselineNext]_baselineVars => [Layer1Next]_layer1Vars
  BY ScriptLeavesLayer1 DEF baselineVars
<1> QED  BY <1>1, <1>2, PTL DEF BaselineSpec

\* So what holds of the calls of run_investigation holds of the script's ...
COROLLARY ScopesKeepGold ==
  BaselineSpec => [](DecisionJoinsToCost /\ ReturnedMeansPersisted /\ FailedGraphLeavesNoTrace)
BY BaselineInvariant, InvJoins, InvPersists, InvLeavesNoTrace, PTL DEF BaselineInv

\* ... and what the script loads is an extraction with the lineage Layer 1 can promise.
COROLLARY LineageBesideTheScript == BaselineSpec => [](SilverIsARead /\ OneRevisionHasItsLineage)
BY BaselineImplementsLayer1, LineageHolds, PTL

----------------------------------------------------------------------------
(* The script counts down *)

\* What the ReAct run may still do: three steps a model call, and the answer's.
ReactStepsLeft ==
  LET more == MaxCalls - calls
  IN  CASE react = "off"            -> 3 * more + 4
        [] react = "model"          -> 3 * more + 3
        [] react = "waiting"        -> 3 * more + 5
        [] react = "tool"           -> 3 * more + 4
        [] react = "answer"         -> 3 * more + 3
        [] react = "waiting_answer" -> 3
        [] react = "parse"          -> 2
        [] OTHER                    -> 0

\* What a scope takes at most ...
ScopeSteps == 2 * MaxAttempts + 3 * MaxCalls + 13

\* ... and what the one the script is at may still take.
ScopeStepsLeft ==
  CASE script = "read_current" -> ScopeSteps
    [] script = "read_prior"   -> ScopeSteps - 1
    [] script = "investigate"  -> ScopeSteps - 2
    [] script = "extraction"   -> 2 * MaxAttempts + 6 + ReactStepsLeft
    [] script = "validation"   -> 2 * MaxAttempts + 5
    [] script = "narrative"    -> 2 * MaxAttempts + 4
    [] script = "gold"         -> 1 + CallStepsLeft(run)

ScriptStepsLeft ==
  CASE script \in Over     -> 0
    [] script = "report"   -> 1
    [] OTHER               -> 1 + (Len(Scopes) - at) * ScopeSteps + ScopeStepsLeft

\* The script counts down, or Layer 1 runs and it is not concerned.
ScriptCountsDown ==
  \/ ScriptStepsLeft' < ScriptStepsLeft
  \/ UNCHANGED <<agentVars, goldVars, scriptVars, ScriptStepsLeft>>

LEMMA CountsAreNumbers ==
  /\ MaxAttempts \in Nat \ {0} /\ MaxCalls \in Nat \ {0}
  /\ ScopeSteps \in Nat \ {0}
BY MaxAttemptsAssumption, CallsAssumption DEF ScopeSteps

LEMMA ReactStepsType == AgentInv => ReactStepsLeft \in 0..(3 * MaxCalls + 4)
<1> SUFFICES ASSUME AgentInv PROVE ReactStepsLeft \in 0..(3 * MaxCalls + 4)
  OBVIOUS
<1>1. /\ MaxCalls \in Nat \ {0} /\ calls \in 0..MaxCalls /\ react \in ReactStages
      /\ react \in Waiting => calls >= 1
  BY CallsAssumption DEF AgentInv
<1> QED  BY <1>1 DEF ReactStepsLeft, ReactStages, Waiting

\* A step of the ReAct run is one step nearer to its answer or its exception.
LEMMA AgentStepCountsDown ==
  ASSUME AgentInv, AgentStep(run)
  PROVE  ReactStepsLeft' < ReactStepsLeft
<1>1. /\ MaxCalls \in Nat \ {0} /\ calls \in 0..MaxCalls
      /\ react \in Waiting => calls >= 1
  BY CallsAssumption DEF AgentInv
<1>2. CASE Invoke
  BY <1>1, <1>2 DEF Invoke, ReactStepsLeft
<1>3. CASE CallStarts
  <2>1. CASE calls < MaxCalls
    BY <1>1, <1>3, <2>1 DEF CallStarts, ReactStepsLeft
  <2>2. CASE ~(calls < MaxCalls)
    BY <1>1, <1>3, <2>2 DEF CallStarts, ReactStepsLeft
  <2> QED  BY <2>1, <2>2
<1>4. CASE CallEnds(run)
  BY <1>1, <1>4 DEF CallEnds, ReactStepsLeft
<1>5. CASE CallFails
  BY <1>1, <1>5 DEF CallFails, ReactStepsLeft
<1>6. CASE UseTool \/ ParseAnswer
  BY <1>1, <1>6 DEF UseTool, ParseAnswer, ReactStepsLeft
<1> QED  BY <1>2, <1>3, <1>4, <1>5, <1>6 DEF AgentStep

LEMMA ScopeStepsType ==
  BaselineInv /\ script \notin {"report"} \cup Over => ScopeStepsLeft \in 1..ScopeSteps
<1> SUFFICES ASSUME BaselineInv, script \notin {"report"} \cup Over
             PROVE  ScopeStepsLeft \in 1..ScopeSteps
  OBVIOUS
<1>1. ReactStepsLeft \in 0..(3 * MaxCalls + 4) /\ script \in ScriptStages
  BY ReactStepsType DEF BaselineInv, AgentInv
<1>2. CallStepsLeft(run) \in 0..(2 * MaxAttempts + 2)
  BY AtScope, CallStepsType DEF BaselineInv
<1> QED  BY <1>1, <1>2, CountsAreNumbers DEF ScopeStepsLeft, ScopeSteps, ScriptStages, Over

\* The scopes after the one at hand.
LEMMA ScopesLeft ==
  ASSUME ScopesInv, script \notin {"report"} \cup Over
  PROVE  LET later == (Len(Scopes) - at) * ScopeSteps
         IN  /\ later \in Nat
             /\ later + ScopeSteps <= Len(Scopes) * ScopeSteps
             /\ at < Len(Scopes) =>
                  (Len(Scopes) - (at + 1)) * ScopeSteps + ScopeSteps = later
<1> DEFINE n == Len(Scopes)
<1>1. n \in Nat /\ at \in 1..n /\ ScopeSteps \in Nat
  BY AtScope, ScopeFacts, CountsAreNumbers
<1> HIDE DEF n
<1>2. /\ (n - at) * ScopeSteps \in Nat
      /\ (n - at + 1) * ScopeSteps = (n - at) * ScopeSteps + ScopeSteps
      /\ (n - at + 1) * ScopeSteps <= n * ScopeSteps
  BY <1>1, Scenarios
<1>3. ASSUME at < n
      PROVE  (n - (at + 1)) * ScopeSteps + ScopeSteps = (n - at) * ScopeSteps
  <2>1. at + 1 \in 1..n /\ n - (at + 1) + 1 = n - at
    BY <1>1, <1>3
  <2>2. (n - (at + 1) + 1) * ScopeSteps = (n - (at + 1)) * ScopeSteps + ScopeSteps
    BY <1>1, <2>1, Scenarios
  <2> QED  BY <2>1, <2>2
<1> QED  BY <1>2, <1>3 DEF n

LEMMA ScriptStepsType ==
  ASSUME BaselineInv
  PROVE  /\ ScriptStepsLeft \in 0..(1 + Len(Scopes) * ScopeSteps)
         /\ ScriptStepsLeft = 0 <=> script \in Over
<1> DEFINE later == (Len(Scopes) - at) * ScopeSteps
           all == Len(Scopes) * ScopeSteps
<1>1. all \in Nat
  BY ScopeFacts, CountsAreNumbers
<1>2. CASE script \notin {"report"} \cup Over
  <2>1. /\ later \in Nat /\ later + ScopeSteps <= all
        /\ ScopeStepsLeft \in 1..ScopeSteps
    BY <1>2, ScopesLeft, ScopeStepsType DEF BaselineInv
  <2>2. ScriptStepsLeft = 1 + later + ScopeStepsLeft
    BY <1>2 DEF ScriptStepsLeft
  <2> HIDE DEF later, all
  <2>3. ScriptStepsLeft \in 0..(1 + all) /\ ScriptStepsLeft # 0
    BY <1>1, <2>1, <2>2, CountsAreNumbers
  <2> QED  BY <1>2, <2>3 DEF all
<1>3. CASE script \in {"report"} \cup Over
  <2>1. ScriptStepsLeft = IF script \in Over THEN 0 ELSE 1
    BY <1>3 DEF ScriptStepsLeft, Over
  <2> HIDE DEF all
  <2>2. /\ ScriptStepsLeft \in 0..(1 + all)
        /\ ScriptStepsLeft = 0 <=> script \in Over
    BY <1>1, <2>1
  <2> QED  BY <2>2 DEF all
<1> QED  BY <1>2, <1>3

\* Within a scope the scope's own count tells.
LEMMA SameScopeCountsDown ==
  ASSUME BaselineInv, script \notin {"report"} \cup Over, script' \notin {"report"} \cup Over,
         at' = at, ScopeStepsLeft' < ScopeStepsLeft, ScopeStepsLeft' \in Nat
  PROVE  ScriptStepsLeft' < ScriptStepsLeft
<1> DEFINE later == (Len(Scopes) - at) * ScopeSteps
<1>1. later \in Nat /\ ScopeStepsLeft \in 1..ScopeSteps
  BY ScopesLeft, ScopeStepsType DEF BaselineInv
<1>2. ScriptStepsLeft = 1 + later + ScopeStepsLeft
  BY DEF ScriptStepsLeft
<1>3. ScriptStepsLeft' = 1 + later + ScopeStepsLeft'
  BY DEF ScriptStepsLeft, ScopeSteps, Over
<1>4. ScopeStepsLeft \in Nat /\ ScopeStepsLeft' \in Nat /\ ScopeStepsLeft' < ScopeStepsLeft
  BY <1>1, CountsAreNumbers
<1>5. \A a, b, c \in Nat : b < c => 1 + a + b < 1 + a + c
  OBVIOUS
<1> HIDE DEF later
<1> QED  BY <1>1, <1>2, <1>3, <1>4, <1>5

\* A scope that is over, however it ended, leaves the later ones.
LEMMA NextScopeCountsDown ==
  ASSUME BaselineInv, script \notin {"report"} \cup Over, NextScope
  PROVE  ScriptStepsLeft' < ScriptStepsLeft
<1> DEFINE later == (Len(Scopes) - at) * ScopeSteps
           after == (Len(Scopes) - (at + 1)) * ScopeSteps
<1>1. /\ later \in Nat /\ ScopeStepsLeft \in 1..ScopeSteps /\ ScopeSteps \in Nat
      /\ at < Len(Scopes) => after + ScopeSteps = later
      /\ at \in 1..Len(Scopes) /\ Len(Scopes) \in Nat
  BY ScopesLeft, ScopeStepsType, CountsAreNumbers, AtScope, ScopeFacts DEF BaselineInv
<1>2. ScriptStepsLeft = 1 + later + ScopeStepsLeft
  BY DEF ScriptStepsLeft
<1>3. CASE at = Len(Scopes)
  <2>1. script' = "report"
    BY <1>3 DEF NextScope
  <2>2. ScriptStepsLeft' = 1
    BY <2>1 DEF ScriptStepsLeft, Over
  <2> HIDE DEF later
  <2> QED  BY <1>1, <1>2, <2>2
<1>4. CASE at # Len(Scopes)
  <2>1. script' = "read_current" /\ at' = at + 1
    BY <1>4 DEF NextScope
  <2>2. ScopeStepsLeft' = ScopeSteps
    BY <2>1 DEF ScopeStepsLeft, ScopeSteps
  <2>3. ScriptStepsLeft' = 1 + after + ScopeSteps
    BY <2>1, <2>2 DEF ScriptStepsLeft, ScopeSteps, Over
  <2>4. after + ScopeSteps = later
    BY <1>1, <1>4
  <2>5. after \in Int
    <3>1. Len(Scopes) - (at + 1) \in Int
      BY <1>1
    <3>2. \A a, b \in Int : a * b \in Int
      OBVIOUS
    <3> QED  BY <1>1, <3>1, <3>2
  <2> HIDE DEF later, after
  <2> QED  BY <1>1, <1>2, <2>3, <2>4, <2>5
<1> QED  BY <1>3, <1>4

\* Both hold of the state after a step as well.
LEMMA StepsAfter ==
  ASSUME BaselineInv'
  PROVE  /\ ReactStepsLeft' \in 0..(3 * MaxCalls + 4)
         /\ script' \notin {"report"} \cup Over => ScopeStepsLeft' \in 1..ScopeSteps
<1>1. (AgentInv => ReactStepsLeft \in 0..(3 * MaxCalls + 4))'
  BY ReactStepsType, PTL
<1>2. (BaselineInv /\ script \notin {"report"} \cup Over => ScopeStepsLeft \in 1..ScopeSteps)'
  BY ScopeStepsType, PTL
<1> QED  BY <1>1, <1>2 DEF BaselineInv, ScopeSteps, Over

\* What a step of the script does to its count, stage by stage.
LEMMA ScriptStepCountsDown ==
  ASSUME BaselineInv, BaselineInv', ScriptStep
  PROVE  ScriptStepsLeft' < ScriptStepsLeft
<1> DEFINE Working == script \notin {"report"} \cup Over
<1>1. CASE ScopeFails \/ (ScopeEnds /\ NextScope)
  <2>1. CASE Report
    <3>1. at' = at
      BY <2>1 DEF Report
    <3>2. at' = at + 1
      BY <1>1 DEF ScopeFails, NextScope
    <3>3. at \in Nat
      BY ScopeFacts DEF BaselineInv, ScopesInv
    <3> QED  BY <3>1, <3>2, <3>3
  <2>2. CASE ~Report
    <3>1. Working
      <4>1. (ReadCurrent => script = "read_current") /\ (ReadPrior => script = "read_prior")
        BY DEF ReadCurrent, ReadPrior
      <4>2. Investigate \/ Extract \/ ExtractionReturns \/ ExtractionRaises
              => script \in {"investigate", "extraction"}
        BY DEF Investigate, Extract, ExtractionReturns, ExtractionRaises
      <4>3. Validate \/ Narrate \/ OtherAgentRaises \/ WriteGold \/ ScopeEnds
              => script \in {"validation", "narrative", "gold"}
        BY DEF Validate, Narrate, Visit, OtherAgentRaises, WriteGold, ScopeEnds
      <4>4. script \notin {"report"} \cup Over
        BY <2>2, <4>1, <4>2, <4>3 DEF ScriptStep, Over
      <4> QED  BY <4>4
    <3> QED  BY <1>1, <3>1, NextScopeCountsDown DEF ScopeFails
  <2> QED  BY <2>1, <2>2
<1>2. ExtractionRaises \/ OtherAgentRaises \/ ScopeEnds => ScopeFails \/ (ScopeEnds /\ NextScope)
  BY DEF ExtractionRaises, OtherAgentRaises, ScopeEnds
<1>3. CASE Report
  <2>1. /\ script = "report" /\ script' \in Over
    BY <1>3 DEF Report, Over
  <2>2. ScriptStepsLeft = 1 /\ ScriptStepsLeft' = 0
    BY <2>1 DEF ScriptStepsLeft, Over
  <2> QED  BY <2>2
<1>4. ASSUME Working, script' \notin {"report"} \cup Over, at' = at,
             ScopeStepsLeft' < ScopeStepsLeft
      PROVE  ScriptStepsLeft' < ScriptStepsLeft
  <2>1. ScopeStepsLeft' \in 1..ScopeSteps
    BY <1>4, StepsAfter
  <2>2. ScopeStepsLeft' \in Nat
    BY <2>1, CountsAreNumbers
  <2> QED  BY <1>4, <2>2, SameScopeCountsDown
<1>5. MaxAttempts \in Nat \ {0} /\ MaxCalls \in Nat \ {0}
  BY CountsAreNumbers
<1>6. CASE (ReadCurrent \/ ReadPrior) /\ ~ScopeFails
  <2>1. /\ at' = at /\ <<script, script'>> \in {<<"read_current", "read_prior">>,
                                               <<"read_prior", "investigate">>}
    BY <1>6 DEF ReadCurrent, ReadPrior
  <2>2. ScopeStepsLeft' < ScopeStepsLeft
    BY <1>5, <2>1 DEF ScopeStepsLeft, ScopeSteps
  <2> QED  BY <1>4, <2>1, <2>2 DEF Over
<1>7. CASE Investigate
  <2>1. script = "investigate" /\ script' = "extraction" /\ at' = at
    BY <1>7 DEF Investigate
  <2>2. ReactStepsLeft' \in 0..(3 * MaxCalls + 4)
    BY StepsAfter
  <2>3. ScopeStepsLeft' < ScopeStepsLeft
    BY <1>5, <2>1, <2>2 DEF ScopeStepsLeft, ScopeSteps
  <2> QED  BY <1>4, <2>1, <2>3 DEF Over
<1>8. CASE Extract
  <2>1. /\ script = "extraction" /\ script' = "extraction" /\ at' = at
        /\ AgentStep(run)
    BY <1>8 DEF Extract
  <2>2. ReactStepsLeft' < ReactStepsLeft /\ ReactStepsLeft \in 0..(3 * MaxCalls + 4)
        /\ ReactStepsLeft' \in 0..(3 * MaxCalls + 4)
    BY <2>1, StepsAfter, ReactStepsType, AgentStepCountsDown DEF BaselineInv
  <2>3. ScopeStepsLeft' < ScopeStepsLeft
    BY <1>5, <2>1, <2>2 DEF ScopeStepsLeft
  <2> QED  BY <1>4, <2>1, <2>3 DEF Over
<1>9. CASE ExtractionReturns \/ Validate
  <2>1. /\ at' = at /\ <<script, script'>> \in {<<"extraction", "validation">>,
                                               <<"validation", "narrative">>}
    BY <1>9 DEF ExtractionReturns, Validate, Visit
  <2>2. ReactStepsLeft \in 0..(3 * MaxCalls + 4)
    BY ReactStepsType DEF BaselineInv
  <2>3. ScopeStepsLeft' < ScopeStepsLeft
    BY <1>5, <2>1, <2>2 DEF ScopeStepsLeft
  <2> QED  BY <1>4, <2>1, <2>3 DEF Over
<1>10. CASE Narrate
  <2>1. /\ script = "narrative" /\ script' = "gold" /\ at' = at
    BY <1>10 DEF Narrate, Visit
  <2>2. /\ run \in Runs /\ run' = run
        /\ \E v \in Verdicts : GraphReturns(run, v)
    BY <1>10, <2>1, AtScope DEF Narrate, BaselineInv, Over, run
  <2>3. CallCountsDown(run)
    BY <2>2, StepCountsDown DEF BaselineInv, RunStep
  <2>4. /\ CallStepsLeft(run) \in 0..(2 * MaxAttempts + 2)
        /\ CallStepsLeft(run)' < CallStepsLeft(run)
    BY <2>2, <2>3, CallStepsType DEF BaselineInv, CallCountsDown
  <2>5. CallStepsLeft(run)' \in Int
    <3>1. /\ attempt'[run] \in 0..MaxAttempts /\ stage'[run] \in Stages
      BY <2>2 DEF BaselineInv, Inv, TypeOK
    <3> QED  BY <1>5, <2>2, <3>1 DEF CallStepsLeft, Stages
  <2>6. ScopeStepsLeft' < ScopeStepsLeft
    BY <1>5, <2>1, <2>4, <2>5 DEF ScopeStepsLeft
  <2> QED  BY <1>4, <2>1, <2>6 DEF Over
<1>11. CASE WriteGold
  <2>1. /\ script = "gold" /\ script' = "gold" /\ at' = at
    BY <1>11 DEF WriteGold, scriptVars
  <2>2. /\ run \in Runs /\ run' = run
        /\ WriteCost(run) \/ WriteDecision(run)
    BY <1>11, <2>1, AtScope DEF WriteGold, BaselineInv, Over, run
  <2>3. CallCountsDown(run)
    BY <2>2, StepCountsDown DEF BaselineInv, RunStep
  <2>4. /\ CallStepsLeft(run) \in 0..(2 * MaxAttempts + 2)
        /\ CallStepsLeft(run)' < CallStepsLeft(run)
    BY <2>2, <2>3, CallStepsType DEF BaselineInv, CallCountsDown
  <2>5. CallStepsLeft(run)' \in Int
    <3>1. /\ attempt'[run] \in 0..MaxAttempts /\ stage'[run] \in Stages
      BY <2>2 DEF BaselineInv, Inv, TypeOK
    <3> QED  BY <1>5, <2>2, <3>1 DEF CallStepsLeft, Stages
  <2>6. ScopeStepsLeft' < ScopeStepsLeft
    BY <1>5, <2>1, <2>4, <2>5 DEF ScopeStepsLeft
  <2> QED  BY <1>4, <2>1, <2>6 DEF Over
<1> QED  BY <1>1, <1>2, <1>3, <1>6, <1>7, <1>8, <1>9, <1>10, <1>11 DEF ScriptStep

LEMMA BaselineCountsDown ==
  BaselineInv /\ BaselineInv' /\ [BaselineNext]_baselineVars => [ScriptCountsDown]_baselineVars
<1> SUFFICES ASSUME BaselineInv, BaselineInv', BaselineNext PROVE ScriptCountsDown
  OBVIOUS
<1>1. CASE ScriptStep
  BY <1>1, ScriptStepCountsDown DEF ScriptCountsDown
<1>2. CASE ScriptDies
  <2>1. ScriptStepsLeft \in 0..(1 + Len(Scopes) * ScopeSteps) /\ ScriptStepsLeft # 0
    BY <1>2, ScriptStepsType DEF ScriptDies
  <2>2. ScriptStepsLeft' = 0
    BY <1>2 DEF ScriptDies, ScriptStepsLeft, Over
  <2>3. Len(Scopes) * ScopeSteps \in Nat
    BY ScopeFacts, CountsAreNumbers
  <2> QED  BY <2>1, <2>2, <2>3 DEF ScriptCountsDown
<1>3. CASE BesideTheScript
  <2>1. UNCHANGED <<agentVars, goldVars, scriptVars>>
    BY <1>3 DEF BesideTheScript
  <2>2. UNCHANGED <<script, at, react, calls, stage, attempt>>
    BY <2>1 DEF agentVars, goldVars, scriptVars
  <2>3. CallStepsLeft(run)' = CallStepsLeft(run) /\ ReactStepsLeft' = ReactStepsLeft
    BY <2>2 DEF CallStepsLeft, ReactStepsLeft, run
  <2>4. ScopeStepsLeft' = ScopeStepsLeft
    BY <2>2, <2>3 DEF ScopeStepsLeft, ScopeSteps
  <2>5. ScriptStepsLeft' = ScriptStepsLeft
    BY <2>2, <2>4 DEF ScriptStepsLeft, ScopeSteps
  <2> QED  BY <2>1, <2>5 DEF ScriptCountsDown
<1> QED  BY <1>1, <1>2, <1>3 DEF BaselineNext

\* The safety half of ScriptEnds, for every list of scopes: the script takes at most
\* ScopeSteps steps a scope and one for its report, each of them nearer to its end, and
\* it has none left only when it is over.  Sweeps and ingests beside it cost it nothing,
\* and no failure of a scope begins anything again.
THEOREM ScriptStepsBounded ==
  BaselineSpec =>
    /\ [](/\ ScriptStepsLeft \in 0..(1 + Len(Scopes) * ScopeSteps)
          /\ ScriptStepsLeft = 0 <=> script \in Over)
    /\ [][ScriptCountsDown]_baselineVars
<1>1. BaselineInv => /\ ScriptStepsLeft \in 0..(1 + Len(Scopes) * ScopeSteps)
                     /\ ScriptStepsLeft = 0 <=> script \in Over
  BY ScriptStepsType
<1> QED  BY <1>1, BaselineCountsDown, BaselineInvariant, PTL DEF BaselineSpec
=============================================================================
