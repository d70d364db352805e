------------------------------ MODULE Baseline ------------------------------
(***************************************************************************)
(* The Layer 3 baseline script (scripts/run_layer3_baseline.py) on the     *)
(* evidence of Layer 1: for one scope after the other it reads the silver  *)
(* evidence of two quarters, runs the investigation with agents and        *)
(* writers that all scopes share, and goes on when a scope fails.  Layer 1 *)
(* ingests and sweeps beside it.                                           *)
(*                                                                         *)
(* A scope is a call of run_investigation: it is a run of GoldPersistence, *)
(* with the agent_run_id that the script makes of the scope's label.  The  *)
(* extraction agent's ReAct run is ExtractionAgent; the supervisor's       *)
(* routing and the other two agents are modelled in Supervisor,            *)
(* ValidationAgent and NarrativeAgent, and are here what they spend.       *)
(***************************************************************************)
EXTENDS Layer1, ExtractionAgent, GoldPersistence

CONSTANT Scopes  \* BASELINE_SCOPES: [run, control, quarter, prior_quarter]

ASSUME ScopesAssumption ==
  /\ Scopes \in Seq([run : Runs, control : Controls, quarter : STRING, prior_quarter : STRING])
  /\ \A k \in DOMAIN Scopes : /\ [control |-> Scopes[k].control,
                                  quarter |-> Scopes[k].quarter] \in Triples
                              /\ [control |-> Scopes[k].control,
                                  quarter |-> Scopes[k].prior_quarter] \in Triples
  /\ \A k, l \in DOMAIN Scopes : Scopes[k].run = Scopes[l].run => k = l
  /\ Runs \subseteq AgentRunIds
  /\ Investigations = Runs

VARIABLES
  at,        \* the scope the script is at
  script,    \* what it does there
  loaded,    \* the evidence of the two quarters, NONE before it is read
  results,   \* the scopes with a ScopeResult ...
  failures,  \* ... and those that raised
  exit_code  \* NONE until main returns

scriptVars == <<at, script, loaded, results, failures, exit_code>>
goldVars == <<stage, agent_run_id, writers, verdict, attempt, cost_rows, decision_rows>>
baselineVars == <<layer1Vars, agentVars, goldVars, scriptVars>>

ScriptStages == {"read_current", "read_prior", "investigate", "extraction", "validation",
                 "narrative", "gold", "report", "ended", "raised", "died"}
Over == {"ended", "raised", "died"}

NothingLoaded == [current |-> NONE, prior |-> NONE]

BaselineInit ==
  /\ Layer1Init
  /\ AgentInit
  /\ Init
  /\ at = 1
  /\ script = IF Scopes = <<>> THEN "report" ELSE "read_current"
  /\ loaded = NothingLoaded
  /\ results = {}
  /\ failures = {}
  /\ exit_code = NONE

run == Scopes[at].run
Triple(quarter) == [control |-> Scopes[at].control, quarter |-> quarter]

\* On to the next scope: the agents stay, with their compiled graph and the
\* recorder they hold, which is not read again.
NextScope ==
  /\ script' = IF at = Len(Scopes) THEN "report" ELSE "read_current"
  /\ at' = at + 1
  /\ loaded' = NothingLoaded
  /\ recorded' = [recorded EXCEPT ![run] = {}]

\* Mutant: a scope that raised is only printed.
ScopeFailsSilently == NextScope /\ UNCHANGED <<results, failures>>

\* Mutant: a scope that raised is tried again.
ScopeFailsRetries ==
  /\ script' = "read_current"
  /\ loaded' = NothingLoaded
  /\ UNCHANGED <<at, recorded, results, failures>>

\* except Exception: the scope is noted and the loop goes on.
ScopeFails ==
  /\ NextScope
  /\ failures' = failures \cup {run}
  /\ UNCHANGED results

\* silver_reader.read for the current quarter and then for the prior one: no
\* rows is a SilverReadError, and a read may keep failing.
ReadCurrent ==
  LET row == silver[Triple(Scopes[at].quarter)]
  IN  /\ script = "read_current"
      /\ \/ /\ row # NONE
            /\ loaded' = [loaded EXCEPT !.current = row.evidence]
            /\ script' = "read_prior"
            /\ UNCHANGED <<at, results, failures, recorded>>
         \/ ScopeFails
      /\ UNCHANGED <<layer1Vars, runVars, compiled, recorder, callback, goldVars, exit_code>>

ReadPrior ==
  LET row == silver[Triple(Scopes[at].prior_quarter)]
  IN  /\ script = "read_prior"
      /\ \/ /\ row # NONE
            /\ loaded' = [loaded EXCEPT !.prior = row.evidence]
            /\ script' = "investigate"
            /\ UNCHANGED <<at, results, failures, recorded>>
         \/ ScopeFails
      /\ UNCHANGED <<layer1Vars, runVars, compiled, recorder, callback, goldVars, exit_code>>

\* The status of the check is always "fail", so the investigation is eligible
\* whatever Layer 1 found, and the two controls agree.
Investigate ==
  /\ script = "investigate"
  /\ Start(run, run, Writers)
  /\ HoldRecorder(run)
  /\ script' = "extraction"
  /\ UNCHANGED <<layer1Vars, runVars, compiled, callback, recorded,
                 at, loaded, results, failures, exit_code>>

\* A step of the ReAct run, on the state the two reads have filled.
Extract ==
  /\ script = "extraction"
  /\ AgentStep(run)
  /\ UNCHANGED <<layer1Vars, goldVars, at, script, loaded, results, failures, exit_code>>

ExtractionReturns ==
  /\ script = "extraction"
  /\ react = "returned"
  /\ ResetRun
  /\ script' = "validation"
  /\ UNCHANGED <<layer1Vars, compiled, recorder, recorded, goldVars,
                 at, loaded, results, failures, exit_code>>

\* An agent's exception leaves the graph and run_investigation.
ExtractionRaises ==
  /\ script = "extraction"
  /\ react = "raised"
  /\ ResetRun
  /\ GraphRaises(run)
  /\ ScopeFails
  /\ UNCHANGED <<layer1Vars, compiled, recorder, exit_code>>

Visit(agent) ==
  /\ script = agent
  /\ OtherAgentCalls(agent, run)
  /\ UNCHANGED <<layer1Vars, at, loaded, results, failures, exit_code>>

\* No document found is answered without a call.
Validate ==
  /\ Visit("validation")
  /\ script' = "narrative"
  /\ UNCHANGED goldVars

\* The graph ends after the narrative.
Narrate ==
  /\ Visit("narrative")
  /\ \E v \in Verdicts : GraphReturns(run, v)
  /\ script' = "gold"

OtherAgentRaises ==
  /\ script \in {"validation", "narrative"}
  /\ GraphRaises(run)
  /\ ScopeFails
  /\ UNCHANGED <<layer1Vars, runVars, compiled, recorder, callback, exit_code>>

\* The two writers of run_investigation.
WriteGold ==
  /\ script = "gold"
  /\ stage[run] \in {"write_cost", "write_decision"}
  /\ WriteCost(run) \/ WriteDecision(run)
  /\ UNCHANGED <<layer1Vars, agentVars, scriptVars>>

ScopeEnds ==
  /\ script = "gold"
  /\ \/ /\ stage[run] = "returned"
        /\ NextScope
        /\ results' = results \cup {run}
        /\ UNCHANGED failures
     \/ /\ stage[run] = "raised"
        /\ ScopeFails
  /\ UNCHANGED <<layer1Vars, runVars, compiled, recorder, callback, goldVars, exit_code>>

\* _fetch_cost_rows and the aggregate: the query is not retried.
Report ==
  /\ script = "report"
  /\ \/ /\ script' = "ended"
        /\ exit_code' = IF failures = {} THEN 0 ELSE 1
     \/ /\ script' = "raised"
        /\ UNCHANGED exit_code
  /\ UNCHANGED <<layer1Vars, agentVars, goldVars, at, loaded, results, failures>>

ScriptStep ==
  \/ ReadCurrent \/ ReadPrior \/ Investigate
  \/ Extract \/ ExtractionReturns \/ ExtractionRaises \/ Validate \/ Narrate
  \/ OtherAgentRaises \/ WriteGold \/ ScopeEnds \/ Report

\* The process is killed, and its memory is gone.
ScriptDies ==
  /\ script \notin Over
  /\ script' = "died"
  /\ AgentForgets
  /\ loaded' = NothingLoaded
  /\ results' = {}
  /\ failures' = {}
  /\ UNCHANGED <<layer1Vars, goldVars, at, exit_code>>

BesideTheScript ==
  /\ Layer1Next
  /\ UNCHANGED <<agentVars, goldVars, scriptVars>>

BaselineNext == ScriptStep \/ ScriptDies \/ BesideTheScript

BaselineSpec ==
  /\ BaselineInit
  /\ [][BaselineNext]_baselineVars
  /\ WF_baselineVars(ScriptStep)

----------------------------------------------------------------------------
PipelineTypeOK ==
  /\ TypeOK
  /\ \A t \in Triples : silver[t] # NONE => DOMAIN silver[t].evidence.checks = Attributes(t.control)
  /\ sweeps \in 0..MaxSweeps /\ scenario \in 1..(Len(Order) + 1)
  /\ phase \in Phases /\ tries \in 0..(MaxTries - 1)
  /\ react \in ReactStages /\ calls \in 0..MaxCalls /\ spans \subseteq 1..MaxCalls
  /\ compiled \in BOOLEAN
  /\ recorder \in [Agents -> Investigations \cup {NONE}]
  /\ callback \in Investigations \cup {NONE}
  /\ recorded \in [Investigations -> SUBSET Runs]
  /\ at \in 1..(Len(Scopes) + 1) /\ script \in ScriptStages
  /\ results \subseteq Runs /\ failures \subseteq Runs
  /\ exit_code \in {NONE, 0, 1}

(* What the agent is told about an amendment agrees with what Layer 1 found   *)
(* on the workpaper, whatever the cells say and the LLM asks: when the rates  *)
(* of the quarter were readable, compare_billing_rates reports one exactly    *)
(* when the check passed a rate change, except that a reference that starts   *)
(* with "n/a" in small letters passes there and is none here.                 *)
AmendmentAnswerAgrees ==
  react = "tool" =>
    \A q, p \in Quarters :
      LET told  == CompareBillingRates(loaded, q, p)
          check == FindCheck(ResolveEvidence(loaded, q), "D")
      IN  told.current_rate # NONE =>
            told.ima_amendment_found = (/\ check.status = "pass"
                                        /\ "amendment" \in DOMAIN check.value
                                        /\ ~check.value.amendment.n_a_any_case)

(* A recorder counts the calls of its own investigation alone, although all   *)
(* scopes share the agents and an agent records on whatever recorder it holds *)
(* (supervisor.py:704-713): the cost row made of it is its own scope's.       *)
CostsAreOfTheirScope == \A r \in Runs : recorded[r] \subseteq {r}

(* No scope is lost or counted twice, and exit code 0 means that the gold     *)
(* layer has the rows of every one of them.                                   *)
EveryScopeIsAccountedFor ==
  /\ results \cap failures = {}
  /\ script \notin {"died"} => results \cup failures = {Scopes[k].run : k \in 1..(at - 1)}
  /\ exit_code = 0 =>
       \A k \in DOMAIN Scopes : /\ cost_rows[Scopes[k].run] = Scopes[k].run
                                /\ decision_rows[Scopes[k].run] > 0

(* The script comes to an end, whatever fails and whatever Layer 1 does.      *)
ScriptEnds == <>(script \in Over)
----------------------------------------------------------------------------
(* What the tools' comments say, and the code does not do                     *)

(* tools.py:508-512 and 548-552 (read_reviewer_comments): any note on DC-2.B  *)
(* is the explanation of the variance.  So when the tool reports one, Layer 1 *)
(* has not failed the attribute for want of an explanation.                   *)
NoteIsTheExplanation ==
  react = "tool" =>
    \A q \in Quarters :
      LET evidence == ResolveEvidence(loaded, q)
      IN  (/\ evidence # NONE
           /\ evidence.control = "DC-2"
           /\ ReadReviewerComments(loaded, q, "B").variance_explanation_found)
            => evidence.checks["B"].status # "fail"
=============================================================================
