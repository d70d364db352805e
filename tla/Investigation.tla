--------------------------- MODULE Investigation ---------------------------
(***************************************************************************)
(* The supervisor graph with the validation and narrative nodes opened up: *)
(* inside a node the agent's own calls and retries take place, and the     *)
(* node ends when the agent returns or raises.  Supervisor treats each of  *)
(* the two nodes as one step with a set of outcomes; ImplementsSupervisor  *)
(* shows that the real loops never leave that set.                         *)
(***************************************************************************)
EXTENDS Supervisor

CONSTANT Attempts

ASSUME AttemptsAssumption == Attempts \in Nat \ {0}

VARIABLES v_pc, v_attempt, v_calls, v_outcome,
          n_pc, n_fact, n_word, n_json, n_calls, n_checked, n_outcome

vCalls == <<v_pc, v_attempt, v_calls, v_outcome>>
nCalls == <<n_pc, n_fact, n_word, n_json, n_calls, n_checked, n_outcome>>
allVars == <<vars, vCalls, nCalls>>

V == INSTANCE ValidationAgent WITH
  pc <- v_pc, attempt <- v_attempt, calls <- v_calls, outcome <- v_outcome

N == INSTANCE NarrativeAgent WITH
  pc <- n_pc, fact_attempt <- n_fact, word_attempt <- n_word, json_attempt <- n_json,
  calls <- n_calls, checked <- n_checked, outcome <- n_outcome

ASSUME PayloadAssumption == NULL \notin N!Payloads

InvestigationInit == Init /\ V!Init /\ N!Init

\* Inside the two opened nodes only the agent moves.
ValidationCalls ==
  /\ pc = "validation" /\ "validation" \in wired
  /\ V!Next(extraction_findings)
  /\ UNCHANGED <<vars, nCalls>>

ValidationReturns ==
  /\ v_pc = "returned"
  /\ VisitSubAgent("validation", "emitted")
  /\ validation_findings' = v_outcome
  /\ UNCHANGED <<extraction_findings, final_narrative, confidence_score, vCalls, nCalls>>

ValidationEscapes ==
  /\ pc = "validation" /\ v_pc = "raised"
  /\ Raise("validation")
  /\ UNCHANGED <<vCalls, nCalls>>

NarrativeCalls ==
  /\ pc = "narrative" /\ "narrative" \in wired
  /\ N!Next
  /\ UNCHANGED <<vars, vCalls>>

\* Mutant: the validation confidence is not carried into the supervisor's state.
NarrativeReturnsWithoutConfidence ==
  /\ n_pc = "returned"
  /\ VisitSubAgent("narrative", "emitted")
  /\ final_narrative' = n_outcome
  /\ UNCHANGED <<extraction_findings, validation_findings, confidence_score, vCalls, nCalls>>

NarrativeReturns ==
  /\ n_pc = "returned"
  /\ VisitSubAgent("narrative", "emitted")
  /\ final_narrative' = n_outcome
  /\ confidence_score' = IF validation_findings # NULL
                         THEN validation_findings.confidence ELSE confidence_score
  /\ UNCHANGED <<extraction_findings, validation_findings, vCalls, nCalls>>

NarrativeEscapes ==
  /\ pc = "narrative" /\ n_pc = "raised"
  /\ Raise("narrative")
  /\ UNCHANGED <<vCalls, nCalls>>

\* Everything else is the supervisor's step, the agents at rest.
OutsideAgents ==
  /\ \/ EnterGraph
     \/ RejectRequest
     \/ SupervisorNode
     \/ JudgeRaises
     \/ RouteFromSupervisor
     \/ \E a \in SubAgents : NoAgentInjected(a)
     \/ ExtractionAgentNode
     \/ AgentRaises("extraction")
     \/ EnsureTerminalNarrative
     \/ BuildDecisionRow
  /\ UNCHANGED <<vCalls, nCalls>>

InvestigationNext ==
  \/ ValidationCalls
  \/ ValidationReturns
  \/ ValidationEscapes
  \/ NarrativeCalls
  \/ NarrativeReturns
  \/ NarrativeEscapes
  \/ OutsideAgents

InvestigationSpec ==
  InvestigationInit /\ [][InvestigationNext]_allVars /\ WF_allVars(InvestigationNext)
-----------------------------------------------------------------------------
AgentsTypeOK == V!TypeOK /\ N!TypeOK

\* Opening the two nodes adds nothing the supervisor's model does not already allow.
ImplementsSupervisor == Spec

\* Whatever the graph does, one investigation asks the validation LLM at most twice
\* and the narrative LLM at most eight times, and neither before the findings it
\* reasons over exist.
LlmSpendBounded ==
  /\ V!CallBudget(extraction_findings)
  /\ N!CallBudget
  /\ v_calls > 0 => extraction_findings # NULL
  /\ n_calls > 0 => validation_findings # NULL

\* Ungrounded text never leaves the narrative agent, and what left it is what the
\* row is built from.
OnlyGroundedTextReachesTheRow ==
  /\ N!OnlyGroundedTextLeaves
  /\ decision # NULL /\ decision.recommendation = "ACCEPT" =>
       n_checked # NULL /\ n_checked.grounded /\ n_checked.recommendation = "ACCEPT"

(* What the code's comments say, and the code does not do *)

\* narrative_agent.py:304-305 (NarrativeAgent): on any unrecoverable failure the
\* agent returns the fallback narrative and never raises into the supervisor.
NarrativeNeverRaises == n_pc # "raised"

\* validation_agent.py:26-27 and 314-316: validation never raises into the supervisor;
\* state.py:61-63 and supervisor.py:886: every exit of the supervisor, a sub-agent's
\* exception included, ends in a row.  However its call goes wrong, a validation that
\* was asked does not leave the investigation without a decision.
FailedValidationIsDecided == pc = "raised" /\ error = "validation" => decision # NULL
=============================================================================
