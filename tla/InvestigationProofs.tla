-------------------------- MODULE InvestigationProofs --------------------------
(***************************************************************************)
(* Proofs about Investigation, for every number of validation attempts:    *)
(* the opened agents stay within the outcomes Supervisor allows them, so   *)
(* each step of the composition is a step of Supervisor or changes nothing *)
(* Supervisor sees.  The lemmas of SupervisorProofs and                    *)
(* NarrativeAgentProofs then hold of the composition too.                  *)
(***************************************************************************)
EXTENDS Investigation, SupervisorProofs

USE DEF SubAgents, Recommendations

NP == INSTANCE NarrativeAgentProofs WITH
  pc <- n_pc, fact_attempt <- n_fact, word_attempt <- n_word, json_attempt <- n_json,
  calls <- n_calls, checked <- n_checked, outcome <- n_outcome

\* The validation agent: it runs only for findings that exist, a call is paid for by
\* an attempt, and what it returns is what Supervisor lets the node answer.
ValidationInv ==
  /\ V!TypeOK
  /\ v_calls <= Attempts
  /\ v_pc = "idle" => v_calls = 0
  /\ v_pc # "idle" => "validation" \in wired /\ extraction_findings # NULL
  /\ v_pc = "calling" => /\ extraction_findings # "not_found"
                         /\ v_attempt >= 1
                         /\ v_calls = v_attempt - 1
  /\ extraction_findings = "not_found" => v_calls = 0
  /\ v_pc = "returned" => v_outcome \in ValidationOutcomes(extraction_findings)

\* The narrative agent: as alone, and it runs only for validation findings that exist;
\* a narrative in the state that an agent wrote is the one it returned.
NarrativeInv ==
  /\ NP!Inv
  /\ NP!OnlyGroundedTextLeaves
  /\ n_pc = "idle" => n_calls = 0
  /\ n_pc # "idle" => "narrative" \in wired /\ validation_findings # NULL
  /\ n_pc = "returned" => n_outcome \in NarrativeOutcomes
  /\ final_narrative # NULL /\ final_narrative.origin # "degraded" =>
       final_narrative = n_outcome

AgentsInv == ValidationInv /\ NarrativeInv

-----------------------------------------------------------------------------
(* What the two views of the narrative agent share *)

LEMMA SameNarrativeAgent ==
  /\ N!Init => NP!Init
  /\ N!Next => NP!Next
  /\ N!TypeOK <=> NP!TypeOK
  /\ N!CallBudget <=> NP!CallBudget
  /\ N!OnlyGroundedTextLeaves <=> NP!OnlyGroundedTextLeaves
  /\ N!Payloads = NP!Payloads
<1>. USE DEF N!Payloads, N!Recommendations, NP!Payloads, NP!Recommendations,
             N!LlmNarratives, NP!LlmNarratives, N!FallbackEscalate, NP!FallbackEscalate
<1>1. N!Init => NP!Init
  BY DEF N!Init, NP!Init
<1>2. N!Next => NP!Next
  BY DEF N!Next, N!Invoke, N!CallUnusable, N!CallParsed, N!CallEscapes, N!Call, N!FallBack,
     N!RetryShorter, N!RejectedBySchema, N!ReturnGrounded, N!FactCheckFails, N!Settled,
     N!attempts,
     NP!Next, NP!Invoke, NP!CallUnusable, NP!CallParsed, NP!CallEscapes, NP!Call,
     NP!FallBack, NP!RetryShorter, NP!RejectedBySchema, NP!ReturnGrounded,
     NP!FactCheckFails, NP!Settled, NP!attempts
<1>3. N!TypeOK <=> NP!TypeOK
  BY DEF N!TypeOK, NP!TypeOK
<1>4. N!CallBudget <=> NP!CallBudget
  BY DEF N!CallBudget, NP!CallBudget
<1>5. N!OnlyGroundedTextLeaves <=> NP!OnlyGroundedTextLeaves
  BY DEF N!OnlyGroundedTextLeaves, NP!OnlyGroundedTextLeaves
<1>. QED
  BY <1>1, <1>2, <1>3, <1>4, <1>5

\* Initially neither agent has been asked.
LEMMA InitAgents == InvestigationInit => AgentsInv
<1>. SUFFICES ASSUME InvestigationInit PROVE AgentsInv
  OBVIOUS
<1>1. Init /\ V!Init /\ N!Init /\ NP!Init
  BY SameNarrativeAgent DEF InvestigationInit
<1>2. ValidationInv
  BY <1>1, AttemptsAssumption DEF Init, V!Init, V!TypeOK, ValidationInv
<1>3. NP!Inv
  BY <1>1, NP!InitInv
<1>4. NarrativeInv
  BY <1>1, <1>3 DEF Init, N!Init, NP!OnlyGroundedTextLeaves, NarrativeInv
<1>. QED
  BY <1>2, <1>4 DEF AgentsInv

-----------------------------------------------------------------------------
(* The steps of the agents *)

\* A step of the validation agent.
LEMMA ValidationCallsKeep ==
  ASSUME TypeOK, LoopInv, ValidationInv, ValidationCalls
  PROVE  ValidationInv'
<1>1. /\ pc = "validation" /\ "validation" \in wired
      /\ UNCHANGED <<wired, extraction_findings>>
      /\ V!Next(extraction_findings)
  BY DEF ValidationCalls, vars, inputs, findings
<1>2. extraction_findings # NULL
  BY <1>1 DEF LoopInv, DispatchIntent
<1>3. /\ Attempts \in Nat /\ Attempts >= 1
      /\ v_attempt \in 0..Attempts /\ v_calls \in Nat
      /\ v_outcome \in V!ValidationFindings \cup {NULL}
  BY AttemptsAssumption DEF ValidationInv, V!TypeOK
<1>4. /\ V!FastPathNegative \in V!ValidationFindings
      /\ V!FallbackToUnauthorized \in V!ValidationFindings
      /\ V!ValidationFindings = ValidationFindings
  BY ConfidenceAssumption
  DEF V!FastPathNegative, V!FallbackToUnauthorized, V!ValidationFindings, ValidationFindings
<1>5. CASE V!Invoke(extraction_findings)
  <2>1. v_pc = "idle" /\ v_calls = 0 /\ v_calls' = 0
    BY <1>5 DEF V!Invoke, ValidationInv
  <2>2. CASE extraction_findings = "not_found"
    <3>1. /\ v_pc' = "returned" /\ v_outcome' = V!FastPathNegative
          /\ v_attempt' = v_attempt
      BY <1>5, <2>2 DEF V!Invoke, V!Return
    <3>2. v_outcome' \in ValidationOutcomes(extraction_findings)
      BY <2>2, <3>1 DEF ValidationOutcomes, V!FastPathNegative
    <3>3. V!TypeOK'
      BY <1>3, <1>4, <2>1, <3>1 DEF V!TypeOK
    <3>. QED
      BY <1>1, <1>2, <1>3, <2>1, <3>1, <3>2, <3>3 DEF ValidationInv
  <2>3. CASE extraction_findings # "not_found"
    <3>1. v_pc' = "calling" /\ v_attempt' = 1 /\ v_outcome' = v_outcome
      BY <1>5, <2>3 DEF V!Invoke
    <3>2. V!TypeOK'
      BY <1>3, <2>1, <3>1 DEF V!TypeOK
    <3>. QED
      BY <1>1, <1>2, <1>3, <2>1, <2>3, <3>1, <3>2 DEF ValidationInv
  <2>. QED
    BY <2>2, <2>3
<1>6. ASSUME V!Call
      PROVE  /\ v_pc = "calling" /\ extraction_findings # "not_found"
             /\ v_attempt >= 1 /\ v_calls' = v_attempt
             /\ v_calls' \in Nat /\ v_calls' <= Attempts
  <2>1. /\ v_pc = "calling" /\ v_calls' = v_calls + 1
        /\ v_calls = v_attempt - 1 /\ v_attempt >= 1
        /\ extraction_findings # "not_found"
    BY <1>6 DEF V!Call, ValidationInv
  <2>. QED
    BY <1>3, <2>1
<1>7. ASSUME V!Call, v_pc' \in {"returned", "raised"}, v_attempt' = v_attempt,
             v_outcome' \in V!ValidationFindings \cup {NULL},
             v_pc' = "returned" => v_outcome' \in V!ValidationFindings
      PROVE  ValidationInv'
  <2>1. V!TypeOK'
    BY <1>3, <1>6, <1>7 DEF V!TypeOK
  <2>2. v_pc' = "returned" => v_outcome' \in ValidationOutcomes(extraction_findings)
    BY <1>4, <1>6, <1>7 DEF ValidationOutcomes
  <2>. QED
    BY <1>1, <1>2, <1>6, <1>7, <2>1, <2>2 DEF ValidationInv
<1>8. CASE V!CallUnusable
  <2>1. V!Call
    BY <1>8 DEF V!CallUnusable
  <2>2. CASE v_attempt < Attempts
    <3>1. /\ v_attempt' = v_attempt + 1 /\ v_pc' = v_pc /\ v_outcome' = v_outcome
      BY <1>8, <2>2 DEF V!CallUnusable
    <3>2. v_attempt' \in 0..Attempts /\ v_attempt' >= 1 /\ v_calls' = v_attempt' - 1
      BY <1>3, <1>6, <2>1, <2>2, <3>1
    <3>3. V!TypeOK'
      BY <1>3, <1>6, <2>1, <3>1, <3>2 DEF V!TypeOK
    <3>. QED
      BY <1>1, <1>2, <1>6, <2>1, <3>1, <3>2, <3>3 DEF ValidationInv
  <2>3. CASE ~(v_attempt < Attempts)
    <3>1. /\ v_pc' = "returned" /\ v_outcome' = V!FallbackToUnauthorized
          /\ v_attempt' = v_attempt
      BY <1>8, <2>3 DEF V!CallUnusable, V!Return
    <3>. QED
      BY <1>4, <1>7, <2>1, <3>1
  <2>. QED
    BY <2>2, <2>3
<1>9. CASE V!CallParsed
  BY <1>7, <1>9 DEF V!CallParsed, V!Return
<1>10. CASE V!CallNotAnObject
  BY <1>3, <1>7, <1>10 DEF V!CallNotAnObject
<1>. QED
  BY <1>1, <1>5, <1>8, <1>9, <1>10 DEF V!Next

\* A step of the narrative agent.
LEMMA NarrativeCallsKeep ==
  ASSUME TypeOK, LoopInv, NarrativeInv, NarrativeCalls
  PROVE  NarrativeInv'
<1>1. /\ pc = "narrative" /\ "narrative" \in wired
      /\ UNCHANGED <<wired, validation_findings, final_narrative>>
      /\ N!Next
  BY DEF NarrativeCalls, vars, inputs, findings
<1>2. validation_findings # NULL /\ final_narrative = NULL
  BY <1>1 DEF LoopInv, DispatchIntent
<1>3. NP!Next
  BY <1>1, SameNarrativeAgent
<1>4. NP!Inv'
  BY <1>3, NP!NextInv DEF NarrativeInv
<1>5. NP!OnlyGroundedTextLeaves'
  BY <1>3, NP!NextGrounded, PayloadAssumption, SameNarrativeAgent DEF NarrativeInv
<1>6. n_pc' # "idle"
  BY <1>1 DEF N!Next, N!Invoke, N!Call, N!CallUnusable, N!CallParsed, N!CallEscapes,
     N!FallBack, N!RetryShorter, N!RejectedBySchema, N!ReturnGrounded, N!FactCheckFails
<1>7. n_pc' = "returned" => n_outcome' \in NarrativeOutcomes
  BY <1>1 DEF N!Next, N!Invoke, N!Call, N!CallUnusable, N!CallParsed, N!CallEscapes,
     N!FallBack, N!RetryShorter, N!RejectedBySchema, N!ReturnGrounded, N!FactCheckFails,
     N!Payloads, N!Recommendations, N!FallbackEscalate, NarrativeOutcomes
<1>. QED
  BY <1>1, <1>2, <1>4, <1>5, <1>6, <1>7 DEF NarrativeInv

-----------------------------------------------------------------------------
(* The steps of the graph *)

\* Each step of the composition is a step of Supervisor, or one it does not see.
LEMMA StepRefines ==
  ASSUME TypeOK, LoopInv, AgentsInv, [InvestigationNext]_allVars
  PROVE  [Next]_vars
<1>1. CASE ValidationCalls \/ NarrativeCalls \/ UNCHANGED allVars
  BY <1>1 DEF ValidationCalls, NarrativeCalls, allVars
<1>2. CASE ValidationReturns
  <2>1. pc = "validation" /\ v_pc = "returned"
    BY <1>2 DEF ValidationReturns, VisitSubAgent
  <2>2. "validation" \in wired /\ v_outcome \in ValidationOutcomes(extraction_findings)
    BY <2>1 DEF AgentsInv, ValidationInv
  <2>3. ValidationAgentNode
    BY <1>2, <2>2 DEF ValidationReturns, ValidationAgentNode
  <2>. QED
    BY <2>3 DEF Next, GraphStep
<1>3. CASE NarrativeReturns
  <2>1. n_pc = "returned"
    BY <1>3 DEF NarrativeReturns
  <2>2. "narrative" \in wired /\ n_outcome \in NarrativeOutcomes
    BY <2>1 DEF AgentsInv, NarrativeInv
  <2>3. NarrativeAgentNode
    BY <1>3, <2>2 DEF NarrativeReturns, NarrativeAgentNode
  <2>. QED
    BY <2>3 DEF Next, GraphStep
<1>4. CASE ValidationEscapes
  <2>1. "validation" \in wired
    BY <1>4 DEF ValidationEscapes, AgentsInv, ValidationInv
  <2>2. AgentRaises("validation")
    BY <1>4, <2>1 DEF ValidationEscapes, AgentRaises
  <2>. QED
    BY <2>2 DEF Next, GraphStep
<1>5. CASE NarrativeEscapes
  <2>1. "narrative" \in wired
    BY <1>5 DEF NarrativeEscapes, AgentsInv, NarrativeInv
  <2>2. AgentRaises("narrative")
    BY <1>5, <2>1 DEF NarrativeEscapes, AgentRaises
  <2>. QED
    BY <2>2 DEF Next, GraphStep
<1>6. CASE OutsideAgents
  BY <1>6 DEF OutsideAgents, Next, GraphStep
<1>. QED
  BY <1>1, <1>2, <1>3, <1>4, <1>5, <1>6 DEF InvestigationNext

\* The collaborators the caller injected stay as they are.
LEMMA NextKeepsWired == [Next]_vars => UNCHANGED wired
BY DEF Next, GraphStep, EnterGraph, RejectRequest, Raise, SupervisorNode, JudgeRaises,
   RouteFromSupervisor, NoAgentInjected, AgentRaises, VisitSubAgent, ExtractionAgentNode,
   ValidationAgentNode, NarrativeAgentNode, EnsureTerminalNarrative, BuildDecisionRow,
   vars, inputs

\* The validation agent at rest: no later step disturbs what it assumed.
LEMMA ValidationRests ==
  ASSUME TypeOK, LoopInv, ValidationInv, [Next]_vars, UNCHANGED vCalls
  PROVE  ValidationInv'
<1>1. UNCHANGED wired
  BY NextKeepsWired
<1>2. extraction_findings # NULL => UNCHANGED extraction_findings
  BY NextKeepsOutputs DEF KeepsOutputs, vars, findings
<1>3. UNCHANGED <<v_pc, v_attempt, v_calls, v_outcome>>
  BY DEF vCalls
<1>4. V!TypeOK'
  BY <1>3 DEF ValidationInv, V!TypeOK
<1>5. CASE v_pc = "idle"
  BY <1>3, <1>4, <1>5 DEF ValidationInv
<1>6. CASE v_pc # "idle"
  <2>1. "validation" \in wired /\ extraction_findings # NULL
    BY <1>6 DEF ValidationInv
  <2>2. UNCHANGED extraction_findings
    BY <1>2, <2>1
  <2>3. ValidationOutcomes(extraction_findings)' = ValidationOutcomes(extraction_findings)
    BY <2>2 DEF ValidationOutcomes
  <2>. QED
    BY <1>1, <1>3, <1>4, <2>1, <2>2, <2>3 DEF ValidationInv
<1>. QED
  BY <1>5, <1>6

\* The narrative agent at rest: only the degraded narrative can still be set.
LEMMA NarrativeRests ==
  ASSUME TypeOK, LoopInv, NarrativeInv, [Next]_vars, UNCHANGED nCalls,
         final_narrative' = final_narrative \/ EnsureTerminalNarrative
  PROVE  NarrativeInv'
<1>1. UNCHANGED wired
  BY NextKeepsWired
<1>2. validation_findings # NULL => UNCHANGED validation_findings
  BY NextKeepsOutputs DEF KeepsOutputs, vars, findings
<1>3. UNCHANGED <<n_pc, n_fact, n_word, n_json, n_calls, n_checked, n_outcome>>
  BY DEF nCalls
<1>4. NP!Inv'
  BY <1>3 DEF NarrativeInv, NP!Inv, NP!TypeOK, NP!BudgetInv, NP!CallsBehind
<1>5. NP!OnlyGroundedTextLeaves'
  BY <1>3 DEF NarrativeInv, NP!OnlyGroundedTextLeaves
<1>6. final_narrative' # NULL /\ final_narrative'.origin # "degraded" =>
        final_narrative' = n_outcome
  BY DEF NarrativeInv, EnsureTerminalNarrative
<1>7. /\ n_pc = "idle" => n_calls = 0
      /\ n_pc # "idle" => "narrative" \in wired /\ validation_findings # NULL
      /\ n_pc = "returned" => n_outcome \in NarrativeOutcomes
  BY DEF NarrativeInv
<1>. QED
  BY <1>1, <1>2, <1>3, <1>4, <1>5, <1>6, <1>7 DEF NarrativeInv

\* Every step keeps what is known of the agents.
LEMMA NextAgents ==
  ASSUME TypeOK, LoopInv, AgentsInv, [InvestigationNext]_allVars
  PROVE  AgentsInv'
<1>1. [Next]_vars
  BY StepRefines
<1>2. ValidationInv /\ NarrativeInv
  BY DEF AgentsInv
<1>3. CASE ValidationCalls
  <2>1. UNCHANGED nCalls /\ UNCHANGED final_narrative
    BY <1>3 DEF ValidationCalls, vars, findings
  <2>. QED
    BY <1>1, <1>2, <1>3, <2>1, ValidationCallsKeep, NarrativeRests DEF AgentsInv
<1>4. CASE NarrativeCalls
  <2>1. UNCHANGED vCalls
    BY <1>4 DEF NarrativeCalls
  <2>. QED
    BY <1>1, <1>2, <1>4, <2>1, NarrativeCallsKeep, ValidationRests DEF AgentsInv
<1>5. CASE NarrativeReturns
  <2>1. /\ n_pc = "returned" /\ final_narrative' = n_outcome
        /\ UNCHANGED <<validation_findings, nCalls, vCalls>>
    BY <1>5 DEF NarrativeReturns
  <2>2. UNCHANGED <<n_pc, n_fact, n_word, n_json, n_calls, n_checked, n_outcome, wired>>
    BY <1>1, <2>1, NextKeepsWired DEF nCalls
  <2>3. NP!Inv' /\ NP!OnlyGroundedTextLeaves'
    BY <1>2, <2>2 DEF NarrativeInv, NP!Inv, NP!TypeOK, NP!BudgetInv, NP!CallsBehind,
       NP!OnlyGroundedTextLeaves
  <2>4. NarrativeInv'
    BY <1>2, <2>1, <2>2, <2>3 DEF NarrativeInv
  <2>. QED
    BY <1>1, <1>2, <2>1, <2>4, ValidationRests DEF AgentsInv
<1>6. CASE ValidationReturns \/ ValidationEscapes \/ NarrativeEscapes \/ OutsideAgents
             \/ UNCHANGED allVars
  <2>1. UNCHANGED <<vCalls, nCalls>>
    BY <1>6 DEF ValidationReturns, ValidationEscapes, NarrativeEscapes, OutsideAgents, allVars
  <2>2. final_narrative' = final_narrative \/ EnsureTerminalNarrative
    BY <1>6 DEF ValidationReturns, ValidationEscapes, NarrativeEscapes, OutsideAgents,
       allVars, vars, findings, EnterGraph, RejectRequest, Raise, SupervisorNode, JudgeRaises,
       RouteFromSupervisor, NoAgentInjected, AgentRaises, ExtractionAgentNode,
       BuildDecisionRow
  <2>. QED
    BY <1>1, <1>2, <2>1, <2>2, ValidationRests, NarrativeRests DEF AgentsInv
<1>. QED
  BY <1>3, <1>4, <1>5, <1>6 DEF InvestigationNext

-----------------------------------------------------------------------------
(* The composition *)

InvestigationInv == TypeOK /\ LoopInv /\ EdgeAgreesWithLog /\ GateState /\ AgentsInv

LEMMA InitInvestigation == InvestigationInit => InvestigationInv
BY InitType, InitLoop, InitEdge, InitGate, InitAgents
DEF InvestigationInit, InvestigationInv

LEMMA NextInvestigation ==
  InvestigationInv /\ [InvestigationNext]_allVars => InvestigationInv' /\ [Next]_vars
BY StepRefines, NextType, NextLoop, NextEdge, NextGate, NextAgents DEF InvestigationInv

LEMMA InvestigationInvariant == InvestigationSpec => []InvestigationInv
BY InitInvestigation, NextInvestigation, PTL DEF InvestigationSpec

\* Each agent's state keeps its type.
THEOREM AgentsTypeCorrect == InvestigationSpec => []AgentsTypeOK
<1>1. InvestigationInv => AgentsTypeOK
  BY SameNarrativeAgent
  DEF InvestigationInv, AgentsInv, ValidationInv, NarrativeInv, NP!Inv, AgentsTypeOK
<1>. QED
  BY <1>1, InvestigationInvariant, PTL

\* Whatever the completions do, one investigation asks the validation LLM at most
\* Attempts times and the narrative LLM at most eight, neither before the findings it
\* reasons over exist.
THEOREM SpendBounded == InvestigationSpec => []LlmSpendBounded
<1>1. InvestigationInv => LlmSpendBounded
  <2>. SUFFICES ASSUME InvestigationInv PROVE LlmSpendBounded
    OBVIOUS
  <2>1. ValidationInv /\ NarrativeInv
    BY DEF InvestigationInv, AgentsInv
  <2>2. V!CallBudget(extraction_findings)
    BY <2>1 DEF ValidationInv, V!CallBudget
  <2>3. N!CallBudget
    BY <2>1 DEF NarrativeInv, NP!Inv, NP!TypeOK, NP!BudgetInv, NP!CallsBehind, N!CallBudget
  <2>4. /\ v_calls > 0 => extraction_findings # NULL
        /\ n_calls > 0 => validation_findings # NULL
    BY <2>1 DEF ValidationInv, NarrativeInv
  <2>. QED
    BY <2>2, <2>3, <2>4 DEF LlmSpendBounded
<1>. QED
  BY <1>1, InvestigationInvariant, PTL

\* A row that accepts rests on the payload that passed the fact check, and on the
\* model's own recommendation.
THEOREM RowIsGrounded == InvestigationSpec => []OnlyGroundedTextReachesTheRow
<1>1. InvestigationInv => OnlyGroundedTextReachesTheRow
  <2>. SUFFICES ASSUME InvestigationInv PROVE OnlyGroundedTextReachesTheRow
    OBVIOUS
  <2>1. NarrativeInv /\ GateState
    BY DEF InvestigationInv, AgentsInv
  <2>2. N!OnlyGroundedTextLeaves
    BY <2>1, SameNarrativeAgent DEF NarrativeInv
  <2>3. ASSUME decision # NULL, decision.recommendation = "ACCEPT"
        PROVE  /\ n_checked # NULL
               /\ n_checked.grounded
               /\ n_checked.recommendation = "ACCEPT"
    <3>1. final_narrative # NULL /\ final_narrative.recommendation = "ACCEPT"
      BY <2>1, <2>3 DEF GateState, RowInv, DecisionRow
    <3>2. final_narrative.origin = "llm"
      BY <2>1, <3>1 DEF GateState, OriginInv
    <3>3. n_outcome = final_narrative
      BY <2>1, <3>1, <3>2 DEF NarrativeInv
    <3>. QED
      BY <2>2, <3>1, <3>2, <3>3 DEF N!OnlyGroundedTextLeaves
  <2>. QED
    BY <2>2, <2>3 DEF OnlyGroundedTextReachesTheRow
<1>. QED
  BY <1>1, InvestigationInvariant, PTL

\* The opened loops implement Supervisor's node-sized steps: the safety part of
\* ImplementsSupervisor.
THEOREM StepsImplementSupervisor == InvestigationSpec => Init /\ [][Next]_vars
<1>1. InvestigationInit => Init
  BY DEF InvestigationInit
<1>. QED
  BY <1>1, NextInvestigation, InvestigationInvariant, PTL DEF InvestigationSpec

\* So the promise to a reader of the gold table holds with the real loops inside.
THEOREM InvestigationKeepsContract == InvestigationSpec => ImplementsContract
<1>1. InvestigationInv /\ [Next]_vars => [Contract!Next]_(Contract!vars)
  BY NextContract DEF InvestigationInv
<1>. QED
  BY <1>1, InitContract, StepsImplementSupervisor, InvestigationInvariant, PTL
  DEF ImplementsContract, Contract!Spec

-----------------------------------------------------------------------------
(* The call with its agents' loops comes to an end *)

\* What the validation agent's loop may still ask ...
ValidationStepsLeft ==
  CASE v_pc = "idle"    -> Attempts + 1
    [] v_pc = "calling" -> Attempts - v_attempt + 1
    [] OTHER            -> 0

\* ... and the narrative agent's, whose loops are nested: a fact check that fails begins
\* the two inner ones again, an over-long narrative the innermost.
NarrativeStepsLeft ==
  CASE n_pc = "idle"    -> 9
    [] n_pc = "calling" -> 4 * (2 - n_fact) + 2 * (2 - n_word) + (2 - n_json) + 1
    [] OTHER            -> 0

CallsAndStepsLeft == StepsLeft + ValidationStepsLeft + NarrativeStepsLeft

LEMMA AgentStepsType ==
  AgentsInv => ValidationStepsLeft \in 0..(Attempts + 1) /\ NarrativeStepsLeft \in 0..9
<1>. SUFFICES ASSUME AgentsInv
              PROVE  ValidationStepsLeft \in 0..(Attempts + 1) /\ NarrativeStepsLeft \in 0..9
  OBVIOUS
<1>1. /\ Attempts \in Nat /\ v_attempt \in 0..Attempts
      /\ v_pc = "calling" => v_attempt >= 1
  BY AttemptsAssumption DEF AgentsInv, ValidationInv, V!TypeOK
<1>2. ValidationStepsLeft \in 0..(Attempts + 1)
  BY <1>1 DEF ValidationStepsLeft
<1>3. n_fact \in 1..2 /\ n_word \in 1..2 /\ n_json \in 1..2
  BY DEF AgentsInv, NarrativeInv, NP!Inv, NP!TypeOK
<1>4. NarrativeStepsLeft \in 0..9
  BY <1>3 DEF NarrativeStepsLeft
<1>. QED
  BY <1>2, <1>4

\* A call of the validation agent's LLM uses up an attempt or ends the loop.
LEMMA ValidationCountsDown ==
  ASSUME AgentsInv, V!Next(extraction_findings)
  PROVE  ValidationStepsLeft' < ValidationStepsLeft
<1>1. Attempts \in Nat /\ Attempts >= 1 /\ v_attempt \in 0..Attempts
  BY AttemptsAssumption DEF AgentsInv, ValidationInv, V!TypeOK
<1>2. CASE V!Invoke(extraction_findings)
  <2>1. /\ v_pc = "idle"
        /\ v_pc' = "returned" \/ (v_pc' = "calling" /\ v_attempt' = 1)
    BY <1>2 DEF V!Invoke, V!Return
  <2>. QED
    BY <1>1, <2>1 DEF ValidationStepsLeft
<1>3. CASE V!CallUnusable \/ V!CallParsed \/ V!CallNotAnObject
  <2>1. /\ v_pc = "calling"
        /\ \/ v_pc' \in {"returned", "raised"}
           \/ v_pc' = "calling" /\ v_attempt' = v_attempt + 1
    BY <1>3 DEF V!CallUnusable, V!CallParsed, V!CallNotAnObject, V!Call, V!Return
  <2>. QED
    BY <1>1, <2>1 DEF ValidationStepsLeft
<1>. QED
  BY <1>2, <1>3 DEF V!Next

\* A call of the narrative agent's LLM uses up an attempt of one of the three loops, and
\* what it begins again counts for less than what it used up; or it ends all three.
LEMMA NarrativeCountsDown ==
  ASSUME AgentsInv, N!Next
  PROVE  NarrativeStepsLeft' < NarrativeStepsLeft
<1>1. n_fact \in 1..2 /\ n_word \in 1..2 /\ n_json \in 1..2
  BY DEF AgentsInv, NarrativeInv, NP!Inv, NP!TypeOK
<1>2. CASE N!Invoke
  <2>1. n_pc = "idle" /\ n_pc' = "calling" /\ UNCHANGED <<n_fact, n_word, n_json>>
    BY <1>2 DEF N!Invoke, N!attempts
  <2>. QED
    BY <1>1, <2>1 DEF NarrativeStepsLeft
<1>3. ASSUME n_pc = "calling",
             \/ n_pc' \in {"returned", "raised"}
             \/ n_pc' = n_pc /\ n_json = 1 /\ n_json' = 2 /\ UNCHANGED <<n_fact, n_word>>
             \/ n_pc' = n_pc /\ n_word = 1 /\ n_word' = 2 /\ n_json' = 1 /\ UNCHANGED n_fact
             \/ n_pc' = n_pc /\ n_fact = 1 /\ n_fact' = 2 /\ n_word' = 1 /\ n_json' = 1
      PROVE  NarrativeStepsLeft' < NarrativeStepsLeft
  BY <1>1, <1>3 DEF NarrativeStepsLeft
<1>4. CASE N!CallUnusable
  BY <1>3, <1>4 DEF N!CallUnusable, N!Call, N!FallBack
<1>5. CASE N!CallParsed
  <2>1. PICK p \in N!Payloads : \/ N!RetryShorter(p) \/ N!RejectedBySchema(p)
                                \/ N!ReturnGrounded(p) \/ N!FactCheckFails(p)
    BY <1>5 DEF N!CallParsed
  <2>2. n_pc = "calling"
    BY <1>5 DEF N!CallParsed, N!Call
  <2>3. CASE N!RetryShorter(p)
    BY <1>3, <2>2, <2>3 DEF N!RetryShorter
  <2>4. CASE N!RejectedBySchema(p) \/ N!ReturnGrounded(p)
    BY <1>3, <2>2, <2>4 DEF N!RejectedBySchema, N!ReturnGrounded, N!FallBack
  <2>5. CASE N!FactCheckFails(p)
    BY <1>3, <2>2, <2>5 DEF N!FactCheckFails, N!FallBack
  <2>. QED
    BY <2>1, <2>3, <2>4, <2>5
<1>6. CASE N!CallEscapes
  BY <1>3, <1>6 DEF N!CallEscapes, N!Call
<1>. QED
  BY <1>2, <1>4, <1>5, <1>6 DEF N!Next

LEMMA InvestigationCountsDown ==
  InvestigationInv /\ InvestigationNext => CallsAndStepsLeft' < CallsAndStepsLeft
<1>. SUFFICES ASSUME InvestigationInv, InvestigationNext
              PROVE  CallsAndStepsLeft' < CallsAndStepsLeft
  OBVIOUS
<1>1. TypeOK /\ LoopInv /\ AgentsInv
  BY DEF InvestigationInv
<1>2. /\ StepsLeft \in Nat
      /\ ValidationStepsLeft \in Nat /\ NarrativeStepsLeft \in Nat
  <2>1. MaxIterations \in Nat /\ Attempts \in Nat
    BY BoundsAssumption, AttemptsAssumption
  <2>. QED
    BY <1>1, <2>1, StepsLeftType, AgentStepsType
<1>. DEFINE Falls(a, b, c, x, y, z) == x + y + z < a + b + c
<1>3. \A a, b, c \in Nat : \A d \in Int : d < a => /\ Falls(a, b, c, d, b, c)
                                               /\ Falls(b, a, c, b, d, c)
                                               /\ Falls(b, c, a, b, c, d)
  OBVIOUS
<1>4. Falls(StepsLeft, ValidationStepsLeft, NarrativeStepsLeft,
             StepsLeft', ValidationStepsLeft', NarrativeStepsLeft')
         => CallsAndStepsLeft' < CallsAndStepsLeft
  BY DEF CallsAndStepsLeft
<1>. HIDE DEF Falls
<1>5. CASE ValidationCalls
  <2>1. /\ StepsLeft' = StepsLeft
        /\ NarrativeStepsLeft' = NarrativeStepsLeft
    BY <1>5 DEF ValidationCalls, vars, nCalls, StepsLeft, NarrativeStepsLeft
  <2>2. ValidationStepsLeft' < ValidationStepsLeft /\ ValidationStepsLeft' \in Int
    <3>1. AgentsInv'
      BY NextInvestigation DEF InvestigationInv
    <3>2. (v_attempt \in 0..Attempts)' /\ Attempts \in Nat
      BY <3>1, AttemptsAssumption DEF AgentsInv, ValidationInv, V!TypeOK
    <3>3. ValidationStepsLeft' \in Int
      BY <3>2 DEF ValidationStepsLeft
    <3>. QED
      BY <1>1, <1>5, <3>3, ValidationCountsDown DEF ValidationCalls
  <2>. QED
    BY <1>2, <1>3, <1>4, <2>1, <2>2
<1>6. CASE NarrativeCalls
  <2>1. /\ StepsLeft' = StepsLeft
        /\ ValidationStepsLeft' = ValidationStepsLeft
    BY <1>6 DEF NarrativeCalls, vars, vCalls, StepsLeft, ValidationStepsLeft
  <2>2. NarrativeStepsLeft' < NarrativeStepsLeft /\ NarrativeStepsLeft' \in Int
    <3>1. AgentsInv'
      BY NextInvestigation DEF InvestigationInv
    <3>2. (n_fact \in 1..2 /\ n_word \in 1..2 /\ n_json \in 1..2)'
      BY <3>1 DEF AgentsInv, NarrativeInv, NP!Inv, NP!TypeOK
    <3>3. NarrativeStepsLeft' \in Int
      BY <3>2 DEF NarrativeStepsLeft
    <3>. QED
      BY <1>1, <1>6, <3>3, NarrativeCountsDown DEF NarrativeCalls
  <2>. QED
    BY <1>2, <1>3, <1>4, <2>1, <2>2
<1>7. ASSUME Next, UNCHANGED <<vCalls, nCalls>>
      PROVE  CallsAndStepsLeft' < CallsAndStepsLeft
  <2>1. /\ ValidationStepsLeft' = ValidationStepsLeft
        /\ NarrativeStepsLeft' = NarrativeStepsLeft
    BY <1>7 DEF vCalls, nCalls, ValidationStepsLeft, NarrativeStepsLeft
  <2>2. StepsLeft' < StepsLeft
    BY <1>1, <1>7, StepCountsTowardsEnd
  <2>3. StepsLeft' \in Int
    <3>1. (TypeOK /\ LoopInv => StepsLeft \in 0..(3 * MaxIterations + 5))'
      BY StepsLeftType, PTL
    <3>2. (TypeOK /\ LoopInv)'
      BY <1>1, <1>7, NextType, NextLoop
    <3>. QED
      BY <3>1, <3>2, BoundsAssumption
  <2>. QED
    BY <1>2, <1>3, <1>4, <2>1, <2>2, <2>3
<1>8. CASE ValidationReturns \/ ValidationEscapes \/ NarrativeReturns \/ NarrativeEscapes
  <2>1. UNCHANGED <<vCalls, nCalls>>
    BY <1>8 DEF ValidationReturns, ValidationEscapes, NarrativeReturns, NarrativeEscapes
  <2>2. pc' # pc
    BY <1>8 DEF ValidationReturns, ValidationEscapes, NarrativeReturns, NarrativeEscapes,
                VisitSubAgent, Raise
  <2>3. Next
    BY <1>1, <2>2, StepRefines DEF vars
  <2>. QED
    BY <1>7, <2>1, <2>3
<1>9. CASE OutsideAgents
  BY <1>7, <1>9 DEF OutsideAgents, Next, GraphStep
<1>. QED
  BY <1>5, <1>6, <1>7, <1>8, <1>9 DEF InvestigationNext

\* With the real loops inside the nodes the call still comes to an end: at most
\* 3 * MaxIterations + Attempts + 15 steps, model calls included, each of them nearer to
\* the end.  The nested retries of the narrative agent never begin again what they have
\* used up, and neither loop gives the graph a dispatch back.
THEOREM InvestigationStepsBounded ==
  InvestigationSpec =>
    /\ [](CallsAndStepsLeft \in 0..(3 * MaxIterations + Attempts + 15))
    /\ [][CallsAndStepsLeft' < CallsAndStepsLeft]_allVars
<1>1. InvestigationInv => CallsAndStepsLeft \in 0..(3 * MaxIterations + Attempts + 15)
  <2>. SUFFICES ASSUME InvestigationInv
                PROVE  CallsAndStepsLeft \in 0..(3 * MaxIterations + Attempts + 15)
    OBVIOUS
  <2>1. MaxIterations \in Nat /\ Attempts \in Nat
    BY BoundsAssumption, AttemptsAssumption
  <2>. QED
    BY <2>1, StepsLeftType, AgentStepsType DEF InvestigationInv, CallsAndStepsLeft
<1>2. InvestigationInv /\ [InvestigationNext]_allVars
        => [CallsAndStepsLeft' < CallsAndStepsLeft]_allVars
  BY InvestigationCountsDown
<1>. QED
  BY <1>1, <1>2, InvestigationInvariant, PTL DEF InvestigationSpec
=============================================================================
