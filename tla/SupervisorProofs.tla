-------------------------- MODULE SupervisorProofs --------------------------
(***************************************************************************)
(* Proofs about Supervisor, for every cap, recursion limit, threshold, set *)
(* of confidences and set of engagements.  The argument has three layers:  *)
(* the types; the counters, the log and the route, which move in lockstep  *)
(* (LoopInv); and where each finding came from (OriginInv).  The           *)
(* properties the runs check follow from the conjunction.                  *)
(***************************************************************************)
EXTENDS Supervisor, SequenceTheorems, TLAPS

USE DEF SubAgents, Collaborators, Controls, Attributes, CheckStatuses, JudgeVerdicts,
        Statuses, Recommendations

Entered == pc \notin {"start", "supervisor", "raised"}

\* The loop invariant: one log entry per superstep, two supersteps per dispatch,
\* dispatches only below the cap, and the last entry is what the edge will take.
LoopInv ==
  /\ Len(investigation_log) = supersteps
  /\ iterations_used <= MaxIterations
  /\ supersteps \in {2 * iterations_used, 2 * iterations_used + 1}
  /\ pc \in {"start", "supervisor"} => supersteps = 2 * iterations_used
  /\ Entered => supersteps = 2 * iterations_used + 1
  /\ pc \in SubAgents => /\ iterations_used < MaxIterations
                         /\ pc = DispatchIntent
  /\ pc \in {"start", "supervisor"} \cup SubAgents => status = "investigating"
  /\ pc = "routing" => /\ LastStep = [iteration |-> iterations_used, actor |-> "supervisor",
                                      action |-> DecideRoute(judge_verdict)]
                       /\ status = TerminalStatus(DecideRoute(judge_verdict))
                       /\ DecideRoute(judge_verdict) \in SubAgents => status = "investigating"

\* Where the findings came from: only an injected collaborator produces one, each
\* after the one it reasons over; a narrative a sub-agent wrote carries the
\* validation confidence with it, and before there is one the confidence is 0.
OriginInv ==
  /\ extraction_findings # NULL => "extraction" \in wired
  /\ validation_findings # NULL => "validation" \in wired /\ extraction_findings # NULL
  /\ judge_verdict # NULL => "judge" \in wired
  /\ final_narrative = NULL => confidence_score = 0
  /\ final_narrative # NULL =>
       IF final_narrative.origin = "degraded"
       THEN confidence_score = 0 /\ status = "escalated_to_human"
       ELSE /\ "narrative" \in wired
            /\ validation_findings # NULL
            /\ confidence_score = validation_findings.confidence
  /\ final_narrative # NULL /\ final_narrative.recommendation = "ACCEPT" =>
       final_narrative.origin = "llm"

\* What the two terminal statuses say about the gate.
GateInv ==
  /\ status = "concluded" => /\ GateOpen
                             /\ final_narrative # NULL
                             /\ final_narrative.origin # "degraded"
  /\ status = "escalated_to_human" => ~GateOpen

\* What is known of the row on the way to it.
RowInv ==
  /\ pc \in {"END", "build_row", "returned"} => status # "investigating"
  /\ pc \in {"build_row", "returned"} => final_narrative # NULL
  /\ pc = "returned" => decision = DecisionRow
  /\ pc # "returned" => decision = NULL

-----------------------------------------------------------------------------
(* Types *)

LEMMA DispatchIntentType == DispatchIntent \in SubAgents \cup {"none"}
BY DEF DispatchIntent

\* Whatever the judge said, the route is a sub-agent or one of the two exits.
LEMMA RouteType ==
  ASSUME NEW verdict
  PROVE  DecideRoute(verdict) \in SubAgents \cup {"conclude", "escalate"}
BY DispatchIntentType DEF DecideRoute

LEMMA LogStepType ==
  ASSUME investigation_log \in Seq(Steps),
         NEW i \in Nat, NEW a \in Actors, NEW act \in Actions,
         LogStep(i, a, act)
  PROVE  /\ investigation_log' \in Seq(Steps)
         /\ Len(investigation_log') = Len(investigation_log) + 1
         /\ investigation_log'[Len(investigation_log')] =
              [iteration |-> i, actor |-> a, action |-> act]
<1>1. [iteration |-> i, actor |-> a, action |-> act] \in Steps
  BY DEF Steps
<1>. QED
  BY <1>1, AppendProperties DEF LogStep

LEMMA ValidationOutcomesType ==
  ASSUME NEW extraction
  PROVE  ValidationOutcomes(extraction) \subseteq ValidationFindings
<1>1. FastPathConfidence \in Confidences
  BY ConfidenceAssumption
<1>2. [is_authorized |-> FALSE, confidence |-> FastPathConfidence] \in ValidationFindings
  BY <1>1 DEF ValidationFindings
<1>. QED
  BY <1>2 DEF ValidationOutcomes

\* The initial values have their types.
LEMMA InitType == Init => TypeOK
<1>. SUFFICES ASSUME Init PROVE TypeOK
  OBVIOUS
<1>1. 0 \in Confidences
  BY ConfidenceAssumption
<1>2. investigation_log \in Seq(Steps)
  BY EmptySeq DEF Init
<1>. QED
  BY <1>1, <1>2 DEF Init, TypeOK, Locations

\* Every step keeps every variable in its type.
LEMMA NextType == TypeOK /\ [Next]_vars => TypeOK'
<1>. SUFFICES ASSUME TypeOK, [Next]_vars PROVE TypeOK'
  OBVIOUS
<1>. USE DEF TypeOK, Locations
<1>1. ASSUME NEW what \in Collaborators \cup {"ValueError"}, Raise(what)
      PROVE  TypeOK'
  BY <1>1 DEF Raise, inputs, findings
<1>2. CASE EnterGraph
  BY <1>2 DEF EnterGraph, inputs, findings
<1>3. CASE RejectRequest
  BY <1>1, <1>3 DEF RejectRequest
<1>4. CASE SupervisorNode
  <2>1. PICK verdict \in JudgeVerdicts \cup {NULL} :
          /\ judge_verdict' = verdict
          /\ LogStep(iterations_used, "supervisor", DecideRoute(verdict))
          /\ status' = TerminalStatus(DecideRoute(verdict))
    BY <1>4 DEF SupervisorNode
  <2>2. DecideRoute(verdict) \in Actions
    BY RouteType DEF Actions
  <2>3. investigation_log' \in Seq(Steps)
    BY <2>1, <2>2, LogStepType DEF Actors
  <2>4. status' \in Statuses
    BY <2>1 DEF TerminalStatus
  <2>5. supersteps' \in Nat /\ judge_calls' \in Nat
    BY <1>4 DEF SupervisorNode, Superstep
  <2>6. /\ pc' = "routing"
        /\ UNCHANGED <<inputs, findings, iterations_used, error, decision>>
    BY <1>4 DEF SupervisorNode
  <2>. QED
    BY <2>1, <2>3, <2>4, <2>5, <2>6 DEF inputs, findings
<1>5. CASE JudgeRaises
  BY <1>1, <1>5 DEF JudgeRaises
<1>6. CASE RouteFromSupervisor
  BY <1>6 DEF RouteFromSupervisor, inputs, findings
<1>7. ASSUME NEW a \in SubAgents, NEW action \in {"emitted", "no_agent_injected_no_op"},
             VisitSubAgent(a, action)
      PROVE  /\ investigation_log' \in Seq(Steps)
             /\ iterations_used' \in Nat /\ supersteps' \in Nat
             /\ pc' = "supervisor"
             /\ UNCHANGED <<inputs, judge_verdict, status, error, decision, judge_calls>>
  <2>1. LogStep(iterations_used + 1, a, action)
    BY <1>7 DEF VisitSubAgent
  <2>2. a \in Actors /\ action \in Actions /\ iterations_used + 1 \in Nat
    BY DEF Actors, Actions
  <2>3. investigation_log' \in Seq(Steps)
    BY <2>1, <2>2, LogStepType
  <2>. QED
    BY <1>7, <2>3 DEF VisitSubAgent, Superstep
<1>8. ASSUME NEW a \in SubAgents, NoAgentInjected(a)
      PROVE  TypeOK'
  BY <1>7, <1>8 DEF NoAgentInjected, inputs, findings
<1>9. ASSUME NEW a \in SubAgents, AgentRaises(a)
      PROVE  TypeOK'
  BY <1>1, <1>9 DEF AgentRaises
<1>10. CASE ExtractionAgentNode
  BY <1>7, <1>10 DEF ExtractionAgentNode, inputs
<1>11. CASE ValidationAgentNode
  <2>1. validation_findings' \in ValidationFindings
    BY <1>11, ValidationOutcomesType DEF ValidationAgentNode
  <2>. QED
    BY <1>7, <1>11, <2>1 DEF ValidationAgentNode, inputs
<1>12. CASE NarrativeAgentNode
  <2>1. final_narrative' \in Narratives
    BY <1>12 DEF NarrativeAgentNode, NarrativeOutcomes, Narratives
  <2>2. confidence_score' \in Confidences
    BY <1>12 DEF NarrativeAgentNode, ValidationFindings
  <2>. QED
    BY <1>7, <1>12, <2>1, <2>2 DEF NarrativeAgentNode, inputs
<1>13. CASE EnsureTerminalNarrative
  BY <1>13 DEF EnsureTerminalNarrative, Narratives, inputs
<1>14. CASE BuildDecisionRow
  <2>1. RowIsBuildable => DecisionRow \in Decisions
    BY DEF RowIsBuildable, DecisionRow, VerdictByTerminal, Decisions, Narratives
  <2>. QED
    BY <1>14, <2>1 DEF BuildDecisionRow, inputs, findings
<1>15. CASE UNCHANGED vars
  BY <1>15 DEF vars, inputs, findings
<1>. QED
  BY <1>2, <1>3, <1>4, <1>5, <1>6, <1>8, <1>9, <1>10, <1>11, <1>12, <1>13, <1>14, <1>15
  DEF Next, GraphStep

\* Type correctness of every reachable state.
THEOREM TypeCorrect == Spec => []TypeOK
BY InitType, NextType, PTL DEF Spec
-----------------------------------------------------------------------------
(* The loop *)

\* Every way out of a node of the graph by an exception leaves the counters alone.
LEMMA RaiseKeepsLoop ==
  ASSUME TypeOK, LoopInv, NEW what, Raise(what)
  PROVE  LoopInv'
BY DEF TypeOK, LoopInv, Raise, Entered, inputs, findings

\* Initially nothing has been counted.
LEMMA InitLoop == Init => LoopInv
BY BoundsAssumption, EmptySeq DEF Init, LoopInv, Entered

\* A sub-agent's visit adds one superstep to the dispatch that led to it.
LEMMA VisitKeepsLoop ==
  ASSUME TypeOK, LoopInv, BoundsAssumption,
         NEW a \in SubAgents, NEW action \in {"emitted", "no_agent_injected_no_op"},
         VisitSubAgent(a, action)
  PROVE  LoopInv'
<1>1. LogStep(iterations_used + 1, a, action) /\ pc = a /\ pc' = "supervisor"
  BY DEF VisitSubAgent
<1>2. /\ supersteps' = supersteps + 1
      /\ iterations_used' = iterations_used + 1
      /\ status' = status
  BY DEF VisitSubAgent, Superstep
<1>3. a \in Actors /\ action \in Actions /\ iterations_used + 1 \in Nat
  BY DEF Actors, Actions, TypeOK
<1>4. Len(investigation_log') = Len(investigation_log) + 1
  BY <1>1, <1>3, LogStepType DEF TypeOK
<1>5. iterations_used < MaxIterations /\ supersteps = 2 * iterations_used + 1
  BY <1>1 DEF LoopInv, Entered
<1>6. iterations_used \in Nat /\ MaxIterations \in Nat
  BY BoundsAssumption DEF TypeOK
<1>7. status = "investigating"
  BY <1>1 DEF LoopInv
<1>. QED
  BY <1>1, <1>2, <1>4, <1>5, <1>6, <1>7 DEF LoopInv, Entered

\* Every step keeps the counters, the log and the route in lockstep.
LEMMA NextLoop == TypeOK /\ LoopInv /\ [Next]_vars => LoopInv'
<1>. SUFFICES ASSUME TypeOK, LoopInv, [Next]_vars PROVE LoopInv'
  OBVIOUS
<1>. USE BoundsAssumption
<1>1. CASE EnterGraph
  BY <1>1 DEF EnterGraph, TypeOK, LoopInv, Entered, inputs, findings
<1>2. CASE RejectRequest
  BY <1>2, RaiseKeepsLoop DEF RejectRequest
<1>3. CASE SupervisorNode
  <2>1. PICK verdict :
          /\ judge_verdict' = verdict
          /\ LogStep(iterations_used, "supervisor", DecideRoute(verdict))
          /\ status' = TerminalStatus(DecideRoute(verdict))
    BY <1>3 DEF SupervisorNode
  <2>2. /\ pc = "supervisor" /\ pc' = "routing"
        /\ supersteps' = supersteps + 1
        /\ UNCHANGED <<findings, iterations_used>>
    BY <1>3 DEF SupervisorNode, Superstep
  <2>3. DecideRoute(verdict) \in Actions /\ "supervisor" \in Actors
    BY RouteType DEF Actions, Actors
  <2>4. /\ Len(investigation_log') = Len(investigation_log) + 1
        /\ LastStep' = [iteration |-> iterations_used, actor |-> "supervisor",
                        action |-> DecideRoute(verdict)]
    BY <2>1, <2>3, LogStepType DEF TypeOK, LastStep
  <2>5. DecideRoute(judge_verdict)' = DecideRoute(verdict)
    BY <2>1, <2>2 DEF DecideRoute, DispatchIntent, findings
  <2>6. status = "investigating" /\ supersteps = 2 * iterations_used
    BY <2>2 DEF LoopInv
  <2>7. /\ status' = TerminalStatus(DecideRoute(judge_verdict))'
        /\ DecideRoute(judge_verdict)' \in SubAgents => status' = "investigating"
    BY <2>1, <2>5, <2>6 DEF TerminalStatus
  <2>. QED
    BY <2>2, <2>4, <2>5, <2>6, <2>7 DEF LoopInv, Entered, TypeOK
<1>4. CASE JudgeRaises
  BY <1>4, RaiseKeepsLoop DEF JudgeRaises
<1>5. CASE RouteFromSupervisor
  <2>1. /\ pc = "routing"
        /\ pc' = IF DecideRoute(judge_verdict) \in SubAgents
                 THEN DecideRoute(judge_verdict) ELSE "END"
        /\ UNCHANGED <<findings, judge_verdict, iterations_used, status,
                       investigation_log, supersteps>>
    BY <1>5 DEF RouteFromSupervisor
  <2>2. ASSUME DecideRoute(judge_verdict) \in SubAgents
        PROVE  /\ iterations_used < MaxIterations
               /\ DecideRoute(judge_verdict) = DispatchIntent
               /\ DispatchIntent' = DispatchIntent
    BY <2>1, <2>2 DEF DecideRoute, TypeOK, DispatchIntent, findings
  <2>. QED
    BY <2>1, <2>2 DEF LoopInv, Entered
<1>6. ASSUME NEW a \in SubAgents, NoAgentInjected(a)
      PROVE  LoopInv'
  BY <1>6, VisitKeepsLoop DEF NoAgentInjected
<1>7. ASSUME NEW a \in SubAgents, AgentRaises(a)
      PROVE  LoopInv'
  BY <1>7, RaiseKeepsLoop DEF AgentRaises
<1>8. CASE ExtractionAgentNode \/ ValidationAgentNode \/ NarrativeAgentNode
  BY <1>8, VisitKeepsLoop DEF ExtractionAgentNode, ValidationAgentNode, NarrativeAgentNode
<1>9. CASE EnsureTerminalNarrative
  BY <1>9 DEF EnsureTerminalNarrative, LoopInv, Entered
<1>10. CASE BuildDecisionRow
  BY <1>10 DEF BuildDecisionRow, LoopInv, Entered
<1>11. CASE UNCHANGED vars
  <2>1. /\ UNCHANGED <<findings, judge_verdict, iterations_used, status, pc>>
        /\ UNCHANGED <<investigation_log, supersteps>>
    BY <1>11 DEF vars
  <2>2. DecideRoute(judge_verdict)' = DecideRoute(judge_verdict) /\ DispatchIntent' = DispatchIntent
    BY <2>1 DEF DecideRoute, DispatchIntent, findings
  <2>. QED
    BY <2>1, <2>2 DEF LoopInv, Entered, LastStep, TerminalStatus
<1>. QED
  BY <1>1, <1>2, <1>3, <1>4, <1>5, <1>6, <1>7, <1>8, <1>9, <1>10, <1>11 DEF Next, GraphStep

\* LoopInv holds in every reachable state.
LEMMA LoopInvariant == Spec => []LoopInv
BY InitLoop, NextLoop, TypeCorrect, PTL DEF Spec

\* The cap ends every run before LangGraph's recursion limit could.
THEOREM BackstopUnreached == Spec => []RecursionBackstopUnreached
<1>1. TypeOK /\ LoopInv => RecursionBackstopUnreached
  BY BoundsAssumption DEF TypeOK, LoopInv, RecursionBackstopUnreached
<1>. QED
  BY <1>1, TypeCorrect, LoopInvariant, PTL

\* One log entry per executed node, one iteration per sub-agent entry.
THEOREM TraceComplete == Spec => []TraceAccountsForEveryVisit
<1>1. TypeOK /\ LoopInv => TraceAccountsForEveryVisit
  BY DEF TypeOK, LoopInv, Entered, TraceAccountsForEveryVisit
<1>. QED
  BY <1>1, TypeCorrect, LoopInvariant, PTL
-----------------------------------------------------------------------------
(* The edge *)

\* Initially no edge has been taken.
LEMMA InitEdge == Init => EdgeAgreesWithLog
BY DEF Init, EdgeAgreesWithLog

\* Every step keeps the edge, the log and the status in agreement.
LEMMA NextEdge ==
  TypeOK /\ LoopInv /\ EdgeAgreesWithLog /\ [Next]_vars => EdgeAgreesWithLog'
<1>. SUFFICES ASSUME TypeOK, LoopInv, EdgeAgreesWithLog, [Next]_vars
              PROVE  EdgeAgreesWithLog'
  OBVIOUS
<1>1. CASE RouteFromSupervisor
  <2>1. /\ pc = "routing"
        /\ pc' = IF DecideRoute(judge_verdict) \in SubAgents
                 THEN DecideRoute(judge_verdict) ELSE "END"
        /\ UNCHANGED <<iterations_used, status, investigation_log>>
    BY <1>1 DEF RouteFromSupervisor
  <2>2. /\ LastStep = [iteration |-> iterations_used, actor |-> "supervisor",
                       action |-> DecideRoute(judge_verdict)]
        /\ LastStep' = LastStep
        /\ status = TerminalStatus(DecideRoute(judge_verdict))
        /\ DecideRoute(judge_verdict) \in SubAgents => status = "investigating"
    BY <2>1 DEF LoopInv, LastStep
  <2>3. DecideRoute(judge_verdict) \in SubAgents \cup {"conclude", "escalate"}
    BY RouteType
  <2>. QED
    BY <2>1, <2>2, <2>3 DEF EdgeAgreesWithLog, TerminalStatus
<1>2. CASE UNCHANGED vars
  BY <1>2 DEF vars, EdgeAgreesWithLog, LastStep
<1>3. CASE Next /\ ~RouteFromSupervisor
  <2>1. pc' \notin SubAgents \cup {"END"}
    BY <1>3 DEF Next, GraphStep, EnterGraph, RejectRequest, Raise, SupervisorNode,
       JudgeRaises, NoAgentInjected, AgentRaises, VisitSubAgent, ExtractionAgentNode,
       ValidationAgentNode, NarrativeAgentNode, EnsureTerminalNarrative, BuildDecisionRow
  <2>. QED
    BY <2>1 DEF EdgeAgreesWithLog
<1>. QED
  BY <1>1, <1>2, <1>3

\* The edge, the log and the status agree.
THEOREM EdgeMatchesLog == Spec => []EdgeAgreesWithLog
BY InitEdge, NextEdge, TypeCorrect, LoopInvariant, PTL DEF Spec
-----------------------------------------------------------------------------
(* The gate and the row *)

GateState == OriginInv /\ GateInv /\ RowInv

LEMMA InitGate == Init => GateState
BY DEF Init, GateState, OriginInv, GateInv, RowInv

\* An exception, an edge and a refused row change nothing the gate invariant reads.
LEMMA QuietStep ==
  ASSUME GateState, pc # "returned",
         pc' \notin {"END", "build_row", "returned"},
         UNCHANGED <<wired, findings, judge_verdict, status, decision>>
  PROVE  GateState'
BY DEF GateState, OriginInv, GateInv, GateOpen, RowInv, findings

\* The supervisor's visit closes the investigation only as the gate says.
LEMMA SupervisorKeepsGate ==
  ASSUME TypeOK, LoopInv, GateState, SupervisorNode
  PROVE  GateState'
<1>1. PICK verdict \in IF JudgeDue THEN JudgeVerdicts ELSE {judge_verdict} :
        /\ judge_verdict' = verdict
        /\ status' = TerminalStatus(DecideRoute(verdict))
  BY DEF SupervisorNode
<1>2. /\ pc = "supervisor" /\ pc' = "routing"
      /\ UNCHANGED <<inputs, findings, decision>>
      /\ status = "investigating"
  BY DEF SupervisorNode, LoopInv
<1>3. judge_verdict' # NULL => "judge" \in wired
  BY <1>1 DEF GateState, OriginInv, JudgeDue
<1>4. OriginInv'
  BY <1>2, <1>3 DEF GateState, OriginInv, inputs, findings
<1>5. RowInv'
  BY <1>2 DEF GateState, RowInv
<1>6. CASE DispatchIntent = "none"
  <2>1. final_narrative # NULL /\ final_narrative.origin # "degraded"
    BY <1>2, <1>6 DEF DispatchIntent, GateState, OriginInv
  <2>2. DecideRoute(verdict) = IF confidence_score >= ConfidenceThreshold /\ verdict = "pass"
                               THEN "conclude" ELSE "escalate"
    BY <1>6 DEF DecideRoute
  <2>3. /\ GateOpen' => status' = "concluded"
        /\ ~GateOpen' => status' = "escalated_to_human"
    BY <1>1, <1>2, <2>2 DEF TerminalStatus, GateOpen, findings
  <2>. QED
    BY <1>2, <1>4, <1>5, <2>1, <2>3 DEF GateState, GateInv, findings
<1>7. CASE DispatchIntent # "none"
  <2>1. final_narrative = NULL
    BY <1>2, <1>7 DEF DispatchIntent, GateState, OriginInv
  <2>2. ~GateOpen'
    BY <1>2, <2>1, ConfidenceAssumption DEF GateState, OriginInv, GateOpen, findings
  <2>3. DecideRoute(verdict) \in SubAgents \cup {"escalate"}
    BY <1>7, DispatchIntentType DEF DecideRoute
  <2>4. status' # "concluded"
    BY <1>1, <1>2, <2>3 DEF TerminalStatus
  <2>. QED
    BY <1>4, <1>5, <2>2, <2>4 DEF GateState, GateInv
<1>. QED
  BY <1>6, <1>7

\* A sub-agent's emission keeps the origins in order and leaves the gate alone.
LEMMA EmissionKeepsGate ==
  ASSUME TypeOK, LoopInv, GateState,
         ExtractionAgentNode \/ ValidationAgentNode \/ NarrativeAgentNode
  PROVE  GateState'
<1>1. /\ pc' = "supervisor" /\ pc \in SubAgents /\ pc \in wired
      /\ UNCHANGED <<inputs, judge_verdict, status, decision>>
  BY DEF ExtractionAgentNode, ValidationAgentNode, NarrativeAgentNode, VisitSubAgent
<1>2. pc = DispatchIntent /\ status = "investigating"
  BY <1>1 DEF LoopInv
<1>3. GateInv' /\ RowInv'
  BY <1>1, <1>2 DEF GateState, GateInv, RowInv
<1>4. CASE ExtractionAgentNode
  <2>1. pc = "extraction" /\ extraction_findings = NULL
    BY <1>2, <1>4 DEF ExtractionAgentNode, VisitSubAgent, DispatchIntent
  <2>2. UNCHANGED <<validation_findings, final_narrative, confidence_score>>
    BY <1>4 DEF ExtractionAgentNode
  <2>. QED
    BY <1>1, <1>2, <1>3, <2>1, <2>2 DEF GateState, OriginInv, inputs
<1>5. CASE ValidationAgentNode
  <2>1. pc = "validation" /\ extraction_findings # NULL /\ validation_findings = NULL
    BY <1>2, <1>5 DEF ValidationAgentNode, VisitSubAgent, DispatchIntent
  <2>2. UNCHANGED <<extraction_findings, final_narrative, confidence_score>>
    BY <1>5 DEF ValidationAgentNode
  <2>. QED
    BY <1>1, <1>2, <1>3, <2>1, <2>2 DEF GateState, OriginInv, inputs
<1>6. CASE NarrativeAgentNode
  <2>1. pc = "narrative" /\ validation_findings # NULL
    BY <1>2, <1>6 DEF NarrativeAgentNode, VisitSubAgent, DispatchIntent
  <2>2. /\ UNCHANGED <<extraction_findings, validation_findings>>
        /\ confidence_score' = validation_findings.confidence
        /\ final_narrative' \in NarrativeOutcomes
    BY <1>6, <2>1 DEF NarrativeAgentNode
  <2>3. /\ final_narrative'.origin \in {"llm", "fallback"}
        /\ final_narrative'.recommendation = "ACCEPT" => final_narrative'.origin = "llm"
        /\ final_narrative' # NULL
    BY <2>2, NullAssumption DEF NarrativeOutcomes, Narratives
  <2>. QED
    BY <1>1, <1>2, <1>3, <2>1, <2>2, <2>3 DEF GateState, OriginInv, inputs
<1>. QED
  BY <1>4, <1>5, <1>6

\* After the graph: the degraded narrative only fills an escalated gap, and the row
\* copies the state.
LEMMA FinishKeepsGate ==
  ASSUME TypeOK, EdgeAgreesWithLog, GateState, EnsureTerminalNarrative \/ BuildDecisionRow
  PROVE  GateState'
<1>1. CASE EnsureTerminalNarrative
  <2>1. /\ pc = "END" /\ pc' = "build_row"
        /\ UNCHANGED <<inputs, extraction_findings, validation_findings, confidence_score,
                       judge_verdict, status, decision>>
        /\ final_narrative' = IF status = "escalated_to_human" /\ final_narrative = NULL
                              THEN [recommendation |-> "ESCALATE", origin |-> "degraded"]
                              ELSE final_narrative
    BY <1>1 DEF EnsureTerminalNarrative
  <2>2. status \in {"concluded", "escalated_to_human"}
    BY <2>1 DEF EdgeAgreesWithLog
  <2>3. CASE status = "escalated_to_human" /\ final_narrative = NULL
    <3>1. final_narrative' = [recommendation |-> "ESCALATE", origin |-> "degraded"]
      BY <2>1, <2>3
    <3>2. final_narrative' # NULL
      BY <3>1, NullAssumption DEF Narratives
    <3>. QED
      BY <2>1, <2>3, <3>1, <3>2 DEF GateState, OriginInv, GateInv, GateOpen, RowInv, inputs
  <2>4. CASE ~(status = "escalated_to_human" /\ final_narrative = NULL)
    <3>1. final_narrative' = final_narrative /\ final_narrative # NULL
      BY <2>1, <2>2, <2>4 DEF GateState, GateInv
    <3>. QED
      BY <2>1, <2>2, <3>1 DEF GateState, OriginInv, GateInv, GateOpen, RowInv, inputs
  <2>. QED
    BY <2>3, <2>4
<1>2. CASE BuildDecisionRow
  <2>1. /\ pc = "build_row"
        /\ RowIsBuildable
        /\ UNCHANGED <<inputs, findings, judge_verdict, status>>
    BY <1>2 DEF BuildDecisionRow, RowIsBuildable, GateState, RowInv
  <2>2. pc' = "returned" /\ decision' = DecisionRow
    BY <1>2, <2>1 DEF BuildDecisionRow
  <2>3. DecisionRow' = DecisionRow
    BY <2>1 DEF DecisionRow, findings
  <2>4. RowInv'
    BY <2>1, <2>2, <2>3 DEF GateState, RowInv, findings
  <2>5. OriginInv' /\ GateInv'
    BY <2>1 DEF GateState, OriginInv, GateInv, GateOpen, inputs, findings
  <2>. QED
    BY <2>4, <2>5 DEF GateState
<1>. QED
  BY <1>1, <1>2

\* Every step keeps the gate invariant.
LEMMA NextGate ==
  TypeOK /\ LoopInv /\ EdgeAgreesWithLog /\ GateState /\ [Next]_vars => GateState'
<1>. SUFFICES ASSUME TypeOK, LoopInv, EdgeAgreesWithLog, GateState, [Next]_vars
              PROVE  GateState'
  OBVIOUS
<1>1. CASE EnterGraph
  BY <1>1, QuietStep DEF EnterGraph, inputs
<1>2. ASSUME NEW what, Raise(what), pc # "returned"
      PROVE  GateState'
  BY <1>2, QuietStep DEF Raise, inputs
<1>3. CASE RejectRequest
  BY <1>2, <1>3 DEF RejectRequest
<1>4. CASE SupervisorNode
  BY <1>4, SupervisorKeepsGate
<1>5. CASE JudgeRaises
  BY <1>2, <1>5 DEF JudgeRaises
<1>6. CASE RouteFromSupervisor
  <2>1. /\ pc = "routing"
        /\ pc' = IF DecideRoute(judge_verdict) \in SubAgents
                 THEN DecideRoute(judge_verdict) ELSE "END"
        /\ UNCHANGED <<inputs, findings, judge_verdict, status, decision>>
    BY <1>6 DEF RouteFromSupervisor
  <2>2. pc' = "END" => status # "investigating"
    BY <2>1, RouteType DEF LoopInv, TerminalStatus
  <2>. QED
    BY <2>1, <2>2 DEF GateState, OriginInv, GateInv, GateOpen, RowInv, inputs, findings
<1>7. ASSUME NEW a \in SubAgents, NoAgentInjected(a)
      PROVE  GateState'
  BY <1>7, QuietStep DEF NoAgentInjected, VisitSubAgent, inputs
<1>8. ASSUME NEW a \in SubAgents, AgentRaises(a)
      PROVE  GateState'
  BY <1>2, <1>8 DEF AgentRaises
<1>9. CASE ExtractionAgentNode \/ ValidationAgentNode \/ NarrativeAgentNode
  BY <1>9, EmissionKeepsGate
<1>10. CASE EnsureTerminalNarrative \/ BuildDecisionRow
  BY <1>10, FinishKeepsGate
<1>11. CASE UNCHANGED vars
  BY <1>11 DEF vars, inputs, findings, GateState, OriginInv, GateInv, GateOpen, RowInv,
     DecisionRow
<1>. QED
  BY <1>1, <1>3, <1>4, <1>5, <1>6, <1>7, <1>8, <1>9, <1>10, <1>11 DEF Next, GraphStep

LEMMA GateInvariant == Spec => []GateState
BY InitGate, NextGate, TypeCorrect, LoopInvariant, EdgeMatchesLog, PTL DEF Spec

\* An investigation is concluded only with all four collaborators behind it.
THEOREM GateFailsClosed == Spec => []ConcludedOnlyThroughGate
<1>1. TypeOK /\ GateState => ConcludedOnlyThroughGate
  <2>. SUFFICES ASSUME TypeOK, GateState, status = "concluded"
                PROVE  /\ GateOpen
                       /\ wired = Collaborators
                       /\ validation_findings # NULL
                       /\ confidence_score = validation_findings.confidence
    BY DEF ConcludedOnlyThroughGate
  <2>1. /\ GateOpen
        /\ "narrative" \in wired
        /\ validation_findings # NULL
        /\ confidence_score = validation_findings.confidence
    BY DEF GateState, GateInv, OriginInv
  <2>2. "judge" \in wired
    BY <2>1, NullAssumption DEF GateOpen, GateState, OriginInv
  <2>3. "validation" \in wired /\ "extraction" \in wired
    BY <2>1 DEF GateState, OriginInv
  <2>4. wired \subseteq Collaborators
    BY DEF TypeOK
  <2>. QED
    BY <2>1, <2>2, <2>3, <2>4
<1>. QED
  BY <1>1, TypeCorrect, GateInvariant, PTL

\* What the verdict of a row says about the gate.
LEMMA VerdictOfRow ==
  ASSUME TypeOK, GateState, status # "investigating", final_narrative # NULL
  PROVE  /\ DecisionRow.final_verdict # "uncertain" <=> GateOpen
         /\ DecisionRow.final_verdict = "pass" => final_narrative.recommendation = "ACCEPT"
         /\ DecisionRow.final_verdict \in {"pass", "fail", "uncertain"}
<1>1. final_narrative.recommendation \in {"ACCEPT", "ESCALATE"}
  BY DEF TypeOK, Narratives
<1>2. status \in {"concluded", "escalated_to_human"}
  BY DEF TypeOK
<1>. QED
  BY <1>1, <1>2 DEF DecisionRow, VerdictByTerminal, GateState, GateInv

\* The row says what the gate said.
THEOREM RowFollowsGate == Spec => []RowReflectsGate
<1>1. TypeOK /\ GateState => RowReflectsGate
  <2>. SUFFICES ASSUME TypeOK, GateState PROVE RowReflectsGate
    OBVIOUS
  <2>1. pc = "build_row" => RowIsBuildable
    BY DEF GateState, RowInv, RowIsBuildable
  <2>2. ASSUME pc = "returned"
        PROVE  /\ decision # NULL
               /\ decision.final_verdict # "uncertain" <=> GateOpen
               /\ decision.final_verdict = "pass" => final_narrative.origin = "llm"
    <3>1. decision = DecisionRow /\ status # "investigating" /\ final_narrative # NULL
      BY <2>2 DEF GateState, RowInv
    <3>2. DecisionRow \in Decisions
      BY <3>1 DEF DecisionRow, VerdictByTerminal, Decisions, TypeOK, Narratives
    <3>. QED
      BY <3>1, <3>2, VerdictOfRow, NullAssumption DEF GateState, OriginInv
  <2>. QED
    BY <2>1, <2>2 DEF RowReflectsGate
<1>. QED
  BY <1>1, TypeCorrect, GateInvariant, PTL
-----------------------------------------------------------------------------
(* The judge, and what may never be revised *)

\* The judge answers once, about a narrative that was there and stays.
THEOREM JudgeAskedOnce == Spec => []JudgeAskedAtMostOnce
<1>. DEFINE JudgeInv == /\ judge_calls \in {0, 1}
                        /\ judge_calls = 1 => /\ judge_verdict # NULL
                                              /\ final_narrative # NULL
                                              /\ final_narrative.origin # "degraded"
<1>1. Init => JudgeInv
  BY DEF Init
<1>2. TypeOK /\ LoopInv /\ GateState /\ JudgeInv /\ [Next]_vars => JudgeInv'
  <2>. SUFFICES ASSUME TypeOK, LoopInv, GateState, JudgeInv, [Next]_vars PROVE JudgeInv'
    OBVIOUS
  <2>1. CASE SupervisorNode
    <3>1. UNCHANGED final_narrative
      BY <2>1 DEF SupervisorNode, findings
    <3>2. CASE JudgeDue
      <4>1. judge_calls' = 1 /\ judge_verdict' \in JudgeVerdicts
        BY <2>1, <3>2 DEF SupervisorNode, JudgeDue
      <4>2. final_narrative # NULL /\ final_narrative.origin # "degraded"
        BY <2>1, <3>2 DEF JudgeDue, SupervisorNode, LoopInv, GateState, OriginInv
      <4>. QED
        BY <3>1, <4>1, <4>2, NullAssumption
    <3>3. CASE ~JudgeDue
      BY <2>1, <3>1, <3>3 DEF SupervisorNode
    <3>. QED
      BY <3>2, <3>3
  <2>2. CASE NarrativeAgentNode
    <3>1. final_narrative = NULL /\ UNCHANGED judge_calls
      BY <2>2 DEF NarrativeAgentNode, VisitSubAgent, LoopInv, DispatchIntent
    <3>. QED
      BY <3>1
  <2>3. CASE EnsureTerminalNarrative
    BY <2>3 DEF EnsureTerminalNarrative
  <2>4. CASE [Next]_vars /\ ~SupervisorNode /\ ~NarrativeAgentNode /\ ~EnsureTerminalNarrative
    <3>1. UNCHANGED <<judge_calls, judge_verdict, final_narrative>>
      BY <2>4 DEF Next, GraphStep, EnterGraph, RejectRequest, Raise, JudgeRaises,
         RouteFromSupervisor, NoAgentInjected, AgentRaises, VisitSubAgent,
         ExtractionAgentNode, ValidationAgentNode, BuildDecisionRow, vars, findings
    <3>. QED
      BY <3>1
  <2>. QED
    BY <2>1, <2>2, <2>3, <2>4
<1>3. JudgeInv => JudgeAskedAtMostOnce
  BY DEF JudgeAskedAtMostOnce
<1>. QED
  BY <1>1, <1>2, <1>3, TypeCorrect, LoopInvariant, GateInvariant, PTL DEF Spec

\* What a step never overwrites.
KeepsOutputs ==
  /\ extraction_findings # NULL => UNCHANGED extraction_findings
  /\ validation_findings # NULL => UNCHANGED validation_findings
  /\ final_narrative # NULL => UNCHANGED <<final_narrative, confidence_score>>
  /\ judge_verdict # NULL => UNCHANGED judge_verdict
  /\ status # "investigating" => UNCHANGED status

\* Each output is written by the visit that finds it missing.
LEMMA NextKeepsOutputs == TypeOK /\ LoopInv /\ Next => KeepsOutputs
<1>. USE DEF KeepsOutputs
<1>. SUFFICES ASSUME TypeOK, LoopInv, Next PROVE KeepsOutputs
  OBVIOUS
<1>1. CASE SupervisorNode
  <2>1. status = "investigating" /\ UNCHANGED findings
    BY <1>1 DEF SupervisorNode, LoopInv
  <2>2. judge_verdict # NULL => UNCHANGED judge_verdict
    BY <1>1 DEF SupervisorNode, JudgeDue
  <2>. QED
    BY <2>1, <2>2 DEF findings
<1>2. CASE ExtractionAgentNode
  BY <1>2 DEF ExtractionAgentNode, VisitSubAgent, LoopInv, DispatchIntent
<1>3. CASE ValidationAgentNode
  BY <1>3 DEF ValidationAgentNode, VisitSubAgent, LoopInv, DispatchIntent
<1>4. CASE NarrativeAgentNode
  BY <1>4 DEF NarrativeAgentNode, VisitSubAgent, LoopInv, DispatchIntent
<1>5. CASE EnsureTerminalNarrative
  BY <1>5 DEF EnsureTerminalNarrative
<1>6. CASE /\ ~SupervisorNode /\ ~ExtractionAgentNode /\ ~ValidationAgentNode
           /\ ~NarrativeAgentNode /\ ~EnsureTerminalNarrative
  BY <1>6 DEF Next, GraphStep, EnterGraph, RejectRequest, Raise, JudgeRaises,
     RouteFromSupervisor, NoAgentInjected, AgentRaises, VisitSubAgent,
     BuildDecisionRow, findings
<1>. QED
  BY <1>1, <1>2, <1>3, <1>4, <1>5, <1>6

\* Findings, the judge's answer and a terminal status are never overwritten.
THEOREM WriteOnce == Spec => OutputsAreWriteOnce
<1>1. TypeOK /\ LoopInv /\ [Next]_vars => [KeepsOutputs]_vars
  BY NextKeepsOutputs
<1>. QED
  BY <1>1, TypeCorrect, LoopInvariant, PTL DEF Spec, OutputsAreWriteOnce, KeepsOutputs
-----------------------------------------------------------------------------
(* The contract *)

\* An open investigation has no approval.
LEMMA InitContract == Init => Contract!Init
<1>. SUFFICES ASSUME Init PROVE Contract!Init
  OBVIOUS
<1>1. pc = "start" /\ decision = NULL
  BY DEF Init
<1>2. ~(confidence_score >= ConfidenceThreshold)
  BY ConfidenceAssumption DEF Init
<1>3. ~(judge_verdict = "pass")
  BY NullAssumption DEF Init
<1>4. (CASE pc = "returned" -> "decided" [] pc = "raised" -> "failed" [] OTHER -> "open")
        = "open"
  BY <1>1
<1>5. (confidence_score >= ConfidenceThreshold) = FALSE
  BY <1>2, SMT
<1>6. (judge_verdict = "pass") = FALSE
  BY <1>3, SMT
<1>7. (IF decision = NULL THEN "none" ELSE decision.final_verdict) = "none"
  BY <1>1
<1>. QED
  BY <1>4, <1>5, <1>6, <1>7, Zenon DEF Contract!Init

\* The narrative's visit is the step that may gain confidence, the supervisor's the one
\* that may gain approval, and the row decides.
LEMMA NextContract ==
  TypeOK /\ LoopInv /\ GateState /\ [Next]_vars => [Contract!Next]_(Contract!vars)
<1>. USE DEF Contract!vars
<1>. DEFINE Confident == confidence_score >= ConfidenceThreshold
            Approved  == judge_verdict = "pass"
<1>. SUFFICES ASSUME TypeOK, LoopInv, GateState, [Next]_vars
              PROVE  [Contract!Next]_(Contract!vars)
  OBVIOUS
<1>1. ASSUME pc \notin {"returned", "raised"}, pc' \notin {"returned", "raised"},
             UNCHANGED <<decision, confidence_score, judge_verdict>>
      PROVE  UNCHANGED Contract!vars
  BY <1>1
<1>2. ASSUME NEW what, Raise(what), pc \notin {"returned", "raised"}
      PROVE  Contract!Fail
  BY <1>2 DEF Raise, findings, Contract!Fail
<1>3. CASE EnterGraph
  BY <1>1, <1>3 DEF EnterGraph, findings
<1>4. CASE RejectRequest
  BY <1>2, <1>4 DEF RejectRequest, Contract!Next
<1>5. CASE SupervisorNode
  <2>1. /\ pc = "supervisor" /\ pc' = "routing"
        /\ UNCHANGED <<decision, confidence_score>>
    BY <1>5 DEF SupervisorNode, findings
  <2>2. judge_verdict' # judge_verdict => judge_verdict = NULL
    BY <1>5 DEF SupervisorNode, JudgeDue
  <2>3. CASE Approved' # Approved
    <3>1. ~Approved /\ Approved'
      BY <2>2, <2>3, NullAssumption
    <3>2. Contract!GainApproval
      BY <2>1, <3>1 DEF Contract!GainApproval
    <3>. QED
      BY <3>2 DEF Contract!Next
  <2>4. CASE Approved' = Approved
    BY <2>1, <2>4
  <2>. QED
    BY <2>3, <2>4
<1>6. CASE JudgeRaises
  BY <1>2, <1>6 DEF JudgeRaises, Contract!Next
<1>7. CASE RouteFromSupervisor
  <2>1. pc = "routing" /\ pc' \in SubAgents \cup {"END"}
    BY <1>7 DEF RouteFromSupervisor
  <2>. QED
    BY <1>1, <1>7, <2>1 DEF RouteFromSupervisor, findings
<1>8. ASSUME NEW a \in SubAgents, NoAgentInjected(a)
      PROVE  UNCHANGED Contract!vars
  BY <1>1, <1>8 DEF NoAgentInjected, VisitSubAgent, findings
<1>9. ASSUME NEW a \in SubAgents, AgentRaises(a)
      PROVE  Contract!Fail
  BY <1>2, <1>9 DEF AgentRaises
<1>10. CASE ExtractionAgentNode \/ ValidationAgentNode
  BY <1>1, <1>10 DEF ExtractionAgentNode, ValidationAgentNode, VisitSubAgent
<1>11. CASE NarrativeAgentNode
  <2>1. /\ pc = "narrative" /\ pc' = "supervisor"
        /\ UNCHANGED <<decision, judge_verdict>>
    BY <1>11 DEF NarrativeAgentNode, VisitSubAgent
  <2>2. final_narrative = NULL
    BY <2>1 DEF LoopInv, DispatchIntent
  <2>3. ~Confident
    BY <2>2, ConfidenceAssumption DEF GateState, OriginInv
  <2>4. CASE Confident'
    <3>1. Contract!GainConfidence
      BY <2>1, <2>3, <2>4 DEF Contract!GainConfidence
    <3>. QED
      BY <3>1 DEF Contract!Next
  <2>5. CASE ~Confident'
    BY <2>1, <2>3, <2>5
  <2>. QED
    BY <2>4, <2>5
<1>12. CASE EnsureTerminalNarrative
  BY <1>1, <1>12 DEF EnsureTerminalNarrative
<1>13. CASE BuildDecisionRow
  <2>1. /\ pc = "build_row"
        /\ decision = NULL
        /\ status # "investigating" /\ final_narrative # NULL
        /\ UNCHANGED <<confidence_score, judge_verdict>>
    BY <1>13 DEF BuildDecisionRow, GateState, RowInv, findings
  <2>2. pc' = "returned" /\ decision' = DecisionRow
    BY <1>13, <2>1 DEF BuildDecisionRow, RowIsBuildable
  <2>3. DecisionRow \in Decisions
    BY <2>1 DEF DecisionRow, VerdictByTerminal, Decisions, TypeOK, Narratives
  <2>4. decision' # NULL
    BY <2>2, <2>3, NullAssumption
  <2>5. Contract!Decide(DecisionRow.final_verdict)
    BY <2>1, <2>2, <2>4, VerdictOfRow DEF Contract!Decide, GateOpen
  <2>6. DecisionRow.final_verdict \in Contract!Verdicts
    BY <2>1, VerdictOfRow DEF Contract!Verdicts
  <2>. QED
    BY <2>5, <2>6 DEF Contract!Next
<1>14. CASE UNCHANGED vars
  BY <1>14 DEF vars, findings
<1>. QED
  BY <1>3, <1>4, <1>5, <1>6, <1>7, <1>8, <1>9, <1>10, <1>11, <1>12, <1>13, <1>14
  DEF Next, GraphStep, Contract!Next

\* The graph, its gate and the row builder implement InvestigationContract.
THEOREM ContractImplemented == Spec => ImplementsContract
BY InitContract, NextContract, TypeCorrect, LoopInvariant, GateInvariant, PTL
DEF Spec, ImplementsContract, Contract!Spec

-----------------------------------------------------------------------------
(* The call comes to an end *)

\* What a call may still do: three steps for each dispatch the cap leaves it (node,
\* edge, sub-agent), and the way from the last visit to the row.
StepsLeft ==
  LET dispatches == MaxIterations - iterations_used
  IN  CASE pc = "start"      -> 3 * MaxIterations + 5
        [] pc = "supervisor" -> 3 * dispatches + 4
        [] pc = "routing"    -> 3 * dispatches + 3
        [] pc \in SubAgents  -> 3 * dispatches + 2
        [] pc = "END"        -> 2
        [] pc = "build_row"  -> 1
        [] OTHER             -> 0

LEMMA StepsLeftType ==
  TypeOK /\ LoopInv => /\ StepsLeft \in 0..(3 * MaxIterations + 5)
                       /\ StepsLeft = 0 <=> pc \in {"returned", "raised"}
<1>. SUFFICES ASSUME TypeOK, LoopInv
              PROVE  /\ StepsLeft \in 0..(3 * MaxIterations + 5)
                     /\ StepsLeft = 0 <=> pc \in {"returned", "raised"}
  OBVIOUS
<1>1. /\ MaxIterations \in Nat /\ iterations_used \in Nat
      /\ iterations_used <= MaxIterations /\ pc \in Locations
  BY BoundsAssumption DEF TypeOK, LoopInv
<1>. QED
  BY <1>1 DEF StepsLeft, Locations

\* No step but a visit changes the count of dispatches, and a visit uses one up.
LEMMA StepCountsTowardsEnd == TypeOK /\ LoopInv /\ Next => StepsLeft' < StepsLeft
<1>. SUFFICES ASSUME TypeOK, LoopInv, Next PROVE StepsLeft' < StepsLeft
  OBVIOUS
<1>1. /\ MaxIterations \in Nat /\ iterations_used \in Nat
      /\ iterations_used <= MaxIterations
      /\ pc \in SubAgents => iterations_used < MaxIterations
      /\ pc \in Locations
  BY BoundsAssumption DEF TypeOK, LoopInv
<1>2. ASSUME NEW what, Raise(what), pc \in {"start", "supervisor"} \cup SubAgents
      PROVE  StepsLeft' < StepsLeft
  <2>1. pc' = "raised"
    BY <1>2 DEF Raise
  <2>. QED
    BY <1>1, <1>2, <2>1 DEF StepsLeft
<1>3. CASE EnterGraph
  BY <1>1, <1>3 DEF EnterGraph, StepsLeft
<1>4. CASE RejectRequest
  BY <1>2, <1>4 DEF RejectRequest
<1>5. CASE SupervisorNode
  <2>1. pc = "supervisor" /\ pc' = "routing" /\ iterations_used' = iterations_used
    BY <1>5 DEF SupervisorNode
  <2>. QED
    BY <1>1, <2>1 DEF StepsLeft
<1>6. CASE JudgeRaises
  BY <1>2, <1>6 DEF JudgeRaises
<1>7. CASE RouteFromSupervisor
  <2>1. /\ pc = "routing" /\ pc' \in SubAgents \cup {"END"}
        /\ iterations_used' = iterations_used
    BY <1>7 DEF RouteFromSupervisor
  <2>. QED
    BY <1>1, <2>1 DEF StepsLeft
<1>8. ASSUME NEW a \in SubAgents, NEW action, VisitSubAgent(a, action)
      PROVE  StepsLeft' < StepsLeft
  <2>1. pc = a /\ pc' = "supervisor" /\ iterations_used' = iterations_used + 1
    BY <1>8 DEF VisitSubAgent
  <2>. QED
    BY <1>1, <2>1 DEF StepsLeft
<1>9. CASE \E a \in SubAgents : NoAgentInjected(a) \/ AgentRaises(a)
  BY <1>2, <1>8, <1>9 DEF NoAgentInjected, AgentRaises
<1>10. CASE ExtractionAgentNode \/ ValidationAgentNode \/ NarrativeAgentNode
  BY <1>8, <1>10 DEF ExtractionAgentNode, ValidationAgentNode, NarrativeAgentNode
<1>11. CASE EnsureTerminalNarrative \/ BuildDecisionRow
  <2>1. \/ pc = "END" /\ pc' = "build_row"
        \/ pc = "build_row" /\ pc' \in {"returned", "raised"}
    BY <1>11 DEF EnsureTerminalNarrative, BuildDecisionRow
  <2>. QED
    BY <2>1 DEF StepsLeft
<1>. QED
  BY <1>3, <1>4, <1>5, <1>6, <1>7, <1>9, <1>10, <1>11 DEF Next, GraphStep

\* The safety half of Termination, for every cap: a call of run_investigation takes at
\* most 3 * MaxIterations + 5 steps, each of them nearer to its end, whatever the judge
\* answers and whichever agents are missing or raise; and it has none left only when it
\* has returned a row or raised.  No route leads around the cap.
THEOREM StepsBounded ==
  Spec => /\ [](/\ StepsLeft \in 0..(3 * MaxIterations + 5)
                /\ StepsLeft = 0 <=> pc \in {"returned", "raised"})
          /\ [][StepsLeft' < StepsLeft]_vars
<1>1. TypeOK /\ LoopInv /\ [Next]_vars => [StepsLeft' < StepsLeft]_vars
  BY StepCountsTowardsEnd
<1>. QED
  BY <1>1, StepsLeftType, InitType, NextType, InitLoop, NextLoop, PTL DEF Spec
=============================================================================
