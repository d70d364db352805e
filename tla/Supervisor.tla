----------------------------- MODULE Supervisor -----------------------------
(***************************************************************************)
(* One Layer-3 investigation: run_investigation and the LangGraph graph it *)
(* invokes (layer3_agents/supervisor.py), from the entry checks to the     *)
(* decision row.  The graph is a loop of supersteps: the supervisor node,  *)
(* the conditional edge, and at most one sub-agent node per turn.  What an *)
(* LLM-backed collaborator answers, and whether it raises, is chosen       *)
(* nondeterministically; the sub-agents' own retry loops are modelled in   *)
(* ValidationAgent and NarrativeAgent.                                     *)
(***************************************************************************)
EXTENDS Naturals, Sequences

CONSTANTS MaxIterations,       \* MAX_ITERATIONS
          RecursionLimit,      \* recursion_limit handed to compiled_graph.invoke
          ConfidenceThreshold, \* CONFIDENCE_THRESHOLD, in percent
          FastPathConfidence,  \* validation_agent._FAST_PATH_CONFIDENCE, in percent
          Confidences,         \* the confidences an LLM may report, in percent
          Engagements,
          NULL                 \* Python's None

SubAgents == {"extraction", "validation", "narrative"}
Collaborators == SubAgents \cup {"judge"}
Controls == {"DC-2", "DC-9"}
Attributes == {"B", "D"}
CheckStatuses == {"pass", "fail", "n/a"}
JudgeVerdicts == {"pass", "fail", "uncertain"}
\* "failed", the fourth member of Layer3Status, is assigned nowhere.
Statuses == {"investigating", "concluded", "escalated_to_human"}
Recommendations == {"ACCEPT", "ESCALATE"}

Evidence == [engagement_id : Engagements, control_id : Controls]
Requests == [check : [control_id : Controls, attribute_id : Attributes, status : CheckStatuses],
             current : Evidence,
             prior : Evidence]

\* The found flag of the exception type under investigation: True, False or None.
ExtractionFindings == {"found", "not_found", "unknown"}
ValidationFindings == [is_authorized : BOOLEAN, confidence : Confidences]
\* origin: written by the LLM, by NarrativeAgent._fallback_escalate, or by the
\* supervisor's own degraded-escalation helper.
Narratives == [recommendation : Recommendations, origin : {"llm", "fallback", "degraded"}]
Decisions == [final_verdict : {"pass", "fail", "uncertain"},
              status : Statuses \ {"investigating"},
              recommendation : Recommendations,
              final_confidence : Confidences,
              judge_verdict : JudgeVerdicts \cup {NULL}]

ASSUME BoundsAssumption ==
  /\ MaxIterations \in Nat
  /\ RecursionLimit \in Nat
  /\ 2 * MaxIterations + 1 <= RecursionLimit

ASSUME ConfidenceAssumption ==
  /\ Confidences \subseteq 0..100
  /\ {0, FastPathConfidence} \subseteq Confidences
  /\ ConfidenceThreshold \in 1..100

ASSUME NullAssumption ==
  /\ NULL \notin ExtractionFindings
  /\ NULL \notin ValidationFindings
  /\ NULL \notin Narratives
  /\ NULL \notin JudgeVerdicts
  /\ NULL \notin Decisions

VARIABLES
  request,             \* the (check, current, prior) arguments
  wired,               \* which optional collaborators the caller injected
  pc,                  \* where run_investigation is
  extraction_findings, validation_findings, final_narrative,
  judge_verdict,
  confidence_score,
  iterations_used,
  status,
  investigation_log,   \* the operator.add channel
  supersteps,          \* LangGraph's own step counter
  error,               \* what was raised, NULL if nothing was
  decision,            \* the Layer3Decision row, NULL until built
  judge_calls          \* history: how often the judge has answered

inputs   == <<request, wired>>
findings == <<extraction_findings, validation_findings, final_narrative, confidence_score>>
vars == <<inputs, pc, findings, judge_verdict, iterations_used, status,
          investigation_log, supersteps, error, decision, judge_calls>>

Locations == {"start", "supervisor", "routing", "END", "build_row", "returned", "raised"}
               \cup SubAgents

Actors  == SubAgents \cup {"supervisor"}
Actions == SubAgents \cup {"conclude", "escalate", "emitted", "no_agent_injected_no_op"}
Steps   == [iteration : Nat, actor : Actors, action : Actions]

-----------------------------------------------------------------------------
(* Entry *)

IsLayer3Eligible(check) ==
  /\ check.status = "fail"
  /\ <<check.control_id, check.attribute_id>> \in {<<"DC-9", "D">>, <<"DC-2", "B">>}

SameScope(r) ==
  /\ r.current.engagement_id = r.prior.engagement_id
  /\ r.current.control_id = r.prior.control_id
  /\ r.current.control_id = r.check.control_id

Init ==
  /\ request \in Requests
  /\ wired \in SUBSET Collaborators
  /\ pc = "start"
  /\ extraction_findings = NULL
  /\ validation_findings = NULL
  /\ final_narrative = NULL
  /\ judge_verdict = NULL
  /\ confidence_score = 0
  /\ iterations_used = 0
  /\ status = "investigating"
  /\ investigation_log = <<>>
  /\ supersteps = 0
  /\ error = NULL
  /\ decision = NULL
  /\ judge_calls = 0

Raise(what) ==
  /\ error' = what
  /\ pc' = "raised"
  /\ UNCHANGED <<inputs, findings, judge_verdict, iterations_used, status,
                 investigation_log, supersteps, decision, judge_calls>>

EnterGraph ==
  /\ pc = "start"
  /\ IsLayer3Eligible(request.check)
  /\ SameScope(request)
  /\ pc' = "supervisor"
  /\ UNCHANGED <<inputs, findings, judge_verdict, iterations_used, status,
                 investigation_log, supersteps, error, decision, judge_calls>>

RejectRequest ==
  /\ pc = "start"
  /\ ~(IsLayer3Eligible(request.check) /\ SameScope(request))
  /\ Raise("ValueError")
-----------------------------------------------------------------------------
(* The supervisor node and its conditional edge *)

\* Mutant: an inconclusive extraction is dispatched again.
DispatchIntentRetriesUnknown ==
  IF extraction_findings \in {NULL, "unknown"} THEN "extraction"
  ELSE IF validation_findings = NULL THEN "validation"
  ELSE IF final_narrative = NULL THEN "narrative"
  ELSE "none"

\* The first sub-agent whose output is still missing.
DispatchIntent ==
  IF extraction_findings = NULL THEN "extraction"
  ELSE IF validation_findings = NULL THEN "validation"
  ELSE IF final_narrative = NULL THEN "narrative"
  ELSE "none"

\* Mutant: either approval opens the gate.
DecideRouteEitherApproval(verdict) ==
  IF DispatchIntent # "none"
  THEN IF iterations_used >= MaxIterations THEN "escalate" ELSE DispatchIntent
  ELSE IF confidence_score >= ConfidenceThreshold \/ verdict = "pass"
       THEN "conclude" ELSE "escalate"

\* Mutant: a missing judge is no objection.
DecideRouteJudgeOptional(verdict) ==
  IF DispatchIntent # "none"
  THEN IF iterations_used >= MaxIterations THEN "escalate" ELSE DispatchIntent
  ELSE IF confidence_score >= ConfidenceThreshold /\ verdict \in {"pass", NULL}
       THEN "conclude" ELSE "escalate"

\* The cap gates dispatches only; the two terminal routes are decided by the gate.
DecideRoute(verdict) ==
  IF DispatchIntent # "none"
  THEN IF iterations_used >= MaxIterations THEN "escalate" ELSE DispatchIntent
  ELSE IF confidence_score >= ConfidenceThreshold /\ verdict = "pass"
       THEN "conclude" ELSE "escalate"

\* Mutant: the route itself is stored as the status.
TerminalStatusIsRoute(route) == IF route \in SubAgents THEN status ELSE route

TerminalStatus(route) ==
  CASE route = "conclude" -> "concluded"
    [] route = "escalate" -> "escalated_to_human"
    [] OTHER              -> status

\* Mutant: the channel without its operator.add reducer keeps the last write.
LogStepOverwrites(iteration, actor, action) ==
  investigation_log' = <<[iteration |-> iteration, actor |-> actor, action |-> action]>>

LogStep(iteration, actor, action) ==
  investigation_log' = Append(investigation_log,
                              [iteration |-> iteration, actor |-> actor, action |-> action])

\* LangGraph raises GraphRecursionError instead of starting a superstep beyond
\* RecursionLimit.  The counter is kept, and RecursionBackstopUnreached shows that
\* no behaviour comes to that point.
Superstep == supersteps' = supersteps + 1

\* Mutant: the judge is asked on the first visit, whatever there is to judge.
JudgeDueBeforeNarrative == judge_verdict = NULL /\ "judge" \in wired

JudgeDue == /\ final_narrative # NULL
            /\ judge_verdict = NULL
            /\ "judge" \in wired

SupervisorNode ==
  /\ pc = "supervisor"
  /\ Superstep
  /\ \E verdict \in IF JudgeDue THEN JudgeVerdicts ELSE {judge_verdict} :
       /\ judge_verdict' = verdict
       /\ LogStep(iterations_used, "supervisor", DecideRoute(verdict))
       /\ status' = TerminalStatus(DecideRoute(verdict))
  /\ judge_calls' = IF JudgeDue THEN judge_calls + 1 ELSE judge_calls
  /\ pc' = "routing"
  /\ UNCHANGED <<inputs, findings, iterations_used, error, decision>>

JudgeRaises ==
  /\ pc = "supervisor"
  /\ JudgeDue
  /\ Raise("judge")

\* Mutant: the edge allows one dispatch more than the node that logged the route.
RouteFromSupervisorOffByOne ==
  /\ pc = "routing"
  /\ pc' = IF DispatchIntent # "none" /\ iterations_used <= MaxIterations
            THEN DispatchIntent ELSE "END"
  /\ UNCHANGED <<inputs, findings, judge_verdict, iterations_used, status,
                 investigation_log, supersteps, error, decision, judge_calls>>

\* Mutant: the edge has no target for "escalate".
RouteFromSupervisorUnmappedEscalate ==
  /\ pc = "routing"
  /\ DecideRoute(judge_verdict) # "escalate"
  /\ pc' = IF DecideRoute(judge_verdict) \in SubAgents THEN DecideRoute(judge_verdict) ELSE "END"
  /\ UNCHANGED <<inputs, findings, judge_verdict, iterations_used, status,
                 investigation_log, supersteps, error, decision, judge_calls>>

\* LangGraph evaluates the edge on the state the node left behind.
RouteFromSupervisor ==
  /\ pc = "routing"
  /\ pc' = IF DecideRoute(judge_verdict) \in SubAgents THEN DecideRoute(judge_verdict) ELSE "END"
  /\ UNCHANGED <<inputs, findings, judge_verdict, iterations_used, status,
                 investigation_log, supersteps, error, decision, judge_calls>>

-----------------------------------------------------------------------------
(* Sub-agent nodes *)

\* Mutant: a visit that found no agent is not counted against the cap.
VisitSubAgentCountsEmittedOnly(a, action) ==
  /\ pc = a
  /\ Superstep
  /\ iterations_used' = IF action = "emitted" THEN iterations_used + 1 ELSE iterations_used
  /\ LogStep(iterations_used', a, action)
  /\ pc' = "supervisor"
  /\ UNCHANGED <<inputs, judge_verdict, status, error, decision, judge_calls>>

\* Every visit counts, whether or not an agent is wired.
VisitSubAgent(a, action) ==
  /\ pc = a
  /\ Superstep
  /\ iterations_used' = iterations_used + 1
  /\ LogStep(iterations_used + 1, a, action)
  /\ pc' = "supervisor"
  /\ UNCHANGED <<inputs, judge_verdict, status, error, decision, judge_calls>>

NoAgentInjected(a) ==
  /\ a \notin wired
  /\ VisitSubAgent(a, "no_agent_injected_no_op")
  /\ UNCHANGED findings

ExtractionAgentNode ==
  /\ "extraction" \in wired
  /\ VisitSubAgent("extraction", "emitted")
  /\ extraction_findings' \in ExtractionFindings
  /\ UNCHANGED <<validation_findings, final_narrative, confidence_score>>

\* The fast path answers a definite "no document" without asking the LLM.
ValidationOutcomes(extraction) ==
  IF extraction = "not_found"
  THEN {[is_authorized |-> FALSE, confidence |-> FastPathConfidence]}
  ELSE ValidationFindings

ValidationAgentNode ==
  /\ "validation" \in wired
  /\ VisitSubAgent("validation", "emitted")
  /\ validation_findings' \in ValidationOutcomes(extraction_findings)
  /\ UNCHANGED <<extraction_findings, final_narrative, confidence_score>>

NarrativeOutcomes ==
  [recommendation : Recommendations, origin : {"llm"}]
    \cup {[recommendation |-> "ESCALATE", origin |-> "fallback"]}

NarrativeAgentNode ==
  /\ "narrative" \in wired
  /\ VisitSubAgent("narrative", "emitted")
  /\ final_narrative' \in NarrativeOutcomes
  /\ confidence_score' = IF validation_findings # NULL
                         THEN validation_findings.confidence ELSE confidence_score
  /\ UNCHANGED <<extraction_findings, validation_findings>>

AgentRaises(a) ==
  /\ pc = a
  /\ a \in wired
  /\ Raise(a)

-----------------------------------------------------------------------------
(* After the graph: _ensure_terminal_narrative, then the decision row *)

EnsureTerminalNarrative ==
  /\ pc = "END"
  /\ final_narrative' = IF status = "escalated_to_human" /\ final_narrative = NULL
                        THEN [recommendation |-> "ESCALATE", origin |-> "degraded"]
                        ELSE final_narrative
  /\ pc' = "build_row"
  /\ UNCHANGED <<inputs, extraction_findings, validation_findings, confidence_score,
                 judge_verdict, iterations_used, status, investigation_log, supersteps,
                 error, decision, judge_calls>>

\* Mutant: the verdict follows the recommendation alone.
VerdictByRecommendation(terminal, recommendation) ==
  IF recommendation = "ACCEPT" THEN "pass" ELSE "fail"

VerdictByTerminal(terminal, recommendation) ==
  CASE terminal = "concluded" /\ recommendation = "ACCEPT"   -> "pass"
    [] terminal = "concluded" /\ recommendation = "ESCALATE" -> "fail"
    [] OTHER                                                 -> "uncertain"

RowIsBuildable == final_narrative # NULL /\ status # "investigating"

DecisionRow ==
  [final_verdict    |-> VerdictByTerminal(status, final_narrative.recommendation),
   status           |-> status,
   recommendation   |-> final_narrative.recommendation,
   final_confidence |-> confidence_score,
   judge_verdict    |-> judge_verdict]

\* build_layer3_decision_row refuses a state without a narrative or still open.  The
\* caller has wired a decisions_writer, as the worker and the baseline script do;
\* without one the call returns before the row (GoldPersistence has the choice).
BuildDecisionRow ==
  /\ pc = "build_row"
  /\ IF RowIsBuildable
     THEN /\ decision' = DecisionRow
          /\ pc' = "returned"
          /\ error' = error
     ELSE /\ decision' = decision
          /\ pc' = "raised"
          /\ error' = "ValueError"
  /\ UNCHANGED <<inputs, findings, judge_verdict, iterations_used, status,
                 investigation_log, supersteps, judge_calls>>
-----------------------------------------------------------------------------
GraphStep ==
  \/ SupervisorNode
  \/ JudgeRaises
  \/ RouteFromSupervisor
  \/ \E a \in SubAgents : NoAgentInjected(a) \/ AgentRaises(a)
  \/ ExtractionAgentNode
  \/ ValidationAgentNode
  \/ NarrativeAgentNode

Next ==
  \/ EnterGraph
  \/ RejectRequest
  \/ GraphStep
  \/ EnsureTerminalNarrative
  \/ BuildDecisionRow

\* run_investigation is one synchronous call: nothing but its own code can run
\* it, and every collaborator call returns or raises.
Spec == Init /\ [][Next]_vars /\ WF_vars(Next)
-----------------------------------------------------------------------------
(* Properties *)

TypeOK ==
  /\ request \in Requests
  /\ wired \in SUBSET Collaborators
  /\ pc \in Locations
  /\ extraction_findings \in ExtractionFindings \cup {NULL}
  /\ validation_findings \in ValidationFindings \cup {NULL}
  /\ final_narrative \in Narratives \cup {NULL}
  /\ judge_verdict \in JudgeVerdicts \cup {NULL}
  /\ confidence_score \in Confidences
  /\ iterations_used \in Nat
  /\ status \in Statuses
  /\ investigation_log \in Seq(Steps)
  /\ supersteps \in Nat
  /\ error \in Collaborators \cup {"ValueError", NULL}
  /\ decision \in Decisions \cup {NULL}
  /\ judge_calls \in Nat

GateOpen == /\ confidence_score >= ConfidenceThreshold
            /\ judge_verdict = "pass"

\* The judge gate fails closed: an investigation is concluded only on the word of
\* all four collaborators, and the confidence that opened the gate is the one
\* validation reported, not a stale initial or later value.
ConcludedOnlyThroughGate ==
  status = "concluded" =>
    /\ GateOpen
    /\ wired = Collaborators
    /\ validation_findings # NULL
    /\ confidence_score = validation_findings.confidence

LastStep == investigation_log[Len(investigation_log)]

\* The log entry, the status and the edge LangGraph takes come from evaluations of
\* _decide_route at different times; they never disagree about where the
\* investigation goes next.
EdgeAgreesWithLog ==
  /\ pc \in SubAgents => /\ LastStep = [iteration |-> iterations_used,
                                        actor |-> "supervisor", action |-> pc]
                         /\ status = "investigating"
  /\ pc = "END" => /\ LastStep.actor = "supervisor"
                   /\ \/ LastStep.action = "conclude" /\ status = "concluded"
                      \/ LastStep.action = "escalate" /\ status = "escalated_to_human"

\* The iteration cap, not LangGraph's recursion limit, is what ends a run: the
\* backstop is never reached, so no investigation dies of GraphRecursionError.
RecursionBackstopUnreached == supersteps <= RecursionLimit

\* The persisted trace is complete: one entry per executed node, and iterations_used
\* counts exactly the sub-agent entries.  So a capped run has MaxIterations visits to
\* sub-agents and one more to the supervisor, as tests/unit/layer3_agents/
\* test_supervisor.py:157 has it (seven entries); the comments at supervisor.py:92-94
\* and 673-674 count one supervisor visit fewer.
TraceAccountsForEveryVisit ==
  /\ Len(investigation_log) = supersteps
  /\ pc \in {"supervisor"} \cup SubAgents => Len(investigation_log) =
       2 * iterations_used + (IF pc \in SubAgents THEN 1 ELSE 0)

\* The judge is billed at most once per investigation, and only for a narrative a
\* sub-agent wrote: never for a capped run's canned text.
JudgeAskedAtMostOnce ==
  /\ judge_calls <= 1
  /\ judge_calls = 1 => final_narrative # NULL /\ final_narrative.origin # "degraded"

\* A finished graph always leaves a state the row builder accepts, and an automatic
\* "pass" always rests on a narrative the LLM wrote and the gate let through: text
\* of a fallback never passes.
RowReflectsGate ==
  /\ pc = "build_row" => RowIsBuildable
  /\ pc = "returned" =>
       /\ decision # NULL
       /\ decision.final_verdict # "uncertain" <=> GateOpen
       /\ decision.final_verdict = "pass" => final_narrative.origin = "llm"

\* Sub-agent outputs and the judge's answer are written once and never revised, so
\* what the gate read is what the row reports.
OutputsAreWriteOnce ==
  [][/\ extraction_findings # NULL => UNCHANGED extraction_findings
     /\ validation_findings # NULL => UNCHANGED validation_findings
     /\ final_narrative # NULL => UNCHANGED <<final_narrative, confidence_score>>
     /\ judge_verdict # NULL => UNCHANGED judge_verdict
     /\ status # "investigating" => UNCHANGED status]_vars

\* Every call of run_investigation returns a row or raises.
Termination == <>(pc \in {"returned", "raised"})

Contract == INSTANCE InvestigationContract WITH
  phase     <- CASE pc = "returned" -> "decided"
                 [] pc = "raised"   -> "failed"
                 [] OTHER           -> "open",
  verdict   <- IF decision = NULL THEN "none" ELSE decision.final_verdict,
  confident <- confidence_score >= ConfidenceThreshold,
  approved  <- judge_verdict = "pass"

\* The graph, its gate and the row builder together keep the contract.
ImplementsContract == Contract!Spec

-----------------------------------------------------------------------------
(* What a comment of the code says, and the code does not do *)

\* supervisor.py:854-855 (_VERDICT_BY_TERMINAL): concluded + ACCEPT means the
\* exception was authorised.
PassMeansAuthorised ==
  decision # NULL /\ decision.final_verdict = "pass" => validation_findings.is_authorized
=============================================================================
