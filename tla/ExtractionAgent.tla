--------------------------- MODULE ExtractionAgent ---------------------------
(***************************************************************************)
(* The Layer 3 extraction agent (layer3_agents/extraction_agent.py): one   *)
(* ReAct run per invoke, whose model calls a telemetry callback follows.   *)
(* The callback opens a span when a call starts and closes it when the     *)
(* call ends or fails; it counts the usage of a call that reports one on   *)
(* the UsageRecorder that the agent held when invoke built the callback.   *)
(* The agent outlives the run: run_investigation puts its own recorder     *)
(* into the agent, in the agent's place for it, before each investigation. *)
(*                                                                         *)
(* The LLM chooses: another tool call or the end, any arguments, and       *)
(* whether its structured answer parses.  LangGraph's limit on a run's     *)
(* steps, with which it raises, is MaxCalls model calls.                   *)
(***************************************************************************)
EXTENDS EvidenceTools

CONSTANTS
  Investigations, \* each brings its own UsageRecorder
  MaxCalls        \* model calls after which LangGraph gives up on the run

ASSUME CallsAssumption == MaxCalls \in Nat \ {0}

Agents == {"extraction", "validation", "narrative"}

VARIABLES
  react,       \* where the ReAct run is
  calls,       \* its model calls so far: the last one's run_id
  spans,       \* the run_ids with an open span
  compiled,    \* the agent's graph has been built
  recorder,    \* whose recorder each agent holds
  callback,    \* whose recorder the run's callback holds
  recorded     \* the investigations with a call on each one's recorder

agentVars == <<react, calls, spans, compiled, recorder, callback, recorded>>
runVars == <<react, calls, spans>>

ReactStages == {"off", "model", "waiting", "tool", "answer", "waiting_answer", "parse",
                "returned", "raised"}

AgentInit ==
  /\ react = "off"
  /\ calls = 0
  /\ spans = {}
  /\ compiled = FALSE
  /\ recorder = [a \in Agents |-> NONE]
  /\ callback = NONE
  /\ recorded = [i \in Investigations |-> {}]

\* Mutant: an agent that has a recorder keeps it.
HoldRecorderOnce(i) ==
  recorder' = [a \in Agents |-> IF recorder[a] = NONE THEN i ELSE recorder[a]]

\* run_investigation: the recorder is replaced in every agent.
HoldRecorder(i) == recorder' = [a \in Agents |-> i]

\* A call of investigation i, on the recorder of whoever holder stands for.
\* Usage that the answer does not carry is not counted.
Counts(holder, i) ==
  \/ /\ holder \in Investigations
     /\ recorded' = [recorded EXCEPT ![holder] = @ \cup {i}]
  \/ UNCHANGED recorded

\* invoke: the prompt is rendered, which may raise; the graph is built on first
\* use, which may raise and is then tried again by the next invoke; the callback
\* is new.
Invoke ==
  /\ react = "off"
  /\ \/ /\ compiled' = TRUE
        /\ callback' = recorder["extraction"]
        /\ react' = "model"
     \/ /\ react' = "raised"
        /\ UNCHANGED <<compiled, callback>>
  /\ UNCHANGED <<calls, spans, recorder, recorded>>

\* on_chat_model_start, before a model call of the loop or the structured answer.
CallStarts ==
  /\ react \in {"model", "answer"}
  /\ IF calls < MaxCalls
       THEN /\ calls' = calls + 1
            /\ spans' = spans \cup {calls + 1}
            /\ react' = IF react = "model" THEN "waiting" ELSE "waiting_answer"
       ELSE /\ react' = "raised"
            /\ UNCHANGED <<calls, spans>>
  /\ UNCHANGED <<compiled, recorder, callback, recorded>>

CloseSpan == spans' = spans \ {calls}

\* on_llm_end.
CallEnds(i) ==
  /\ \/ react = "waiting" /\ react' \in {"tool", "answer"}
     \/ react = "waiting_answer" /\ react' = "parse"
  /\ Counts(callback, i)
  /\ CloseSpan
  /\ UNCHANGED <<calls, compiled, recorder, callback>>

\* Mutant: nobody closes the span of a call that failed.
CallFailsLeaks ==
  /\ react \in {"waiting", "waiting_answer"}
  /\ react' = "raised"
  /\ UNCHANGED <<calls, spans, compiled, recorder, callback, recorded>>

\* on_llm_error: the exception leaves invoke.
CallFails ==
  /\ react \in {"waiting", "waiting_answer"}
  /\ react' = "raised"
  /\ CloseSpan
  /\ UNCHANGED <<calls, compiled, recorder, callback, recorded>>

\* A tool call: the tools are pure, and what they may answer is ToolResults of
\* the evidence in the agent's state.
UseTool ==
  /\ react = "tool"
  /\ react' = "model"
  /\ UNCHANGED <<calls, spans, compiled, recorder, callback, recorded>>

\* _parse_structured_response: findings, or a ValueError or TypeError.
ParseAnswer ==
  /\ react = "parse"
  /\ react' \in {"returned", "raised"}
  /\ UNCHANGED <<calls, spans, compiled, recorder, callback, recorded>>

\* A new run has a new callback, message history and call numbering.
ResetRun == react' = "off" /\ calls' = 0 /\ spans' = {} /\ callback' = NONE

\* A visit of investigation i to another agent, which records its calls itself.
OtherAgentCalls(agent, i) ==
  /\ Counts(recorder[agent], i)
  /\ UNCHANGED <<runVars, compiled, recorder, callback>>

\* The process that holds the agents dies.
AgentForgets ==
  /\ ResetRun
  /\ compiled' = FALSE
  /\ recorder' = [a \in Agents |-> NONE]
  /\ recorded' = [i \in Investigations |-> {}]

AgentStep(i) == Invoke \/ CallStarts \/ CallEnds(i) \/ CallFails \/ UseTool \/ ParseAnswer

----------------------------------------------------------------------------
(* Only the call in flight has a span: on_llm_end and on_llm_error close it,  *)
(* so none is left behind by a run that returned or raised                    *)
(* (extraction_agent.py:500 "so it never leaks").                             *)
OnlyTheCallInFlightHasASpan ==
  spans = IF react \in {"waiting", "waiting_answer"} THEN {calls} ELSE {}
=============================================================================
