--------------------------- MODULE ValidationAgent ---------------------------
(***************************************************************************)
(* ValidationAgent.invoke (layer3_agents/validation_agent.py): the         *)
(* no-document fast path, then at most Attempts LLM calls, then the        *)
(* fail-closed fallback.                                                   *)
(***************************************************************************)
EXTENDS Naturals

CONSTANTS Attempts,           \* the loop "for attempt in (1, 2)"
          FastPathConfidence, Confidences, NULL

ValidationFindings == [is_authorized : BOOLEAN, confidence : Confidences]

VARIABLES pc,        \* "idle", "calling", "returned" or "raised"
          attempt,
          calls,     \* chat completions requested
          outcome    \* the ValidationFindings, NULL until returned

vars == <<pc, attempt, calls, outcome>>

FastPathNegative == [is_authorized |-> FALSE, confidence |-> FastPathConfidence]
FallbackToUnauthorized == [is_authorized |-> FALSE, confidence |-> 0]

Init == pc = "idle" /\ attempt = 0 /\ calls = 0 /\ outcome = NULL

Return(findings) == pc' = "returned" /\ outcome' = findings

\* Only a definite "not found" is the no-document case: None goes to the LLM.
Invoke(extraction) ==
  /\ pc = "idle"
  /\ IF extraction = "not_found"
     THEN Return(FastPathNegative) /\ UNCHANGED attempt
     ELSE pc' = "calling" /\ attempt' = 1 /\ UNCHANGED outcome
  /\ UNCHANGED calls

Call == /\ pc = "calling"
        /\ calls' = calls + 1

\* Mutant: one attempt too many.
CallUnusableOffByOne ==
  /\ Call
  /\ IF attempt <= Attempts
     THEN attempt' = attempt + 1 /\ UNCHANGED <<pc, outcome>>
     ELSE Return(FallbackToUnauthorized) /\ UNCHANGED attempt

\* The call raised, came back empty, was not JSON or was rejected by the schema.
CallUnusable ==
  /\ Call
  /\ IF attempt < Attempts
     THEN attempt' = attempt + 1 /\ UNCHANGED <<pc, outcome>>
     ELSE Return(FallbackToUnauthorized) /\ UNCHANGED attempt

CallParsed ==
  /\ Call
  /\ \E findings \in ValidationFindings : Return(findings)
  /\ UNCHANGED attempt

\* JSON that is not an object: ValidationFindings(**payload) raises TypeError, which
\* neither except clause catches.
CallNotAnObject ==
  /\ Call
  /\ pc' = "raised"
  /\ UNCHANGED <<attempt, outcome>>

Next(extraction) ==
  \/ Invoke(extraction)
  \/ CallUnusable
  \/ CallParsed
  \/ CallNotAnObject

-----------------------------------------------------------------------------
TypeOK == /\ pc \in {"idle", "calling", "returned", "raised"}
          /\ attempt \in 0..Attempts
          /\ calls \in Nat
          /\ outcome \in ValidationFindings \cup {NULL}

\* At most Attempts calls are billed, and a definite "no document" costs none.
CallBudget(extraction) ==
  /\ calls <= Attempts
  /\ extraction = "not_found" => calls = 0
=============================================================================
