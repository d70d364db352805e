--------------------------- MODULE NarrativeAgent ---------------------------
(***************************************************************************)
(* NarrativeAgent.invoke (layer3_agents/narrative_agent.py): three nested  *)
(* two-attempt loops.  The outermost repeats an ungrounded narrative once  *)
(* with the fact-check issues, the middle one an over-long narrative once  *)
(* (then truncates), the innermost an unparsable completion once.  Running *)
(* out of attempts yields the ESCALATE fallback.                           *)
(***************************************************************************)
EXTENDS Naturals

CONSTANT NULL

Recommendations == {"ACCEPT", "ESCALATE"}
LlmNarratives == [recommendation : Recommendations, origin : {"llm"}]

\* What the properties tell apart in a parsed payload: more than WORD_LIMIT words,
\* accepted by ExceptionNarrative once the count is fixed, and grounded in the
\* evidence as far as the fact check of the (possibly truncated) text can tell.
Payloads == [over_limit : BOOLEAN, well_formed : BOOLEAN, grounded : BOOLEAN,
             recommendation : Recommendations]

VARIABLES pc,            \* "idle", "calling", "returned" or "raised"
          fact_attempt, word_attempt, json_attempt,
          calls,         \* chat completions requested
          checked,       \* history: the payload of the narrative returned, else NULL
          outcome        \* the narrative, NULL until returned

attempts == <<fact_attempt, word_attempt, json_attempt>>
vars == <<pc, attempts, calls, checked, outcome>>

FallbackEscalate == [recommendation |-> "ESCALATE", origin |-> "fallback"]

Init == /\ pc = "idle"
        /\ fact_attempt = 1 /\ word_attempt = 1 /\ json_attempt = 1
        /\ calls = 0
        /\ checked = NULL
        /\ outcome = NULL

Invoke == /\ pc = "idle"
          /\ pc' = "calling"
          /\ UNCHANGED <<attempts, calls, checked, outcome>>

Call == /\ pc = "calling"
        /\ calls' = calls + 1

FallBack == /\ pc' = "returned"
            /\ outcome' = FallbackEscalate
            /\ UNCHANGED <<attempts, checked>>

\* Empty content or JSONDecodeError.
CallUnusable ==
  /\ Call
  /\ \/ /\ json_attempt = 1
        /\ json_attempt' = 2
        /\ UNCHANGED <<pc, fact_attempt, word_attempt, checked, outcome>>
     \/ /\ json_attempt = 2
        /\ FallBack

RetryShorter(p) ==
  /\ p.over_limit /\ word_attempt = 1
  /\ word_attempt' = 2
  /\ json_attempt' = 1
  /\ UNCHANGED <<pc, fact_attempt, checked, outcome>>

\* Short enough, or truncated: from here on the narrative is built and fact-checked.
Settled(p) == ~p.over_limit \/ word_attempt = 2

RejectedBySchema(p) == Settled(p) /\ ~p.well_formed /\ FallBack

\* Mutant: the retried narrative is returned without a second fact check.
ReturnUncheckedRetry(p) ==
  /\ Settled(p) /\ p.well_formed /\ (p.grounded \/ fact_attempt = 2)
  /\ pc' = "returned"
  /\ outcome' = [recommendation |-> p.recommendation, origin |-> "llm"]
  /\ checked' = p
  /\ UNCHANGED attempts

ReturnGrounded(p) ==
  /\ Settled(p) /\ p.well_formed /\ p.grounded
  /\ pc' = "returned"
  /\ outcome' = [recommendation |-> p.recommendation, origin |-> "llm"]
  /\ checked' = p
  /\ UNCHANGED attempts

\* Mutant: an ungrounded narrative is retried without counting the attempt.
FactCheckFailsUncounted(p) ==
  /\ Settled(p) /\ p.well_formed /\ ~p.grounded
  /\ word_attempt' = 1
  /\ json_attempt' = 1
  /\ UNCHANGED <<pc, fact_attempt, checked, outcome>>

FactCheckFails(p) ==
  /\ Settled(p) /\ p.well_formed /\ ~p.grounded
  /\ \/ /\ fact_attempt = 1
        /\ fact_attempt' = 2
        /\ word_attempt' = 1
        /\ json_attempt' = 1
        /\ UNCHANGED <<pc, checked, outcome>>
     \/ /\ fact_attempt = 2
        /\ FallBack

CallParsed ==
  /\ Call
  /\ \E p \in Payloads : \/ RetryShorter(p)
                         \/ RejectedBySchema(p)
                         \/ ReturnGrounded(p)
                         \/ FactCheckFails(p)

\* Neither an error of chat.completions.create nor the AttributeError of a payload
\* whose narrative_text is not a string is caught anywhere in the agent.
CallEscapes ==
  /\ Call
  /\ pc' = "raised"
  /\ UNCHANGED <<attempts, checked, outcome>>

Next == Invoke \/ CallUnusable \/ CallParsed \/ CallEscapes

Spec == Init /\ [][Next]_vars

-----------------------------------------------------------------------------
TypeOK == /\ pc \in {"idle", "calling", "returned", "raised"}
          /\ fact_attempt \in 1..2 /\ word_attempt \in 1..2 /\ json_attempt \in 1..2
          /\ calls \in Nat
          /\ checked \in Payloads \cup {NULL}
          /\ outcome \in LlmNarratives \cup {FallbackEscalate, NULL}

\* The three nested retries never multiply beyond eight calls.
CallBudget == calls <= 8

\* Text that failed the fact check, or that the schema rejected, never leaves the
\* agent as a narrative, on whichever attempt it was produced; and ACCEPT is only
\* ever the LLM's own recommendation.
OnlyGroundedTextLeaves ==
  outcome # NULL =>
    IF outcome.origin = "llm"
    THEN /\ checked # NULL
         /\ checked.grounded /\ checked.well_formed
         /\ checked.recommendation = outcome.recommendation
    ELSE outcome.recommendation = "ESCALATE"
=============================================================================
