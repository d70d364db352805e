-------------------------- MODULE NarrativeGenerator --------------------------
(***************************************************************************)
(* NarrativeGenerator.generate (layer2_narrative/generator.py), called once *)
(* per combination by each sweep: a word-limit retry around a retry of     *)
(* malformed JSON.  Unlike the Layer 3 narrative agent there is no          *)
(* fallback: whatever else goes wrong is raised to the sweep.              *)
(***************************************************************************)
EXTENDS Naturals

CONSTANT Sweeps   \* runs of scripts/run_layer2.py, one generator and recorder each

VARIABLES
  generating,     \* the call of generate: "idle", "calling", "returned" or "raised"
  word_attempt,   \* the word-limit loop: 1 or 2
  json_attempt,   \* the loop "for attempt in (1, 2)" of _invoke_llm
  billed          \* completions this call has billed so far, 0 outside a call

generatorVars == <<generating, word_attempt, json_attempt, billed>>

GeneratorInit ==
  /\ generating = [s \in Sweeps |-> "idle"]
  /\ word_attempt = [s \in Sweeps |-> 1]
  /\ json_attempt = [s \in Sweeps |-> 1]
  /\ billed = [s \in Sweeps |-> 0]

GeneratorTo(s, to) == generating' = [generating EXCEPT ![s] = to]

Generate(s) ==
  /\ generating[s] = "idle"
  /\ GeneratorTo(s, "calling")
  /\ UNCHANGED <<word_attempt, json_attempt, billed>>

\* The call is over, and its loop counters with it.
GenerateEnds(s, how) ==
  /\ GeneratorTo(s, how)
  /\ word_attempt' = [word_attempt EXCEPT ![s] = 1]
  /\ json_attempt' = [json_attempt EXCEPT ![s] = 1]
  /\ billed' = [billed EXCEPT ![s] = 0]

\* The call goes on after one more completion was recorded.
Bill(s) == billed' = [billed EXCEPT ![s] = @ + 1]

\* The completion raised, came back empty or was rejected by NarrativeResponse, or the
\* truncated text has no words: no retry.
CompletionRaises(s) ==
  /\ generating[s] = "calling"
  /\ GenerateEnds(s, "raised")

\* Mutant: malformed JSON is retried for as long as it takes.
CompletionMalformedForever(s) ==
  /\ generating[s] = "calling"
  /\ Bill(s)
  /\ UNCHANGED <<generating, word_attempt, json_attempt>>

CompletionMalformed(s) ==
  /\ generating[s] = "calling"
  /\ IF json_attempt[s] = 1
     THEN /\ Bill(s)
          /\ json_attempt' = [json_attempt EXCEPT ![s] = 2]
          /\ UNCHANGED <<generating, word_attempt>>
     ELSE GenerateEnds(s, "raised")

CompletionTooLong(s) ==
  /\ generating[s] = "calling"
  /\ word_attempt[s] = 1
  /\ Bill(s)
  /\ word_attempt' = [word_attempt EXCEPT ![s] = 2]
  /\ json_attempt' = [json_attempt EXCEPT ![s] = 1]
  /\ UNCHANGED generating

\* Within the limit by the count the LLM reports, or over it twice and truncated.
CompletionAccepted(s) ==
  /\ generating[s] = "calling"
  /\ GenerateEnds(s, "returned")

GeneratorCalls(s) ==
  \/ CompletionRaises(s)
  \/ CompletionMalformed(s)
  \/ CompletionTooLong(s)
  \/ CompletionAccepted(s)

\* The sweep takes the result or catches the exception.
GenerateTaken(s, how) ==
  /\ generating[s] = how
  /\ GeneratorTo(s, "idle")
  /\ UNCHANGED <<word_attempt, json_attempt, billed>>
-----------------------------------------------------------------------------
GeneratorTypeOK ==
  /\ generating \in [Sweeps -> {"idle", "calling", "returned", "raised"}]
  /\ word_attempt \in [Sweeps -> 1..2]
  /\ json_attempt \in [Sweeps -> 1..2]
  /\ billed \in [Sweeps -> Nat]
=============================================================================
