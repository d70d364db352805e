-------------------------------- MODULE Judge --------------------------------
(***************************************************************************)
(* Judge.evaluate (layer2_narrative/judge.py), called once per narrative   *)
(* by each judge sweep: two attempts, then the "uncertain" answer.         *)
(***************************************************************************)
EXTENDS Naturals

CONSTANT Judgings   \* runs of scripts/run_judge_sweep.py, one judge and recorder each

VARIABLES
  judging,        \* the call of evaluate: "idle", "calling", "returned" or "raised"
  judge_attempt,  \* the loop "for attempt in (1, 2)"
  judge_billed    \* completions this call has billed so far, 0 outside a call

judgeVars == <<judging, judge_attempt, judge_billed>>

JudgeInit ==
  /\ judging = [j \in Judgings |-> "idle"]
  /\ judge_attempt = [j \in Judgings |-> 1]
  /\ judge_billed = [j \in Judgings |-> 0]

JudgeTo(j, to) == judging' = [judging EXCEPT ![j] = to]

Evaluate(j) ==
  /\ judging[j] = "idle"
  /\ JudgeTo(j, "calling")
  /\ UNCHANGED <<judge_attempt, judge_billed>>

\* The call is over, and its loop counter with it.
EvaluateEnds(j, how) ==
  /\ JudgeTo(j, how)
  /\ judge_attempt' = [judge_attempt EXCEPT ![j] = 1]
  /\ judge_billed' = [judge_billed EXCEPT ![j] = 0]

JudgeAgain(j) ==
  /\ judge_attempt[j] = 1
  /\ judge_attempt' = [judge_attempt EXCEPT ![j] = 2]
  /\ UNCHANGED judging

\* The completion raised, whatever the exception: retried, unbilled, or the fallback.
JudgementRaises(j) ==
  /\ judging[j] = "calling"
  /\ \/ JudgeAgain(j) /\ UNCHANGED judge_billed
     \/ judge_attempt[j] = 2 /\ EvaluateEnds(j, "returned")

\* Empty content, malformed JSON or an answer JudgeResponse rejects: the same, billed.
JudgementUnusable(j) ==
  /\ judging[j] = "calling"
  /\ \/ JudgeAgain(j) /\ judge_billed' = [judge_billed EXCEPT ![j] = @ + 1]
     \/ judge_attempt[j] = 2 /\ EvaluateEnds(j, "returned")

JudgementParsed(j) ==
  /\ judging[j] = "calling"
  /\ EvaluateEnds(j, "returned")

\* JSON that is not an object: JudgeResponse(**payload) raises TypeError, which no
\* except clause of the loop catches.
JudgementNotAnObject(j) ==
  /\ judging[j] = "calling"
  /\ EvaluateEnds(j, "raised")

JudgeCalls(j) ==
  \/ JudgementRaises(j)
  \/ JudgementUnusable(j)
  \/ JudgementParsed(j)
  \/ JudgementNotAnObject(j)

\* The judge sweep takes the response or catches the exception.
EvaluateTaken(j, how) ==
  /\ judging[j] = how
  /\ JudgeTo(j, "idle")
  /\ UNCHANGED <<judge_attempt, judge_billed>>
-----------------------------------------------------------------------------
JudgeTypeOK ==
  /\ judging \in [Judgings -> {"idle", "calling", "returned", "raised"}]
  /\ judge_attempt \in [Judgings -> 1..2]
  /\ judge_billed \in [Judgings -> Nat]
=============================================================================
