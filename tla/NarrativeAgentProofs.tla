------------------------ MODULE NarrativeAgentProofs ------------------------
(***************************************************************************)
(* Proofs about NarrativeAgent: the nested retries bill at most eight      *)
(* calls, and only grounded text leaves the agent.                         *)
(***************************************************************************)
EXTENDS NarrativeAgent, Integers, TLAPS

\* Calls that the three attempt counters account for: each is a digit to the base
\* two, and every call that leaves the agent running increments the number.
CallsBehind == 4 * (fact_attempt - 1) + 2 * (word_attempt - 1) + (json_attempt - 1)

\* While the agent is running, the calls made never exceed what the counters say.
BudgetInv == /\ pc \in {"idle", "calling"} => calls <= CallsBehind
             /\ pc \in {"returned", "raised"} => calls <= 8

Inv == TypeOK /\ BudgetInv

\* Initially no attempt and no call has been made.
LEMMA InitInv == Init => Inv
BY DEF Init, Inv, TypeOK, BudgetInv, CallsBehind

\* Invoking the agent makes no call.
LEMMA InvokeKeeps == Inv /\ Invoke => Inv'
BY DEF Inv, TypeOK, BudgetInv, CallsBehind, Invoke, attempts

\* A call that ends the agent is at most the eighth.
LEMMA LastCall ==
  ASSUME Inv, Call, pc' \in {"returned", "raised"}, UNCHANGED attempts,
         checked' \in Payloads \cup {NULL},
         outcome' \in LlmNarratives \cup {FallbackEscalate, NULL}
  PROVE  Inv'
<1>1. calls' = calls + 1 /\ calls <= CallsBehind
  BY DEF Call, Inv, BudgetInv
<1>2. calls' \in Nat /\ calls' <= 8
  BY <1>1 DEF Inv, TypeOK, CallsBehind
<1>. QED
  BY <1>2 DEF Inv, TypeOK, BudgetInv, attempts

\* A call that leaves the agent running is one the counters now account for.
LEMMA RepeatedCall ==
  ASSUME Inv, Call, pc' = pc, UNCHANGED <<checked, outcome>>,
         fact_attempt' \in 1..2, word_attempt' \in 1..2, json_attempt' \in 1..2,
         CallsBehind' >= CallsBehind + 1
  PROVE  Inv'
<1>1. /\ pc = "calling" /\ calls \in Nat /\ calls <= CallsBehind
      /\ calls' = calls + 1
  BY DEF Call, Inv, TypeOK, BudgetInv
<1>2. CallsBehind \in Int /\ CallsBehind' \in Int
  BY DEF Inv, TypeOK, CallsBehind
<1>3. calls' <= CallsBehind'
  BY <1>1, <1>2
<1>. QED
  BY <1>1, <1>3 DEF Inv, TypeOK, BudgetInv

\* The fallback is a last call.
LEMMA FallBackKeeps == ASSUME Inv, Call, FallBack PROVE Inv'
BY LastCall DEF FallBack, Inv, TypeOK

\* Every step keeps the types and the budget.
LEMMA NextInv == Inv /\ [Next]_vars => Inv'
<1>. SUFFICES ASSUME Inv, [Next]_vars PROVE Inv'
  OBVIOUS
<1>1. CASE Invoke
  BY <1>1, InvokeKeeps
<1>2. CASE CallUnusable
  <2>1. CASE FallBack
    BY <1>2, <2>1, FallBackKeeps DEF CallUnusable
  <2>2. CASE /\ json_attempt = 1 /\ json_attempt' = 2
             /\ UNCHANGED <<pc, fact_attempt, word_attempt, checked, outcome>>
    <3>1. CallsBehind' >= CallsBehind + 1
      BY <2>2 DEF CallsBehind, Inv, TypeOK
    <3>. QED
      BY <1>2, <2>2, <3>1, RepeatedCall DEF CallUnusable, Inv, TypeOK
  <2>. QED
    BY <1>2, <2>1, <2>2 DEF CallUnusable
<1>3. CASE CallParsed
  <2>1. Call
    BY <1>3 DEF CallParsed
  <2>2. ASSUME NEW p \in Payloads, RetryShorter(p) PROVE Inv'
    <3>1. CallsBehind' >= CallsBehind + 1
      BY <2>2 DEF RetryShorter, CallsBehind, Inv, TypeOK
    <3>. QED
      BY <2>1, <2>2, <3>1, RepeatedCall DEF RetryShorter, Inv, TypeOK
  <2>3. ASSUME NEW p \in Payloads, RejectedBySchema(p) PROVE Inv'
    BY <2>1, <2>3, FallBackKeeps DEF RejectedBySchema
  <2>4. ASSUME NEW p \in Payloads, ReturnGrounded(p) PROVE Inv'
    <3>1. outcome' \in LlmNarratives
      BY <2>4 DEF ReturnGrounded, LlmNarratives, Payloads
    <3>. QED
      BY <2>1, <2>4, <3>1, LastCall DEF ReturnGrounded
  <2>5. ASSUME NEW p \in Payloads, FactCheckFails(p) PROVE Inv'
    <3>1. CASE FallBack
      BY <2>1, <3>1, FallBackKeeps
    <3>2. CASE /\ fact_attempt = 1 /\ fact_attempt' = 2 /\ word_attempt' = 1
               /\ json_attempt' = 1 /\ UNCHANGED <<pc, checked, outcome>>
      <4>1. CallsBehind' >= CallsBehind + 1
        BY <3>2 DEF CallsBehind, Inv, TypeOK
      <4>. QED
        BY <2>1, <3>2, <4>1, RepeatedCall DEF Inv, TypeOK
    <3>. QED
      BY <2>5, <3>1, <3>2 DEF FactCheckFails
  <2>. QED
    BY <1>3, <2>2, <2>3, <2>4, <2>5 DEF CallParsed
<1>4. CASE CallEscapes
  BY <1>4, LastCall DEF CallEscapes, Inv, TypeOK
<1>5. CASE UNCHANGED vars
  BY <1>5 DEF vars, attempts, Inv, TypeOK, BudgetInv, CallsBehind
<1>. QED
  BY <1>1, <1>2, <1>3, <1>4, <1>5 DEF Next

-----------------------------------------------------------------------------
\* However the completions fail, one invocation of the narrative agent asks for at
\* most eight of them (twice what its docstring says, see the README).
THEOREM NarrativeBudget == Spec => []CallBudget
<1>1. Inv => CallBudget
  BY DEF Inv, TypeOK, BudgetInv, CallsBehind, CallBudget
<1>. QED
  BY <1>1, InitInv, NextInv, PTL DEF Spec

\* A step that sets a narrative sets the checked payload it was made from.
LEMMA NextGrounded ==
  ASSUME NULL \notin Payloads, OnlyGroundedTextLeaves, [Next]_vars
  PROVE  OnlyGroundedTextLeaves'
<1>1. CASE UNCHANGED <<checked, outcome>>
  BY <1>1 DEF OnlyGroundedTextLeaves
<1>2. CASE FallBack
  BY <1>2 DEF FallBack, FallbackEscalate, OnlyGroundedTextLeaves
<1>3. ASSUME NEW p \in Payloads, ReturnGrounded(p)
      PROVE  OnlyGroundedTextLeaves'
  BY <1>3 DEF ReturnGrounded, OnlyGroundedTextLeaves
<1>. QED
  BY <1>1, <1>2, <1>3
     DEF Next, Invoke, CallUnusable, CallParsed, CallEscapes, RetryShorter,
         RejectedBySchema, FactCheckFails, vars

\* Text that failed the fact check or the schema never leaves the agent, on no
\* attempt, provided only that the absent value is not a payload.
THEOREM OnlyGrounded ==
  ASSUME NULL \notin Payloads
  PROVE  Spec => []OnlyGroundedTextLeaves
<1>1. Init => OnlyGroundedTextLeaves
  BY DEF Init, OnlyGroundedTextLeaves
<1>. QED
  BY <1>1, NextGrounded, PTL DEF Spec
=============================================================================
