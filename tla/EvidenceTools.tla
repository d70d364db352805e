---------------------------- MODULE EvidenceTools ----------------------------
(***************************************************************************)
(* The three tools of the Layer 3 extraction agent                         *)
(* (layer3_agents/tools.py), as operators on the evidence the supervisor   *)
(* has put into the agent's state: they are pure, so what an investigation *)
(* learns is a function of the two ExtractedEvidence records it started    *)
(* with and of the arguments the LLM chooses.  The engagement and control  *)
(* arguments route nothing and are left out; so are the fields that only   *)
(* format what another field decides.                                      *)
(***************************************************************************)
EXTENDS AttributeChecks

Quarters == {"Q1", "Q2", "Q3", "Q4"}

\* The current quarter is tried first.
ResolveEvidence(state, quarter) ==
  IF state.current.quarter = quarter THEN state.current
  ELSE IF state.prior.quarter = quarter THEN state.prior ELSE NONE

FindCheck(evidence, attribute) ==
  IF evidence = NONE THEN NONE
  ELSE IF attribute \in DOMAIN evidence.checks THEN evidence.checks[attribute] ELSE NONE

\* extracted_value: nothing, a dict, or the text of a sign-off, which is no number.
CoerceRate(value) ==
  IF value = NONE THEN NONE
  ELSE IF "current_rate" \in DOMAIN value THEN value.current_rate ELSE NONE

EmbeddedPriorRate(value) ==
  IF value = NONE THEN NONE
  ELSE IF "prior_rate" \in DOMAIN value THEN value.prior_rate ELSE NONE

RateOf(check) == IF check = NONE THEN NONE ELSE CoerceRate(check.value)

ReadBillingRate(state, quarter) ==
  [tool |-> "read_billing_rate",
   rate |-> RateOf(FindCheck(ResolveEvidence(state, quarter), "D"))]

DetectAmendmentInNotes(notes) ==
  IF notes = NONE THEN NONE ELSE IF notes.marker THEN notes ELSE NONE

IsRealAmendment(text) ==
  /\ text # NONE
  /\ ~text.blank
  /\ ~text.denies
  /\ ~text.n_a_any_case

RealOrNone(text) == IF IsRealAmendment(text) THEN text ELSE NONE

\* Mutant: the notes are scanned and the structured field is not read.
ResolveAmendmentFromNotes(check) == RealOrNone(DetectAmendmentInNotes(check.notes))

\* The structured field when Layer 1 filled it, else a scan of the notes.
ResolveAmendment(check) ==
  IF check.value # NONE /\ "amendment" \in DOMAIN check.value
    THEN RealOrNone(check.value.amendment)
    ELSE RealOrNone(DetectAmendmentInNotes(check.notes))

\* The prior quarter's own rate, else the one the current workpaper documents.
PriorRate(currentCheck, priorCheck) ==
  IF RateOf(priorCheck) # NONE \/ currentCheck = NONE THEN RateOf(priorCheck)
  ELSE EmbeddedPriorRate(currentCheck.value)

CompareBillingRates(state, currentQuarter, priorQuarter) ==
  LET currentCheck == FindCheck(ResolveEvidence(state, currentQuarter), "D")
      current == RateOf(currentCheck)
      prior   == PriorRate(currentCheck,
                           FindCheck(ResolveEvidence(state, priorQuarter), "D"))
      known   == current # NONE /\ prior # NONE
  IN  [tool |-> "compare_billing_rates",
       quarter |-> currentQuarter,
       current_rate |-> current,
       prior_rate |-> prior,
       delta |-> IF known THEN current - prior ELSE NONE,
       percent_change_known |-> IF known THEN prior > 0 ELSE FALSE,
       ima_amendment_found |-> IF currentCheck = NONE THEN FALSE
                               ELSE ResolveAmendment(currentCheck) # NONE]

\* Any note on the check counts as the explanation.
ReadReviewerComments(state, quarter, attribute) ==
  LET check == FindCheck(ResolveEvidence(state, quarter), attribute)
  IN  [tool |-> "read_reviewer_comments",
       quarter |-> quarter,
       attribute |-> attribute,
       variance_explanation_found |-> IF check = NONE THEN FALSE ELSE check.notes # NONE]

\* The calls an LLM can make: it may name any quarter and any attribute.
ToolResults(state) ==
  {ReadBillingRate(state, q) : q \in Quarters}
  \cup {CompareBillingRates(state, q, p) : q, p \in Quarters}
  \cup {ReadReviewerComments(state, q, a) : q \in Quarters, a \in Attributes("DC-9")}
=============================================================================
