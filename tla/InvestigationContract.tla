------------------------ MODULE InvestigationContract ------------------------
(***************************************************************************)
(* What one call of run_investigation promises to whoever reads the gold   *)
(* table: while the investigation is open it collects two independent      *)
(* approvals, the agents' confidence and the judge's; an automatic verdict *)
(* ("pass" or "fail") needs both, anything else is handed to a human as    *)
(* "uncertain"; a failure leaves no verdict; and what was decided is never *)
(* revised.                                                                *)
(***************************************************************************)
EXTENDS Naturals

VARIABLES phase,      \* "open", then "decided" or "failed" for good
          verdict,    \* "none" until decided
          confident,  \* validation confidence has reached the threshold
          approved    \* the judge has answered "pass"

vars == <<phase, verdict, confident, approved>>

Verdicts == {"pass", "fail", "uncertain"}

Init == /\ phase = "open"
        /\ verdict = "none"
        /\ confident = FALSE
        /\ approved = FALSE

GainConfidence == /\ phase = "open"
                  /\ ~confident
                  /\ confident' = TRUE
                  /\ UNCHANGED <<phase, verdict, approved>>

GainApproval == /\ phase = "open"
                /\ ~approved
                /\ approved' = TRUE
                /\ UNCHANGED <<phase, verdict, confident>>

Decide(v) == /\ phase = "open"
             /\ v # "uncertain" <=> (confident /\ approved)
             /\ phase' = "decided"
             /\ verdict' = v
             /\ UNCHANGED <<confident, approved>>

Fail == /\ phase = "open"
        /\ phase' = "failed"
        /\ UNCHANGED <<verdict, confident, approved>>

Next == \/ GainConfidence
        \/ GainApproval
        \/ \E v \in Verdicts : Decide(v)
        \/ Fail

Spec == Init /\ [][Next]_vars
=============================================================================
