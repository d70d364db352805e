----------------------------- MODULE MCBaseline -----------------------------
(* Two scopes, as the script has them: a rate change and a variance.  The     *)
(* current workpaper of each takes one of a few forms that the checks and the *)
(* tools tell apart; the others are fixed.  One revision of the rate-change   *)
(* workpaper may be ingested at any moment.                                   *)
EXTENDS Baseline, TLC

T(control, quarter) == [control |-> control, quarter |-> quarter]

Money(n) == [amount |-> n]
Rate(r) == [rate |-> r, no_prior |-> FALSE, says |-> Plain]
Signed == [dash |-> TRUE, strict |-> TRUE, says |-> Plain]
Hyphen == [dash |-> FALSE, strict |-> TRUE, says |-> Plain]

Filed == [Plain EXCEPT !.marker = TRUE]
NotFiled == [Filed EXCEPT !.denies = TRUE]
Lower == [Plain EXCEPT !.n_a_any_case = TRUE]
MentionsOne == [rate |-> NONE, no_prior |-> FALSE, says |-> Filed]
FirstPeriod == [rate |-> NONE, no_prior |-> TRUE, says |-> [Plain EXCEPT !.n_a = TRUE, !.n_a_any_case = TRUE]]

BillingSheet ==
  4 :> Signed @@ 5 :> Signed
  @@ 8 :> Money(1000) @@ 9 :> Rate(50) @@ 10 :> Money(5)
  @@ 13 :> Rate(25) @@ 14 :> Rate(50) @@ 16 :> Filed
  @@ 19 :> Money(900) @@ 20 :> Money(200) @@ 21 :> Money(100) @@ 22 :> Money(1000)

Row(above, explained, tied) ==
  [above |-> above, explained |-> explained, tied |-> tied]

VarianceSheet ==
  6 :> Money(70) @@ 7 :> [amount |-> 71, tie |-> TRUE] @@ 17 :> Signed
  @@ [i \in VarianceRows |-> Row(FALSE, FALSE, FALSE)]

Billing(hash, change) ==
  [file_hash |-> hash, rows |-> change @@ BillingSheet,
   shares |-> 26 :> 6000 @@ 27 :> 4000]
Variance(hash, change) ==
  [file_hash |-> hash, rows |-> change @@ VarianceSheet, shares |-> <<>>]

CurrentBilling ==
  { Billing(1, 16 :> Filed),
    Billing(2, 16 :> NotFiled),
    Billing(4, 16 :> Lower),
    Billing(5, 14 :> MentionsOne @@ 4 :> Hyphen) }

CurrentVariance ==
  { Variance(7, 12 :> Row(TRUE, TRUE, TRUE)),
    Variance(8, 12 :> Row(TRUE, FALSE, FALSE) @@ 14 :> Row(TRUE, TRUE, FALSE)) }

MCTriples == {T("DC-9", "Q1"), T("DC-9", "Q2"), T("DC-2", "Q3"), T("DC-2", "Q4")}

MCFirstBronze ==
  {[t \in MCTriples |->
      CASE t = T("DC-9", "Q2") -> {b} [] t = T("DC-2", "Q4") -> {v}
        [] t = T("DC-9", "Q1") -> {Billing(9, 13 :> FirstPeriod @@ 14 :> Rate(25))}
        [] t = T("DC-2", "Q3") -> {Variance(10, <<>>)}] :
     <<b, v>> \in {<<b, v>> \in CurrentBilling \X CurrentVariance :
                    (b.file_hash = 1) = (v.file_hash = 7)}}

MCRevisions ==
  [t \in MCTriples |->
     IF t = T("DC-9", "Q2") THEN {Billing(11, 14 :> Rate(25))} ELSE {}]

MCOrder == <<T("DC-9", "Q2"), T("DC-2", "Q4")>>

MCScopes ==
  << [run |-> "dc9d_Q2vQ1", control |-> "DC-9", quarter |-> "Q2", prior_quarter |-> "Q1"],
     [run |-> "dc2b_Q4vQ3", control |-> "DC-2", quarter |-> "Q4", prior_quarter |-> "Q3"] >>

MCRuns == {MCScopes[k].run : k \in DOMAIN MCScopes}
=============================================================================
