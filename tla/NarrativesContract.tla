-------------------------- MODULE NarrativesContract --------------------------
(***************************************************************************)
(* What a reader of gold.narratives and gold.judge_outcomes may rely on,   *)
(* whatever runs of the Layer 2 scripts are started, retried or killed: a  *)
(* text is stored with the verdict on it, by the sweep that made it, while *)
(* that sweep is at its key; a later verdict, and an outcome, is on a text *)
(* that was stored when the run that gives it began; and no run comes back *)
(* to a key it has left, or to any key after it ended.                     *)
(***************************************************************************)
CONSTANTS Combos,     \* the keys of the narratives
          Sweeps,     \* runs that make texts
          Judgings,   \* runs that judge the texts they have listed
          Rechecks,   \* runs that check once more the texts they have listed
          HISTORICAL, \* who made the texts that were there before
          NULL

VARIABLES text,     \* the text stored under each key
          checked,  \* the text that the stored verdict is on
          begun,    \* the runs that were started
          listed,   \* the texts that a judging or re-checking run has listed
          ahead,    \* the keys that a run may still write
          judged    \* the text that an outcome of a judging run is on

contractVars == <<text, checked, begun, listed, ahead, judged>>

Readers == Judgings \cup Rechecks

NoTexts == [c \in Combos |-> NULL]

Init ==
  /\ \E old \in SUBSET Combos :
       text = [c \in Combos |-> IF c \in old THEN <<HISTORICAL, c>> ELSE NULL]
  /\ checked = text
  /\ begun = {}
  /\ listed = [r \in Readers |-> NoTexts]
  /\ ahead = [p \in Sweeps \cup Readers |-> {}]
  /\ judged = [j \in Judgings |-> NoTexts]

Begin(p) == p \notin begun /\ begun' = begun \cup {p}

BeginSweep(s) ==
  /\ Begin(s)
  /\ ahead' = [ahead EXCEPT ![s] = Combos]
  /\ UNCHANGED <<text, checked, listed, judged>>

\* A reader lists the texts as they are.
List(r) ==
  /\ Begin(r)
  /\ listed' = [listed EXCEPT ![r] = text]
  /\ ahead' = [ahead EXCEPT ![r] = {c \in Combos : text[c] # NULL}]
  /\ UNCHANGED <<text, checked, judged>>

\* Or it cannot.
Refuse(r) == Begin(r) /\ UNCHANGED <<text, checked, listed, ahead, judged>>

\* A run may leave keys behind, for good; when it ends it leaves them all.
GoOn(p) == \E rest \in SUBSET ahead[p] : ahead' = [ahead EXCEPT ![p] = rest]

PassBy(p) == GoOn(p) /\ UNCHANGED <<text, checked, begun, listed, judged>>

Store(s, c) ==
  /\ c \in ahead[s] /\ GoOn(s)
  /\ text' = [text EXCEPT ![c] = <<s, c>>]
  /\ checked' = [checked EXCEPT ![c] = <<s, c>>]
  /\ UNCHANGED <<begun, listed, judged>>

Recheck(r, c) ==
  /\ c \in ahead[r] /\ GoOn(r)
  /\ checked' = [checked EXCEPT ![c] = listed[r][c]]
  /\ UNCHANGED <<text, begun, listed, judged>>

Judge(j, c) ==
  /\ c \in ahead[j] /\ GoOn(j)
  /\ judged' = [judged EXCEPT ![j][c] = listed[j][c]]
  /\ UNCHANGED <<text, checked, begun, listed>>

Next ==
  \/ \E s \in Sweeps : BeginSweep(s) \/ PassBy(s) \/ \E c \in Combos : Store(s, c)
  \/ \E r \in Rechecks : List(r) \/ Refuse(r) \/ PassBy(r) \/ \E c \in Combos : Recheck(r, c)
  \/ \E j \in Judgings : List(j) \/ Refuse(j) \/ PassBy(j) \/ \E c \in Combos : Judge(j, c)

Spec == Init /\ [][Next]_contractVars
=============================================================================
