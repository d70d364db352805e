----------------------------- MODULE JobContract -----------------------------
(***************************************************************************)
(* What the asynchronous API promises of a job (POST /run, api/main.py and *)
(* api/worker.py), whatever pods, locks and retries stand behind it: a job *)
(* is accepted once, is tried at most MaxDelivery times, leaves the queue  *)
(* as completed only when its latest try has persisted its investigation,  *)
(* and is given up only when no try is left.  A try that was overtaken may *)
(* still persist its own investigation, even after the job was settled.    *)
(***************************************************************************)
EXTENDS Naturals

CONSTANTS Jobs, MaxDelivery

VARIABLES status,     \* "unsent", "pending", "completed" or "dead_letter"
          tries,      \* how often the job has been handed to a worker
          persisted   \* the tries whose investigation is in the gold layer

jobVars == <<status, tries, persisted>>

Init ==
  /\ status = [j \in Jobs |-> "unsent"]
  /\ tries = [j \in Jobs |-> 0]
  /\ persisted = [j \in Jobs |-> {}]

Accept(j) ==
  /\ status[j] = "unsent"
  /\ status' = [status EXCEPT ![j] = "pending"]
  /\ UNCHANGED <<tries, persisted>>

Try(j) ==
  /\ status[j] = "pending"
  /\ tries[j] < MaxDelivery
  /\ tries' = [tries EXCEPT ![j] = @ + 1]
  /\ UNCHANGED <<status, persisted>>

Persist(j) ==
  /\ \E n \in 1..tries[j] : persisted' = [persisted EXCEPT ![j] = @ \cup {n}]
  /\ UNCHANGED <<status, tries>>

Complete(j) ==
  /\ status[j] = "pending"
  /\ tries[j] \in persisted[j]
  /\ status' = [status EXCEPT ![j] = "completed"]
  /\ UNCHANGED <<tries, persisted>>

GiveUp(j) ==
  /\ status[j] = "pending"
  /\ tries[j] = MaxDelivery
  /\ status' = [status EXCEPT ![j] = "dead_letter"]
  /\ UNCHANGED <<tries, persisted>>

Next == \E j \in Jobs : Accept(j) \/ Try(j) \/ Persist(j) \/ Complete(j) \/ GiveUp(j)

Spec == Init /\ [][Next]_jobVars
=============================================================================
