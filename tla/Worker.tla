------------------------------- MODULE Worker -------------------------------
(***************************************************************************)
(* The asynchronous path of one job (api/main.py, api/worker.py): POST     *)
(* /run puts it on the Service Bus queue, worker pods receive it under a   *)
(* peek-lock, run the investigation, and complete or abandon the message.  *)
(* Nobody renews the lock, so it may expire while the investigation is     *)
(* still running, and a second pod then works on the same job; a pod may   *)
(* die at any step.  The runs are GoldPersistence's: delivery n of job j   *)
(* is the run <<j, n>>.                                                    *)
(*                                                                         *)
(* The queue (lock, delivery count, dead-letter) is the broker's, modelled *)
(* from the calls worker.py makes and infra/loadtest/modules/servicebus.   *)
(***************************************************************************)
EXTENDS GoldPersistence

CONSTANTS Jobs,
          Pods,         \* worker replicas
          MaxDelivery,  \* max_delivery_count of the queue
          Scenarios,    \* scenario ids of the catalog
          NoPrior,      \* those of Q1: no prior quarter
          Ticks         \* millisecond readings that go into an agent_run_id

\* A delivery is a run, and its id is "loadtest-<scenario>-<ms>".
ASSUME RunsAssumption == Runs = Jobs \X (1..MaxDelivery)
ASSUME AgentRunIdsAssumption == AgentRunIds = Scenarios \X Ticks
ASSUME QueueAssumption == /\ MaxDelivery \in Nat \ {0}
                          /\ NoPrior \subseteq Scenarios
                          /\ NULL \notin Scenarios

VARIABLES
  queue,      \* what the broker does with each job's message
  scenario,   \* the job's scenario_id, NULL until posted
  delivery,   \* how often the message has been delivered
  pod_pc,     \* where each pod's loop body is
  token       \* the delivery whose lock token the pod holds, NULL if none

queueVars == <<queue, scenario, delivery>>
podVars == <<pod_pc, token>>
allVars == <<vars, queueVars, podVars>>

QueueStates == {"unsent", "active", "locked", "completed", "dead_letter"}
Settled == {"completed", "dead_letter"}
PodLocations == {"receiving", "processing", "investigating", "completing", "abandoning", "down"}

WorkerInit ==
  /\ Init
  /\ queue = [j \in Jobs |-> "unsent"]
  /\ scenario = [j \in Jobs |-> NULL]
  /\ delivery = [j \in Jobs |-> 0]
  /\ pod_pc = [p \in Pods |-> "receiving"]
  /\ token = [p \in Pods |-> NULL]

PodAt(p, from) == pod_pc[p] = from
PodTo(p, to) == pod_pc' = [pod_pc EXCEPT ![p] = to]
JobOf(p) == token[p][1]
DropToken(p) == token' = [token EXCEPT ![p] = NULL]
-----------------------------------------------------------------------------
(* The broker *)

\* POST /run with a known scenario: 202 once the message is on the queue.
Post(j, s) ==
  /\ queue[j] = "unsent"
  /\ queue' = [queue EXCEPT ![j] = "active"]
  /\ scenario' = [scenario EXCEPT ![j] = s]
  /\ UNCHANGED <<vars, delivery, podVars>>

\* Mutant: no dead-lettering.
ReleaseForever(j) == queue' = [queue EXCEPT ![j] = "active"]

\* A delivery that did not end in a completion: back to the queue, or dead-lettered.
Release(j) ==
  queue' = [queue EXCEPT ![j] = IF delivery[j] < MaxDelivery THEN "active" ELSE "dead_letter"]

\* Mutant: the lock of a pod that died is never reclaimed.
LockExpiresWhileHeld(j) ==
  /\ queue[j] = "locked"
  /\ \E p \in Pods : token[p] = <<j, delivery[j]>>
  /\ Release(j)
  /\ UNCHANGED <<vars, scenario, delivery, podVars>>

LockExpires(j) ==
  /\ queue[j] = "locked"
  /\ Release(j)
  /\ UNCHANGED <<vars, scenario, delivery, podVars>>

\* Mutant: a message is settled by its id, whoever holds the lock.
TokenValidByJob(p) == queue[JobOf(p)] = "locked"

\* A lock token is good for its own delivery, while that delivery holds the lock.
TokenValid(p) == queue[JobOf(p)] = "locked" /\ delivery[JobOf(p)] = token[p][2]
-----------------------------------------------------------------------------
(* The loop body of run_worker *)

Receive(p, j) ==
  /\ PodAt(p, "receiving")
  /\ queue[j] = "active"
  /\ queue' = [queue EXCEPT ![j] = "locked"]
  /\ delivery' = [delivery EXCEPT ![j] = @ + 1]
  /\ token' = [token EXCEPT ![p] = <<j, delivery[j] + 1>>]
  /\ PodTo(p, "processing")
  /\ UNCHANGED <<vars, scenario>>

\* RealPipeline.run raises before any investigation: always for a Q1 scenario, and
\* whenever one of the two silver reads fails.
ProcessFails(p) ==
  /\ PodAt(p, "processing")
  /\ PodTo(p, "abandoning")
  /\ UNCHANGED <<vars, queueVars, token>>

\* Mutant: no check for a prior quarter.
StartInvestigationAnyQuarter(p) ==
  /\ PodAt(p, "processing")
  /\ \E ms \in Ticks : Start(token[p], <<scenario[JobOf(p)], ms>>, Writers)
  /\ PodTo(p, "investigating")
  /\ UNCHANGED <<queueVars, token>>

\* Both writers are wired; the id is scenario and millisecond, not job.
StartInvestigation(p) ==
  /\ PodAt(p, "processing")
  /\ scenario[JobOf(p)] \notin NoPrior
  /\ \E ms \in Ticks : Start(token[p], <<scenario[JobOf(p)], ms>>, Writers)
  /\ PodTo(p, "investigating")
  /\ UNCHANGED <<queueVars, token>>

Investigate(p) ==
  /\ PodAt(p, "investigating")
  /\ RunStep(token[p])
  /\ UNCHANGED <<queueVars, podVars>>

\* Mutant: an investigation that raised is logged and the message completed.
InvestigationEndsAnyhow(p) ==
  /\ PodAt(p, "investigating")
  /\ stage[token[p]] \in {"returned", "raised"}
  /\ PodTo(p, "completing")
  /\ UNCHANGED <<vars, queueVars, token>>

InvestigationEnds(p) ==
  /\ PodAt(p, "investigating")
  /\ \/ stage[token[p]] = "returned" /\ PodTo(p, "completing")
     \/ stage[token[p]] = "raised" /\ PodTo(p, "abandoning")
  /\ UNCHANGED <<vars, queueVars, token>>

\* complete_message inside the try: when it raises (the lock is lost, or the
\* connection broke before or after the broker acted) the handler abandons.
Complete(p) ==
  /\ PodAt(p, "completing")
  /\ \/ /\ TokenValid(p)
        /\ queue' = [queue EXCEPT ![JobOf(p)] = "completed"]
        /\ \/ PodTo(p, "receiving") /\ DropToken(p)
           \/ PodTo(p, "abandoning") /\ UNCHANGED token
     \/ /\ PodTo(p, "abandoning")
        /\ UNCHANGED <<queue, token>>
  /\ UNCHANGED <<vars, scenario, delivery>>

\* Mutant: a message is released whoever holds its lock, settled or not.
AbandonAnyToken(p) ==
  /\ PodAt(p, "abandoning")
  /\ DropToken(p)
  /\ Release(JobOf(p))
  /\ PodTo(p, "receiving")
  /\ UNCHANGED <<vars, scenario, delivery>>

\* abandon_message in the handler: what it raises leaves the loop and the process.
Abandon(p) ==
  /\ PodAt(p, "abandoning")
  /\ DropToken(p)
  /\ \/ TokenValid(p) /\ Release(JobOf(p)) /\ (PodTo(p, "receiving") \/ PodTo(p, "down"))
     \/ UNCHANGED queue /\ PodTo(p, "down")
  /\ UNCHANGED <<vars, scenario, delivery>>

\* The receiver iterator gives up after max_wait_time without a message, and
\* run_worker returns.
IdleTimeout(p) ==
  /\ PodAt(p, "receiving")
  /\ \A j \in Jobs : queue[j] # "active"
  /\ PodTo(p, "down")
  /\ UNCHANGED <<vars, queueVars, token>>

\* The pod dies with a message in hand; its lock is left to expire.
PodCrash(p) ==
  /\ token[p] # NULL
  /\ PodTo(p, "down")
  /\ DropToken(p)
  /\ IF PodAt(p, "investigating") /\ stage[token[p]] \notin {"returned", "raised"}
     THEN Crash(token[p])
     ELSE UNCHANGED vars
  /\ UNCHANGED queueVars

PodRestart(p) ==
  /\ PodAt(p, "down")
  /\ PodTo(p, "receiving")
  /\ UNCHANGED <<vars, queueVars, token>>
-----------------------------------------------------------------------------
\* The steps a live pod must eventually take.
PodStep(p) ==
  \/ \E j \in Jobs : Receive(p, j)
  \/ ProcessFails(p)
  \/ StartInvestigation(p)
  \/ Investigate(p)
  \/ InvestigationEnds(p)
  \/ Complete(p)
  \/ Abandon(p)
  \/ PodRestart(p)

WorkerNext ==
  \/ \E j \in Jobs : (\E s \in Scenarios : Post(j, s)) \/ LockExpires(j)
  \/ \E p \in Pods : PodStep(p) \/ IdleTimeout(p) \/ PodCrash(p)

\* Pods run and are restarted by the orchestrator, and the broker's locks do expire;
\* nobody has to post a job, and no pod has to crash.
WorkerSpec ==
  /\ WorkerInit /\ [][WorkerNext]_allVars
  /\ \A p \in Pods : WF_allVars(PodStep(p))
  /\ \A j \in Jobs : WF_allVars(LockExpires(j))
-----------------------------------------------------------------------------
(* Properties *)

WorkerTypeOK ==
  /\ queue \in [Jobs -> QueueStates]
  /\ scenario \in [Jobs -> Scenarios \cup {NULL}]
  /\ delivery \in [Jobs -> 0..MaxDelivery]
  /\ pod_pc \in [Pods -> PodLocations]
  /\ token \in [Pods -> Runs \cup {NULL}]

\* A job leaves the queue as done only on the word of the delivery that held the
\* lock last, and that very delivery has its decision and a cost row in the gold
\* layer: a stale pod, a retry or a crash never completes a job for another.
CompletedJobIsDecided ==
  \A j \in Jobs : queue[j] = "completed" =>
    LET r == <<j, delivery[j]>> IN
      /\ stage[r] = "returned"
      /\ decision_rows[r] > 0
      /\ cost_rows[agent_run_id[r]] # NULL

\* A job whose scenario has no prior quarter is retried to no effect: it never
\* completes and never leaves a row.
PoisonJobNeverDecides ==
  \A j \in Jobs : scenario[j] \in NoPrior =>
    /\ queue[j] # "completed"
    /\ \A n \in 1..MaxDelivery : stage[<<j, n>>] = "idle"

\* Redelivery is bounded and settlement is final: a message is dead-lettered only
\* after its last delivery, and a pod with an old token can neither revive a settled
\* job nor take the lock from the pod that holds it now.
SettledForGood ==
  [][\A j \in Jobs :
       /\ queue[j] \in Settled => queue'[j] = queue[j]
       /\ queue'[j] = "dead_letter" => delivery[j] = MaxDelivery
       /\ queue[j] = "locked" /\ queue'[j] = "completed" =>
            \E p \in Pods : token[p] = <<j, delivery[j]>>]_allVars

\* Every posted job is eventually completed or dead-lettered, through crashes, lost
\* locks and worker exits.
EveryJobSettles == \A j \in Jobs : queue[j] = "active" ~> queue[j] \in Settled
-----------------------------------------------------------------------------
(* What the API promises of a job *)

\* Whoever asks for a job does not see the lock on its message ...
JobStatus == [j \in Jobs |-> IF queue[j] \in {"active", "locked"} THEN "pending" ELSE queue[j]]

\* ... and sees the decisions of its deliveries in the gold layer.
Persisted == [j \in Jobs |-> {n \in 1..MaxDelivery : decision_rows[<<j, n>>] > 0}]

Job == INSTANCE JobContract WITH status <- JobStatus, tries <- delivery, persisted <- Persisted

\* Queue, pods, retries and writers together keep the contract.
ImplementsJobContract == Job!Spec
=============================================================================
