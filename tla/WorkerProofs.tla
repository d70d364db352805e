---------------------------- MODULE WorkerProofs ----------------------------
(***************************************************************************)
(* Proofs about the job queue and its workers, for every number of jobs,   *)
(* pods and deliveries.  Every step of a pod is a step of GoldPersistence  *)
(* or leaves its variables alone, so that module's invariant is reused.    *)
(* The rest says what a pod that holds a token knows (PodInv), what the    *)
(* state of a message says about its deliveries (QueueInv), and what a run *)
(* that was started had before it (RunInv).                                *)
(***************************************************************************)
EXTENDS Worker, GoldPersistenceProofs

Holding == {"processing", "investigating", "completing", "abandoning"}

PodInv(p) ==
  /\ token[p] # NULL <=> pod_pc[p] \in Holding
  /\ token[p] # NULL => token[p][2] <= delivery[token[p][1]]
  /\ pod_pc[p] = "completing" => stage[token[p]] = "returned"

QueueInv(j) ==
  /\ scenario[j] = NULL <=> queue[j] = "unsent"
  /\ queue[j] = "unsent" => delivery[j] = 0
  /\ queue[j] = "active" => delivery[j] < MaxDelivery
  /\ queue[j] = "dead_letter" => delivery[j] = MaxDelivery
  /\ queue[j] \in {"locked", "completed"} => delivery[j] >= 1
  /\ queue[j] = "completed" => stage[<<j, delivery[j]>>] = "returned"

RunInv(r) ==
  stage[r] # "idle" => /\ r[2] <= delivery[r[1]]
                       /\ scenario[r[1]] \notin NoPrior
                       /\ writers[r] = Writers

TokensDiffer == \A p, q \in Pods : p # q /\ token[p] # NULL => token[p] # token[q]

QueueSideInv ==
  /\ WorkerTypeOK
  /\ \A p \in Pods : PodInv(p)
  /\ \A j \in Jobs : QueueInv(j)
  /\ \A r \in Runs : RunInv(r)
  /\ TokensDiffer

WorkerInv == Inv /\ QueueSideInv

-----------------------------------------------------------------------------
\* A delivery is a pair of a job and a number.
LEMMA DeliveryForms ==
  /\ MaxDelivery \in Nat \ {0} /\ NULL \notin Runs /\ NULL \notin Scenarios
  /\ NoPrior \subseteq Scenarios
  /\ \A r \in Runs : r[1] \in Jobs /\ r[2] \in 1..MaxDelivery /\ r = <<r[1], r[2]>>
  /\ \A j \in Jobs, n \in 1..MaxDelivery : <<j, n>> \in Runs
BY QueueAssumption, RunsAssumption, NullAssumption

\* What a pod with a token can rely on.
LEMMA HeldToken ==
  ASSUME QueueSideInv, NEW p \in Pods, pod_pc[p] \in Holding
  PROVE  /\ token[p] \in Runs /\ JobOf(p) \in Jobs
         /\ token[p] = <<JobOf(p), token[p][2]>>
         /\ token[p][2] \in 1..MaxDelivery /\ token[p][2] <= delivery[JobOf(p)]
         /\ queue[JobOf(p)] # "unsent" /\ scenario[JobOf(p)] \in Scenarios
<1>1. token[p] \in Runs /\ token[p] # NULL
  BY DEF QueueSideInv, WorkerTypeOK, PodInv
<1>2. /\ JobOf(p) \in Jobs /\ token[p] = <<JobOf(p), token[p][2]>>
      /\ token[p][2] \in 1..MaxDelivery
  BY <1>1, DeliveryForms DEF JobOf
<1>3. token[p][2] <= delivery[JobOf(p)] /\ delivery[JobOf(p)] \in Nat
  BY <1>1, <1>2, DeliveryForms DEF QueueSideInv, WorkerTypeOK, PodInv, JobOf
<1>4. queue[JobOf(p)] # "unsent"
  <2>1. token[p][2] \in Nat /\ token[p][2] >= 1
    BY <1>2, DeliveryForms
  <2>2. delivery[JobOf(p)] # 0
    BY <1>3, <2>1
  <2> QED  BY <1>2, <2>2 DEF QueueSideInv, QueueInv
<1>5. scenario[JobOf(p)] \in Scenarios
  BY <1>2, <1>4 DEF QueueSideInv, QueueInv, WorkerTypeOK
<1> QED  BY <1>1, <1>2, <1>3, <1>4, <1>5

\* A step of a run or its crash starts nothing and changes no writers; what has
\* returned stays returned.
LEMMA RunStepFrame ==
  ASSUME Inv, NEW s \in Runs, RunStep(s) \/ Crash(s)
  PROVE  /\ writers' = writers
         /\ \A r \in Runs : /\ stage'[r] # "idle" => stage[r] # "idle"
                            /\ stage[r] = "returned" => stage'[r] = "returned"
<1>1. writers' = writers
  BY DEF RunStep, Crash, GraphReturns, GraphRaises, WriteCost, WriteDecision
<1>2. stage[s] \in {"graph", "write_cost", "write_decision"}
  BY DEF RunStep, Crash, GraphReturns, GraphRaises, WriteCost, WriteDecision
<1>3. \A u \in Runs \ {s} : stage'[u] = stage[u]
  BY DEF RunStep, Crash, GraphReturns, GraphRaises, WriteCost, WriteDecision,
         Acknowledged, AttemptFails, MoveTo, Inv, TypeOK
<1> QED  BY <1>1, <1>2, <1>3

LEMMA WorkerStarts == WorkerInit => WorkerInv
<1> SUFFICES ASSUME WorkerInit PROVE WorkerInv
  OBVIOUS
<1>1. Inv
  BY InitInv DEF WorkerInit
<1>2. WorkerTypeOK
  BY DeliveryForms DEF WorkerInit, WorkerTypeOK, QueueStates, PodLocations
<1>3. \A p \in Pods : PodInv(p)
  BY DEF WorkerInit, PodInv, Holding
<1>4. \A j \in Jobs : QueueInv(j)
  BY DEF WorkerInit, QueueInv
<1>5. \A r \in Runs : RunInv(r)
  BY DEF WorkerInit, Init, RunInv
<1>6. TokensDiffer
  BY DEF WorkerInit, TokensDiffer
<1> QED  BY <1>1, <1>2, <1>3, <1>4, <1>5, <1>6 DEF WorkerInv, QueueSideInv

-----------------------------------------------------------------------------
(* The broker *)

LEMMA PostKeeps ==
  ASSUME QueueSideInv, NEW j \in Jobs, NEW s \in Scenarios, Post(j, s)
  PROVE  QueueSideInv'
<1>1. /\ queue[j] = "unsent" /\ delivery[j] = 0 /\ scenario[j] = NULL
      /\ queue' = [queue EXCEPT ![j] = "active"]
      /\ scenario' = [scenario EXCEPT ![j] = s]
      /\ UNCHANGED <<stage, writers, delivery, pod_pc, token>>
  BY DEF Post, vars, podVars, QueueSideInv, QueueInv
<1>2. WorkerTypeOK'
  BY <1>1 DEF QueueSideInv, WorkerTypeOK, QueueStates
<1>3. \A p \in Pods : PodInv(p)'
  BY <1>1 DEF QueueSideInv, PodInv
<1>4. \A k \in Jobs : QueueInv(k)'
  BY <1>1, DeliveryForms DEF QueueSideInv, QueueInv, WorkerTypeOK
<1>5. \A r \in Runs : RunInv(r)'
  <2> SUFFICES ASSUME NEW r \in Runs, stage[r] # "idle"
               PROVE  /\ r[2] <= delivery[r[1]]
                      /\ scenario'[r[1]] \notin NoPrior
                      /\ writers[r] = Writers
    BY <1>1 DEF RunInv
  <2>1. /\ r[2] <= delivery[r[1]] /\ scenario[r[1]] \notin NoPrior /\ writers[r] = Writers
        /\ r[1] \in Jobs /\ r[2] \in 1..MaxDelivery
    BY DeliveryForms DEF QueueSideInv, RunInv
  <2>2. r[1] # j
    BY <1>1, <2>1
  <2> QED  BY <1>1, <2>1, <2>2 DEF QueueSideInv, WorkerTypeOK
<1>6. TokensDiffer'
  BY <1>1 DEF QueueSideInv, TokensDiffer
<1> QED  BY <1>2, <1>3, <1>4, <1>5, <1>6 DEF QueueSideInv

\* A message that is locked may go back, be dead-lettered or be completed, the last
\* on a returned delivery; pods may change their place and drop their tokens.
LEMMA SettleKeeps ==
  ASSUME QueueSideInv, UNCHANGED <<stage, writers, scenario, delivery>>,
         NEW j \in Jobs, queue' \in [Jobs -> QueueStates],
         \A k \in Jobs \ {j} : queue'[k] = queue[k],
         \/ queue'[j] = queue[j]
         \/ /\ queue[j] = "locked"
            /\ \/ queue'[j] = "active" /\ delivery[j] < MaxDelivery
               \/ queue'[j] = "dead_letter" /\ delivery[j] = MaxDelivery
               \/ queue'[j] = "completed" /\ stage[<<j, delivery[j]>>] = "returned",
         pod_pc' \in [Pods -> PodLocations], token' \in [Pods -> Runs \cup {NULL}],
         \A p \in Pods : /\ token'[p] \in {token[p], NULL}
                         /\ token'[p] # NULL <=> pod_pc'[p] \in Holding
                         /\ pod_pc'[p] = "completing" => stage[token'[p]] = "returned"
  PROVE  QueueSideInv'
<1>1. WorkerTypeOK'
  BY DEF QueueSideInv, WorkerTypeOK
<1>2. \A p \in Pods : PodInv(p)'
  BY DEF QueueSideInv, PodInv
<1>3. \A k \in Jobs : QueueInv(k)'
  BY DEF QueueSideInv, QueueInv
<1>4. \A r \in Runs : RunInv(r)'
  BY DEF QueueSideInv, RunInv
<1>5. TokensDiffer'
  BY DEF QueueSideInv, TokensDiffer
<1> QED  BY <1>1, <1>2, <1>3, <1>4, <1>5 DEF QueueSideInv

LEMMA LockExpiresKeeps ==
  ASSUME QueueSideInv, NEW j \in Jobs, LockExpires(j)
  PROVE  QueueSideInv'
<1>1. /\ queue[j] = "locked" /\ UNCHANGED <<stage, writers, scenario, delivery, pod_pc, token>>
      /\ queue' = [queue EXCEPT ![j] = IF delivery[j] < MaxDelivery THEN "active" ELSE "dead_letter"]
  BY DEF LockExpires, Release, vars, podVars
<1>2. /\ queue' \in [Jobs -> QueueStates]
      /\ \A k \in Jobs \ {j} : queue'[k] = queue[k]
      /\ \/ queue'[j] = "active" /\ delivery[j] < MaxDelivery
         \/ queue'[j] = "dead_letter" /\ delivery[j] = MaxDelivery
  BY <1>1, DeliveryForms DEF QueueSideInv, WorkerTypeOK, QueueStates
<1>3. /\ pod_pc' \in [Pods -> PodLocations] /\ token' \in [Pods -> Runs \cup {NULL}]
      /\ \A p \in Pods : /\ token'[p] \in {token[p], NULL}
                         /\ token'[p] # NULL <=> pod_pc'[p] \in Holding
                         /\ pod_pc'[p] = "completing" => stage[token'[p]] = "returned"
  BY <1>1 DEF QueueSideInv, WorkerTypeOK, PodInv
<1> QED  BY <1>1, <1>2, <1>3, SettleKeeps

-----------------------------------------------------------------------------
(* The pods *)

LEMMA ReceiveKeeps ==
  ASSUME QueueSideInv, NEW p \in Pods, NEW j \in Jobs, Receive(p, j)
  PROVE  QueueSideInv'
<1>1. /\ pod_pc[p] = "receiving" /\ queue[j] = "active"
      /\ queue' = [queue EXCEPT ![j] = "locked"]
      /\ delivery' = [delivery EXCEPT ![j] = @ + 1]
      /\ token' = [token EXCEPT ![p] = <<j, delivery[j] + 1>>]
      /\ pod_pc' = [pod_pc EXCEPT ![p] = "processing"]
      /\ UNCHANGED <<stage, writers, scenario>>
  BY DEF Receive, PodAt, PodTo, vars
<1>2. delivery[j] \in Nat /\ delivery[j] < MaxDelivery /\ delivery[j] + 1 \in 1..MaxDelivery
  <2>1. delivery[j] \in 0..MaxDelivery /\ MaxDelivery \in Nat
    BY DeliveryForms DEF QueueSideInv, WorkerTypeOK
  <2>2. delivery[j] < MaxDelivery
    BY <1>1 DEF QueueSideInv, QueueInv
  <2> QED  BY <2>1, <2>2
<1>3. /\ <<j, delivery[j] + 1>> \in Runs /\ <<j, delivery[j] + 1>> # NULL
      /\ <<j, delivery[j] + 1>>[1] = j /\ <<j, delivery[j] + 1>>[2] = delivery[j] + 1
  BY <1>2, DeliveryForms
<1>4. \A k \in Jobs : /\ delivery[k] \in Nat /\ delivery'[k] \in Nat /\ delivery[k] <= delivery'[k]
                      /\ k # j => delivery'[k] = delivery[k]
  BY <1>1, <1>2, DeliveryForms DEF QueueSideInv, WorkerTypeOK
<1>5. WorkerTypeOK'
  BY <1>1, <1>2, <1>3 DEF QueueSideInv, WorkerTypeOK, QueueStates, PodLocations
<1>6. \A q \in Pods : PodInv(q)'
  <2> SUFFICES ASSUME NEW q \in Pods
               PROVE  /\ token'[q] # NULL <=> pod_pc'[q] \in Holding
                      /\ token'[q] # NULL => token'[q][2] <= delivery'[token'[q][1]]
                      /\ pod_pc'[q] = "completing" => stage'[token'[q]] = "returned"
    BY DEF PodInv
  <2>1. CASE q = p
    <3>1. token'[q] = <<j, delivery[j] + 1>> /\ pod_pc'[q] = "processing"
      BY <1>1, <2>1 DEF QueueSideInv, WorkerTypeOK
    <3>2. delivery'[j] = delivery[j] + 1
      BY <1>1 DEF QueueSideInv, WorkerTypeOK
    <3> QED  BY <1>2, <1>3, <3>1, <3>2 DEF Holding
  <2>2. CASE q # p
    <3>1. token'[q] = token[q] /\ pod_pc'[q] = pod_pc[q] /\ PodInv(q)
      BY <1>1, <2>2 DEF QueueSideInv, WorkerTypeOK
    <3>2. token[q] # NULL => token[q][2] <= delivery'[token[q][1]]
      <4> SUFFICES ASSUME token[q] # NULL PROVE token[q][2] <= delivery'[token[q][1]]
        OBVIOUS
      <4>1. token[q] \in Runs
        BY DEF QueueSideInv, WorkerTypeOK
      <4>2. token[q][1] \in Jobs /\ token[q][2] \in Nat
        BY <4>1, DeliveryForms
      <4>3. token[q][2] <= delivery[token[q][1]]
        BY <3>1 DEF PodInv
      <4> QED  BY <1>4, <4>2, <4>3
    <3> QED  BY <1>1, <3>1, <3>2 DEF PodInv
  <2> QED  BY <2>1, <2>2
<1>7. \A k \in Jobs : QueueInv(k)'
  BY <1>1, <1>2, <1>4 DEF QueueSideInv, QueueInv, WorkerTypeOK
<1>8. \A r \in Runs : RunInv(r)'
  <2> SUFFICES ASSUME NEW r \in Runs, stage[r] # "idle"
               PROVE  /\ r[2] <= delivery'[r[1]] /\ scenario[r[1]] \notin NoPrior
                      /\ writers[r] = Writers
    BY <1>1 DEF RunInv
  <2>1. r[1] \in Jobs /\ r[2] \in Nat
    BY DeliveryForms
  <2>2. r[2] <= delivery[r[1]] /\ scenario[r[1]] \notin NoPrior /\ writers[r] = Writers
    BY DEF QueueSideInv, RunInv
  <2> QED  BY <1>4, <2>1, <2>2
<1>9. TokensDiffer'
  <2>1. \A q \in Pods : token[q] # <<j, delivery[j] + 1>>
    <3> SUFFICES ASSUME NEW q \in Pods, token[q] = <<j, delivery[j] + 1>> PROVE FALSE
      OBVIOUS
    <3>1. token[q][2] <= delivery[token[q][1]]
      BY <1>3 DEF QueueSideInv, PodInv
    <3>2. delivery[j] + 1 <= delivery[j]
      BY <1>3, <3>1
    <3> QED  BY <1>2, <3>2
  <2>2. \A q \in Pods : token'[q] = IF q = p THEN <<j, delivery[j] + 1>> ELSE token[q]
    BY <1>1 DEF QueueSideInv, WorkerTypeOK
  <2> QED  BY <2>1, <2>2 DEF QueueSideInv, TokensDiffer
<1> QED  BY <1>5, <1>6, <1>7, <1>8, <1>9 DEF QueueSideInv

LEMMA StartInvestigationKeeps ==
  ASSUME Inv, QueueSideInv, NEW p \in Pods, StartInvestigation(p)
  PROVE  QueueSideInv'
<1>1. /\ pod_pc[p] = "processing" /\ scenario[JobOf(p)] \notin NoPrior
      /\ stage[token[p]] = "idle"
      /\ stage' = [stage EXCEPT ![token[p]] = "graph"]
      /\ writers' = [writers EXCEPT ![token[p]] = Writers]
      /\ pod_pc' = [pod_pc EXCEPT ![p] = "investigating"]
      /\ UNCHANGED <<queue, scenario, delivery, token>>
  BY DEF StartInvestigation, Start, PodAt, PodTo, MoveTo, queueVars
<1>2. /\ token[p] \in Runs /\ token[p][2] <= delivery[token[p][1]]
  BY <1>1, HeldToken DEF Holding, JobOf
<1>3. \A r \in Runs : stage[r] = "returned" => stage'[r] = "returned"
  BY <1>1, <1>2 DEF Inv, TypeOK
<1>4. WorkerTypeOK'
  BY <1>1 DEF QueueSideInv, WorkerTypeOK, PodLocations
<1>5. \A q \in Pods : PodInv(q)'
  <2> SUFFICES ASSUME NEW q \in Pods
               PROVE  /\ token[q] # NULL <=> pod_pc'[q] \in Holding
                      /\ token[q] # NULL => token[q][2] <= delivery[token[q][1]]
                      /\ pod_pc'[q] = "completing" => stage'[token[q]] = "returned"
    BY <1>1 DEF PodInv
  <2>1. pod_pc'[q] = IF q = p THEN "investigating" ELSE pod_pc[q]
    BY <1>1 DEF QueueSideInv, WorkerTypeOK
  <2>2. PodInv(q) /\ token[q] \in Runs \cup {NULL}
    BY DEF QueueSideInv, WorkerTypeOK
  <2> QED  BY <1>1, <1>3, <2>1, <2>2 DEF PodInv, Holding
<1>6. \A k \in Jobs : QueueInv(k)'
  <2> SUFFICES ASSUME NEW k \in Jobs, queue[k] = "completed"
               PROVE  stage'[<<k, delivery[k]>>] = "returned"
    BY <1>1 DEF QueueSideInv, QueueInv
  <2>1. <<k, delivery[k]>> \in Runs /\ stage[<<k, delivery[k]>>] = "returned"
    BY DeliveryForms DEF QueueSideInv, QueueInv, WorkerTypeOK
  <2> QED  BY <1>3, <2>1
<1>7. \A r \in Runs : RunInv(r)'
  <2> SUFFICES ASSUME NEW r \in Runs, stage'[r] # "idle"
               PROVE  /\ r[2] <= delivery[r[1]] /\ scenario[r[1]] \notin NoPrior
                      /\ writers'[r] = Writers
    BY <1>1 DEF RunInv
  <2>1. CASE r = token[p]
    BY <1>1, <1>2, <2>1 DEF JobOf, Inv, TypeOK
  <2>2. CASE r # token[p]
    <3>1. stage'[r] = stage[r] /\ writers'[r] = writers[r]
      BY <1>1, <2>2 DEF Inv, TypeOK
    <3> QED  BY <3>1 DEF QueueSideInv, RunInv
  <2> QED  BY <2>1, <2>2
<1>8. TokensDiffer'
  BY <1>1 DEF QueueSideInv, TokensDiffer
<1> QED  BY <1>4, <1>5, <1>6, <1>7, <1>8 DEF QueueSideInv

\* A pod moves on or loses its token, and its run may take a step.
LEMMA PodMovesKeeps ==
  ASSUME QueueSideInv, UNCHANGED <<queue, scenario, delivery, writers>>,
         \A r \in Runs : /\ stage'[r] # "idle" => stage[r] # "idle"
                         /\ stage[r] = "returned" => stage'[r] = "returned",
         pod_pc' \in [Pods -> PodLocations], token' \in [Pods -> Runs \cup {NULL}],
         \A p \in Pods : /\ token'[p] \in {token[p], NULL}
                         /\ token'[p] # NULL <=> pod_pc'[p] \in Holding
                         /\ pod_pc'[p] = "completing" => stage'[token'[p]] = "returned"
  PROVE  QueueSideInv'
<1>1. WorkerTypeOK'
  BY DEF QueueSideInv, WorkerTypeOK
<1>2. \A p \in Pods : PodInv(p)'
  BY DEF QueueSideInv, PodInv
<1>3. \A k \in Jobs : QueueInv(k)'
  <2> SUFFICES ASSUME NEW k \in Jobs, queue[k] = "completed"
               PROVE  stage'[<<k, delivery[k]>>] = "returned"
    BY DEF QueueSideInv, QueueInv
  <2>1. <<k, delivery[k]>> \in Runs /\ stage[<<k, delivery[k]>>] = "returned"
    BY DeliveryForms DEF QueueSideInv, QueueInv, WorkerTypeOK
  <2> QED  BY <2>1
<1>4. \A r \in Runs : RunInv(r)'
  BY DEF QueueSideInv, RunInv
<1>5. TokensDiffer'
  BY DEF QueueSideInv, TokensDiffer
<1> QED  BY <1>1, <1>2, <1>3, <1>4, <1>5 DEF QueueSideInv

LEMMA InvestigateKeeps ==
  ASSUME Inv, QueueSideInv, NEW p \in Pods, Investigate(p)
  PROVE  QueueSideInv'
<1>1. pod_pc[p] = "investigating" /\ RunStep(token[p])
      /\ UNCHANGED <<queue, scenario, delivery, pod_pc, token>>
  BY DEF Investigate, PodAt, queueVars, podVars
<1>2. token[p] \in Runs
  BY <1>1, HeldToken DEF Holding
<1>3. /\ writers' = writers
      /\ \A r \in Runs : /\ stage'[r] # "idle" => stage[r] # "idle"
                         /\ stage[r] = "returned" => stage'[r] = "returned"
  BY <1>1, <1>2, RunStepFrame
<1>4. \A q \in Pods : /\ token'[q] \in {token[q], NULL}
                      /\ token'[q] # NULL <=> pod_pc'[q] \in Holding
                      /\ pod_pc'[q] = "completing" => stage'[token'[q]] = "returned"
  <2> SUFFICES ASSUME NEW q \in Pods, pod_pc[q] = "completing" PROVE stage'[token[q]] = "returned"
    BY <1>1 DEF QueueSideInv, PodInv
  <2>1. token[q] \in Runs /\ stage[token[q]] = "returned"
    BY HeldToken DEF Holding, QueueSideInv, PodInv
  <2> QED  BY <1>3, <2>1
<1>5. pod_pc' \in [Pods -> PodLocations] /\ token' \in [Pods -> Runs \cup {NULL}]
  BY <1>1 DEF QueueSideInv, WorkerTypeOK
<1> QED  BY <1>1, <1>3, <1>4, <1>5, PodMovesKeeps

\* The steps of a pod that touch nothing but the pod.
LEMMA PodAloneKeeps ==
  ASSUME QueueSideInv, NEW p \in Pods,
         ProcessFails(p) \/ InvestigationEnds(p) \/ IdleTimeout(p) \/ PodRestart(p)
  PROVE  QueueSideInv'
<1>1. PICK to \in PodLocations :
         /\ pod_pc' = [pod_pc EXCEPT ![p] = to]
         /\ pod_pc[p] \in Holding <=> to \in Holding
         /\ to = "completing" => stage[token[p]] = "returned"
  BY DEF ProcessFails, InvestigationEnds, IdleTimeout, PodRestart, PodAt, PodTo, PodLocations, Holding
<1>2. UNCHANGED <<queue, scenario, delivery, token, stage, writers>>
  BY DEF ProcessFails, InvestigationEnds, IdleTimeout, PodRestart, queueVars, vars
<1>3. pod_pc' \in [Pods -> PodLocations] /\ token' \in [Pods -> Runs \cup {NULL}]
  BY <1>1, <1>2 DEF QueueSideInv, WorkerTypeOK
<1>4. \A q \in Pods : /\ token'[q] \in {token[q], NULL}
                      /\ token'[q] # NULL <=> pod_pc'[q] \in Holding
                      /\ pod_pc'[q] = "completing" => stage'[token'[q]] = "returned"
  BY <1>1, <1>2 DEF QueueSideInv, WorkerTypeOK, PodInv
<1> QED  BY <1>2, <1>3, <1>4, PodMovesKeeps

LEMMA PodCrashKeeps ==
  ASSUME Inv, QueueSideInv, NEW p \in Pods, PodCrash(p)
  PROVE  QueueSideInv'
<1>1. /\ token[p] # NULL /\ token[p] \in Runs
      /\ pod_pc' = [pod_pc EXCEPT ![p] = "down"] /\ token' = [token EXCEPT ![p] = NULL]
      /\ UNCHANGED <<queue, scenario, delivery>>
      /\ Crash(token[p]) \/ UNCHANGED vars
  BY DEF PodCrash, PodTo, DropToken, queueVars, QueueSideInv, WorkerTypeOK
<1>2. /\ writers' = writers
      /\ \A r \in Runs : /\ stage'[r] # "idle" => stage[r] # "idle"
                         /\ stage[r] = "returned" => stage'[r] = "returned"
  <2>1. CASE Crash(token[p])
    BY <1>1, <2>1, RunStepFrame
  <2>2. CASE UNCHANGED vars
    BY <2>2 DEF vars
  <2> QED  BY <1>1, <2>1, <2>2
<1>3. pod_pc' \in [Pods -> PodLocations] /\ token' \in [Pods -> Runs \cup {NULL}]
  BY <1>1 DEF QueueSideInv, WorkerTypeOK, PodLocations
<1>4. \A q \in Pods : /\ token'[q] \in {token[q], NULL}
                      /\ token'[q] # NULL <=> pod_pc'[q] \in Holding
                      /\ pod_pc'[q] = "completing" => stage'[token'[q]] = "returned"
  <2> SUFFICES ASSUME NEW q \in Pods
               PROVE  /\ token'[q] \in {token[q], NULL}
                      /\ token'[q] # NULL <=> pod_pc'[q] \in Holding
                      /\ pod_pc'[q] = "completing" => stage'[token'[q]] = "returned"
    OBVIOUS
  <2>1. CASE q = p
    BY <1>1, <2>1 DEF QueueSideInv, WorkerTypeOK, Holding
  <2>2. CASE q # p
    <3>1. token'[q] = token[q] /\ pod_pc'[q] = pod_pc[q] /\ PodInv(q)
      BY <1>1, <2>2 DEF QueueSideInv, WorkerTypeOK
    <3>2. pod_pc[q] = "completing" => token[q] \in Runs /\ stage[token[q]] = "returned"
      BY <3>1, HeldToken DEF PodInv, Holding
    <3> QED  BY <1>2, <3>1, <3>2 DEF PodInv
  <2> QED  BY <2>1, <2>2
<1> QED  BY <1>1, <1>2, <1>3, <1>4, PodMovesKeeps

LEMMA CompleteKeeps ==
  ASSUME QueueSideInv, NEW p \in Pods, Complete(p)
  PROVE  QueueSideInv'
<1> DEFINE j == JobOf(p)
<1>1. /\ pod_pc[p] = "completing" /\ UNCHANGED <<stage, writers, scenario, delivery>>
      /\ \/ pod_pc' = [pod_pc EXCEPT ![p] = "receiving"] /\ token' = [token EXCEPT ![p] = NULL]
         \/ pod_pc' = [pod_pc EXCEPT ![p] = "abandoning"] /\ token' = token
      /\ \/ TokenValid(p) /\ queue' = [queue EXCEPT ![j] = "completed"]
         \/ queue' = queue
  BY DEF Complete, PodAt, PodTo, DropToken, vars
<1>2. /\ j \in Jobs /\ token[p] \in Runs /\ token[p] # NULL
      /\ token[p] = <<j, token[p][2]>> /\ stage[token[p]] = "returned"
  BY <1>1, HeldToken DEF Holding, QueueSideInv, PodInv
<1>3. /\ queue' \in [Jobs -> QueueStates]
      /\ \A k \in Jobs \ {j} : queue'[k] = queue[k]
      /\ \/ queue'[j] = queue[j]
         \/ /\ queue[j] = "locked" /\ queue'[j] = "completed"
            /\ stage[<<j, delivery[j]>>] = "returned"
  <2>1. CASE queue' = queue
    BY <2>1 DEF QueueSideInv, WorkerTypeOK
  <2>2. CASE TokenValid(p) /\ queue' = [queue EXCEPT ![j] = "completed"]
    <3>1. queue[j] = "locked" /\ delivery[j] = token[p][2]
      BY <2>2 DEF TokenValid
    <3> QED  BY <1>2, <2>2, <3>1 DEF QueueSideInv, WorkerTypeOK, QueueStates
  <2> QED  BY <1>1, <2>1, <2>2
<1>4. /\ pod_pc' \in [Pods -> PodLocations] /\ token' \in [Pods -> Runs \cup {NULL}]
      /\ \A q \in Pods : /\ token'[q] \in {token[q], NULL}
                         /\ token'[q] # NULL <=> pod_pc'[q] \in Holding
                         /\ pod_pc'[q] = "completing" => stage[token'[q]] = "returned"
  BY <1>1, <1>2 DEF QueueSideInv, WorkerTypeOK, PodInv, PodLocations, Holding
<1> HIDE DEF j
<1> QED  BY <1>1, <1>2, <1>3, <1>4, SettleKeeps

LEMMA AbandonKeeps ==
  ASSUME QueueSideInv, NEW p \in Pods, Abandon(p)
  PROVE  QueueSideInv'
<1> DEFINE j == JobOf(p)
<1>1. /\ pod_pc[p] = "abandoning" /\ UNCHANGED <<stage, writers, scenario, delivery>>
      /\ token' = [token EXCEPT ![p] = NULL]
      /\ \E to \in {"receiving", "down"} : pod_pc' = [pod_pc EXCEPT ![p] = to]
      /\ \/ /\ queue[j] = "locked"
            /\ queue' = [queue EXCEPT ![j] = IF delivery[j] < MaxDelivery THEN "active" ELSE "dead_letter"]
         \/ queue' = queue
  BY DEF Abandon, PodAt, PodTo, DropToken, TokenValid, Release, vars
<1>2. j \in Jobs
  BY <1>1, HeldToken DEF Holding
<1>3. /\ queue' \in [Jobs -> QueueStates]
      /\ \A k \in Jobs \ {j} : queue'[k] = queue[k]
      /\ \/ queue'[j] = queue[j]
         \/ /\ queue[j] = "locked"
            /\ \/ queue'[j] = "active" /\ delivery[j] < MaxDelivery
               \/ queue'[j] = "dead_letter" /\ delivery[j] = MaxDelivery
  <2> HIDE DEF j
  <2> QED  BY <1>1, <1>2, DeliveryForms DEF QueueSideInv, WorkerTypeOK, QueueStates
<1>4. /\ pod_pc' \in [Pods -> PodLocations] /\ token' \in [Pods -> Runs \cup {NULL}]
      /\ \A q \in Pods : /\ token'[q] \in {token[q], NULL}
                         /\ token'[q] # NULL <=> pod_pc'[q] \in Holding
                         /\ pod_pc'[q] = "completing" => stage[token'[q]] = "returned"
  BY <1>1 DEF QueueSideInv, WorkerTypeOK, PodInv, PodLocations, Holding
<1> HIDE DEF j
<1> QED  BY <1>1, <1>2, <1>3, <1>4, SettleKeeps

-----------------------------------------------------------------------------
\* Every step is a step of one delivery's run, or none of GoldPersistence's.
LEMMA PodsDriveGold ==
  ASSUME QueueSideInv, WorkerNext
  PROVE  [Next]_vars
<1>1. ASSUME NEW p \in Pods, StartInvestigation(p)
      PROVE  Next
  <2>1. token[p] \in Runs /\ scenario[JobOf(p)] \in Scenarios
    BY <1>1, HeldToken DEF StartInvestigation, PodAt, Holding
  <2>2. PICK ms \in Ticks : Start(token[p], <<scenario[JobOf(p)], ms>>, Writers)
    BY <1>1 DEF StartInvestigation
  <2>3. <<scenario[JobOf(p)], ms>> \in AgentRunIds
    BY <2>1, AgentRunIdsAssumption
  <2> QED  BY <2>1, <2>2, <2>3 DEF Next
<1>2. ASSUME NEW p \in Pods, Investigate(p)
      PROVE  Next
  <2>1. token[p] \in Runs /\ RunStep(token[p])
    BY <1>2, HeldToken DEF Investigate, PodAt, Holding
  <2> QED  BY <2>1 DEF Next
<1>3. ASSUME NEW p \in Pods, PodCrash(p)
      PROVE  [Next]_vars
  <2>1. token[p] \in Runs /\ (Crash(token[p]) \/ UNCHANGED vars)
    BY <1>3 DEF PodCrash, QueueSideInv, WorkerTypeOK
  <2> QED  BY <2>1 DEF Next
<1>4. ASSUME NEW p \in Pods, NEW j \in Jobs, Receive(p, j)
      PROVE  UNCHANGED vars
  BY <1>4 DEF Receive
<1>5. ASSUME NEW p \in Pods,
             \/ ProcessFails(p) \/ InvestigationEnds(p) \/ Complete(p) \/ Abandon(p)
             \/ PodRestart(p) \/ IdleTimeout(p)
      PROVE  UNCHANGED vars
  BY <1>5 DEF ProcessFails, InvestigationEnds, Complete, Abandon, PodRestart, IdleTimeout
<1>6. ASSUME NEW j \in Jobs, LockExpires(j) \/ \E s \in Scenarios : Post(j, s)
      PROVE  UNCHANGED vars
  BY <1>6 DEF LockExpires, Post
<1> QED  BY <1>1, <1>2, <1>3, <1>4, <1>5, <1>6 DEF WorkerNext, PodStep

LEMMA WorkerKeeps == WorkerInv /\ [WorkerNext]_allVars => WorkerInv'
<1> SUFFICES ASSUME WorkerInv, [WorkerNext]_allVars PROVE WorkerInv'
  OBVIOUS
<1>1. CASE UNCHANGED allVars
  <2>1. Inv'
    BY <1>1, NextInv DEF allVars, WorkerInv
  <2>2. UNCHANGED <<stage, writers, queue, scenario, delivery, pod_pc, token>>
    BY <1>1 DEF allVars, vars, queueVars, podVars
  <2>3. QueueSideInv'
    BY <2>2 DEF WorkerInv, QueueSideInv, WorkerTypeOK, PodInv, QueueInv, RunInv, TokensDiffer
  <2> QED  BY <2>1, <2>3 DEF WorkerInv
<1>2. CASE WorkerNext
  <2>1. Inv /\ QueueSideInv
    BY DEF WorkerInv
  <2>2. Inv'
    BY <1>2, <2>1, PodsDriveGold, NextInv
  <2>3. ASSUME NEW j \in Jobs, LockExpires(j) \/ \E s \in Scenarios : Post(j, s)
        PROVE  QueueSideInv'
    BY <2>1, <2>3, PostKeeps, LockExpiresKeeps
  <2>4. ASSUME NEW p \in Pods, PodStep(p) \/ IdleTimeout(p) \/ PodCrash(p)
        PROVE  QueueSideInv'
    BY <2>1, <2>4, ReceiveKeeps, StartInvestigationKeeps, InvestigateKeeps, PodAloneKeeps,
       PodCrashKeeps, CompleteKeeps, AbandonKeeps DEF PodStep
  <2> QED  BY <1>2, <2>2, <2>3, <2>4 DEF WorkerNext, WorkerInv
<1> QED  BY <1>1, <1>2

LEMMA WorkerInvariant == WorkerSpec => []WorkerInv
BY WorkerStarts, WorkerKeeps, PTL DEF WorkerSpec

-----------------------------------------------------------------------------
\* The queue, the pods and their tokens are well typed; no delivery is counted past
\* the limit.
THEOREM WorkerTypeCorrect == WorkerSpec => []WorkerTypeOK
BY WorkerInvariant, PTL DEF WorkerInv, QueueSideInv

\* A completed job's last delivery has decided and has its rows: no stale pod, retry
\* or crash completes a job for another (worker.py:184-199).
THEOREM CompletedIsDecided == WorkerSpec => []CompletedJobIsDecided
<1>1. WorkerInv => CompletedJobIsDecided
  <2> SUFFICES ASSUME WorkerInv, NEW j \in Jobs, queue[j] = "completed"
               PROVE  /\ stage[<<j, delivery[j]>>] = "returned"
                      /\ decision_rows[<<j, delivery[j]>>] > 0
                      /\ cost_rows[agent_run_id[<<j, delivery[j]>>]] # NULL
    BY DEF CompletedJobIsDecided
  <2> DEFINE r == <<j, delivery[j]>>
  <2>1. delivery[j] \in 1..MaxDelivery /\ stage[r] = "returned"
    <3>1. delivery[j] \in 0..MaxDelivery /\ delivery[j] >= 1 /\ stage[r] = "returned"
      BY DEF WorkerInv, QueueSideInv, WorkerTypeOK, QueueInv
    <3> QED  BY <3>1, DeliveryForms
  <2>2. r \in Runs
    BY <2>1, DeliveryForms
  <2> HIDE DEF r
  <2>3. "cost" \in writers[r] /\ "decisions" \in writers[r]
    BY <2>1, <2>2 DEF WorkerInv, QueueSideInv, RunInv, Writers
  <2>4. decision_rows[r] \in Nat /\ Behind(r) /\ RowsInv(r)
    BY <2>2 DEF WorkerInv, Inv, TypeOK
  <2>5. decision_rows[r] > 0
    BY <2>1, <2>3, <2>4 DEF RowsInv
  <2>6. cost_rows[agent_run_id[r]] # NULL
    BY <2>1, <2>3, <2>4 DEF Behind
  <2> QED  BY <2>1, <2>5, <2>6 DEF r
<1> QED  BY <1>1, WorkerInvariant, PTL

\* A job without a prior quarter never completes and never starts an investigation.
THEOREM PoisonNeverDecides == WorkerSpec => []PoisonJobNeverDecides
<1>1. WorkerInv => PoisonJobNeverDecides
  <2> SUFFICES ASSUME WorkerInv, NEW j \in Jobs, scenario[j] \in NoPrior
               PROVE  /\ queue[j] # "completed"
                      /\ \A n \in 1..MaxDelivery : stage[<<j, n>>] = "idle"
    BY DEF PoisonJobNeverDecides
  <2>1. \A n \in 1..MaxDelivery : stage[<<j, n>>] = "idle"
    <3> SUFFICES ASSUME NEW n \in 1..MaxDelivery PROVE stage[<<j, n>>] = "idle"
      OBVIOUS
    <3>1. <<j, n>> \in Runs /\ <<j, n>>[1] = j
      BY DeliveryForms
    <3> QED  BY <3>1 DEF WorkerInv, QueueSideInv, RunInv
  <2>2. queue[j] # "completed"
    <3> SUFFICES ASSUME queue[j] = "completed" PROVE FALSE
      OBVIOUS
    <3>1. delivery[j] \in 0..MaxDelivery /\ delivery[j] >= 1
          /\ stage[<<j, delivery[j]>>] = "returned"
      BY DEF WorkerInv, QueueSideInv, WorkerTypeOK, QueueInv
    <3>2. delivery[j] \in 1..MaxDelivery
      BY <3>1, DeliveryForms
    <3> QED  BY <2>1, <3>1, <3>2
  <2> QED  BY <2>1, <2>2
<1> QED  BY <1>1, WorkerInvariant, PTL

\* Settlement is final, a message is dead-lettered only after its last delivery, and
\* only the holder of the lock completes it.
THEOREM SettlementIsFinal == WorkerSpec => SettledForGood
<1> DEFINE Settles(j) ==
             /\ queue[j] \in Settled => queue'[j] = queue[j]
             /\ queue'[j] = "dead_letter" => delivery[j] = MaxDelivery
             /\ queue[j] = "locked" /\ queue'[j] = "completed" =>
                  \E p \in Pods : token[p] = <<j, delivery[j]>>
<1>1. ASSUME WorkerInv, [WorkerNext]_allVars
      PROVE  \A j \in Jobs : Settles(j)
  <2> SUFFICES ASSUME NEW j \in Jobs PROVE Settles(j)
    OBVIOUS
  <2>1. QueueSideInv /\ queue \in [Jobs -> QueueStates] /\ delivery \in [Jobs -> 0..MaxDelivery]
        /\ QueueInv(j) /\ MaxDelivery \in Nat
    BY <1>1, DeliveryForms DEF WorkerInv, QueueSideInv, WorkerTypeOK
  <2>2. CASE queue'[j] = queue[j]
    BY <2>1, <2>2 DEF QueueInv
  <2>3. ASSUME NEW k \in Jobs, Release(k), queue[k] = "locked"
        PROVE  Settles(j)
    BY <2>1, <2>2, <2>3 DEF Release, Settled
  <2>4. ASSUME NEW k \in Jobs, NEW s \in Scenarios, Post(k, s)
        PROVE  Settles(j)
    BY <2>1, <2>2, <2>4 DEF Post, Settled
  <2>5. ASSUME NEW p \in Pods, NEW k \in Jobs, Receive(p, k)
        PROVE  Settles(j)
    BY <2>1, <2>2, <2>5 DEF Receive, Settled
  <2>6. ASSUME NEW p \in Pods, Complete(p)
        PROVE  Settles(j)
    <3>1. /\ JobOf(p) \in Jobs /\ token[p] = <<JobOf(p), token[p][2]>>
      BY <2>1, <2>6, HeldToken DEF Complete, PodAt, Holding
    <3>2. CASE queue' = queue
      BY <2>2, <3>2
    <3>3. CASE TokenValid(p) /\ queue' = [queue EXCEPT ![JobOf(p)] = "completed"]
      <4>1. queue[JobOf(p)] = "locked" /\ token[p] = <<JobOf(p), delivery[JobOf(p)]>>
        BY <3>1, <3>3 DEF TokenValid
      <4> QED  BY <2>1, <2>2, <3>1, <3>3, <4>1 DEF Settled
    <3> QED  BY <2>6, <3>2, <3>3 DEF Complete
  <2>7. ASSUME NEW p \in Pods, Abandon(p)
        PROVE  Settles(j)
    <3>1. JobOf(p) \in Jobs
      BY <2>1, <2>7, HeldToken DEF Abandon, PodAt, Holding
    <3>2. CASE queue' = queue
      BY <2>2, <3>2
    <3>3. CASE TokenValid(p) /\ Release(JobOf(p))
      BY <2>3, <3>1, <3>3 DEF TokenValid
    <3> QED  BY <2>7, <3>2, <3>3 DEF Abandon
  <2>8. ASSUME NEW p \in Pods,
               \/ ProcessFails(p) \/ StartInvestigation(p) \/ Investigate(p)
               \/ InvestigationEnds(p) \/ PodRestart(p) \/ IdleTimeout(p) \/ PodCrash(p)
        PROVE  queue' = queue
    BY <2>8 DEF ProcessFails, StartInvestigation, Investigate, InvestigationEnds, PodRestart,
                IdleTimeout, PodCrash, queueVars
  <2>9. ASSUME NEW k \in Jobs, LockExpires(k)
        PROVE  Settles(j)
    BY <2>3, <2>9 DEF LockExpires
  <2>10. CASE UNCHANGED allVars
    BY <2>2, <2>10 DEF allVars, queueVars
  <2> QED  BY <1>1, <2>2, <2>4, <2>5, <2>6, <2>7, <2>8, <2>9, <2>10 DEF WorkerNext, PodStep
<1> QED  BY <1>1, WorkerInvariant, PTL DEF WorkerSpec, SettledForGood

-----------------------------------------------------------------------------
(* The composition implements its parts and its contract *)

\* A worker fleet, seen through the gold layer alone, is a set of calls that start,
\* write and crash as GoldPersistence says: one run per delivery, never started twice,
\* although pods restart, locks expire and stale pods work on.
THEOREM WorkerImplementsGold == WorkerSpec => Init /\ [][Next]_vars
<1>1. WorkerInit => Init
  BY DEF WorkerInit
<1>2. WorkerInv /\ [WorkerNext]_allVars => [Next]_vars
  BY PodsDriveGold DEF WorkerInv, allVars
<1> QED  BY <1>1, <1>2, WorkerInvariant, PTL DEF WorkerSpec

\* What holds of the calls of run_investigation holds of the fleet's.
COROLLARY FleetKeepsGold ==
  WorkerSpec => [](DecisionJoinsToCost /\ ReturnedMeansPersisted /\ FailedGraphLeavesNoTrace)
BY WorkerInvariant, InvJoins, InvPersists, InvLeavesNoTrace, PTL DEF WorkerInv

\* What a step does to the public status of a job.
LEMMA StatusOf ==
  ASSUME QueueSideInv
  PROVE  /\ queue' = queue => JobStatus' = JobStatus
         /\ \A j \in Jobs, to \in QueueStates : queue' = [queue EXCEPT ![j] = to] =>
              JobStatus' = [JobStatus EXCEPT
                              ![j] = IF to \in {"active", "locked"} THEN "pending" ELSE to]
BY DEF QueueSideInv, WorkerTypeOK, JobStatus

\* A delivery that is not known to have decided did not decide.
LEMMA PersistedFrame ==
  /\ decision_rows' = decision_rows => Persisted' = Persisted
  /\ UNCHANGED vars => Persisted' = Persisted
BY DEF Persisted, vars

\* Taking a message off the lock gives the job up, or nobody sees it.
LEMMA ReleaseKeepsContract ==
  ASSUME WorkerInv, NEW j \in Jobs, queue[j] = "locked", Release(j),
         UNCHANGED <<delivery, decision_rows>>
  PROVE  [Job!Next]_Job!jobVars
<1>1. /\ queue \in [Jobs -> QueueStates] /\ delivery[j] \in 0..MaxDelivery /\ MaxDelivery \in Nat
      /\ QueueSideInv
  BY DeliveryForms DEF WorkerInv, QueueSideInv, WorkerTypeOK
<1>2. Persisted' = Persisted
  BY PersistedFrame
<1>3. JobStatus = [k \in Jobs |-> JobStatus[k]] /\ JobStatus[j] = "pending"
  BY <1>1 DEF JobStatus, QueueStates
<1>4. CASE delivery[j] < MaxDelivery
  <2>1. queue' = [queue EXCEPT ![j] = "active"] /\ "active" \in QueueStates
    BY <1>4 DEF Release, QueueStates
  <2>2. JobStatus' = [JobStatus EXCEPT ![j] = "pending"]
    BY <1>1, <2>1, StatusOf
  <2>3. JobStatus' = JobStatus
    BY <1>3, <2>2
  <2> QED  BY <1>2, <2>3 DEF Job!jobVars
<1>5. CASE ~(delivery[j] < MaxDelivery)
  <2>1. queue' = [queue EXCEPT ![j] = "dead_letter"] /\ "dead_letter" \in QueueStates
    BY <1>5 DEF Release, QueueStates
  <2>2. JobStatus' = [JobStatus EXCEPT ![j] = "dead_letter"]
    BY <1>1, <2>1, StatusOf
  <2>3. delivery[j] = MaxDelivery
    BY <1>1, <1>5
  <2>4. Job!GiveUp(j)
    BY <1>2, <1>3, <2>2, <2>3 DEF Job!GiveUp
  <2> QED  BY <2>4 DEF Job!Next
<1> QED  BY <1>4, <1>5

LEMMA ReceiveKeepsContract ==
  ASSUME WorkerInv, NEW p \in Pods, NEW j \in Jobs, Receive(p, j)
  PROVE  Job!Try(j)
<1>1. /\ queue[j] = "active" /\ queue' = [queue EXCEPT ![j] = "locked"]
      /\ delivery' = [delivery EXCEPT ![j] = @ + 1]
      /\ UNCHANGED vars
  BY DEF Receive
<1>2. /\ QueueSideInv /\ queue \in [Jobs -> QueueStates] /\ delivery[j] < MaxDelivery
      /\ "locked" \in QueueStates
  BY <1>1 DEF WorkerInv, QueueSideInv, WorkerTypeOK, QueueInv, QueueStates
<1>3. JobStatus = [k \in Jobs |-> JobStatus[k]] /\ JobStatus[j] = "pending"
  BY <1>1, <1>2 DEF JobStatus, QueueStates
<1>4. JobStatus' = [JobStatus EXCEPT ![j] = "pending"]
  BY <1>1, <1>2, StatusOf
<1>5. JobStatus' = JobStatus
  BY <1>3, <1>4
<1> QED  BY <1>1, <1>2, <1>3, <1>5, PersistedFrame DEF Job!Try

\* The token that completes a job is its latest delivery's, which has returned.
LEMMA CompleteKeepsContract ==
  ASSUME WorkerInv, NEW p \in Pods, Complete(p)
  PROVE  [Job!Next]_Job!jobVars
<1> DEFINE j == JobOf(p)
<1>1. /\ pod_pc[p] = "completing" /\ UNCHANGED <<delivery, decision_rows>>
      /\ \/ TokenValid(p) /\ queue' = [queue EXCEPT ![j] = "completed"]
         \/ queue' = queue
  BY DEF Complete, PodAt, vars
<1>2. QueueSideInv /\ queue \in [Jobs -> QueueStates] /\ "completed" \in QueueStates
  BY DEF WorkerInv, QueueSideInv, WorkerTypeOK, QueueStates
<1>3. /\ j \in Jobs /\ token[p] \in Runs /\ token[p] # NULL
      /\ token[p] = <<j, token[p][2]>> /\ token[p][2] \in 1..MaxDelivery
      /\ stage[token[p]] = "returned"
  BY <1>1, <1>2, HeldToken DEF Holding, QueueSideInv, PodInv
<1>4. Persisted' = Persisted
  BY <1>1, PersistedFrame
<1>5. CASE queue' = queue
  BY <1>1, <1>2, <1>4, <1>5, StatusOf DEF Job!jobVars
<1>6. CASE TokenValid(p) /\ queue' = [queue EXCEPT ![j] = "completed"]
  <2>1. queue[j] = "locked" /\ delivery[j] = token[p][2]
    BY <1>6 DEF TokenValid
  <2>2. "decisions" \in writers[token[p]]
    BY <1>3 DEF WorkerInv, QueueSideInv, RunInv, Writers
  <2>3. decision_rows[token[p]] \in Nat /\ RowsInv(token[p])
    BY <1>3 DEF WorkerInv, Inv, TypeOK
  <2>4. decision_rows[token[p]] > 0
    BY <1>3, <2>2, <2>3 DEF RowsInv
  <2> HIDE DEF j
  <2>5. delivery[j] \in Persisted[j]
    BY <1>3, <2>1, <2>4 DEF Persisted
  <2>6. JobStatus[j] = "pending"
    BY <1>3, <2>1 DEF JobStatus
  <2>7. JobStatus' = [JobStatus EXCEPT ![j] = "completed"]
    BY <1>2, <1>3, <1>6, StatusOf
  <2>8. Job!Complete(j)
    BY <1>1, <1>4, <2>5, <2>6, <2>7 DEF Job!Complete
  <2> QED  BY <1>3, <2>8 DEF Job!Next
<1> QED  BY <1>1, <1>5, <1>6

\* Of a running investigation the contract sees the insert of its decision.
LEMMA InvestigateKeepsContract ==
  ASSUME WorkerInv, NEW p \in Pods, Investigate(p)
  PROVE  [Job!Next]_Job!jobVars
<1> DEFINE j == JobOf(p)
           n == token[p][2]
<1>1. pod_pc[p] = "investigating" /\ RunStep(token[p]) /\ UNCHANGED <<queue, delivery>>
  BY DEF Investigate, PodAt, queueVars
<1>2. QueueSideInv
  BY DEF WorkerInv
<1>3. /\ j \in Jobs /\ token[p] \in Runs /\ token[p] = <<j, n>>
      /\ n \in 1..MaxDelivery /\ n <= delivery[j] /\ delivery[j] \in Nat
  BY <1>1, <1>2, HeldToken DEF Holding, QueueSideInv, WorkerTypeOK
<1>4. JobStatus' = JobStatus
  BY <1>1, <1>2, StatusOf
<1>5. /\ decision_rows \in [Runs -> Nat]
      /\ decision_rows' = decision_rows \/ InsertDecision(token[p])
  BY <1>1 DEF RunStep, GraphReturns, GraphRaises, WriteCost, WriteDecision, WorkerInv, Inv, TypeOK
<1>6. CASE decision_rows' = decision_rows
  BY <1>1, <1>4, <1>6, PersistedFrame DEF Job!jobVars
<1>7. CASE InsertDecision(token[p])
  <2> HIDE DEF j, n
  <2>1. decision_rows' = [decision_rows EXCEPT ![<<j, n>>] = @ + 1]
    BY <1>3, <1>7 DEF InsertDecision
  <2>2. ASSUME NEW k \in Jobs
        PROVE  Persisted'[k] = IF k = j THEN Persisted[k] \cup {n} ELSE Persisted[k]
    <3>1. \A m \in 1..MaxDelivery :
             decision_rows'[<<k, m>>] =
               IF k = j /\ m = n THEN decision_rows[<<k, m>>] + 1 ELSE decision_rows[<<k, m>>]
      BY <1>3, <1>5, <2>1, DeliveryForms
    <3>2. \A m \in 1..MaxDelivery : decision_rows[<<k, m>>] \in Nat
      BY <1>5, DeliveryForms
    <3>3. \A m \in 1..MaxDelivery :
             decision_rows'[<<k, m>>] > 0 <=> (decision_rows[<<k, m>>] > 0 \/ (k = j /\ m = n))
      BY <3>1, <3>2
    <3> QED  BY <1>3, <3>3 DEF Persisted
  <2>3. Persisted' = [Persisted EXCEPT ![j] = @ \cup {n}]
    BY <2>2 DEF Persisted
  <2>4. n \in 1..delivery[j]
    BY <1>3
  <2>5. Job!Persist(j)
    BY <1>1, <1>4, <2>3, <2>4 DEF Job!Persist
  <2> QED  BY <1>3, <2>5 DEF Job!Next
<1> QED  BY <1>5, <1>6, <1>7

LEMMA StepsKeepContract ==
  ASSUME WorkerInv, WorkerNext
  PROVE  [Job!Next]_Job!jobVars
<1>1. QueueSideInv
  BY DEF WorkerInv
<1>2. ASSUME UNCHANGED <<queue, delivery, decision_rows>>
      PROVE  [Job!Next]_Job!jobVars
  BY <1>1, <1>2, StatusOf, PersistedFrame DEF Job!jobVars
<1>3. ASSUME NEW j \in Jobs, NEW s \in Scenarios, Post(j, s)
      PROVE  Job!Accept(j)
  <2>1. /\ queue[j] = "unsent" /\ queue' = [queue EXCEPT ![j] = "active"]
        /\ UNCHANGED <<delivery, vars>> /\ "active" \in QueueStates
    BY <1>3 DEF Post, QueueStates
  <2>2. JobStatus[j] = "unsent"
    BY <2>1 DEF JobStatus
  <2>3. JobStatus' = [JobStatus EXCEPT ![j] = "pending"]
    BY <1>1, <2>1, StatusOf
  <2> QED  BY <2>1, <2>2, <2>3, PersistedFrame DEF Job!Accept
<1>4. ASSUME NEW j \in Jobs, LockExpires(j)
      PROVE  [Job!Next]_Job!jobVars
  BY <1>4, ReleaseKeepsContract DEF LockExpires, vars
<1>5. ASSUME NEW p \in Pods, Abandon(p)
      PROVE  [Job!Next]_Job!jobVars
  <2>1. JobOf(p) \in Jobs
    BY <1>1, <1>5, HeldToken DEF Abandon, PodAt, Holding
  <2>2. CASE queue' = queue
    BY <1>2, <1>5, <2>2 DEF Abandon, vars
  <2>3. CASE TokenValid(p) /\ Release(JobOf(p))
    BY <1>5, <2>1, <2>3, ReleaseKeepsContract DEF Abandon, TokenValid, vars
  <2> QED  BY <1>5, <2>2, <2>3 DEF Abandon
<1>6. ASSUME NEW p \in Pods,
             \/ ProcessFails(p) \/ StartInvestigation(p) \/ InvestigationEnds(p)
             \/ PodRestart(p) \/ IdleTimeout(p) \/ PodCrash(p)
      PROVE  UNCHANGED <<queue, delivery, decision_rows>>
  BY <1>6 DEF ProcessFails, StartInvestigation, InvestigationEnds, PodRestart, IdleTimeout,
              PodCrash, Start, Crash, queueVars, vars
<1>7. ASSUME NEW p \in Pods, PodStep(p)
      PROVE  [Job!Next]_Job!jobVars
  <2>1. ASSUME NEW j \in Jobs, Receive(p, j)
        PROVE  [Job!Next]_Job!jobVars
    BY <2>1, ReceiveKeepsContract DEF Job!Next
  <2> QED
    BY <1>2, <1>5, <1>6, <1>7, <2>1, InvestigateKeepsContract, CompleteKeepsContract DEF PodStep
<1> QED  BY <1>2, <1>3, <1>4, <1>6, <1>7 DEF WorkerNext, Job!Next

\* The asynchronous API keeps its contract, for every number of jobs, pods, deliveries
\* and write attempts: a job is tried at most MaxDelivery times, completed only when its
\* latest try has its decision in the gold layer, given up only after its last try, and
\* never taken up again.
THEOREM JobContractImplemented == WorkerSpec => ImplementsJobContract
<1>1. WorkerInit => Job!Init
  <2> SUFFICES ASSUME WorkerInit PROVE Job!Init
    OBVIOUS
  <2>1. \A j \in Jobs, n \in 1..MaxDelivery : decision_rows[<<j, n>>] = 0
    BY DeliveryForms DEF WorkerInit, Init
  <2>2. Persisted = [j \in Jobs |-> {}]
    BY <2>1 DEF Persisted
  <2> QED  BY <2>2 DEF WorkerInit, JobStatus, Job!Init
<1>2. WorkerInv /\ [WorkerNext]_allVars => [Job!Next]_Job!jobVars
  <2> SUFFICES ASSUME WorkerInv, [WorkerNext]_allVars PROVE [Job!Next]_Job!jobVars
    OBVIOUS
  <2>1. CASE UNCHANGED allVars
    <3>1. UNCHANGED <<queue, delivery>> /\ UNCHANGED vars
      BY <2>1 DEF allVars, queueVars
    <3> QED  BY <3>1, StatusOf, PersistedFrame DEF Job!jobVars, WorkerInv
  <2> QED  BY <2>1, StepsKeepContract
<1> QED  BY <1>1, <1>2, WorkerInvariant, PTL DEF WorkerSpec, ImplementsJobContract, Job!Spec

-----------------------------------------------------------------------------
(* Every job is settled: the measure behind EveryJobSettles *)

\* How often the message of a job may still change hands.
HandoversLeft(j) ==
  CASE queue[j] = "unsent" -> 2 * MaxDelivery + 1
    [] queue[j] = "active" -> 2 * (MaxDelivery - delivery[j])
    [] queue[j] = "locked" -> 2 * (MaxDelivery - delivery[j]) + 1
    [] OTHER               -> 0

HandedOver(j) == HandoversLeft(j)' < HandoversLeft(j)

Untouched(j) == queue'[j] = queue[j] /\ delivery'[j] = delivery[j]

LEMMA ReleaseCountsDown ==
  ASSUME WorkerInv, NEW k \in Jobs, queue[k] = "locked", Release(k), UNCHANGED delivery,
         NEW j \in Jobs
  PROVE  Untouched(j) \/ HandedOver(j)
<1>1. /\ queue \in [Jobs -> QueueStates] /\ delivery[j] \in 0..MaxDelivery /\ MaxDelivery \in Nat
  BY DeliveryForms DEF WorkerInv, QueueSideInv, WorkerTypeOK
<1>2. CASE j = k
  <2>1. queue'[j] \in {"active", "dead_letter"}
    BY <1>1, <1>2 DEF Release
  <2> QED  BY <1>1, <1>2, <2>1 DEF HandedOver, HandoversLeft
<1>3. CASE j # k
  BY <1>1, <1>3 DEF Release, Untouched
<1> QED  BY <1>2, <1>3

LEMMA WorkerCountsDown ==
  ASSUME WorkerInv, WorkerNext, NEW j \in Jobs
  PROVE  Untouched(j) \/ HandedOver(j)
<1>1. /\ QueueSideInv /\ queue \in [Jobs -> QueueStates] /\ delivery \in [Jobs -> 0..MaxDelivery]
      /\ MaxDelivery \in Nat /\ delivery[j] \in 0..MaxDelivery /\ QueueInv(j)
  BY DeliveryForms DEF WorkerInv, QueueSideInv, WorkerTypeOK
<1>2. ASSUME UNCHANGED <<queue, delivery>>
      PROVE  Untouched(j)
  BY <1>2 DEF Untouched
<1>3. ASSUME NEW k \in Jobs, NEW s \in Scenarios, Post(k, s)
      PROVE  Untouched(j) \/ HandedOver(j)
  <2>1. /\ queue[k] = "unsent" /\ delivery' = delivery
        /\ queue' = [queue EXCEPT ![k] = "active"]
    BY <1>3 DEF Post
  <2>2. CASE j = k
    <3>1. queue'[j] = "active" /\ delivery[j] = 0
      BY <1>1, <2>1, <2>2 DEF QueueInv
    <3> QED  BY <1>1, <2>1, <2>2, <3>1 DEF HandedOver, HandoversLeft
  <2>3. CASE j # k
    BY <1>1, <2>1, <2>3 DEF Untouched
  <2> QED  BY <2>2, <2>3
<1>4. ASSUME NEW p \in Pods, NEW k \in Jobs, Receive(p, k)
      PROVE  Untouched(j) \/ HandedOver(j)
  <2>1. /\ queue[k] = "active" /\ queue' = [queue EXCEPT ![k] = "locked"]
        /\ delivery' = [delivery EXCEPT ![k] = @ + 1]
    BY <1>4 DEF Receive
  <2>2. CASE j = k
    <3>1. queue'[j] = "locked" /\ delivery'[j] = delivery[j] + 1
      BY <1>1, <2>1, <2>2
    <3> QED  BY <1>1, <2>1, <2>2, <3>1 DEF HandedOver, HandoversLeft
  <2>3. CASE j # k
    BY <1>1, <2>1, <2>3 DEF Untouched
  <2> QED  BY <2>2, <2>3
<1>5. ASSUME NEW p \in Pods, Complete(p)
      PROVE  Untouched(j) \/ HandedOver(j)
  <2>1. delivery' = delivery
    BY <1>5 DEF Complete
  <2>2. CASE queue' = queue
    BY <1>2, <2>1, <2>2
  <2>3. CASE TokenValid(p) /\ queue' = [queue EXCEPT ![JobOf(p)] = "completed"]
    <3>1. CASE j = JobOf(p)
      <4>1. queue[j] = "locked" /\ queue'[j] = "completed"
        BY <1>1, <2>3, <3>1 DEF TokenValid
      <4> QED  BY <1>1, <4>1 DEF HandedOver, HandoversLeft
    <3>2. CASE j # JobOf(p)
      BY <1>1, <2>1, <2>3, <3>2 DEF Untouched
    <3> QED  BY <3>1, <3>2
  <2> QED  BY <1>5, <2>2, <2>3 DEF Complete
<1>6. ASSUME NEW p \in Pods, Abandon(p)
      PROVE  Untouched(j) \/ HandedOver(j)
  <2>1. delivery' = delivery /\ JobOf(p) \in Jobs
    BY <1>1, <1>6, HeldToken DEF Abandon, PodAt, Holding
  <2>2. CASE queue' = queue
    BY <1>2, <2>1, <2>2
  <2>3. CASE TokenValid(p) /\ Release(JobOf(p))
    BY <2>1, <2>3, ReleaseCountsDown DEF TokenValid
  <2> QED  BY <1>6, <2>2, <2>3 DEF Abandon
<1>7. ASSUME NEW p \in Pods,
             \/ ProcessFails(p) \/ StartInvestigation(p) \/ Investigate(p)
             \/ InvestigationEnds(p) \/ PodRestart(p) \/ IdleTimeout(p) \/ PodCrash(p)
      PROVE  UNCHANGED <<queue, delivery>>
  BY <1>7 DEF ProcessFails, StartInvestigation, Investigate, InvestigationEnds, PodRestart,
              IdleTimeout, PodCrash, queueVars
<1>8. ASSUME NEW k \in Jobs, LockExpires(k)
      PROVE  Untouched(j) \/ HandedOver(j)
  BY <1>8, ReleaseCountsDown DEF LockExpires
<1> QED  BY <1>2, <1>3, <1>4, <1>5, <1>6, <1>7, <1>8 DEF WorkerNext, PodStep

\* A message changes hands at most 2 * MaxDelivery + 1 times, through any sequence of
\* crashes, lost locks, stale pods and worker exits: whatever touches it brings it
\* nearer to being settled.
THEOREM HandoversCountDown ==
  WorkerSpec => /\ [](\A j \in Jobs : HandoversLeft(j) \in 0..(2 * MaxDelivery + 1))
                /\ [][\A j \in Jobs : Untouched(j) \/ HandedOver(j)]_allVars
<1>1. WorkerInv => \A j \in Jobs : HandoversLeft(j) \in 0..(2 * MaxDelivery + 1)
  <2> SUFFICES ASSUME WorkerInv, NEW j \in Jobs
               PROVE  HandoversLeft(j) \in 0..(2 * MaxDelivery + 1)
    OBVIOUS
  <2>1. delivery[j] \in 0..MaxDelivery /\ MaxDelivery \in Nat
    BY DeliveryForms DEF WorkerInv, QueueSideInv, WorkerTypeOK
  <2> QED  BY <2>1 DEF HandoversLeft
<1>2. WorkerInv /\ [WorkerNext]_allVars =>
        [\A j \in Jobs : Untouched(j) \/ HandedOver(j)]_allVars
  BY WorkerCountsDown
<1> QED  BY <1>1, <1>2, WorkerInvariant, PTL DEF WorkerSpec
=============================================================================
