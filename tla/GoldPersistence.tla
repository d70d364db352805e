--------------------------- MODULE GoldPersistence ---------------------------
(***************************************************************************)
(* What the calls of run_investigation leave in the gold layer once their  *)
(* graph has returned (layer3_agents/supervisor.py): the cost-telemetry    *)
(* row, a MERGE keyed by agent_run_id, and then the decision row, an       *)
(* INSERT under the call's own investigation_run_id.  Both writers retry   *)
(* any exception up to MaxAttempts times and then let it out of            *)
(* run_investigation.  A write that raises may have been committed before  *)
(* the error (a lost answer, a failing close), and a process may die       *)
(* between any two steps.  The graph itself is modelled in Supervisor.     *)
(***************************************************************************)
EXTENDS Naturals

CONSTANTS Runs,         \* calls of run_investigation, an investigation_run_id each:
                        \* no two begin in the same microsecond (supervisor.py:560)
          AgentRunIds,  \* caller-supplied ids: several runs may share one
          Verdicts,
          MaxAttempts,  \* stop_after_attempt of both writers
          NULL

ASSUME MaxAttemptsAssumption == MaxAttempts \in Nat \ {0}

ASSUME NullAssumption == NULL \notin Runs \cup AgentRunIds \cup Verdicts

Writers == {"cost", "decisions"}
Stages == {"idle", "graph", "write_cost", "write_decision", "returned", "raised", "crashed"}

VARIABLES
  stage,          \* where each call is
  agent_run_id,   \* NULL until the call starts
  writers,        \* the writers the caller wired
  verdict,        \* the in-memory verdict, NULL until the graph has returned
  attempt,        \* failed attempts of the write in progress
  cost_rows,      \* gold.cost_telemetry: the run whose figures the id's row holds
  decision_rows   \* gold.layer3_decisions: rows under the run's investigation_run_id

vars == <<stage, agent_run_id, writers, verdict, attempt, cost_rows, decision_rows>>

Init ==
  /\ stage = [r \in Runs |-> "idle"]
  /\ agent_run_id = [r \in Runs |-> NULL]
  /\ writers = [r \in Runs |-> {}]
  /\ verdict = [r \in Runs |-> NULL]
  /\ attempt = [r \in Runs |-> 0]
  /\ cost_rows = [id \in AgentRunIds |-> NULL]
  /\ decision_rows = [r \in Runs |-> 0]

MoveTo(r, s) == stage' = [stage EXCEPT ![r] = s]

Start(r, id, w) ==
  /\ stage[r] = "idle"
  /\ MoveTo(r, "graph")
  /\ agent_run_id' = [agent_run_id EXCEPT ![r] = id]
  /\ writers' = [writers EXCEPT ![r] = w]
  /\ UNCHANGED <<verdict, attempt, cost_rows, decision_rows>>

AfterCost(r) == IF "decisions" \in writers[r] THEN "write_decision" ELSE "returned"

\* Mutant: with both writers wired the decision row goes first.
AfterGraphDecisionFirst(r) ==
  IF "decisions" \in writers[r] THEN "write_decision"
  ELSE IF "cost" \in writers[r] THEN "write_cost" ELSE "returned"

AfterGraph(r) == IF "cost" \in writers[r] THEN "write_cost" ELSE AfterCost(r)

GraphReturns(r, v) ==
  /\ stage[r] = "graph"
  /\ verdict' = [verdict EXCEPT ![r] = v]
  /\ MoveTo(r, AfterGraph(r))
  /\ UNCHANGED <<agent_run_id, writers, attempt, cost_rows, decision_rows>>

\* A collaborator raised: neither writer is reached.
GraphRaises(r) ==
  /\ stage[r] = "graph"
  /\ MoveTo(r, "raised")
  /\ UNCHANGED <<agent_run_id, writers, verdict, attempt, cost_rows, decision_rows>>

Acknowledged(r, next) ==
  /\ MoveTo(r, next)
  /\ attempt' = [attempt EXCEPT ![r] = 0]

\* Mutant: one attempt too many.
AttemptFailsOffByOne(r) ==
  /\ attempt' = [attempt EXCEPT ![r] = @ + 1]
  /\ IF attempt[r] < MaxAttempts THEN UNCHANGED stage ELSE MoveTo(r, "raised")

\* Mutant: the retry never gives up.
AttemptFailsForever(r) ==
  /\ attempt' = [attempt EXCEPT ![r] = (@ + 1) % MaxAttempts]
  /\ UNCHANGED stage

\* tenacity: try again, or re-raise once the attempts are used up.
AttemptFails(r) ==
  /\ attempt' = [attempt EXCEPT ![r] = @ + 1]
  /\ IF attempt[r] + 1 < MaxAttempts THEN UNCHANGED stage ELSE MoveTo(r, "raised")

\* The MERGE: one row per agent_run_id, overwritten by whoever writes last.
MergeCost(r) == cost_rows' = [cost_rows EXCEPT ![agent_run_id[r]] = r]

WriteCost(r) ==
  /\ stage[r] = "write_cost"
  /\ \/ MergeCost(r) /\ Acknowledged(r, AfterCost(r))
     \/ MergeCost(r) /\ AttemptFails(r)
     \/ UNCHANGED cost_rows /\ AttemptFails(r)
  /\ UNCHANGED <<agent_run_id, writers, verdict, decision_rows>>

\* The INSERT: every committed attempt adds a row.
InsertDecision(r) == decision_rows' = [decision_rows EXCEPT ![r] = @ + 1]

\* Mutant: a decision that could not be written is only logged.
WriteDecisionBestEffort(r) ==
  /\ stage[r] = "write_decision"
  /\ \/ InsertDecision(r) \/ UNCHANGED decision_rows
  /\ Acknowledged(r, "returned")
  /\ UNCHANGED <<agent_run_id, writers, verdict, cost_rows>>

WriteDecision(r) ==
  /\ stage[r] = "write_decision"
  /\ \/ InsertDecision(r) /\ Acknowledged(r, "returned")
     \/ InsertDecision(r) /\ AttemptFails(r)
     \/ UNCHANGED decision_rows /\ AttemptFails(r)
  /\ UNCHANGED <<agent_run_id, writers, verdict, cost_rows>>

Crash(r) ==
  /\ stage[r] \in {"graph", "write_cost", "write_decision"}
  /\ MoveTo(r, "crashed")
  /\ UNCHANGED <<agent_run_id, writers, verdict, attempt, cost_rows, decision_rows>>

\* One step of the call's own code.
RunStep(r) ==
  \/ \E v \in Verdicts : GraphReturns(r, v)
  \/ GraphRaises(r)
  \/ WriteCost(r)
  \/ WriteDecision(r)

Next ==
  \E r \in Runs : \/ \E id \in AgentRunIds, w \in SUBSET Writers : Start(r, id, w)
                  \/ RunStep(r)
                  \/ Crash(r)

\* A started call keeps running until it returns, raises or its process dies.
Spec == Init /\ [][Next]_vars /\ \A r \in Runs : WF_vars(RunStep(r))
-----------------------------------------------------------------------------
TypeOK ==
  /\ stage \in [Runs -> Stages]
  /\ agent_run_id \in [Runs -> AgentRunIds \cup {NULL}]
  /\ writers \in [Runs -> SUBSET Writers]
  /\ verdict \in [Runs -> Verdicts \cup {NULL}]
  /\ attempt \in [Runs -> 0..MaxAttempts]
  /\ cost_rows \in [AgentRunIds -> Runs \cup {NULL}]
  /\ decision_rows \in [Runs -> Nat]

\* Cost before decision: whatever fails or dies between the two writes, a decision
\* in the gold layer always joins to a cost row of its agent_run_id, and that row
\* holds the figures of a run that decided something.
DecisionJoinsToCost ==
  \A r \in Runs : decision_rows[r] > 0 /\ "cost" \in writers[r] =>
    LET owner == cost_rows[agent_run_id[r]] IN
      /\ owner # NULL
      /\ agent_run_id[owner] = agent_run_id[r]
      /\ verdict[owner] # NULL

\* Returning to the caller means the wired rows are there, and the retries of the
\* non-idempotent INSERT never leave more than MaxAttempts copies.
ReturnedMeansPersisted ==
  \A r \in Runs :
    /\ stage[r] = "returned" =>
         /\ "decisions" \in writers[r] => decision_rows[r] \in 1..MaxAttempts
         /\ "cost" \in writers[r] => cost_rows[agent_run_id[r]] # NULL
    /\ decision_rows[r] <= attempt[r] + (IF stage[r] = "returned" THEN MaxAttempts ELSE 0)

\* Every started call comes to an end.
EveryRunEnds ==
  \A r \in Runs : stage[r] = "graph" ~> stage[r] \in {"returned", "raised", "crashed"}
-----------------------------------------------------------------------------
(* What the code's comments say, and the code does not do *)

\* models/layer3_decision.py:6 (Layer3Decision): one row per investigation_run_id.
OneRowPerInvestigation == \A r \in Runs : decision_rows[r] <= 1

\* supervisor.py:760-762 (run_investigation): the supervisor never blocks on
\* warehouse availability for the in-memory verdict.
WarehouseNeverBlocksVerdict == \A r \in Runs : verdict[r] # NULL => stage[r] # "raised"
=============================================================================
