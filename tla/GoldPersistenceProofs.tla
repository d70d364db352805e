------------------------ MODULE GoldPersistenceProofs ------------------------
(***************************************************************************)
(* Proofs about GoldPersistence, for every set of calls, of ids and of     *)
(* verdicts and every number of attempts.  The invariant says what each    *)
(* stage has behind it (Behind), that a cost row always belongs to a call  *)
(* with a verdict (CostRowsInv), and how many decision rows the attempts   *)
(* so far can have left (RowsInv).  A measure bounds the steps of a call   *)
(* (CallStepsLeft).                                                        *)
(***************************************************************************)
EXTENDS GoldPersistence, TLAPS

Behind(r) ==
  /\ stage[r] # "idle" => agent_run_id[r] \in AgentRunIds
  /\ stage[r] \in {"idle", "graph"} => verdict[r] = NULL /\ attempt[r] = 0
  /\ stage[r] \in {"write_cost", "write_decision", "returned"} => verdict[r] # NULL
  /\ stage[r] \in {"write_cost", "write_decision"} => attempt[r] < MaxAttempts
  /\ stage[r] = "write_cost" => "cost" \in writers[r]
  /\ stage[r] = "write_decision" => "decisions" \in writers[r]
  /\ stage[r] = "raised" =>
       verdict[r] = NULL \/ (attempt[r] = MaxAttempts /\ writers[r] # {})
  /\ (stage[r] \in {"write_decision", "returned"} \/ decision_rows[r] > 0)
       /\ "cost" \in writers[r] => cost_rows[agent_run_id[r]] # NULL

CostRowsInv ==
  \A id \in AgentRunIds : cost_rows[id] # NULL =>
    /\ agent_run_id[cost_rows[id]] = id
    /\ verdict[cost_rows[id]] # NULL

RowsInv(r) ==
  /\ stage[r] \in {"idle", "graph", "write_cost"} \/ verdict[r] = NULL => decision_rows[r] = 0
  /\ "decisions" \notin writers[r] => decision_rows[r] = 0
  /\ stage[r] # "returned" => decision_rows[r] <= attempt[r]
  /\ stage[r] = "returned" => /\ decision_rows[r] <= MaxAttempts
                              /\ "decisions" \in writers[r] => decision_rows[r] >= 1

Inv == TypeOK /\ CostRowsInv /\ \A r \in Runs : Behind(r) /\ RowsInv(r)
-----------------------------------------------------------------------------
\* Initially nothing has started.
LEMMA InitInv == Init => Inv
BY MaxAttemptsAssumption DEF Init, Inv, TypeOK, Stages, CostRowsInv, Behind, RowsInv

\* The two writes have the same frame: which call moves, and what it may move to.
LEMMA AfterStages ==
  ASSUME NEW r \in Runs
  PROVE  /\ AfterCost(r) \in {"write_decision", "returned"}
         /\ AfterCost(r) = "write_decision" <=> "decisions" \in writers[r]
         /\ AfterGraph(r) \in {"write_cost", "write_decision", "returned"}
         /\ AfterGraph(r) = "write_cost" <=> "cost" \in writers[r]
         /\ AfterGraph(r) # "write_cost" =>
              "cost" \notin writers[r] /\ AfterGraph(r) = AfterCost(r)
BY DEF AfterCost, AfterGraph

LEMMA StartKeeps ==
  ASSUME Inv, NEW r \in Runs, NEW id \in AgentRunIds, NEW w \in SUBSET Writers, Start(r, id, w)
  PROVE  Inv'
<1>. USE DEF Inv, Start, MoveTo
<1>1. TypeOK'
  BY DEF TypeOK, Stages
<1>2. CostRowsInv'
  BY NullAssumption DEF TypeOK, CostRowsInv, Behind
<1>3. ASSUME NEW s \in Runs
      PROVE  Behind(s)' /\ RowsInv(s)'
  BY DEF TypeOK, Behind, RowsInv
<1>. QED
  BY <1>1, <1>2, <1>3

LEMMA GraphReturnsKeeps ==
  ASSUME Inv, NEW r \in Runs, NEW v \in Verdicts, GraphReturns(r, v)
  PROVE  Inv'
<1>. USE DEF Inv, GraphReturns, MoveTo
<1>1. TypeOK'
  BY AfterStages DEF TypeOK, Stages
<1>2. CostRowsInv'
  BY NullAssumption DEF TypeOK, CostRowsInv
<1>3. ASSUME NEW s \in Runs
      PROVE  Behind(s)' /\ RowsInv(s)'
  BY AfterStages, NullAssumption, MaxAttemptsAssumption DEF TypeOK, Behind, RowsInv
<1>. QED
  BY <1>1, <1>2, <1>3

LEMMA GraphRaisesKeeps ==
  ASSUME Inv, NEW r \in Runs, GraphRaises(r) \/ Crash(r)
  PROVE  Inv'
<1>. USE DEF Inv, GraphRaises, Crash, MoveTo
<1>1. TypeOK'
  BY DEF TypeOK, Stages
<1>2. CostRowsInv'
  BY DEF CostRowsInv
<1>3. ASSUME NEW s \in Runs
      PROVE  Behind(s)' /\ RowsInv(s)'
  BY DEF TypeOK, Behind, RowsInv
<1>. QED
  BY <1>1, <1>2, <1>3

\* A write either is acknowledged and moves on, or has used one attempt more and
\* stays, or has used the last one and raises.
LEMMA WriteOutcome ==
  ASSUME TypeOK, NEW r \in Runs, NEW next, attempt[r] < MaxAttempts,
         Acknowledged(r, next) \/ AttemptFails(r)
  PROVE  /\ attempt' \in [Runs -> 0..MaxAttempts]
         /\ \A s \in Runs \ {r} : stage'[s] = stage[s] /\ attempt'[s] = attempt[s]
         /\ \/ stage'[r] = next /\ stage' = [stage EXCEPT ![r] = next] /\ attempt'[r] = 0
            \/ /\ attempt'[r] = attempt[r] + 1
               /\ stage' = stage
               /\ attempt'[r] < MaxAttempts
            \/ /\ attempt'[r] = attempt[r] + 1
               /\ stage' = [stage EXCEPT ![r] = "raised"]
BY MaxAttemptsAssumption DEF TypeOK, Acknowledged, AttemptFails, MoveTo

LEMMA WriteCostKeeps ==
  ASSUME Inv, NEW r \in Runs, WriteCost(r)
  PROVE  Inv'
<1>1. /\ stage[r] = "write_cost"
      /\ \/ MergeCost(r) /\ Acknowledged(r, AfterCost(r))
         \/ (MergeCost(r) \/ UNCHANGED cost_rows) /\ AttemptFails(r)
      /\ UNCHANGED <<agent_run_id, writers, verdict, decision_rows>>
  BY DEF WriteCost
<1>2. /\ TypeOK /\ CostRowsInv
      /\ \A s \in Runs : Behind(s) /\ RowsInv(s)
      /\ agent_run_id[r] \in AgentRunIds /\ verdict[r] # NULL /\ attempt[r] < MaxAttempts
      /\ decision_rows[r] = 0
  BY <1>1 DEF Inv, Behind, RowsInv
<1>3. AfterCost(r) \in {"write_decision", "returned"}
  BY AfterStages
<1>4. TypeOK'
  <2>1. cost_rows' \in [AgentRunIds -> Runs \cup {NULL}]
    BY <1>1, <1>2 DEF MergeCost, TypeOK
  <2>2. Acknowledged(r, AfterCost(r)) \/ AttemptFails(r)
    BY <1>1
  <2>3. attempt' \in [Runs -> 0..MaxAttempts]
    BY <1>2, <2>2, WriteOutcome
  <2>4. stage' \in [Runs -> Stages]
    BY <1>2, <1>3, <2>2 DEF Acknowledged, AttemptFails, MoveTo, TypeOK, Stages
  <2>. QED
    BY <1>1, <1>2, <2>1, <2>3, <2>4 DEF TypeOK
<1>5. CostRowsInv'
  BY <1>1, <1>2 DEF CostRowsInv, MergeCost, TypeOK
<1>6. \A id \in AgentRunIds : cost_rows[id] # NULL => cost_rows'[id] # NULL
  BY <1>1, <1>2, NullAssumption DEF MergeCost, TypeOK
<1>7. ASSUME NEW s \in Runs, s # r
      PROVE  Behind(s)' /\ RowsInv(s)'
  <2>1. stage'[s] = stage[s] /\ attempt'[s] = attempt[s]
    BY <1>1, <1>2, <1>7, WriteOutcome
  <2>2. stage[s] # "idle" \/ decision_rows[s] = 0
    BY <1>2 DEF RowsInv
  <2>3. Behind(s)'
    BY <1>1, <1>2, <1>6, <2>1, <2>2 DEF Behind, TypeOK
  <2>4. RowsInv(s)'
    BY <1>1, <1>2, <2>1 DEF RowsInv
  <2>. QED
    BY <2>3, <2>4
<1>8. Behind(r)' /\ RowsInv(r)'
  <2>1. CASE AttemptFails(r)
    <3>1. /\ attempt'[r] = attempt[r] + 1
          /\ \/ stage'[r] = "write_cost" /\ attempt'[r] < MaxAttempts
             \/ stage'[r] = "raised" /\ attempt'[r] = MaxAttempts
      BY <1>1, <1>2, <2>1, MaxAttemptsAssumption DEF AttemptFails, MoveTo, TypeOK
    <3>. QED
      BY <1>1, <1>2, <3>1, MaxAttemptsAssumption DEF Behind, RowsInv, TypeOK
  <2>2. CASE MergeCost(r) /\ Acknowledged(r, AfterCost(r))
    <3>1. stage'[r] = AfterCost(r) /\ attempt'[r] = 0
      BY <1>2, <2>2 DEF Acknowledged, MoveTo, TypeOK
    <3>2. cost_rows'[agent_run_id[r]] # NULL
      BY <1>2, <2>2, NullAssumption DEF MergeCost, TypeOK
    <3>3. AfterCost(r) = "write_decision" <=> "decisions" \in writers[r]
      BY AfterStages
    <3>. QED
      BY <1>1, <1>2, <1>3, <3>1, <3>2, <3>3, MaxAttemptsAssumption DEF Behind, RowsInv, TypeOK
  <2>. QED
    BY <2>1, <2>2 DEF WriteCost
<1>. QED
  BY <1>4, <1>5, <1>7, <1>8 DEF Inv

LEMMA WriteDecisionKeeps ==
  ASSUME Inv, NEW r \in Runs, WriteDecision(r)
  PROVE  Inv'
<1>1. /\ stage[r] = "write_decision"
      /\ \/ InsertDecision(r) /\ Acknowledged(r, "returned")
         \/ (InsertDecision(r) \/ UNCHANGED decision_rows) /\ AttemptFails(r)
      /\ UNCHANGED <<agent_run_id, writers, verdict, cost_rows>>
  BY DEF WriteDecision
<1>2. /\ TypeOK /\ CostRowsInv
      /\ \A s \in Runs : Behind(s) /\ RowsInv(s)
      /\ agent_run_id[r] \in AgentRunIds /\ verdict[r] # NULL /\ attempt[r] < MaxAttempts
      /\ decision_rows[r] <= attempt[r]
      /\ "decisions" \in writers[r]
      /\ "cost" \in writers[r] => cost_rows[agent_run_id[r]] # NULL
  BY <1>1 DEF Inv, Behind, RowsInv
<1>3. decision_rows' \in [Runs -> Nat]
      /\ \A s \in Runs \ {r} : decision_rows'[s] = decision_rows[s]
  BY <1>1, <1>2 DEF InsertDecision, TypeOK
<1>4. TypeOK'
  BY <1>1, <1>2, <1>3, WriteOutcome DEF TypeOK, Stages
<1>5. CostRowsInv'
  BY <1>1, <1>2 DEF CostRowsInv
<1>6. ASSUME NEW s \in Runs, s # r
      PROVE  Behind(s)' /\ RowsInv(s)'
  BY <1>1, <1>2, <1>3, <1>6, WriteOutcome DEF Behind, RowsInv
<1>7. Behind(r)' /\ RowsInv(r)'
  <2>1. CASE AttemptFails(r)
    <3>1. /\ attempt'[r] = attempt[r] + 1
          /\ \/ stage'[r] = "write_decision" /\ attempt'[r] < MaxAttempts
             \/ stage'[r] = "raised" /\ attempt'[r] = MaxAttempts
      BY <1>1, <1>2, <2>1, MaxAttemptsAssumption DEF AttemptFails, MoveTo, TypeOK
    <3>2. Behind(r)'
      BY <1>1, <1>2, <3>1 DEF Behind
    <3>3. decision_rows'[r] <= attempt'[r]
      <4>1. decision_rows[r] \in Nat /\ attempt[r] \in Nat
        BY <1>2, MaxAttemptsAssumption DEF TypeOK
      <4>2. decision_rows[r] <= attempt[r] /\ attempt'[r] = attempt[r] + 1
        BY <1>2, <3>1
      <4>3. \/ decision_rows'[r] = decision_rows[r]
            \/ decision_rows'[r] = decision_rows[r] + 1
        BY <1>1, <1>2 DEF InsertDecision, TypeOK
      <4>. QED
        BY <4>1, <4>2, <4>3
    <3>4. RowsInv(r)'
      BY <1>1, <1>2, <3>1, <3>3 DEF RowsInv
    <3>. QED
      BY <3>2, <3>4
  <2>2. CASE InsertDecision(r) /\ Acknowledged(r, "returned")
    <3>1. stage'[r] = "returned" /\ decision_rows'[r] = decision_rows[r] + 1
      BY <1>2, <2>2 DEF InsertDecision, Acknowledged, MoveTo, TypeOK
    <3>. QED
      BY <1>1, <1>2, <3>1, MaxAttemptsAssumption DEF Behind, RowsInv, TypeOK
  <2>. QED
    BY <1>1, <2>1, <2>2
<1>. QED
  BY <1>4, <1>5, <1>6, <1>7 DEF Inv

\* Every step keeps the invariant.
LEMMA NextInv == Inv /\ [Next]_vars => Inv'
<1>. SUFFICES ASSUME Inv, [Next]_vars PROVE Inv'
  OBVIOUS
<1>1. ASSUME NEW r \in Runs, RunStep(r)
      PROVE  Inv'
  BY <1>1, GraphReturnsKeeps, GraphRaisesKeeps, WriteCostKeeps, WriteDecisionKeeps DEF RunStep
<1>2. CASE UNCHANGED vars
  BY <1>2 DEF vars, Inv, TypeOK, CostRowsInv, Behind, RowsInv
<1>. QED
  BY <1>1, <1>2, StartKeeps, GraphRaisesKeeps DEF Next

LEMMA InvInvariant == Spec => []Inv
BY InitInv, NextInv, PTL DEF Spec
-----------------------------------------------------------------------------
\* Every reachable state of the tables and the calls is well typed.
THEOREM GoldTypeCorrect == Spec => []TypeOK
BY InvInvariant, PTL DEF Inv

\* A committed decision was preceded by the cost write, which overwrites but never
\* deletes.
LEMMA InvJoins == Inv => DecisionJoinsToCost
<1>. SUFFICES ASSUME Inv, NEW r \in Runs, decision_rows[r] > 0, "cost" \in writers[r]
              PROVE  /\ cost_rows[agent_run_id[r]] # NULL
                     /\ agent_run_id[cost_rows[agent_run_id[r]]] = agent_run_id[r]
                     /\ verdict[cost_rows[agent_run_id[r]]] # NULL
  BY DEF DecisionJoinsToCost
<1>1. decision_rows[r] \in Nat /\ stage[r] # "idle"
  BY DEF Inv, TypeOK, RowsInv
<1>2. agent_run_id[r] \in AgentRunIds /\ cost_rows[agent_run_id[r]] # NULL
  BY <1>1 DEF Inv, Behind
<1>. QED
  BY <1>2 DEF Inv, CostRowsInv

\* A decision row always joins to the cost row of a call that decided something.
THEOREM DecisionHasCost == Spec => []DecisionJoinsToCost
BY InvJoins, InvInvariant, PTL

\* Only an acknowledged write moves a call on to its return.
LEMMA InvPersists == Inv => ReturnedMeansPersisted
<1>. SUFFICES ASSUME Inv, NEW r \in Runs
              PROVE  /\ stage[r] = "returned" =>
                          /\ "decisions" \in writers[r] => decision_rows[r] \in 1..MaxAttempts
                          /\ "cost" \in writers[r] => cost_rows[agent_run_id[r]] # NULL
                     /\ decision_rows[r] <=
                          attempt[r] + (IF stage[r] = "returned" THEN MaxAttempts ELSE 0)
  BY DEF ReturnedMeansPersisted
<1>1. /\ decision_rows[r] \in Nat /\ attempt[r] \in Nat /\ MaxAttempts \in Nat
      /\ Behind(r) /\ RowsInv(r)
  BY MaxAttemptsAssumption DEF Inv, TypeOK
<1>. QED
  BY <1>1 DEF Behind, RowsInv

\* Returning means the wired rows are there, at most MaxAttempts of them.
THEOREM ReturnedIsPersisted == Spec => []ReturnedMeansPersisted
BY InvPersists, InvInvariant, PTL

\* What an investigation that fails costs: a sub-agent's exception, the TypeError that
\* passes the validation agent's except clauses among them, leaves neither a decision
\* row nor a cost row of the call, although state.py:61-63 and layer3_decision.py:4-5
\* promise a row for it (supervisor.py:749-787).
FailedGraphLeavesNoTrace ==
  \A r \in Runs : verdict[r] = NULL =>
    decision_rows[r] = 0 /\ \A id \in AgentRunIds : cost_rows[id] # r

\* Both writers come after the verdict.
LEMMA InvLeavesNoTrace == Inv => FailedGraphLeavesNoTrace
<1>. SUFFICES ASSUME Inv, NEW r \in Runs, verdict[r] = NULL
              PROVE  decision_rows[r] = 0 /\ \A id \in AgentRunIds : cost_rows[id] # r
  BY DEF FailedGraphLeavesNoTrace
<1>1. decision_rows[r] = 0
  BY DEF Inv, RowsInv
<1>2. ASSUME NEW id \in AgentRunIds, cost_rows[id] = r PROVE FALSE
  BY <1>2, NullAssumption DEF Inv, CostRowsInv
<1>. QED
  BY <1>1, <1>2

\* A call without a verdict is in neither table: the loss is of the whole investigation,
\* whatever raised and whichever writers are wired.
THEOREM NoVerdictNoTrace == Spec => []FailedGraphLeavesNoTrace
BY InvLeavesNoTrace, InvInvariant, PTL
-----------------------------------------------------------------------------
(* What is left of the two claims of the code's comments that fail           *)

\* supervisor.py:760-762 fails, but only so far: a verdict is lost to the caller only
\* when a writer was wired and raised on its very last attempt.  And
\* layer3_decision.py:6 fails, but only so far: a run has as many decision rows as
\* there are attempts at most, and none without the writer.
WarehouseHarmIsBounded ==
  \A r \in Runs :
    /\ stage[r] = "raised" /\ verdict[r] # NULL =>
         writers[r] # {} /\ attempt[r] = MaxAttempts
    /\ decision_rows[r] <= IF "decisions" \in writers[r] THEN MaxAttempts ELSE 0

\* The harm a failing warehouse does is bounded, for every number of attempts; with
\* one attempt, OneRowPerInvestigation holds.
THEOREM HarmBounded ==
  /\ Spec => []WarehouseHarmIsBounded
  /\ MaxAttempts = 1 => (Spec => []OneRowPerInvestigation)
<1>1. ASSUME Inv, NEW r \in Runs
      PROVE  decision_rows[r] <= IF "decisions" \in writers[r] THEN MaxAttempts ELSE 0
  <2>1. /\ decision_rows[r] \in Nat /\ attempt[r] \in 0..MaxAttempts /\ MaxAttempts \in Nat
        /\ RowsInv(r)
    BY <1>1, MaxAttemptsAssumption DEF Inv, TypeOK
  <2>. QED
    BY <2>1 DEF RowsInv
<1>2. Inv => WarehouseHarmIsBounded
  BY <1>1 DEF WarehouseHarmIsBounded, Inv, Behind
<1>3. ASSUME MaxAttempts = 1
      PROVE  Inv => OneRowPerInvestigation
  <2>. SUFFICES ASSUME Inv, NEW r \in Runs PROVE decision_rows[r] <= 1
    BY DEF OneRowPerInvestigation
  <2>1. decision_rows[r] \in Nat
    BY DEF Inv, TypeOK
  <2>. QED
    BY <1>1, <1>3, <2>1
<1>4. Spec => []WarehouseHarmIsBounded
  BY <1>2, InvInvariant, PTL
<1>5. ASSUME MaxAttempts = 1
      PROVE  Spec => []OneRowPerInvestigation
  BY <1>3, <1>5, InvInvariant, PTL
<1>. QED
  BY <1>4, <1>5
-----------------------------------------------------------------------------
(* Every call comes to an end: the measure behind EveryRunEnds *)

\* The steps a call may still take.
CallStepsLeft(r) ==
  CASE stage[r] = "idle"           -> 2 * MaxAttempts + 2
    [] stage[r] = "graph"          -> 2 * MaxAttempts + 1
    [] stage[r] = "write_cost"     -> 2 * MaxAttempts - attempt[r]
    [] stage[r] = "write_decision" -> MaxAttempts - attempt[r]
    [] OTHER                       -> 0

\* One call counts down, and only that one.
CallCountsDown(r) ==
  /\ CallStepsLeft(r)' < CallStepsLeft(r)
  /\ \A s \in Runs \ {r} : CallStepsLeft(s)' = CallStepsLeft(s)

\* The measure is a natural number, and what has no step left has ended.
LEMMA CallStepsType ==
  ASSUME Inv, NEW r \in Runs
  PROVE  /\ CallStepsLeft(r) \in 0..(2 * MaxAttempts + 2)
         /\ CallStepsLeft(r) = 0 => stage[r] \in {"returned", "raised", "crashed"}
<1>1. /\ stage[r] \in Stages /\ attempt[r] \in 0..MaxAttempts /\ MaxAttempts \in Nat \ {0}
      /\ stage[r] \in {"write_cost", "write_decision"} => attempt[r] < MaxAttempts
  BY MaxAttemptsAssumption DEF Inv, TypeOK, Behind
<1>. QED
  BY <1>1 DEF CallStepsLeft, Stages

\* Another call's measure depends on its own stage and attempt alone.
LEMMA CallFrame ==
  ASSUME NEW r \in Runs, NEW s \in Runs, stage'[s] = stage[s], attempt'[s] = attempt[s]
  PROVE  CallStepsLeft(s)' = CallStepsLeft(s)
BY DEF CallStepsLeft

\* Each step of the module is a step of one call, nearer to its end.
LEMMA StepCountsDown ==
  ASSUME Inv, NEW r \in Runs,
         \/ \E id \in AgentRunIds, w \in SUBSET Writers : Start(r, id, w)
         \/ RunStep(r)
         \/ Crash(r)
  PROVE  CallCountsDown(r)
<1>1. /\ TypeOK /\ Behind(r) /\ stage[r] \in Stages
      /\ MaxAttempts \in Nat \ {0} /\ attempt[r] \in 0..MaxAttempts
  BY MaxAttemptsAssumption DEF Inv, TypeOK
<1>2. CASE \E id \in AgentRunIds, w \in SUBSET Writers : Start(r, id, w)
  <2>1. /\ stage[r] = "idle" /\ stage'[r] = "graph" /\ attempt' = attempt
        /\ \A s \in Runs \ {r} : stage'[s] = stage[s]
    BY <1>1, <1>2 DEF Start, MoveTo, TypeOK
  <2>. QED
    BY <1>1, <2>1, CallFrame DEF CallCountsDown, CallStepsLeft
<1>3. CASE \E v \in Verdicts : GraphReturns(r, v)
  <2>1. /\ stage[r] = "graph" /\ attempt' = attempt /\ attempt[r] = 0
        /\ stage'[r] \in {"write_cost", "write_decision", "returned"}
        /\ \A s \in Runs \ {r} : stage'[s] = stage[s]
    BY <1>1, <1>3, AfterStages DEF GraphReturns, MoveTo, TypeOK, Behind
  <2>. QED
    BY <1>1, <2>1, CallFrame DEF CallCountsDown, CallStepsLeft
<1>4. CASE GraphRaises(r) \/ Crash(r)
  <2>1. /\ stage[r] \in {"graph", "write_cost", "write_decision"} /\ attempt' = attempt
        /\ stage'[r] \in {"raised", "crashed"}
        /\ \A s \in Runs \ {r} : stage'[s] = stage[s]
    BY <1>1, <1>4 DEF GraphRaises, Crash, MoveTo, TypeOK
  <2>. QED
    BY <1>1, <2>1, CallFrame DEF CallCountsDown, CallStepsLeft, Behind
<1>5. ASSUME NEW next, Acknowledged(r, next) \/ AttemptFails(r),
             \/ stage[r] = "write_cost" /\ next \in {"write_decision", "returned"}
             \/ stage[r] = "write_decision" /\ next = "returned"
      PROVE  CallCountsDown(r)
  <2>1. attempt[r] < MaxAttempts
    BY <1>1, <1>5 DEF Behind
  <2>2. /\ \A s \in Runs \ {r} : stage'[s] = stage[s] /\ attempt'[s] = attempt[s]
        /\ \/ stage'[r] = next /\ attempt'[r] = 0
           \/ attempt'[r] = attempt[r] + 1 /\ stage'[r] = stage[r] /\ attempt'[r] < MaxAttempts
           \/ stage'[r] = "raised"
    BY <1>1, <1>5, <2>1, WriteOutcome DEF TypeOK
  <2>3. CallStepsLeft(r)' < CallStepsLeft(r)
    BY <1>1, <1>5, <2>1, <2>2 DEF CallStepsLeft
  <2>. QED
    BY <2>2, <2>3, CallFrame DEF CallCountsDown
<1>6. CASE WriteCost(r) \/ WriteDecision(r)
  BY <1>5, <1>6, AfterStages DEF WriteCost, WriteDecision
<1>. QED
  BY <1>2, <1>3, <1>4, <1>6 DEF RunStep

\* Whatever the warehouse answers and however the attempts of different calls
\* interleave, a call takes at most 2 * MaxAttempts + 2 steps, and only its own steps
\* bring it nearer to its end: no retry begins again, and nothing another call does
\* delays it.
THEOREM CallsCountDown ==
  Spec => /\ [](\A r \in Runs : CallStepsLeft(r) \in 0..(2 * MaxAttempts + 2))
          /\ [][\E r \in Runs : CallCountsDown(r)]_vars
<1>1. Inv => \A r \in Runs : CallStepsLeft(r) \in 0..(2 * MaxAttempts + 2)
  BY CallStepsType
<1>2. Inv /\ [Next]_vars => [\E r \in Runs : CallCountsDown(r)]_vars
  BY StepCountsDown DEF Next
<1>. QED
  BY <1>1, <1>2, InvInvariant, PTL DEF Spec
=============================================================================
