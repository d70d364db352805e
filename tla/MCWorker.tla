------------------------------ MODULE MCWorker ------------------------------
(* One job, two pods and three deliveries, so that a stale pod, the holder of *)
(* the lock and a later delivery meet; a Q2 and a Q1 scenario; and a clock    *)
(* that shows every run the same millisecond.                                 *)
EXTENDS Worker

CONSTANT j1

MCJobs == {j1}
MCScenarios == {"dc9_Q1", "dc9_Q2"}
MCNoPrior == {"dc9_Q1"}
MCTicks == {1}
MCVerdicts == {"uncertain"}
MCRuns == MCJobs \X (1..MaxDelivery)
MCAgentRunIds == MCScenarios \X MCTicks
=============================================================================
