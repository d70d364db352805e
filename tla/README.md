# A TLA+ model of agentic-audit-framework

The framework audits internal controls over quarterly evidence in three layers. Layer 1 runs
deterministic attribute checks over raw ("bronze") documents and writes "silver" evidence. Layer 2
has an LLM write one narrative per attribute, fact-checks it, and has a second LLM judge it. Layer 3
investigates the checks that failed for a reason a human might accept: a LangGraph loop of a
supervisor and three sub-agents, ending in one row of `gold.layer3_decisions`. A load-test service
(API, queue, workers) drives Layer 3 over a Service Bus queue.

This directory models Layer 1's checks and sweep, the runs of Layer 2 around the warehouse tables, and
Layer 3 with its tools, its persistence, its queue and its baseline script. Paths below are relative to
`src/agentic_audit/` of the repository unless they start with `scripts/` or `infra/`.

## Inventory

| Part | State it keeps | Operations | What makes it correct |
|---|---|---|---|
| Supervisor graph (`layer3_agents/supervisor.py`, `state.py`) | the `InvestigationState` channels, LangGraph's step counter | entry checks, `supervisor_node`, the conditional edge, three agent nodes, degraded narrative, decision row | the gate fails closed; the cap ends every loop; the trace is complete; the row says what the gate decided |
| Validation agent (`validation_agent.py`) | attempt number | fast path, LLM call with one retry, fallback | bounded calls; "no document" never reaches the LLM; failure means "unauthorised" |
| Narrative agent (`narrative_agent.py`) | three nested attempt numbers | LLM call, JSON retry, word-limit retry, fact-check retry, fallback | bounded calls; no ungrounded text leaves; fallback means ESCALATE |
| Extraction agent, tools (`extraction_agent.py`, `tools.py`) | the compiled graph, the recorder, the callback's open spans | prebuilt tool loop followed by a telemetry callback, three evidence lookups | a tool's answer agrees with what Layer 1 found; no span leaks; a call is counted on its own investigation |
| Gold writers (`decisions_writer.py`, `layer2_narrative/cost_writer.py`) | the two gold tables | MERGE of the cost row, INSERT of the decision, three attempts each | a decision joins to its cost; a returned call is persisted |
| Worker (`api/worker.py`) and API (`api/main.py`) | the queue, the lock token in hand | post, receive, process, complete, abandon | a job settles once; a completed job has its decision |
| Layer 2 generator, fact checker, judge (`layer2_narrative/`) | attempt numbers | LLM calls with retries | bounded retries, failure means "uncertain" |
| Layer 2 sweep (`scripts/run_layer2.py`, `gold_writer.py`) | the silver cache, gold narratives | per-combination generate, check, MERGE, catch | a sweep's rows of one quarter rest on one extraction; a text comes with its verdict |
| Judge sweep, re-fact-check (`scripts/run_judge_sweep.py`, `scripts/re_fact_check.py`) | a snapshot of the narratives | read, evaluate, write by key | an outcome joins to the text that was judged; a text its sweep is done with never comes back; the verdict is about the stored text |
| Layer 1 (`layer1_extract/`, `scripts/run_layer1.py`) | the scenario at hand, silver evidence | ten attribute checks, the sign-off parser, extract, MERGE with retries | a finished sweep has replaced the evidence of all its scenarios; a record is of the file it names |
| Bronze ingest (`ingest/`, `infra/databricks/notebooks/`) | bronze rows | an insert-only MERGE of a workpaper's rows | (feeds Layer 1) |
| Baseline script (`scripts/run_layer3_baseline.py`) | the loop over the scopes, results, failures | read two quarters, `run_investigation` with shared agents, catch, report | every scope is accounted for; exit 0 means the rows are there |

Around them: tracing decorators, a corpus generator and its CLI, a connectivity check, a live
verification script, settings, Terraform.

How they interact: everything is a synchronous call within one process, except the queue. The
supervisor reaches its collaborators through LangGraph's `configurable`; each may answer anything its
type allows, or raise. Sub-agents read and write only the graph state. The supervisor calls the two
writers after the graph has returned. The worker calls `run_investigation` for each message and tells
the broker how it went. Layers share only tables.

What is hard: the graph's route is computed twice on different states; confidence and judge verdict
are gathered at different visits; three retry loops nest; two writes have no transaction and one of
them is a retried INSERT; the Layer 2 scripts list, think and write by key with nothing
ordering them; a replaced workpaper stays in bronze beside its successor; the amendment cell is judged by
two different text tests, one in Layer 1 and one in a Layer 3 tool; locks expire under a running
investigation, so two pods work on one job;
anything may die between two steps. `PROJECT.json` lists every hazard with its line and the
properties that watch it, or why none does yet.

## Modules

    InvestigationContract  <-- refined by --  Supervisor  <-- refined by --  Investigation
                                                                              |        |
                                                                 ValidationAgent   NarrativeAgent

    AttributeChecks  <-- Layer1 --------------------------+
          |                                               |
          +------------  EvidenceTools <-- ExtractionAgent +-- extended by --  Baseline
                                                          |
    GoldPersistence --------------------------------------+
          |
          +-- extended by --  Worker  -- refines -->  JobContract

    NarrativeGenerator, Judge  <-- extended by --  Layer2  -- refines -->  NarrativesContract

Each `XProofs` holds the theorems about `X`: SupervisorProofs, InvestigationProofs,
NarrativeAgentProofs, GoldPersistenceProofs, WorkerProofs, Layer1Proofs (EvidenceTools too),
BaselineProofs, Layer2Proofs. Each `MCX` gives the constants of the runs.

**InvestigationContract** is the promise to a reader of the gold table: an automatic verdict (`pass`
or `fail`) needs both the agents' confidence and the judge's approval, everything else is
`uncertain`, a failure leaves no verdict, and a verdict is final. It is a specification, not a
translation, and maps to no code.

**Supervisor** is `run_investigation` without its writers. `pc` says where the call is: the entry
checks (`EnterGraph`, `RejectRequest`), the supervisor node (`SupervisorNode`, `JudgeRaises`), the
edge (`RouteFromSupervisor`), the agent nodes (`NoAgentInjected`, `ExtractionAgentNode`,
`ValidationAgentNode`, `NarrativeAgentNode`, `AgentRaises`), and what follows the graph
(`EnsureTerminalNarrative`, `BuildDecisionRow`). Node and edge are separate steps because LangGraph
evaluates the edge on the state the node left behind. Findings are abstracted to what the code
branches on; confidences are percentages; texts, timestamps and prompt versions are left out.
`supersteps` counts LangGraph's steps. `judge_calls` is a history variable.

**ValidationAgent**, **NarrativeAgent** open up the two LLM loops: one action per outcome of one
completion. Which completion is unusable, too long, malformed or ungrounded is a choice. What
escapes the `except` clauses is an action too (`CallNotAnObject`, `CallEscapes`).

**Investigation** composes the three: inside a node only the agent moves; the node ends when the
agent returns or raises. It implements Supervisor, so everything shown of Supervisor's safety holds
with the real loops inside.

**GoldPersistence** is the tail of `run_investigation` for any number of calls, each with an
`investigation_run_id` of its own (see Not modelled): the graph returns or
raises, then `WriteCost` (a MERGE keyed by the caller's `agent_run_id`) and `WriteDecision` (an
INSERT). An attempt may commit and still raise. After `MaxAttempts` failures the error leaves
the call. `Crash` may happen at any point. `decision_rows` counts rows per investigation id;
`cost_rows` remembers whose figures an id holds.

**AttributeChecks** is the ten checks, the sign-off parser and the assembly of an `ExtractedEvidence`, as
operators on the rows of a read. A cell is what the checks can tell of it: an amount or none, a rate or
none, and for a text which of the substring tests of Layer 1 and of the Layer 3 tools it meets (`Texts`).
A read of several revisions of a workpaper may take each row from any of them (`Sheets`), because the
SELECT orders by path, sheet and row only.

**EvidenceTools** is the three tools as operators on the two loaded records; `ToolResults` is every answer
an LLM can obtain from them.

**Layer1** is bronze and silver and the sweep between them: `Ingest` adds a revision beside the old one,
`ExtractScenario` reads and checks, `WriteEvidence` is one attempt of the MERGE. A sweep catches nothing.

**ExtractionAgent** is one ReAct run: the model calls (`CallStarts`, `CallEnds`, `CallFails`), the tool
calls between them, the structured answer, and the callback that opens and closes spans and counts usage
on the recorder the agent held when `invoke` built it. LangGraph's loop is external; `MaxCalls` is its
recursion limit.

**Baseline** composes Layer1, ExtractionAgent and GoldPersistence: one process runs the scopes one after
the other with the same agents and writers, while Layer 1 ingests and sweeps beside it. A scope is a run
of GoldPersistence whose `agent_run_id` is its label. What the validation and narrative agents do is
Supervisor's business; here each is a visit that may count usage or raise.

**Worker** extends it with the queue and the pods. Delivery *n* of job *j* is the run `<<j, n>>`.
The broker (peek-lock, lock tokens, delivery count, dead-letter) is not in the repository; it is
modelled from the calls `run_worker` makes and the `max_delivery_count` of
`infra/loadtest/modules/servicebus/main.tf`, and marked external. `complete_message` sits inside the
`try`, so its failure leads to an abandon; `abandon_message` sits in the handler, so its failure ends
the process.

**JobContract** is what a caller of `POST /run` may rely on, without pods, locks or attempts: a job is
tried a bounded number of times, is completed only when its latest try has persisted, is given up only
when no try is left. `Worker` maps to it by forgetting the lock (`JobStatus`) and by reading the tries'
decisions off the gold table (`Persisted`). Like InvestigationContract it maps to no code.

**NarrativeGenerator**, **Judge** are the two LLM loops of Layer 2, one action per kind of completion.
The generator has no fallback and raises; the judge has one and raises only for JSON that is not an
object. `billed` counts the completions of the call in progress.

**Layer2** extends both with the scripts as processes over shared tables: narrative sweeps, judge
sweeps and re-fact-checks, each one command-line run, for one engagement and one prompt version (the
other parts of the key never vary within a run). `todo` is the set of places of `Order` that the loop has not passed (it goes by the least), `cache` its
`silver_cache`, `snapshot` what `iter_narratives` or the SELECT returned. `Extract` is Layer 1's
MERGE of a triple, at any time. A text is represented by the `generate` call that made it (`<<sweep,
combination>>`, which is also its call id), evidence by the number of its extraction, a fact-check
verdict by the text and evidence it was computed from, because `FactChecker.check` is a function of the
two. Rows therefore carry more than the table does: the extraction is a history field. A read with its
retries is one step (retrying a read changes nothing); every attempt of a write is a step of its own
and may commit and still raise. `HISTORICAL` rows are those from before the call id column.

**NarrativesContract** is what a reader of the two Layer 2 tables may rely on, without evidence, call ids,
completions or attempts: a text is stored with the verdict on it by the sweep that made it; a later verdict, and
an outcome, is on a text that was stored when its run listed it, which need not be the one stored now; no
run writes a key that it has left, or any after it ended. It maps to no code. `Layer2` maps to it by the texts of the rows and
of the snapshots (`Texts`, `CheckedTexts`), the texts of the committed outcomes (`JudgedTexts`) and the
combinations a living run has not passed (`Ahead`).

Definitions preceded by `Mutant:` are not part of the model: each is a bug someone might
introduce, defined next to the definition it would replace, and shows that a property can fail.

## Runs

| Run | Shows | Bounds and why they suffice |
|---|---|---|
| `investigation` | the gate, the trace, the cap, the row, write-once outputs, termination and the contract; the opened loops implement Supervisor, spend is bounded, only grounded text reaches the row | the code's own cap 3, limit 10, threshold 70 and two attempts of each agent; confidences 0, 69, 70, 90 (initial value, both sides of the threshold, the fast path); two engagements, so a mismatch exists; every request, eligible or not, every subset of collaborators. Complete for these constants, since the call is finite |
| `worker` | a job settles once and finally, a completed job has its decision, a poison job never decides, and all this is JobContract; the tables of the overlapping calls stay joinable, duplicates are bounded, every call ends | one job, two pods, three deliveries: a stale pod, the lock holder and a later delivery can all exist at once. `max_delivery_count` is larger in the deployment and attempts are three; two attempts and three deliveries keep the run within two minutes. A third delivery is the first that can be both after a stale pod and the last. One clock reading: every run gets the same id, the worst case for a table conflict, which needs two calls and one id. The worker wires both writers; the theorems of `GoldPersistenceProofs` cover every choice of writers, of ids and of attempts |
| `layer2` | rows of a sweep rest on one extraction per quarter, call ids join to the judged text, counted outcomes exist, texts come only from their sweep, retries are bounded, runs end, and the tables keep NarrativesContract | two combinations of one triple (a cache hit, a skipped combination, someone else's row), two extractions, two attempts (three in the code; the second is already a retry and the last), one process of each script of which any two are started (`MaxRuns`). Each property relates two runs, or a run and Layer 1; all three at once exceed the time of a run |
| `baseline` | tool answers agree with Layer 1's findings, spans close, recorders and scopes are not mixed up, a finished sweep is stored, the script ends | two scopes sharing their agents, as the script's are; four pairs of current workpapers that cover each form the checks and tools tell apart (filed, denied, lower-case "n/a", an unreadable rate that mentions an amendment, a hyphen in a sign-off; variances explained, unexplained, untied), one later revision, one sweep of two scenarios with two attempts, three model calls (tool, tool, structured answer). Writers try once and every verdict is one value: retries and verdicts are the run `worker`'s and the `investigation`'s subject |
| `evidence_mixes_files`, `note_is_the_explanation` | violated | as `baseline` |
| `verdict_is_about_text` | violated | as `layer2`, one sweep and one re-fact-check |
| `pass_means_authorised` | violated, see Findings | Supervisor alone, with the bounds of `investigation` |
| `narrative_never_raises`, `failed_validation_is_decided` | violated | as `investigation` |
| `one_row_per_investigation`, `warehouse_never_blocks` | violated | GoldPersistence alone: two calls, two ids (shared or not), every choice of writers, three attempts as in the code |

`CHECK_DEADLOCK FALSE` is set everywhere: a finished call stops, a queue without jobs is idle.

### Fairness

Supervisor and Investigation: weak fairness of the whole next-state relation. `run_investigation` is a
synchronous call; nothing but its own code can run it, and its collaborators return or raise (clients
with request timeouts). GoldPersistence: weak fairness of each started call's own steps; no fairness
of `Start` or `Crash`. Worker: weak fairness of each pod's steps, which include its restart by the
container platform, and of lock expiry, which the broker does by its clock. Nobody has to post,
and no pod has to crash. Layer2: weak fairness of each started script's steps; nobody has to start one,
and Layer 1 need not run again. Baseline: weak fairness of the script's steps (`ScriptStep`), a synchronous
loop in one process; nobody has to ingest, sweep or kill the script, and Layer 1's steps cannot disable
the script's. `LockExpires` may fire while a pod still works: `worker.py`
creates no lock renewer, so this is the normal fate of a slow investigation.

## Proofs

All are checked by tlapm with its SMT, Zenon and LS4 backends.

`SupervisorProofs`: for every cap, recursion limit, threshold, set of confidences and set of
engagements, from `BoundsAssumption` (`2 * MaxIterations + 1 <= RecursionLimit`),
`ConfidenceAssumption` and `NullAssumption`. None of its properties that the run `investigation` checks is inductive. The
strengthening has four parts:

- `LoopInv`: the log has one entry per superstep and two per dispatch, dispatches happen only below
  the cap, and at the edge the last entry is the route the edge will compute. This gives
  `BackstopUnreached`, `TraceComplete` and `EdgeMatchesLog`.
- `OriginInv`: a finding exists only if its agent was injected and the finding it reasons over
  existed; while there is no narrative the confidence is 0. Without the last part a capped run could
  look confident.
- `GateInv`: `concluded` implies an open gate, `escalated_to_human` a closed one. With `OriginInv`
  this gives `GateFailsClosed` and `JudgeAskedOnce`.
- `RowInv`: past the graph the status is terminal and there is a narrative, so the row builder's
  refusal branch is unreachable; with `GateInv` this gives `RowFollowsGate`.

`WriteOnce` (an action property) and `ContractImplemented` (the refinement of
`InvestigationContract`, initial states and every step) follow from the same invariants.

`GoldPersistenceProofs`: for any number of calls, ids, verdicts and attempts. The inductive invariant
says where each call is (`Behind`: a call past the cost write has its id's cost row; one past the
graph has a verdict), who owns a cost row (`CostRowsInv`: a call with that id that had a verdict),
and that an INSERT never commits more often than attempts were made (`RowsInv`). Ownership is what a
MERGE by another call would otherwise break in `DecisionHasCost`. `NoVerdictNoTrace` is the other side of findings 2
and 7: a call whose graph raised leaves nothing at all, whatever raised. `HarmBounded` is the other side of
findings 4 and 5: a verdict is lost only after `MaxAttempts` failures of a wired writer, copies never exceed
`MaxAttempts`, and with one attempt the duplicate is impossible.

`NarrativeAgentProofs`: the three attempt counters read as a binary number account for every call made
while the agent runs, so `NarrativeBudget` is eight. `OnlyGrounded` assumes only that the absent value
is not a payload.

`InvestigationProofs`: for every number of validation attempts. `ValidationInv` and `NarrativeInv` say that
an agent runs only for findings that exist, that an attempt pays for each call, and that what an agent
returns is among the outcomes Supervisor allows its node. Hence each step of the composition is one of
Supervisor or a stutter (`StepsImplementSupervisor`, the safety part of `ImplementsSupervisor`), and the
step lemmas of SupervisorProofs and of NarrativeAgentProofs (through INSTANCE) hold of the composition.
`SpendBounded`, `RowIsGrounded` and `InvestigationKeepsContract` follow. The link that none of the
parts has is in `NarrativeInv`: a narrative in the state that is not the degraded one is what the agent
returned.

`WorkerProofs`: for any number of jobs, pods and deliveries. Every step of a pod is a step of
GoldPersistence or leaves its variables alone (`PodsDriveGold`), so `NextInv` is reused. `QueueSideInv` adds
what a pod with a token knows (`PodInv`), what a message's state says of its deliveries (`QueueInv`: the
last delivery of a completed job has returned), what a started run had before it (`RunInv`) and that two
pods never hold the same token (the broker's doing, used in the proofs and no property of its own). `JobContractImplemented` is the refinement of JobContract: a stale pod's late
commit maps to `Persist` of its own try, a lost lock and a failed settlement to a stutter.
`WorkerImplementsGold` says that the fleet as a whole is a behaviour of GoldPersistence.

`Layer1Proofs` has two parts. For every cell a workpaper can have, `AmendmentAgreesWithCheck` and
`NoteMeansMissingExplanation` compare check and tool: the check's three forms with a value decide which
branch the tool takes. Then, for every set of workpapers and order of scenarios, `Layer1Inv` (`TablesInv`:
whatever is held or stored is an extraction of files bronze may have; `ProgressInv`: the scenarios behind
the sweep carry its mark) gives `SweepsAreComplete`. `OneFileOneExtraction` is the other side of the
finding about mixed files: as long as bronze has one file of a triple, the extraction is determined.
`LineageHolds` carries this through every interleaving of ingests and sweeps (`LineageInv`: what is held or
stored is a read of files bronze has, and bronze only grows): finding 3 takes a second revision of a workpaper.
Assumptions: `NoneAssumption` and `NoRecordAssumption` (None is no text, number or record),
`CellsAssumption` (DC-9's rate cells are rate cells), `BronzeAssumption`.

`BaselineProofs`: for every list of scopes with distinct labels (`ScopesAssumption`). `BaselineInv` is
`Layer1Inv`, GoldPersistence's `Inv` (every step of the script is a step of GoldPersistence or leaves its
variables alone, `ScriptDrivesGold`), `AgentInv` (while an agent works, all three hold the scope's recorder, and so
does the callback), `LoadedInv` (what was loaded is evidence) and `ScopesInv` (results and failures are exactly
the scopes behind). All six safety properties of the run follow, and what is left of
finding 8: `ExplanationsAreMissing`, an explanation reported is a missing one on every workpaper there can be. `BaselineImplementsGold` and
`BaselineImplementsLayer1`: each part of the composition behaves as it does alone, so the theorems about
GoldPersistence and Layer 1 hold of the composition (`ScopesKeepGold`, `LineageBesideTheScript`).

`Layer2Proofs`: for any number of runs of each script, any list of combinations, any number of extractions
and attempts. `CallsInv`: the retry counters pay for every billed completion. `LoopInv`: a run past the
look-up has its triple's evidence in its cache. `RowsInv`: a row's text is by the run it names; a listed
combination has a row ever after, because no script deletes, so the UPDATE by key always finds one.
`OutcomesInv`: an outcome names the text it judged, or a historical one. `EvidenceInv`: while a run lives,
what it wrote rests on its cache, which only grows; the last is what makes `OneExtractionPerRun`
inductive, and a dead run writes no more. `CopiesInv`: an INSERT commits at most once per attempt, so a
counted outcome is stored. `VerdictsStrayOnlyByRecheck` is the other side of finding 6: a verdict that is not
of its row's text was given by a re-fact-check to the text in its snapshot, and `VerdictIsAboutStoredText` holds
until one is started, whatever sweeps and judge sweeps do. It needs `VerdictInv`, because a reader's snapshot is taken once, at
its start. `TablesKeepTheirPromise` is the refinement of NarrativesContract: a write of the contract is one attempt
that commits, whether or not the caller hears of it, so a run that writes again after a half-heard
attempt does not pass its key between the two; a step that writes nothing is `PassBy` (its run keeps or drops keys).
Assumptions on the constants: `OrderAssumption`, `BoundsAssumption`,
`DistinctRuns`, `NullAssumption`.

**Towards liveness.** The prover has no fairness and no well-founded leads-to. What it can show of each
liveness property is the part that depends on the program: a natural number that no step of the process
concerned leaves unchanged or raises, and that nobody else's step raises. With it, weak fairness of the next step is
all the property needs; and it bounds the work, which the liveness property does not.

| Theorem | Of | Bound | Liveness property |
|---|---|---|---|
| `StepsBounded` | an investigation | 3 steps a round of the graph, 5 around it | `Termination` |
| `InvestigationStepsBounded` | the same with its completions | 3 a round, `Attempts` and 15 more | `ImplementsSupervisor` |
| `CallsCountDown` | each call's tail of writes | 2 `MaxAttempts` + 2 | `EveryRunEnds` of GoldPersistence |
| `HandoversCountDown` | each message | 2 `MaxDelivery` + 1 changes of hand | `EveryJobSettles` |
| `SweepsCountDown` | a Layer 1 sweep | `MaxTries` + 1 a scenario | none is checked |
| `ScriptStepsBounded` | the baseline script | `ScopeSteps` a scope, 1 report | `ScriptEnds` |
| `RunsCountDown` | each run of a Layer 2 script | `ComboSteps` a combination, `MaxAttempts` for the cost row | `EveryRunEnds` of Layer2 |

A message's number does not fall when a pod merely works or is restarted: that part of
`EveryJobSettles` rests on the pods' own fairness and is TLC's. Some steps of the others are nobody's (an
ingest, an extraction, a second sweep); the theorems say that these leave the number alone.

Only model-checked: all liveness (`Termination`, `EveryRunEnds`, `EveryJobSettles`, `ScriptEnds`, and the fairness part of
`ImplementsSupervisor`), which is beyond this prover, as are ENABLED, recursive operators and induction
over data. Every invariant that a passing run checks is also proved.

## Findings

Each is a run that TLC finds violated, with the sentence of the code it contradicts.

1. `PassMeansAuthorised`: `supervisor.py:854-855` says concluded + ACCEPT means the exception was
   authorised. The gate reads confidence and the judge only; `is_authorized = False` with high
   confidence and an LLM's ACCEPT becomes `pass`.
2. `NarrativeNeverRaises`: `narrative_agent.py:304-305` says the agent never raises into the
   supervisor. An error of the completion call is caught nowhere in the agent or the graph.
3. `EvidenceIsOfItsSourceFile`: `models/evidence.py:102` says an evidence record carries the hash of its source
   file. Ingest never removes the rows of a replaced workpaper (`bronze_smoke_ingest.py:114`); the read orders
   by path, sheet and row index only, so one extraction may take rows of both files under the hash of one.
4. `OneRowPerInvestigation`: `models/layer3_decision.py:6` says one row per `investigation_run_id`. The
   retried INSERT duplicates it when a committed attempt raises.
5. `WarehouseNeverBlocksVerdict`: `supervisor.py:760-762` says the in-memory verdict never waits for the
   warehouse. A writer that gives up takes the verdict, and after the cost write also the decision row,
   with it.
6. `VerdictIsAboutStoredText`: `tables_gold.tf:371` says `fact_check_passed` is the verdict on
   `narrative_text`. `re_fact_check.py` updates by composite key what it computed from the row it had
   listed; if a sweep replaced the row in between, the new text carries the old text's verdict. Comparing
   `narrative_call_id` in the UPDATE would close the gap.
7. `FailedValidationIsDecided`: `validation_agent.py:26-27` and 314-316 say the agent never raises, `state.py:61-63`
   that every supervisor exit lands on a terminal status "so no row is ever silently dropped", and
   `supervisor.py:886` (like `layer3_decision.py:4-5`) that a sub-agent's exception becomes a row with status
   `failed`. An answer that is JSON but not an object raises `TypeError` past both `except` clauses
   (`validation_agent.py:347`); nothing in the graph catches it, nothing assigns `failed`, and there is no row.
8. `NoteIsTheExplanation`: `tools.py:508-512` and 548-552 say any note on DC-2.B is the explanation of the variance,
   and `tests/unit/layer3_agents/test_tools.py:840-869` feeds it such a note. Layer 1 writes a note there only when
   an explanation is missing (`attribute_checks.py:162-182`), so the agent is told that there is one exactly when
   there is none.

Also noticed, without a run:

- `narrative_agent.py:328-330` says one to four billed calls. The JSON retry lies inside the other two and
  doubles the figure; `NarrativeBudget` proves eight. Likewise `generate`'s docstring says "1 or 2 calls"
  while its retries allow four (`CallsBounded`).
- `supervisor.py:92-94` says each supervisor visit increments the counter, so that the third visit escalates, and
  673-674 that the log then carries three supervisor entries. The code counts sub-agent visits: the fourth supervisor
  visit escalates, with four supervisor entries of seven. `tests/unit/layer3_agents/test_supervisor.py:157` expects
  the seven, and so does `TraceAccountsForEveryVisit`: code and test agree, the two comments are one visit behind.
- `layer3_decision.py:7` calls the `investigation_run_id` a ULID; it is a timestamp in microseconds
  (`supervisor.py:555-560`).
- `tools.py:145-152` calls the prior rate embedded in the current workpaper authoritative, while
  `compare_billing_rates` asks the prior quarter's own record first.
- Its docstring says an amendment is found if and only if the notes carry a marker; the structured field
  comes first. A reference "n/a" in small letters passes a rate change in Layer 1 and is no amendment for the
  tool. An unreadable rate cell that mentions an amendment is quoted in the note, where the scan finds it; the
  tool then reports no rate, but an amendment.
- The sign-off checks want an em dash, the parser also takes a hyphen: a cell with a hyphen fails the check
  and yields initials and a date.
- `run_layer3_baseline.py:310-311` divides the cost of all rows by the number of results: a scope that failed
  after its cost row raises the mean of the others.
- `run_judge_sweep.py:187-188` says failed rows are not written, while an INSERT that committed before it
  raised stays. `tables_gold.tf:407` says `narrative_run_id` joins to `generation_run_id`, while the sweep
  prefers the call id (`NarrativeRunId`).
- `run_worker`'s docstring says "consume the queue forever", while `max_wait_time=30` ends the loop after
  thirty idle seconds (`IdleTimeout`).

## Not modelled

- Two investigations that begin in the same microsecond: they would share an `investigation_run_id`, which is
  a timestamp. The models give each call an id of its own, as the tables' grain assumes.
- A `run_investigation` without a decisions writer returns before it builds a row: in Supervisor the caller has
  wired one, as the worker and the baseline script do; GoldPersistence has every choice of writers.
- LangGraph's `GraphRecursionError` of the supervisor graph: kept as the counter, which `BackstopUnreached`
  shows never exceeds the limit.
- The text matching of `fact_checker.py` (number extraction, fuzzy name matching): character work on texts,
  which are values here. That its verdict is a function of text and evidence is what the tables depend on.
- Parsing of workbooks and of numbers, the table of contents, cell references, NaN and infinite rates, and
  whether a share sum at the tolerance survives floating point: a cell has a value or none, sums are exact.
- The `_` wildcards in the reader's LIKE pattern `%dcN_Qn_%`: workpapers differ in more than that character.
- `verify_layer3_live.py`: one scope of the baseline script without its loop and its catch, followed by a
  report on the two rows. The printed statistics of both.
- `--dry-run` of the scripts, which only prints; the word count of a text, which the generator takes from
  the LLM.
- Cost arithmetic, texts, hashes, timestamps, prompt rendering, logs, and spans other than the callback's.
- The worker's MOCK mode, the API's 422 answer and its publisher without a queue: no state of the audit. A
  job whose body does not parse: the worker's handler treats it like `ProcessFails`.
- Threads within a process: only the API uses a thread pool, for posts, and `Post` may happen for any job
  at any time. Two investigations overlap only as two processes.
- The corpus generator, settings and Terraform beyond the queue's delivery count: no state of the audit.

Four hazards have no property. The judge sweep reads silver anew and may judge against another extraction
than the narrative was written from, and the baseline script's two reads may straddle a sweep: both happen in
the models, and nothing in the repository promises otherwise. The word count an LLM reports of itself, and the
sign-off's dash, are listed in `PROJECT.json` with the reason each has none.

## Where to go on

1. The fact checker's numeric equivalences (percent, basis points, rounding) as operators on integers, if its
   string handling is ever separated from its arithmetic.
2. Baseline with the whole supervisor graph inside a scope instead of its spending; InvestigationProofs has the
   step lemmas such a composition needs.
