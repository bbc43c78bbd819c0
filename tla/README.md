# Formal models of the AI process-bottleneck agent

TLA+ modules that model the core of this repository, TLC configurations that check
them on small instances, and TLAPS proofs of the properties that matter most. Paths
below are relative to the repository root; `src/agent/executor.py:447` is line 447
of that file.

    tlc -config PlanExecutor.cfg MCPlanExecutor       # a model-checking run
    tlapm PlanExecutorProofs.tla                      # the proofs of a module

## 1. Inventory

| Component | State | Operations | Talks to |
|---|---|---|---|
| **ToolExecutor** `src/agent/executor.py` | `pending_steps`, `completed_results`, `failed_ids`, a semaphore, one coroutine per running step | `execute_plan` (waves), `execute_step` (retries, audit) | tools (calls), `create_step_log` (through the session of the request) |
| **PlanValidator** `src/agent/plan_validator.py` | `step_ids`, `visited`, `recursion_stack` | `validate`, `validate_inputs`, `detect_cycles` | called by the planner on each plan |
| **AgentController** `src/agent/controller.py` | `attempt`, the current plan, run row, verdict | `run` | planner, risk evaluator, executor, verifier, memory, the services below |
| **Planner, risk evaluator, verifier** `src/agent/{planner,risk_evaluator,verifier}.py` | none | `create_plan`, `evaluate`, `verify` | the LLM router |
| **Run persistence** `src/services/{audit,agent_run,step_audit}_service.py` | `agent_runs`, `step_executions` | `create_agent_run`, `finalize_agent_run_summary`, `create_step_log`; listing, statistics | the SQLAlchemy session of the request |
| **Approvals** `src/services/{approval_service,approval_management,resume_execution}.py` | `approval_requests` | create, approve, reject, resume | controller (creates), executor (on resume) |
| **HTTP entry point** `main.py` | one session per request | `POST /run`, `/run-stream`, routers | controller, `audit_logs` |
| **Document ingestion** `src/rag/ingest.py` | `documents`, `document_chunks`, Qdrant points | `ingest_document` | PostgreSQL and Qdrant, no common transaction |
| **Chunker, retrieval, embeddings** `src/rag/` | none | chunk, embed, search | Qdrant |
| **LLM router** `src/genai/llm_router.py`, `src/genai/routing/` | `LAST_LLM_META`, one for the process | `generate_response` | OpenAI, Ollama, offline answers |
| **GenAI engine and its agents** `src/genai/engine.py`, `src/genai/agents/` | the session of the request, memory rows | `run_task`: guardrails, decomposition, subtasks, synthesis, memory, failsafe | executors of the routing, memory, task log |
| **Background jobs** `src/genai/jobs/manager.py`, `src/api/agent.py` | `genai_task_logs` | submit, run, poll | engine |
| **Memory** `src/genai/memory.py` | memory rows | `add_memory`, search, prune | a session of its own |
| **Run and metrics endpoints** `src/api/routes/agent_runs.py`, `src/services/{metrics,agent_observability}_service.py` | none (read-only) | list, paginate, aggregate | `agent_runs`, `step_executions` |
| **Auth, rate limiter, middleware** `src/api/auth.py`, `src/core/` | `users` | register, login, role checks | |
| **Tools** `src/tools/` | a registry filled at start-up | `sql_query`, `rag_search`, `web_search`, memory, ML, PDF | external services |
| **ML and intelligence** `src/ml/`, `src/intelligence/`, `src/ingestion/` | none | feature code | |
| **Frontend** `frontend/src/` | React state | pages, `useAsync`, `usePolling`, token handling | the HTTP API |

How they interact: `POST /run` builds an `AgentController` on the request's database
session. The controller asks the planner for a plan (validated by `PlanValidator`),
inserts an `agent_runs` row, stops for approval when the risk evaluator asks for it,
and otherwise awaits `ToolExecutor.execute_plan` under a deadline. The executor runs
the steps in waves of coroutines on the event loop and writes a `step_executions` row
per step *through the same session*. The verifier's answer and the results decide
between success and another round. A plan that waits for approval is executed later
by another request, `POST /approvals/{id}/resume`.

What is hard:

- coroutines of a wave interleave at every `await`; a synchronous tool keeps the
  loop; the deadline cancels them half way (executor);
- one database session shared by controller and executor, where a failed statement
  poisons everything that follows until somebody rolls back, and where most callers
  swallow exceptions (controller, audit, telemetry);
- status from three sources that may disagree: results in memory, rows in the
  database, a model's verdict (controller);
- endpoints in threads next to coroutines on the event loop, on one row without a
  lock, with an `await` between check and commit (approvals);
- a recursive search whose two sets decide what a cycle is, on identifiers that may
  repeat (validator);
- two stores without a common transaction, point identifiers pasted from numerals,
  and an insert that waits on a unique index, sometimes on the event loop that has to end
  that wait (ingestion);
- subtasks side by side on one database session, whose failed statements abort the
  transaction under all of them (GenAI engine);
- in-memory jobs behind committed rows (jobs);
- pages and reports put together from several statements while rows are written (run
  endpoints).

What makes each component correct:

- executor: a step runs only on outputs of its dependencies; each result is recorded
  once and audited truthfully; concurrency is bounded; every execution ends;
- validator: accepts exactly the plans on which the executor cannot get stuck;
- controller: "completed" is earned, risky plans wait, rounds are bounded, every
  request is answered, no row is left "running";
- approvals: plans start only on a standing approval, the last decision holds, an
  execution is recorded once;
- planner: whatever a model answers, what is returned can be executed;
- ingestion: one document per text, no point without its document, what was reported
  ingested can be found unless its point number was taken, every request ends;
- GenAI engine: answers in the order of the subtasks, a session that has recovered when
  the audit log is written, every query ends;
- jobs: a row stays PENDING only behind a restart or a failing statement;
- run endpoints: following the pages misses nothing, later parts of a report cover
  earlier ones, the health score is a percentage and earned.

The hazards, each with its line, are in `PROJECT.json`.

## 2. Modules

| Module | Models | Kind |
|---|---|---|
| `PlanStructure` | what `validate` guarantees of a plan (known dependencies, acyclic by identifier) | operators |
| `DagExecution` | what `execute_plan` promises: each identifier decided once, in dependency order | abstract |
| `PlanExecutor` | `ToolExecutor`, one action per stretch between awaits or per loop iteration | detailed |
| `PlanExecutorProofs` | theorems about `PlanExecutor` | proofs |
| `PlanValidator` | `PlanValidator.validate` with the call stack of its depth-first search | detailed |
| `RunLedger` | what one `POST /run` promises readers of `agent_runs` | abstract |
| `AgentController` | `AgentController.run`, telemetry, `run_query`; composes `PlanExecutor` | detailed, composition |
| `AgentControllerProofs` | theorems about `AgentController`, over those about `PlanExecutor` | proofs |
| `Approvals` | approve, reject and resume requests on one approval | detailed |
| `ApprovalsProofs` | theorems about `Approvals` | proofs |
| `Planner` | `PlannerAgent.create_plan` over `generate_response`; extends `PlanValidator`, whose steps are its call of `validate` | detailed, composition |
| `PlannerProofs` | theorems about `PlanValidator` and `Planner` | proofs |
| `DocumentCatalog` | what `POST /ingest` promises its clients: a text added once, and answers that agree with that | abstract |
| `Ingest` | `ingest_document`, the chunker, the unique index and the vector store | detailed |
| `IngestProofs` | theorems about `Ingest` | proofs |
| `RunStore` | `agent_runs` and `step_executions` as their readers see them | shared state |
| `RunListing` | the walk of a client over the pages of `/runs` | detailed |
| `Observability` | the reports: health, tools, failures, trends, statistics, run detail, dashboard | detailed, operators |
| `RunQueries` | `RunListing` and `Observability` over one `RunStore`, with its writers | composition |
| `RunQueriesProofs` | theorems about `RunListing` and `RunQueries` | proofs |
| `GenAIEngine` | `POST /run-stream`: safe_run, run_task, memory, audit log, stream | detailed |
| `AgentJobs` | `POST /api/agent/job` and `run_agent_job` | detailed |
| `GenAIService` | both in one process that may restart | composition |
| `GenAIServiceProofs` | theorems about `GenAIService` | proofs |
| `SumTheorems` | lemmas about `SumFunctionOnSet` of the community modules | proofs |
| `MC*` | the plans, verdicts, texts, queries and symmetry sets of the runs | instances |

### PlanExecutor

`phase` is where `execute_plan` is, `pending`, `ready`, `completed`, `failedIds` are
its variables, `todo` the rest of the `for` loop under way. Steps are positions in the
plan; results are kept under identifiers, as in the code, so that a plan may repeat one.
`co[s]` is the coroutine of step `s` (`queued` at the semaphore, `calling` its tool,
`sleeping` before a retry, `returned`, `cancelled`), `attempt[s]` the variable of the
retry loop, `audit[s]` its `step_executions` rows. `loop` is the step whose
synchronous tool holds the event loop: no other coroutine, nor the timer of the
deadline, acts while it is not 0. `session` turns `"poisoned"` when an insert fails:
in SQLAlchemy a failed flush makes the session refuse statements until a rollback,
and `create_step_log` re-raises without one.

Left out: payloads, durations and wording; the `context` handed to a tool is the
dictionary of results itself, of which no tool in `src/tools` makes use, and
`RunsOnGoodDependencies` is about what that dictionary holds. A result is `output`,
`error` or `skipped`; a tool that returns an "error" inside its output counts as
`output`, as in the code. Serialisation in `create_step_log` uses `default=str` and
does not fail for what tools return.

### PlanValidator

The three loops over the steps, then `detect_cycles`. `calls` is the stack of active
calls of `dfs`, each with the neighbours it still has to meet. The order of nodes and
neighbours is left open, so that a property holds for every order of keys. Names of
tools and required keys are abstracted to whether they are there.

### AgentController

`pc` is where `run` or `run_query` is; between two awaits the controller is atomic.
`round` is its variable `attempt`, `runs` the rows the request has inserted. The
variables of `PlanExecutor` are shared by name: `Execute` is a step of the executor,
`CreatePlan` hands it a new plan, and `session` is one for both. The planner is a
choice among `Plans` or an exception, the risk evaluator membership in `RiskyPlans`,
the verifier a choice among `Verdicts`, an exception (counted as not approved), or
JSON that raises (`MisreadVerdict`).

Nobody checks what the verifier wrote, as long as it is JSON. A `Verdict` is abstracted to
what the code tells apart. The controller asks whether `approved` is truthy, and if so
whether `confidence` compares as at or over the threshold (`Accepts`): the string "false"
passes the first question, `true` or 95 the second, and a string or a missing value
raises there. The row asks again, by other rules: `ExtractApproved` stores a boolean and
`ExtractConfidence` a number, of any size, and NULL (`Null`, the empty set) for the rest.

Every statement on the session may fail (`DbFails`). Because every commit, and every
rollback, expires the loaded row, reading `run.id` later is a statement too
(`RunIdFails`): this is how settling a row can fail *before*
`finalize_agent_run_summary`, and its rollback, is entered. `Finalize` writes the row
in one update, or rolls back and returns `None`. `Summary` counts steps from audit rows
and retries from results, as the code does. `faulty` is a history variable: the
database or the verifier has misbehaved.

A restart of the process is not an action here: nothing at start-up looks for
unfinished rows, so that a crash leaves the row as it is and there is no behaviour to
check. Reading memories at the start only fills the prompt.

### Approvals

Each HTTP request chooses what to ask for when it is sent. Approve and reject are
synchronous endpoints and run in threads, load then commit, with nothing between two
of them; assigning the value that was loaded sends no UPDATE (`Decide`). Resume runs
on the event loop: `BeginResume` goes up to the await, `EndExecution` is the moment it
gets the loop back, `RecordExecution` the commit. The service is deployed with one
worker (`Readme.md`, "Single worker"), which is why there is one loop. `log` is a history
of what happened. A restart forgets the requests in flight. The plan a resume executes
is that of `PlanExecutor` without an audit trail and is not repeated here.

### Planner

`stage` is where `create_plan` is. The tiers of `generate_response` are tried in their
order; each may answer, fail, or fail after it was recorded in `LAST_LLM_META` (`mode`),
since the record is written before the answer is looked into. What a text holds is
abstracted to what the code tells apart: whether it mentions `"confidence"`, by which the
offline answer is recognised, and whether it parses to nothing, to a value that is no
object, to an object without steps, or to a plan. The goal is assigned outside of any
`try` (`EnsureGoal`), so that a value that is no object raises to the controller.
`Validate` is a step of `PlanValidator`; `RepairPlan` is the static plan.

### Ingest

A request has a session of its own: `Check` (the lookup by hash), `Flush` (the insert,
which takes the entry of the unique index or waits for who has it), `Embed`, `Commit`,
`Upsert`, `Answer`, with failures and `Restart` between them. `POST /ingest` runs in a
thread. `POST /ingest/pdf` is `async` and does all of it on the event loop: from `Check` to
its end it lets no other upload move and no request arrive (`HoldsLoop`). A failed
statement ends its transaction at once (`Fail`). What raises by itself in between, as the
tokenizer does on a text that spells one of its special tokens (`ChunkingRaises`), leaves
the transaction open until `get_db` closes the session, which is driven by the event loop
(`Close`). If the loop is held by an upload of the same text, the two wait for each other
until PostgreSQL cancels the insert (`StatementTimeout`, `src/db/session.py:30-34`).

`documents` is what PostgreSQL has committed, chunk rows included, since they are
committed together. `store` maps point numbers to payloads. `PointId` is
`int(f"{document.id}{index}")` by what it does: the digits of the index behind those of
the document, in numerals of base `Radix`. `embed_text` never raises; it may answer with
a vector of another size, which the store refuses, point by point: `fits` is how many
come before the first of these. Clients see a `DocumentCatalog`: the requests whose
document is committed, and how each request ended; chunks, points and transactions are
beneath it. `Power` is a recursive function and not `^`, of which
the prover knows nothing.

### RunStore, RunListing, Observability, RunQueries

The rows of a run appear, get audit rows and are finalised in single committed steps;
identifiers need not be committed in order. The walk takes two statements per page, the
count and the rows, and `WriteMeanwhile` happens between any two. `entered`, `crossed` and
`left` are history variables, under which the properties are stated exactly. A report is
a list of statements, answered one after the other from what is committed then. Rates
are integers in hundredths of a percent, rounded half to even as `round` does; `Whole` is
100 %. A confidence is any number a model answers (`RunOutcome`), above one or below zero
as well; the NaN that `json.loads` also reads is left out.

### GenAIEngine, AgentJobs, GenAIService

`at` is where the request is. What a language model could answer decides little here,
because no configuration gets such an answer to the engine: `OllamaClient`
(`src/genai/engine.py:401-413`) has no `health()` and is never available, and
`src/genai/routing/fallback_executor.py:41` passes a `model` to the agents that only the
decomposer's accepts. The planner, the critics and the synthesizer always end in the
offline answer, and the branches behind a real one (tools, recursion, the improvement
loop) are not reached. The decomposer may get any list, or something that is none.

The subtasks, the memory, the task log and the audit log share one session. A statement
of `get_all` that fails is answered by no memories and leaves the transaction aborted
(`Recall`); `add_memory` rolls back, also when it is the embedding of the text that raised
and no statement of its own (`SaveMemory`). A refused query is answered through the failsafe, as
`run_task` does. The answer of the synthesizer is a record, which `stream_generator`
cannot split, so that the stream breaks off after its headers: `Stream` ends in `"broken"`.

`AgentJobs` keeps what is committed (`status`, `response`) apart from what the session of
a task is about to commit (`pending`). `RunTask` is what calling an `async` method
returns: `run_agent_job` does not await it. `hit` is a history variable.

## 3. Runs

| Run | Instance | Shows |
|---|---|---|
| `plan_executor` | every acyclic graph over 3 steps with 4 mixes of tools, a diamond and a join of two chains with 4, the empty plan, one over the limit; 2 permits, 3 attempts; audit inserts may fail | type, `RunsOnGoodDependencies`, `NeverCircular`, `BoundedConcurrency`, `AuditAgrees`, `ExecutionIsBounded`, `Termination`, refinement of `DagExecution` |
| `plan_executor_duplicates` | 3 steps over 2 identifiers | `FailureIsReported` is **violated** |
| `plan_executor_hung_tool` | 1 step, sync or async | `DeadlineBoundsRun` is **violated** |
| `plan_validator` | `Planner` with both tiers; all 512 graphs over 3 steps, repeated identifiers, unknown dependencies, malformed steps | `VerdictIsRight`, `SearchIsDepthFirst`, `PlanIsRunnable`, `PlanningIsBounded` |
| `agent_controller` | a chain of 2, a risky plan, a plan over the limit; verdicts at, below and above the threshold, with a truthy string for approved and confidences that are no number or beyond 100 %; 2 retries, 2 attempts at tools; the database may fail anywhere | `SuccessIsEarned`, `ApprovalGate`, `RetriesAudited`, `NoOrphanWithoutFault`, `Responds`, refinement of `RunLedger` |
| `agent_controller_orphan` | the same, only audit inserts fail | `NoOrphan` is **violated** |
| `approvals` | 4 requests, each of any kind, 1 restart | `StartsOnlyOnApproval`, `NoStartAfterRecord`, `DecisionHolds`, `ExecutedIsRecorded` |
| `approvals_twice` | 3 requests | `ExecutesOnce` is **violated** |
| `ingest` | 3 requests, 2 with one text, of these one in a thread and one an upload, the third an upload; 3 chunks and 1; 1 restart | `PointsHaveDocuments`, `IngestedIsSearchable`, `EveryRequestEnds`, refinement of `DocumentCatalog` |
| `ingest_point_ids` | 2 requests in threads, 11 chunks and 1, numerals in decimal | `ChunksKeepTheirPoints` is **violated** |
| `run_queries` | 3 runs of 2 users, pages of 2, 5 outcomes (one rated in percent, one below zero), 8 reports | `PagesMissNothing`, `ShownOnce`, `LaterPartsCover`, `HealthyIsEarned` |
| `genai` | 4 queries, up to 3 subtasks of a model or 4 of the fallback, 1 job, 1 restart | `AnswersInOrder`, `SessionRecovered`, `EveryQueryEnds`, `EveryJobEnds` |

Why the bounds are enough. *Executor:* with two permits three ready steps already
queue, sleep and call at once; three steps give every shape of dependency between
two waves and a transitive skip, four the join of a good and a failed branch; three
attempts have a first, a middle and a last one. The theorems of section 5 hold for all
sizes. *Validator:* three nodes have self-loops, cycles of two and three, cross and
forward edges, and a node reached twice. *Controller:* two plans of which one is risky
let the risk change between rounds; three rounds have a first, a middle and a last;
verdicts lie on both sides of the threshold and on it, and each kind of value that
the controller and the row read differently occurs. *Approvals:* a violation of
`DecisionHolds` or `StartsOnlyOnApproval` needs an approval, a rejection and one more
request between them; the fourth request leaves room for a second decision or a
second resume. *Ingestion:* two requests, a thread and an upload, race for one text while a third
brings another, an upload too, so that two compete for the loop; numerals are binary, so that already the third document shares point numbers
with the first (1 before 10, 11 before 0), which takes a hundred documents in decimal.
*Run endpoints:* with pages of two the last page is full for one reader and half empty
for another, and a third run may come or go while two are listed; one audit row per run
is enough to tell apart what was counted before and after it. *GenAI:* four subtasks are
cut to two workers or run side by side in every order; one job is enough, as jobs share
nothing. `MaxSubtasks` bounds what a model lists, `MaxSteps` the audit rows, `MaxId` the
sequence of documents. `MaxPlanSteps`, `MaxToolRetries`, `MaxParallelSteps`, `MaxRetries` and
the threshold are the code's limits as constants, made small; `MaxRestarts` bounds the
environment alone.

`CHECK_DEADLOCK FALSE` stands in all of them since executions, requests and validations
end, and then nothing more happens.

Fairness. `PlanExecutor!Fairness` is weak fairness of the wave loop and of the
coroutines together: the event loop runs what is ready; a sleep is finite; a coroutine
tool ends at the latest by `TOOL_TIMEOUT_SECONDS`; a synchronous tool is *assumed* to
end. The deadline has no fairness and is never needed for an end. `HungToolSpec`
drops the assumption on synchronous tools, keeps the rest and adds fairness of the
deadline; then an execution may never end. `AgentController!Fairness` adds weak fairness
of the controller, whose calls to models and to the database return or raise.
`Ingest` gives each request weak fairness in what it is able to do: a thread goes on, an
upload when it has the loop, and every call returns or raises. It gives the same to the
closing of a session, which needs the loop, and to PostgreSQL's clock, which alone ends a
wait of the loop for a session that the loop would have to close. The alternatives that
fail have no fairness of their own. `GenAIService` gives it to the engine and to each
background task: sleeps are finite, attempts three, a planner has 45 seconds; a restart
has none. `Approvals`, `Planner` and `RunQueries` state safety only: their clients may stop
at any time.

## 4. Where the code and its documents disagree

1. **Repeated identifiers hide a failure** (`plan_executor_duplicates`). The validator
   does not ask identifiers to differ (`src/agent/plan_validator.py:58`), results are
   stored under them (`src/agent/executor.py:504`), so that an output can replace a
   failure. `Readme.md:514-516`: "A failed tool is always recorded as `failed` — never
   silently reported as success."
2. **A hung synchronous tool is not bounded** (`plan_executor_hung_tool`). It keeps the
   loop that the deadline's timer needs. `src/agent/executor.py:172-174`: "Sync tools
   return directly and are additionally bounded by the run-level deadline enforced in
   the controller."
3. **A run can stay "running"** (`agent_controller_orphan`). One audit insert fails, the
   executor swallows it, the session refuses everything after, and reading `run.id` to
   settle the row raises, which is swallowed too (`src/agent/controller.py:276`, `:475`)
   or ends in a 500. `src/agent/controller.py:271-272`: "Persist the failed state
   instead of leaving the run orphaned in "running"."
4. **Overlapping resumes execute a plan twice** (`approvals_twice`). `executed` is checked
   before an await and committed after it (`src/services/resume_execution.py:41`, `:86`),
   although the check is there to say "Execution already completed".
5. **Point numbers are not unique** (`ingest_point_ids`). Document 1 with chunk 10 and
   document 11 with chunk 0 are both point 110 (`src/rag/ingest.py:109-111`), and the later
   one replaces the other. `src/rag/ingest.py:106`: "UNIQUE QDRANT POINT ID".

`NoOrphanWithoutFault`, `NoStartAfterRecord` and `IngestedIsSearchable` are what does hold
in cases 3, 4 and 5.

Two more need no search, as a single job or run shows them; the modules have them the way
the code does:

- **A completed job holds no answer.** `run_agent_job` calls `run_task` without awaiting
  it (`src/genai/jobs/manager.py:15`) and stores the text of the coroutine object under
  COMPLETED (`AgentJobs!RunTask`). `src/api/agent.py:66` says "Run job in background with
  session context", `:81` "Get Job Status / Result". `EveryJobEnds` holds all the same.
- **A completed run may have no `approved`.** The controller takes any truthy value
  (`src/agent/controller.py:366`), also the string "false"; the row takes booleans only
  (`src/services/agent_run_service.py:549-555`) and has NULL (`ExtractApproved`).
  `src/schemas/agent_run.py:94-95` describes the column as "Whether the run passed
  verification". `SuccessIsEarned` says what holds: the column never denies it.

## 5. Proofs

Assumptions: `PlansAssumption` (plans are sequences of steps that passed the validator),
`LimitsAssumption` (limits are naturals, permits and attempts at least one). Where it
says so, also `PlansUnique`: no plan repeats an identifier. Without it the theorem is
false, which is finding 1.

`PlanExecutorProofs`, for every set of plans and every limit:

| Theorem | Property | Argument |
|---|---|---|
| `TypeCorrect` | `TypeOK` | `TypeInv` adds that a sleeper has an attempt left, and that what is stored has returned |
| `ValidatedPlansNeverCircular` | `NeverCircular` | `WaveInv` says that every step out of `pending` has a result; among the pending steps that are the last copy of their identifier, one of least rank has all its dependencies settled (`SomeStepIsReady`) |
| `AuditTrailAgrees` | `AuditAgrees` | inductive with `TypeInv` and the fact that a tool being called is registered |
| `ConcurrencyIsBounded` | `BoundedConcurrency` | a permit is taken only below the limit, every other step keeps or shrinks `Holding` |
| `DependentsRunOnOutputs` | `RunsOnGoodDependencies` | needs `PlansUnique`; `DataflowInv`: a step that owes its result has none recorded, `failedIds` are the identifiers with a bad result, and a coroutine's dependencies are settled and not failed |
| `RecordedResultsAreFinal` | a recorded result is never replaced | needs `PlansUnique`; from `DataflowInv`, a result is stored only where none is |
| `ImplementsDagExecution` | `DagSpec`, the refinement of `DagExecution` | needs `PlansUnique`; one case per action, each a step of `DagExecution` or a stutter, from all of the above |
| `ExecutionIsBoundedHolds` | `ExecutionIsBounded` | every step brings `StepsLeft` down: of the coroutines one comes nearer to its end and the others stand (`OneCoroutineMoves`, over `SumStrict`), or none moves and the wave does; a wave leaves with what was ready, which is not empty (`WaveSizes`) |

`PlannerProofs`, for every set of plans (`RawPlansAssumption`) and every order in
which the search meets nodes and neighbours:

| Theorem | Property | Argument |
|---|---|---|
| `TypeCorrect` | `TypeOK` | `VisitInv`: what each loop has established of the steps behind it, and no search before the loops are over |
| `VerdictHolds` | `VerdictIsRight` | sound: the order in which calls return is a rank (`RankInv`), and once all nodes are searched it is one of the whole plan; complete: a neighbour on the stack closes a walk of active calls, of which the one of least rank would have a neighbour of lower rank (`StackedNeighbourIsACycle`) |
| `SearchIsDepthFirstHolds` | `SearchIsDepthFirst` | `CallsInv`: each call was made on a neighbour of the one before, and the neighbours met are finished; that returned nodes are closed follows from `RankInv` |
| `PlanIsRunnableHolds` | `PlanIsRunnable` | from the invariant of the validator, whose steps are `Validate`, and from `RepairPlanIsSound`; `NoIdAssumption`: a step without an identifier is none of the three of the static plan |
| `PlanningIsBoundedHolds` | `PlanningIsBounded` | every step brings `PlanningLeft` down: a node is visited once, which pays for its call and its return (`StartSpends`, `DescendSpends`, `LeaveSpends`), and the dependency a call looks at is not left any more, as no node has two active calls (`LookedAt`, `MeetSpends`) |

The first three are about the validator by itself, the others about the planner that calls
it. So `Validated`, which `PlansAssumption` asks of the executor's plans, is proved of
every plan the planner returns.

`AgentControllerProofs`, for every set of validated plans with unique identifiers
(`ExecutorAssumption`, `ControllerAssumption`), any verdicts, those that raise included, and any
number of rounds.
`PlanExecutorProofs` is instantiated with the controller's variables, so that its lemmas
are about the executor as it runs inside the controller:

| Theorem | Property | Argument |
|---|---|---|
| `ImplementsRunLedger` | `LedgerSpec`, the refinement of `RunLedger` | `RoundsInv`: a row for each round begun, the last one open until its round is over, none of the earlier ones final, and an answer that stands with the row behind it |
| `NoOrphanHolds` | `NoOrphanWithoutFault` | `OrphanInv`: while nothing misbehaves only the last row is open, and only during its round |
| `ApprovalGateHolds` | `ApprovalGate` | `GateInv`: the controller is never at or past the execution of a risky plan, and the executor takes no plan by itself |
| `SuccessIsEarnedHolds` | `SuccessIsEarned` | what a verdict that is accepted leaves in the columns is `TRUE` or nothing, and a number over the threshold or nothing (`AcceptedColumns`); a success is written only on a usable session; `ExecutorInv` (the executor's own invariants, `OutputsReturned` among them) then gives each step its successful audit row and no other (`DoneWithoutFailure`), and these are counted (`RowsOfSuccess`) |
| `ControllerTypes` | `TypeOK` | from `RoundsInv`, and `RecordsInv`: what the executor leaves for the telemetry are naturals and at most one audit row per step, so that what a row adds up is a natural number (`SumIsNatural`) |
| `RetriesAuditedHolds` | `RetriesAudited` | the retries are added up from results when the row is written and from audit rows by the property: at a success the two agree step by step, and so do the sums (`SumCongruence`) |
| `RequestIsBoundedHolds` | each step of a request, of the controller or of an execution, brings `RequestLeft` down | what is left of the execution (`StepsLeftNext`, and `StepsLeftAtStart` for what a new plan costs), of the round and of the rounds that may follow; a plan over the limit is refused in one step, so that no plan costs more than `ExecutionBound` (`ExecutionLeftAtStart`), whatever the planner writes |

`ApprovalsProofs`, for any set of requests and any number of restarts:

| Theorem | Property | Argument |
|---|---|---|
| `ApprovalTypes` | `TypeOK` | inductive as it stands |
| `NoExecutionAfterRecord` | `NoStartAfterRecord` | inductive together with the next one: a start requires `~executed`, so that nothing is recorded yet |
| `ExecutedFlagIsTrue` | `ExecutedIsRecorded` | the same invariant |
| `LastDecisionHolds` | `DecisionHolds` | `DecisionInv`: once decided, some event is `Decisive`: it decided what the row says, whoever loaded the row since saw that, and who asked for the opposite since has not been answered. An assignment that sends no UPDATE keeps the event, every other decision is its own |
| `StartsAreApproved` | `StartsOnlyOnApproval` | a decisive approval has no rejection begun and answered after it (`ApprovedStands`), and no step touches the past (`PastStands`) |

`RunQueriesProofs`, for any runs, users, filters and page size (`PageSizeAssumption`,
`IdsAssumption`), any outcomes of runs (`OutcomesAssumption`: those that
`finalize_agent_run_summary` can be given; a confidence is any number) and any bound on
audit rows (`MaxStepsAssumption`). The first three are about `RunListing`'s `Spec`, where
anybody may write; the others about `QueriesSpec`, where the writers are those of
`RunStore`:

| Theorem | Property | Argument |
|---|---|---|
| `WalkTypeCorrect` | `WalkTypeOK` | inductive together with `Fresh` |
| `PagesMissNothingHolds` | `PagesMissNothing` | a run present at the start is shown or its rank is beyond the pages fetched; new runs only raise the rank, and when the count stands the last page reaches the last rank (`PagesCover`) |
| `ShownOnceHolds` | `ShownOnce` | if nothing entered, ranks only fall, and what was shown on an earlier page is newer than what is still to come |
| `PagesHoldAmongQueries` | both | every step of `RunQueries` is one of `RunListing` or leaves its variables alone |
| `QueryTypes` | `TypeOK` | `RowsInv`: a row reports no more steps, or failed ones, than were audited; `ReporterInv`: the answers are to the first statements of the report |
| `LaterPartsCoverHolds` | `LaterPartsCover` | `Grows`: a write keeps every run, every settled row and every audit row. `PartsInv`: what the parts answered so far counted is still counted now, since a sum over more rows of larger numbers is no less (`SumMonotone`) |
| `HealthyIsEarnedHolds` | `HealthyIsEarned` | each rate is between nothing and `Whole`, a rate of at most half the runs at most `Half` (`RateBounds`); `ScoreBounds` adds up the weights: at most 65 without a success, below the 70 of "healthy", and at most 83 with half of them, below the 85 of "excellent" |

`IngestProofs`, for any requests, texts, limits and restarts (`IngestAssumption`):

| Theorem | Property | Argument |
|---|---|---|
| `ChunksCoverText` | every token is in the window of a chunk | the token's own multiple of the step |
| `TypeCorrect` | `TypeOK` | inductive; identifiers are handed out once |
| `OneDocument` | a text has at most one document | `TextIsHeld`: no request in a transaction, one that has raised included, has the text of a document or of another such request |
| `PointsHaveDocumentsHolds` | `PointsHaveDocuments` | only a request past its commit stores points |
| `PointsOfDocumentDiffer` | two chunks of one document have different points | of two numerals the longer one moves the document at least one place further, which is more than the shorter can add (`ShorterIsSmaller`, over `PowerGrows` and `DigitsFit`) |
| `IngestedIsSearchableHolds` | `IngestedIsSearchable` | inductive with the types: an upsert goes through only if all vectors fit, the indices have no gaps, so that all chunks are among the first (`AllChunksAreFirst`), none of them displaces another, and whoever displaces one later is another document (`OthersLeaveSearchable`), whose own number it is, as every point has the number pasted from its payload (`NumbersInv`) |
| `ImplementsCatalog` | `CatalogSpec`, the refinement of `DocumentCatalog` | a commit adds a text, since `TextIsHeld` says nobody else has it; `OwnersInv` (a document carries the text of the request it was inserted by, also one that was lost) makes a duplicate one of another request, `StoresInv` an ingested text a committed one |

`GenAIServiceProofs`, for any queries, answers, jobs and restarts (`EngineAssumption`,
`ServiceAssumption`):

| Theorem | Property | Argument |
|---|---|---|
| `TypeCorrect` | `TypeOK` | a row is PENDING exactly while a task has it or lost it; what a task is about to commit is an outcome (`JobsInv`) |
| `AnswersInOrderHolds` | `AnswersInOrder` | `ProgressInv`: a subtask that is done has its own answer at its own position; what is dispatched is a prefix (`DispatchedIsPrefix`) |
| `SessionRecoveredHolds` | `SessionRecovered` | `SessionInv`: the transaction is clean until subtasks recall memories, and whichever way `SaveMemory` ends leaves it so |

Induction. The induction theorems of the library take an operator as a parameter, which
the installed provers cannot instantiate. Two inductions are done on sets instead:
`SumTheorems!SubsetInduction` (a set of subsets of a finite set that holds each subset
whose proper subsets it holds) and `IngestProofs!NaturalsInSet`, both from the existence of
a minimal element (`WFMin`). Over them, the recursive functions in question are shown to be
defined at all (`AddsExists`, `PowerIsDefined`: a recursive function is a `CHOOSE`), and
then what they are: a sum of naturals is a natural, is monotone, splits
(`SumIsNatural`, `SumMonotone`, `SumRemove`, `SumConstant`), a power of the radix exceeds its exponent
and grows by the radix.

Every invariant and every action property that a passing run checks is stated by a theorem.
Of termination, the half that is a safety property is proved for the executor, the
planner and a whole request: every step brings a natural number down, which bounds the
steps by the size of the plan, and those of a request by the limits alone
((`MaxRetries` + 1) * ((2 * `MaxToolRetries` + 8) * `MaxPlanSteps` + 6) + 3). That a next step is taken until the end needs fairness and stays with TLC.
The three refinements are proved whole, `Spec => DagSpec`, `Spec => LedgerSpec` and
`Spec => CatalogSpec`: the abstract specifications say what may happen, and that something
does is stated apart, by the liveness properties of the detailed ones.
Only model-checked: `Termination`, `Responds`, `EveryRequestEnds`, `EveryQueryEnds` and
`EveryJobEnds` (liveness and ENABLED are beyond the prover), and the violations of
section 4, which are counterexamples.

## 6. Not modelled

- Authentication, rate limiter and middleware, chat and task services: one request, one
  statement or a call of a library; they keep no state of their own that steps could
  bring out of order. Two registrations of one address meet a unique index.
- ML, intelligence, feature code, embeddings and the ranking of memories: numbers or text
  without state. The pruning of memories has no caller.
- `POST /documents`: it passes `Document` a column it does not have and raises before it
  writes anything.
- What tools, prompts and the texts of verdicts say: choices among the outcomes the code tells apart.
- The tools, the recursion and the improvement loop of the engine: behind a model answer
  that no configuration of this code gives.
- `LAST_LLM_META` under several requests: it only ends in the telemetry of a run.
- Rows that stay "running" after a restart, and runs that still say `approval_required`
  after a resume: no code and no document says what should become of them.
- Durations and approval counts of the reports, the filters on columns that never change
  (they are like that on the owner), `update_agent_run` and `src/api/jobs.py`, which have
  no caller.
- Migrations, scripts, configuration and tests; the pages of the frontend.

## 7. Plan

What is left: an abstract specification of a job as its poller sees it, with its
refinement.
