----------------------------- MODULE PlanExecutor -----------------------------
(***************************************************************************)
(* ToolExecutor (src/agent/executor.py) executing one validated plan on    *)
(* the event loop: waves of ready steps, the bounded coroutines of a wave, *)
(* the retry engine of each, the audit rows they write through the shared  *)
(* database session, and the deadline the controller puts on the whole.    *)
(*                                                                         *)
(* A coroutine is interrupted only where it awaits.  The body of           *)
(* execute_plan between two awaits is split into one action per loop       *)
(* iteration; nothing else runs in those phases.                           *)
(***************************************************************************)
EXTENDS Naturals, Sequences, FiniteSets, Functions, PlanStructure

CONSTANTS
  Ids,               \* the step identifiers plans use
  Plans,             \* the plans handed to execute_plan
  MaxPlanSteps,      \* MAX_PLAN_STEPS
  MaxParallelSteps,  \* MAX_PARALLEL_STEPS
  MaxToolRetries,    \* MAX_TOOL_RETRIES: attempts at a tool, the first included
  Audited,           \* execute_step has a session and an agent_run_id
  DbMayFail          \* an audit insert may be refused by the database

(* How a tool's function behaves: it runs to its end on the event loop, it  *)
(* returns a coroutine, or the registry no longer knows the name.           *)
ToolKinds == {"sync", "async", "unregistered"}

Step == [step_id : Ids, tool : ToolKinds, depends_on : SUBSET Ids]

ASSUME PlansAssumption == \A p \in Plans : p \in Seq(Step) /\ Validated(p)

ASSUME LimitsAssumption ==
  /\ MaxPlanSteps \in Nat
  /\ MaxParallelSteps \in Nat \ {0}
  /\ MaxToolRetries \in Nat \ {0}
  /\ Audited \in BOOLEAN
  /\ DbMayFail \in BOOLEAN

-------------------------------------------------------------------------------

VARIABLES
  plan,       \* the plan
  phase,      \* where execute_plan is
  pending,    \* pending_steps, as positions in the plan
  ready,      \* ready_steps
  todo,       \* the steps the current for loop has still to visit
  completed,  \* completed_results: the kind of result under each identifier
  failedIds,  \* failed_ids
  co,         \* the coroutine of each step
  attempt,    \* the variable of execute_step's retry loop
  returned,   \* what the coroutine returned
  loop,       \* the step whose synchronous tool holds the event loop, or 0
  audit,      \* the step_executions rows written for each step
  session     \* the SQLAlchemy session the request shares

planVars == <<pending, ready, todo, completed, failedIds>>
coVars   == <<co, attempt, returned, loop>>
dbVars   == <<audit, session>>
vars     == <<plan, phase, planVars, coVars, dbVars>>

Steps == DOMAIN plan

Phases == {"start", "wave", "classify", "gather", "store",
           "done", "circular", "oversized", "cancelled"}

Terminal == {"done", "circular", "oversized", "cancelled"}

CoStates == {"none", "queued", "calling", "sleeping", "returned", "cancelled"}

Completed == {i \in Ids : completed[i] # "absent"}

(* The coroutines inside `async with semaphore`. *)
Holding == {s \in Steps : co[s] \in {"calling", "sleeping"}}

(* The loops visit the steps in the order of the plan. *)
IsNext(s) == s \in todo /\ \A t \in todo : s <= t

Row(status, n) == [status |-> status, retry_count |-> n]

(* execute_plan called on the plan, with nothing recorded yet. *)
Fresh ==
  /\ phase = "start"
  /\ pending = {} /\ ready = {} /\ todo = {}
  /\ completed = [i \in Ids |-> "absent"]
  /\ failedIds = {}
  /\ co = [s \in Steps |-> "none"]
  /\ attempt = [s \in Steps |-> 0]
  /\ returned = [s \in Steps |-> "nothing"]
  /\ loop = 0
  /\ audit = [s \in Steps |-> <<>>]

(* The same as an action, for the module that composes this one. *)
Load(p) ==
  /\ plan' = p
  /\ phase' = "start"
  /\ pending' = {} /\ ready' = {} /\ todo' = {}
  /\ completed' = [i \in Ids |-> "absent"]
  /\ failedIds' = {}
  /\ co' = [s \in DOMAIN p |-> "none"]
  /\ attempt' = [s \in DOMAIN p |-> 0]
  /\ returned' = [s \in DOMAIN p |-> "nothing"]
  /\ loop' = 0
  /\ audit' = [s \in DOMAIN p |-> <<>>]

Init == /\ plan \in Plans
        /\ Fresh
        /\ session = "usable"

-------------------------------------------------------------------------------
(* execute_plan: the wave loop *)

(* The runaway-plan guard, then pending_steps = steps.copy(). *)
Start ==
  /\ phase = "start"
  /\ IF Len(plan) > MaxPlanSteps
       THEN phase' = "oversized" /\ UNCHANGED pending
       ELSE phase' = "wave" /\ pending' = Steps
  /\ UNCHANGED <<plan, ready, todo, completed, failedIds, coVars, dbVars>>

(* Slip: `any` for `all`. *)
DependenciesMet_any(s) ==
  plan[s].depends_on = {} \/ plan[s].depends_on \cap Completed # {}

DependenciesMet(s) == plan[s].depends_on \subseteq Completed

FindReady ==
  /\ phase = "wave"
  /\ pending # {}
  /\ ready' = {s \in pending : DependenciesMet(s)}
  /\ todo' = ready'
  /\ phase' = IF ready' = {} THEN "circular" ELSE "classify"
  /\ UNCHANGED <<plan, pending, completed, failedIds, coVars, dbVars>>

Finish ==
  /\ phase = "wave"
  /\ pending = {}
  /\ phase' = "done"
  /\ UNCHANGED <<plan, planVars, coVars, dbVars>>

(* Slip: a skipped step leaves no result. *)
SkipStep_unrecorded(s) ==
  /\ phase = "classify"
  /\ IsNext(s)
  /\ plan[s].depends_on \cap failedIds # {}
  /\ todo' = todo \ {s}
  /\ failedIds' = failedIds \cup {plan[s].step_id}
  /\ UNCHANGED <<plan, phase, pending, ready, completed, coVars, dbVars>>

(* One iteration of the loop that separates the steps to skip. *)
SkipStep(s) ==
  /\ phase = "classify"
  /\ IsNext(s)
  /\ plan[s].depends_on \cap failedIds # {}
  /\ todo' = todo \ {s}
  /\ completed' = [completed EXCEPT ![plan[s].step_id] = "skipped"]
  /\ failedIds' = failedIds \cup {plan[s].step_id}
  /\ UNCHANGED <<plan, phase, pending, ready, coVars, dbVars>>

QueueStep(s) ==
  /\ phase = "classify"
  /\ IsNext(s)
  /\ plan[s].depends_on \cap failedIds = {}
  /\ todo' = todo \ {s}
  /\ co' = [co EXCEPT ![s] = "queued"]
  /\ UNCHANGED <<plan, phase, pending, ready, completed, failedIds,
                 attempt, returned, loop, dbVars>>

Runnable == {s \in ready : co[s] # "none"}

(* With no step to run, asyncio.gather is not awaited at all. *)
StartGather ==
  /\ phase = "classify"
  /\ todo = {}
  /\ phase' = IF Runnable = {} THEN "store" ELSE "gather"
  /\ UNCHANGED <<plan, planVars, coVars, dbVars>>

EndGather ==
  /\ phase = "gather"
  /\ \A s \in Runnable : co[s] = "returned"
  /\ todo' = Runnable
  /\ phase' = "store"
  /\ UNCHANGED <<plan, pending, ready, completed, failedIds, coVars, dbVars>>

(* Slip: an error is recognised by its text, and the text is empty. *)
StoreResult_emptyError(s) ==
  /\ phase = "store"
  /\ IsNext(s)
  /\ todo' = todo \ {s}
  /\ completed' = [completed EXCEPT ![plan[s].step_id] = returned[s]]
  /\ UNCHANGED <<plan, phase, pending, ready, failedIds, coVars, dbVars>>

(* One iteration over gather's results, which keep the order of the tasks. *)
StoreResult(s) ==
  /\ phase = "store"
  /\ IsNext(s)
  /\ todo' = todo \ {s}
  /\ completed' = [completed EXCEPT ![plan[s].step_id] = returned[s]]
  /\ failedIds' = IF returned[s] = "error"
                    THEN failedIds \cup {plan[s].step_id}
                    ELSE failedIds
  /\ UNCHANGED <<plan, phase, pending, ready, coVars, dbVars>>

(* Slip: only the steps that ran leave the queue. *)
EndWave_keepsSkipped ==
  /\ phase = "store"
  /\ todo = {}
  /\ pending' = pending \ Runnable
  /\ ready' = {}
  /\ phase' = "wave"
  /\ UNCHANGED <<plan, todo, completed, failedIds, coVars, dbVars>>

(* Slip: a step that failed is tried again in the next wave. *)
EndWave_requeuesFailed ==
  /\ phase = "store"
  /\ todo = {}
  /\ pending' = {s \in pending : s \in ready => returned[s] = "error"}
  /\ ready' = {}
  /\ phase' = "wave"
  /\ UNCHANGED <<plan, todo, completed, failedIds, coVars, dbVars>>

EndWave ==
  /\ phase = "store"
  /\ todo = {}
  /\ pending' = pending \ ready
  /\ ready' = {}
  /\ phase' = "wave"
  /\ UNCHANGED <<plan, todo, completed, failedIds, coVars, dbVars>>

-------------------------------------------------------------------------------
(* execute_step: a coroutine of the wave *)

OnLoop(s) == loop = IF plan[s].tool = "sync" THEN s ELSE 0

(* tool_function(input_payload): a synchronous tool keeps the event loop. *)
CallTool(s) == /\ co' = [co EXCEPT ![s] = "calling"]
               /\ loop' = IF plan[s].tool = "sync" THEN s ELSE 0

(* create_step_log.  A failed insert is swallowed by the caller and leaves  *)
(* the session refusing every later statement, since nobody rolls it back.  *)
LogStep(s, status) ==
  \/ /\ ~Audited
     /\ UNCHANGED dbVars
  \/ /\ Audited /\ session = "usable"
     /\ audit' = [audit EXCEPT ![s] = Append(@, Row(status, attempt[s]))]
     /\ UNCHANGED session
  \/ /\ Audited /\ (DbMayFail \/ session = "poisoned")
     /\ session' = "poisoned"
     /\ UNCHANGED audit

Return(s, result) ==
  /\ co' = [co EXCEPT ![s] = "returned"]
  /\ returned' = [returned EXCEPT ![s] = result]
  /\ loop' = 0

(* Slip: one permit too many. *)
Admitted_offByOne(s) ==
  /\ phase = "gather" /\ loop = 0
  /\ co[s] = "queued"
  /\ \A t \in Steps : co[t] = "queued" => s <= t
  /\ Cardinality(Holding) <= MaxParallelSteps

(* The semaphore admits waiters in the order they queued. *)
Admitted(s) ==
  /\ phase = "gather" /\ loop = 0
  /\ co[s] = "queued"
  /\ \A t \in Steps : co[t] = "queued" => s <= t
  /\ Cardinality(Holding) < MaxParallelSteps

BeginStep(s) ==
  /\ Admitted(s)
  /\ plan[s].tool # "unregistered"
  /\ CallTool(s)
  /\ UNCHANGED <<plan, phase, planVars, attempt, returned, dbVars>>

(* An unregistered tool is refused with an error result and no audit row. *)
RefuseStep(s) ==
  /\ Admitted(s)
  /\ plan[s].tool = "unregistered"
  /\ Return(s, "error")
  /\ UNCHANGED <<plan, phase, planVars, attempt, dbVars>>

ToolSucceeds(s) ==
  /\ phase = "gather" /\ co[s] = "calling" /\ OnLoop(s)
  /\ LogStep(s, "success")
  /\ Return(s, "output")
  /\ UNCHANGED <<plan, phase, planVars, attempt>>

(* Slip: no limit on the attempts. *)
ToolFails_unlimited(s) ==
  /\ phase = "gather" /\ co[s] = "calling" /\ OnLoop(s)
  /\ attempt[s] <= MaxToolRetries
  /\ co' = [co EXCEPT ![s] = "sleeping"]
  /\ loop' = 0
  /\ UNCHANGED <<plan, phase, planVars, attempt, returned, dbVars>>

(* Slip: every failed attempt writes a row. *)
ToolFails_logged(s) ==
  /\ phase = "gather" /\ co[s] = "calling" /\ OnLoop(s)
  /\ attempt[s] + 1 < MaxToolRetries
  /\ LogStep(s, "failed")
  /\ co' = [co EXCEPT ![s] = "sleeping"]
  /\ loop' = 0
  /\ UNCHANGED <<plan, phase, planVars, attempt, returned>>

(* The tool raises, or its coroutine exceeds TOOL_TIMEOUT_SECONDS, with     *)
(* attempts left: the coroutine sleeps, still inside the semaphore.         *)
ToolFails(s) ==
  /\ phase = "gather" /\ co[s] = "calling" /\ OnLoop(s)
  /\ attempt[s] + 1 < MaxToolRetries
  /\ co' = [co EXCEPT ![s] = "sleeping"]
  /\ loop' = 0
  /\ UNCHANGED <<plan, phase, planVars, attempt, returned, dbVars>>

ToolFailsForGood(s) ==
  /\ phase = "gather" /\ co[s] = "calling" /\ OnLoop(s)
  /\ attempt[s] + 1 = MaxToolRetries
  /\ LogStep(s, "failed")
  /\ Return(s, "error")
  /\ UNCHANGED <<plan, phase, planVars, attempt>>

RetryTool(s) ==
  /\ phase = "gather" /\ loop = 0
  /\ co[s] = "sleeping"
  /\ attempt' = [attempt EXCEPT ![s] = @ + 1]
  /\ CallTool(s)
  /\ UNCHANGED <<plan, phase, planVars, returned, dbVars>>

(* The controller's wait_for gives up.  Its timer needs the event loop, so  *)
(* it fires only while execute_plan awaits its coroutines; those that have  *)
(* not returned are cancelled at their await, which no handler catches.     *)
Deadline ==
  /\ phase = "gather" /\ loop = 0
  /\ phase' = "cancelled"
  /\ co' = [s \in Steps |-> IF co[s] \in {"queued", "calling", "sleeping"}
                              THEN "cancelled" ELSE co[s]]
  /\ UNCHANGED <<plan, planVars, attempt, returned, loop, dbVars>>

-------------------------------------------------------------------------------

Coroutine(s) == \/ BeginStep(s) \/ RefuseStep(s)
                \/ ToolSucceeds(s) \/ ToolFails(s) \/ ToolFailsForGood(s)
                \/ RetryTool(s)

WaveLoop == \/ Start \/ FindReady \/ Finish \/ StartGather \/ EndGather \/ EndWave
            \/ \E s \in Steps : SkipStep(s) \/ QueueStep(s) \/ StoreResult(s)

Next == \/ WaveLoop
        \/ \E s \in Steps : Coroutine(s)
        \/ Deadline

(* The event loop runs whatever is ready; a tool call ends (an asynchronous *)
(* one at the latest by its timeout) and a sleep is finite.                 *)
Fairness == WF_vars(WaveLoop) /\ WF_vars(\E s \in Steps : Coroutine(s))

Spec == Init /\ [][Next]_vars /\ Fairness

-------------------------------------------------------------------------------
(* Properties *)

(* The state variables keep their shape. *)
TypeOK ==
  /\ plan \in Seq(Step)
  /\ phase \in Phases
  /\ pending \subseteq Steps /\ ready \subseteq pending /\ todo \subseteq ready
  /\ completed \in [Ids -> {"absent", "output", "error", "skipped"}]
  /\ failedIds \subseteq Ids
  /\ co \in [Steps -> CoStates]
  /\ attempt \in [Steps -> 0 .. MaxToolRetries - 1]
  /\ returned \in [Steps -> {"nothing", "output", "error"}]
  /\ loop \in Steps \cup {0}
  /\ audit \in [Steps -> Seq([status : {"success", "failed"}, retry_count : Nat])]
  /\ session \in {"usable", "poisoned"}

(* While a tool is called or waits for its retry, every dependency of its   *)
(* step has an output in the context it was given, whatever else of the     *)
(* wave failed or was skipped meanwhile: a dependent never executes on      *)
(* failed-upstream data.                                                    *)
RunsOnGoodDependencies ==
  \A s \in Holding : \A d \in plan[s].depends_on : completed[d] = "output"

(* A plan the validator let through never raises "Circular dependency       *)
(* detected in execution graph" half way, also when steps fail, are         *)
(* skipped, or share an identifier.                                         *)
NeverCircular == phase # "circular"

(* At most MAX_PARALLEL_STEPS coroutines are past the semaphore, those that *)
(* sleep between attempts included.                                         *)
BoundedConcurrency == Cardinality(Holding) <= MaxParallelSteps

(* The row a returned step must have: its status and its number of retries  *)
(* are those of the result handed to the controller.                        *)
AuditOf(s) ==
  IF co[s] = "returned" /\ plan[s].tool # "unregistered"
    THEN <<Row(IF returned[s] = "output" THEN "success" ELSE "failed", attempt[s])>>
    ELSE <<>>

(* The audit trail and the results agree: a step that returned has exactly  *)
(* one row, equal to its result, a step that was skipped, refused, cancelled*)
(* or is still running has none, and once the database refused a row the    *)
(* rows that exist are still right.                                         *)
AuditAgrees ==
  /\ \A s \in Steps : audit[s] \in {<<>>, AuditOf(s)}
  /\ Audited /\ session = "usable" => \A s \in Steps : audit[s] = AuditOf(s)

(* A step whose tool failed for good is reported as failed under its        *)
(* identifier when execute_plan returns, never as a success: what           *)
(* src/README.md promises.  It needs identifiers that are unique, which the *)
(* validator does not ask for.                                              *)
FailureIsReported ==
  phase = "done" =>
    \A s \in Steps : returned[s] = "error" => completed[plan[s].step_id] # "output"

(* At most how many steps the coroutine of s has still to take: it is       *)
(* started and admitted, and each attempt may cost a call and a sleep.      *)
CoroutineLeft(s) ==
  CASE co[s] = "none"     -> 2 * MaxToolRetries + 2
    [] co[s] = "queued"   -> 2 * MaxToolRetries + 1
    [] co[s] = "calling"  -> 2 * (MaxToolRetries - attempt[s])
    [] co[s] = "sleeping" -> 2 * (MaxToolRetries - attempt[s]) - 1
    [] OTHER              -> 0

(* At most how many steps execute_plan has still to take: a wave settles    *)
(* one step of the plan at least, and costs four steps around two loops     *)
(* over what is ready.                                                      *)
WavesLeft ==
  LET later == 6 * Cardinality(pending \ ready)
  IN CASE phase = "start"    -> 6 * Len(plan) + 2
       [] phase = "wave"     -> 6 * Cardinality(pending) + 1
       [] phase = "classify" -> later + 4 + Cardinality(todo) + Cardinality(ready)
       [] phase = "gather"   -> later + 3 + Cardinality(ready)
       [] phase = "store"    -> later + 2 + Cardinality(todo)

StepsLeft ==
  IF phase \in Terminal THEN 0
  ELSE WavesLeft + SumFunction([s \in Steps |-> CoroutineLeft(s)])

(* However its coroutines interleave, fail, retry or are skipped, an        *)
(* execution never goes on for longer than its plan and the limits allow:   *)
(* from the start, where StepsLeft is linear in both, each step brings the  *)
(* end nearer.  Termination needs fairness and finds no such bound.         *)
ExecutionIsBounded == [][StepsLeft' \in 0 .. StepsLeft - 1]_vars

(* Every execution ends: all tools answer or time out, retries are bounded, *)
(* and each wave settles at least one step.                                 *)
Termination == <>(phase \in Terminal)

(* execute_plan decides each identifier once, in dependency order, and      *)
(* reports completion only when all are decided (DagExecution).             *)
Dag == INSTANCE DagExecution WITH
         outcome <- completed,
         verdict <- CASE phase = "done" -> "done"
                      [] phase = "circular" -> "stuck"
                      [] phase \in {"cancelled", "oversized"} -> "given_up"
                      [] OTHER -> "executing"

DagSpec == Dag!Spec

===============================================================================
