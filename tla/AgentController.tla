---------------------------- MODULE AgentController ----------------------------
(***************************************************************************)
(* AgentController.run (src/agent/controller.py) serving one POST /run:    *)
(* plan, persist an agent_runs row, gate on risk, execute, verify, judge,  *)
(* and either settle the row or plan again.  The execution is PlanExecutor,*)
(* composed here: it shares the plan, the step_executions rows and the     *)
(* SQLAlchemy session of the request with the controller.                  *)
(*                                                                         *)
(* Between two awaits the controller runs alone, so a stretch of it with   *)
(* no await is one action.                                                 *)
(***************************************************************************)
EXTENDS Integers, Sequences, FiniteSets, Functions, PlanStructure

CONSTANTS
  Ids, Plans, MaxPlanSteps, MaxParallelSteps, MaxToolRetries,  \* the executor's
  AuditMayFail, \* the database may refuse a step_executions row
  DbMayFail,  \* it may fail any statement of the controller
  RiskyPlans, \* the plans whose text has one of HIGH_RISK_KEYWORDS
  MaxRetries, \* MAX_RETRIES
  Verdicts,   \* the JSON objects the verifier may answer
  WildVerdicts, \* it may also answer JSON that is no object
  Threshold   \* CONFIDENCE_THRESHOLD, in percent

(* Nobody checks the JSON of the verifier.  The code tells apart whether     *)
(* `approved` counts as true and whether it is a boolean, and whether        *)
(* `confidence` is a number, here in percent, a boolean, which compares as   *)
(* 1 or 0, or neither.  A missing key is "falsy" or a 0 that is no number.   *)
Verdict == [approved   : {"true", "false", "truthy", "falsy"},
            confidence : [kind : {"number", "boolean", "other"}, percent : Int]]

(* Identifiers are unique here: plans that repeat them are looked at in     *)
(* PlanExecutor alone.                                                      *)
ASSUME ControllerAssumption ==
  /\ \A p \in Plans : UniqueIds(p)
  /\ {AuditMayFail, DbMayFail, WildVerdicts} \subseteq BOOLEAN
  /\ RiskyPlans \subseteq Plans
  /\ MaxRetries \in Nat
  /\ Verdicts \subseteq Verdict
  /\ Threshold \in 1 .. 100

VARIABLES plan, phase, pending, ready, todo, completed, failedIds,
          co, attempt, returned, loop, audit, session

VARIABLES
  pc,           \* where the controller is
  round,        \* its variable `attempt`
  runs,         \* the agent_runs rows of the request
  approvals,    \* the approval requests it created, each with its row's number
  verification, \* the verifier's answer
  memories,     \* what add_memory stored
  response,     \* the status the client gets
  faulty        \* history: the database or the verifier has misbehaved

execVars == <<plan, phase, pending, ready, todo, completed, failedIds,
              co, attempt, returned, loop, audit>>
ctlVars  == <<pc, round, runs, approvals, verification, memories, response>>
dbVars   == <<session, faulty>>
vars     == <<execVars, ctlVars, dbVars>>

Executor == INSTANCE PlanExecutor WITH Audited <- TRUE, DbMayFail <- AuditMayFail

(* The planner hands over validated plans only. *)
ASSUME ExecutorAssumption ==
  /\ \A p \in Plans : p \in Seq(Executor!Step) /\ Validated(p)
  /\ MaxPlanSteps \in Nat /\ {MaxParallelSteps, MaxToolRetries} \subseteq Nat \ {0}

Steps == DOMAIN plan

Unverified == [approved |-> "false", confidence |-> [kind |-> "number", percent |-> 0]]

(* What is stored for a run that was not verified has neither key. *)
NoVerdict == [approved |-> "falsy", confidence |-> [kind |-> "boolean", percent |-> 0]]

Init ==
  /\ plan = <<>> /\ Executor!Fresh
  /\ session = "usable"
  /\ pc = "plan" /\ round = 0
  /\ runs = <<>> /\ approvals = <<>>
  /\ verification = Unverified
  /\ memories = <<>>
  /\ response = "none"
  /\ faulty = FALSE

-------------------------------------------------------------------------------
(* The session and the rows *)

(* A statement that fails leaves the session unusable until a rollback; a   *)
(* statement on an unusable session fails.                                  *)
DbAnswers == session = "usable" /\ UNCHANGED dbVars
DbFails   == (DbMayFail \/ session = "poisoned") /\ session' = "poisoned" /\ faulty' = TRUE

(* Every commit expires `run`, so that reading run.id is a statement too.   *)
RunIdFails == DbFails

(* A column that may be NULL holds a set of at most one value. *)
Null == {}

ExtractApproved(verdict) ==
  IF verdict.approved \in {"true", "false"} THEN {verdict.approved = "true"} ELSE Null

ExtractConfidence(verdict) ==
  IF verdict.confidence.kind = "number" THEN {verdict.confidence.percent} ELSE Null

NewRun(p) == [status |-> "running", plan |-> p, steps_success |-> 0, steps_failed |-> 0,
              retry_count |-> 0, approved |-> Null, confidence |-> Null,
              verification_result |-> NoVerdict]

(* _aggregate_step_metrics counts rows, _derive_retry_count adds up results.*)
RowsWith(status) ==
  Cardinality({r \in UNION {{<<s, k>> : k \in DOMAIN audit[s]} : s \in Steps} :
                 audit[r[1]][r[2]].status = status})

(* Slip: attempts are reported for retries. *)
RetriesReported_attempts ==
  SumFunctionOnSet([s \in Steps |-> attempt[s] + 1], {s \in Steps : returned[s] # "nothing"})

RetriesReported == SumFunctionOnSet(attempt, {s \in Steps : returned[s] # "nothing"})

Summary(status, results, verdict) ==
  [status        |-> status,
   plan          |-> plan,
   steps_success |-> RowsWith("success"),
   steps_failed  |-> RowsWith("failed"),
   retry_count   |-> IF results THEN RetriesReported ELSE 0,
   approved      |-> ExtractApproved(verdict),
   confidence    |-> ExtractConfidence(verdict),
   verification_result |-> verdict]

(* finalize_agent_run_summary: one update, or a rollback and None, which no *)
(* caller looks at.                                                         *)
Finalize(status, results, verdict) ==
  /\ session = "usable"
  /\ \/ /\ runs' = [runs EXCEPT ![Len(runs)] = Summary(status, results, verdict)]
        /\ UNCHANGED dbVars
     \/ /\ DbMayFail
        /\ faulty' = TRUE
        /\ UNCHANGED <<runs, session>>

(* add_memory, in a session of its own, its failures swallowed. *)
Remember(kind) == memories' = Append(memories, kind) \/ UNCHANGED memories

-------------------------------------------------------------------------------
(* Planning and the risk gate *)

(* The planner repairs every plan it cannot use, except JSON that is no     *)
(* object, on which it raises.                                              *)
PlanningFails ==
  /\ pc = "plan"
  /\ pc' = "answer" /\ response' = "planning_failed"
  /\ UNCHANGED <<execVars, dbVars, round, runs, approvals, verification, memories>>

CreatePlan ==
  /\ pc = "plan"
  /\ \E p \in Plans :
       /\ Executor!Load(p)
       /\ \/ DbAnswers /\ runs' = Append(runs, NewRun(p)) /\ pc' = "risk"
          \/ DbFails   /\ UNCHANGED runs /\ pc' = "error"
  /\ UNCHANGED <<round, approvals, verification, memories, response>>

(* Slip: a plan that replaces another is not evaluated again. *)
PassRiskGate_firstRound ==
  /\ pc = "risk"
  /\ plan \notin RiskyPlans \/ round > 0
  /\ pc' = "execute"
  /\ UNCHANGED <<execVars, dbVars, round, runs, approvals, verification, memories, response>>

PassRiskGate ==
  /\ pc = "risk"
  /\ plan \notin RiskyPlans
  /\ pc' = "execute"
  /\ UNCHANGED <<execVars, dbVars, round, runs, approvals, verification, memories, response>>

(* The row is settled as approval_required only once the request for        *)
(* approval is committed.                                                   *)
RequestApproval ==
  /\ pc = "risk"
  /\ plan \in RiskyPlans
  /\ \/ /\ DbFails
        /\ pc' = "error" /\ UNCHANGED <<runs, approvals, response>>
     \/ /\ session = "usable"
        /\ approvals' = Append(approvals, Len(runs))
        /\ \/ /\ RunIdFails
              /\ pc' = "error" /\ UNCHANGED <<runs, response>>
           \/ /\ Finalize("approval_required", FALSE, NoVerdict)
              /\ pc' = "answer" /\ response' = "approval_required"
  /\ UNCHANGED <<execVars, round, verification, memories>>

-------------------------------------------------------------------------------
(* Execution *)

Execute ==
  /\ pc = "execute"
  /\ Executor!Next
  /\ faulty' = (faulty \/ session' = "poisoned")
  /\ UNCHANGED ctlVars

(* Slip: the row of an execution that raised is left alone. *)
ExecutionFails_unsettled ==
  /\ pc = "execute"
  /\ phase \in {"circular", "oversized", "cancelled"}
  /\ pc' = "answer" /\ response' = "execution_failed"
  /\ UNCHANGED <<execVars, dbVars, round, runs, approvals, verification, memories>>

(* execute_plan raised, or wait_for did.  Whatever goes wrong while the row *)
(* is settled is swallowed.                                                 *)
ExecutionFails ==
  /\ pc = "execute"
  /\ phase \in {"circular", "oversized", "cancelled"}
  /\ \/ RunIdFails /\ UNCHANGED runs
     \/ Finalize("failed", FALSE, NoVerdict)
  /\ pc' = "answer" /\ response' = "execution_failed"
  /\ UNCHANGED <<execVars, round, approvals, verification, memories>>

(* The judgement of a verdict: does it count as approved, and is its         *)
(* confidence at or over the threshold?  The comparison is made only if it   *)
(* is approved, and raises when there is nothing to compare.                 *)
Approves(verdict) == verdict.approved \in {"true", "truthy"}

Raises(verdict) == Approves(verdict) /\ verdict.confidence.kind = "other"

Accepts(verdict) ==
  Approves(verdict) /\ ~Raises(verdict) /\ verdict.confidence.percent >= Threshold

(* The verifier answers; one that raises counts as not approved. *)
Verify ==
  /\ pc = "execute"
  /\ phase = "done"
  /\ verification' \in {v \in Verdicts : ~Raises(v)} \cup {Unverified}
  /\ pc' = "judge"
  /\ UNCHANGED <<execVars, dbVars, round, runs, approvals, memories, response>>

(* JSON that is no object has no get(), and a confidence that cannot be      *)
(* compared raises too; nobody in the controller catches either.             *)
MisreadVerdict ==
  /\ pc = "execute"
  /\ phase = "done"
  /\ WildVerdicts \/ \E v \in Verdicts : Raises(v)
  /\ pc' = "error"
  /\ faulty' = TRUE
  /\ UNCHANGED <<execVars, session, round, runs, approvals, verification, memories, response>>

-------------------------------------------------------------------------------
(* Judgement *)

(* A result that carries an "error" key: a failed step or a skipped one. *)
ExecutionHadFailure == \E i \in Ids : completed[i] \in {"error", "skipped"}

(* Slip: the verifier is trusted alone. *)
Successful_verifierOnly == Accepts(verification)

Successful == Accepts(verification) /\ ~ExecutionHadFailure

Succeed ==
  /\ pc = "judge"
  /\ Successful
  /\ Remember("approved")
  /\ \/ RunIdFails /\ pc' = "error" /\ UNCHANGED <<runs, response>>
     \/ /\ Finalize("completed", TRUE, verification)
        /\ pc' = "answer" /\ response' = "success"
  /\ UNCHANGED <<execVars, round, approvals, verification>>

(* Slip: one round too many. *)
Replan_offByOne ==
  /\ pc = "judge"
  /\ ~Successful
  /\ \/ RunIdFails /\ UNCHANGED runs
     \/ Finalize("failed", TRUE, verification)
  /\ round' = round + 1
  /\ pc' = IF round <= MaxRetries THEN "plan" ELSE "give_up"
  /\ UNCHANGED <<execVars, approvals, verification, memories, response>>

(* Slip: the plan is executed again, and the round is not counted. *)
Replan_uncounted ==
  /\ pc = "judge"
  /\ ~Successful
  /\ Executor!Load(plan)
  /\ pc' = "execute"
  /\ UNCHANGED <<dbVars, round, runs, approvals, verification, memories, response>>

(* The superseded row is settled, failures swallowed, and the next round    *)
(* begins, or the last one is over.                                         *)
Replan ==
  /\ pc = "judge"
  /\ ~Successful
  /\ \/ RunIdFails /\ UNCHANGED runs
     \/ Finalize("failed", TRUE, verification)
  /\ round' = round + 1
  /\ pc' = IF round' <= MaxRetries THEN "plan" ELSE "give_up"
  /\ UNCHANGED <<execVars, approvals, verification, memories, response>>

(* Slip: the last round ends without a status for the client. *)
GiveUp_silent ==
  /\ pc = "give_up"
  /\ Remember("failed")
  /\ Finalize("failed", TRUE, verification)
  /\ pc' = "answer"
  /\ UNCHANGED <<execVars, round, approvals, verification, response>>

GiveUp ==
  /\ pc = "give_up"
  /\ Remember("failed")
  /\ \/ RunIdFails /\ pc' = "error" /\ UNCHANGED <<runs, response>>
     \/ /\ Finalize("failed", TRUE, verification)
        /\ pc' = "answer" /\ response' = "failed"
  /\ UNCHANGED <<execVars, round, approvals, verification>>

-------------------------------------------------------------------------------
(* run_query in main.py *)

(* The answer goes out once the audit log is committed. *)
Answer ==
  /\ pc = "answer"
  /\ \/ DbAnswers /\ pc' = "responded"
     \/ DbFails   /\ pc' = "error"
  /\ UNCHANGED <<execVars, round, runs, approvals, verification, memories, response>>

(* Any exception: rollback and 500. *)
AnswerError ==
  /\ pc = "error"
  /\ session' = "usable"
  /\ pc' = "responded" /\ response' = "500"
  /\ UNCHANGED <<execVars, faulty, round, runs, approvals, verification, memories>>

Controller ==
  \/ PlanningFails \/ CreatePlan \/ PassRiskGate \/ RequestApproval
  \/ ExecutionFails \/ Verify \/ MisreadVerdict
  \/ Succeed \/ Replan \/ GiveUp \/ Answer \/ AnswerError

Next == Controller \/ Execute

(* The event loop runs the controller whenever it can go on, and the        *)
(* executor as PlanExecutor says.                                           *)
Fairness ==
  /\ WF_vars(Controller)
  /\ WF_vars(Execute /\ Executor!WaveLoop)
  /\ WF_vars(Execute /\ \E s \in Steps : Executor!Coroutine(s))

Spec == Init /\ [][Next]_vars /\ Fairness

-------------------------------------------------------------------------------
(* Properties *)

Row == [status : {"running", "completed", "failed", "approval_required"},
        plan : Plans, steps_success : Nat, steps_failed : Nat, retry_count : Nat,
        approved : SUBSET BOOLEAN, confidence : SUBSET Int,
        verification_result : Verdict]

(* The state variables keep their shape, and an answer is ready exactly     *)
(* when the controller has returned or run_query is over.                   *)
TypeOK ==
  /\ pc \in {"plan", "risk", "execute", "judge", "give_up", "answer", "error", "responded"}
  /\ round \in 0 .. MaxRetries + 1
  /\ runs \in Seq(Row)
  /\ approvals \in Seq(1 .. Len(runs))
  /\ verification \in Verdict
  /\ memories \in Seq({"approved", "failed"})
  /\ response \in {"none", "success", "approval_required", "failed", "execution_failed",
                   "planning_failed", "500"}
  /\ session \in {"usable", "poisoned"} /\ faulty \in BOOLEAN
  /\ pc \in {"answer", "responded"} => response # "none"

(* A row says "completed" only over a verdict that counts as approved with   *)
(* a confidence at or over the threshold, its columns do not deny that, and  *)
(* the audit trail of the round agrees: one successful step_executions row   *)
(* for each step of its plan and no failed one.  Status, columns and trail   *)
(* come from different places: results in memory, an unchecked answer that   *)
(* is read twice by different rules, and rows in the database.               *)
SuccessIsEarned ==
  \A r \in DOMAIN runs : runs[r].status = "completed" =>
    /\ Accepts(runs[r].verification_result)
    /\ FALSE \notin runs[r].approved
    /\ \A c \in runs[r].confidence : c >= Threshold
    /\ runs[r].steps_failed = 0
    /\ runs[r].steps_success = Len(runs[r].plan)

(* No tool of a plan with a risky keyword is called, in whichever round the *)
(* plan appears, and a request that stops for approval can be approved.     *)
ApprovalGate ==
  /\ plan \in RiskyPlans => phase = "start" /\ \A s \in Steps : co[s] = "none"
  /\ pc = "responded" /\ response = "approval_required" => approvals # <<>>

(* The telemetry of a settled round is the sum of its audit trail, although *)
(* retries are counted from the results and steps from the rows.            *)
RetriesAudited ==
  pc = "answer" /\ response = "success" /\ ~faulty =>
    runs[Len(runs)].retry_count = SumFunction([s \in Steps |-> audit[s][1].retry_count])

(* While the database and the verifier behave, no row is left "running"     *)
(* once the client has its answer, not on a failed execution, not for a     *)
(* superseded round, and not when the last round fails.                     *)
NoOrphanWithoutFault ==
  pc = "responded" /\ ~faulty => \A r \in DOMAIN runs : runs[r].status # "running"

(* The same when the executor swallows the failure to write an audit row:   *)
(* what the comments in the controller say it takes care of.                *)
NoOrphan == pc = "responded" => \A r \in DOMAIN runs : runs[r].status # "running"

(* Every request is answered. *)
Responds == <>(pc = "responded")

(* The rows and the answer are those of RunLedger. *)
Ledger == INSTANCE RunLedger WITH
            MaxRounds <- MaxRetries + 1,
            rows   <- [r \in DOMAIN runs |-> runs[r].status],
            answer <- IF pc = "responded" THEN response ELSE "none"

LedgerSpec == Ledger!Spec

===============================================================================
