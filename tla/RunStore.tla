------------------------------- MODULE RunStore -------------------------------
(***************************************************************************)
(* The tables agent_runs and step_executions as their readers see them:    *)
(* the rows the controller and the executor commit while somebody reads.   *)
(* A statement sees what is committed when it starts (READ COMMITTED), so  *)
(* that two statements of one request may see different rows.              *)
(***************************************************************************)
EXTENDS Integers, FiniteSets

CONSTANTS
  Ids,        \* the identifiers the sequence of agent_runs hands out
  OwnerOf,    \* user_id of each run; any column that never changes is like it
  Users, Admins,  \* who may ask, and those who see every run
  Outcomes,   \* what finalize_agent_run_summary may be told of a run
  Filters,    \* the values of ?status=; NoValue asks for every status
  MaxSteps,   \* bound on the audit rows of a run
  NoValue     \* NULL

ASSUME IdsAssumption == Ids \subseteq Nat /\ IsFiniteSet(Ids)

ASSUME MaxStepsAssumption == MaxSteps \in Nat

(* The statuses the controller finalizes a run with, as normalize_status    *)
(* stores them, and what the result and the verdict are reduced to.  Any    *)
(* number a model answers passes for a confidence.                          *)
RunOutcome ==
  [status : {"completed", "failed", "approval_required"},
   approved : BOOLEAN \cup {NoValue}, confidence : {NoValue} \cup Int,
   retry_count : Nat, results : Nat]

ASSUME OutcomesAssumption == Outcomes \subseteq RunOutcome

VARIABLES
  runs,   \* the committed rows of agent_runs
  audit   \* how many rows of step_executions each run has, by their status

tables == <<runs, audit>>

StepStatuses == {"success", "failed"}

NoSteps == [s \in StepStatuses |-> 0]

StoreInit ==
  /\ runs = <<>>
  /\ audit = [r \in Ids |-> NoSteps]

Steps(r) == audit[r]["success"] + audit[r]["failed"]

NewRun == [status |-> "running", approved |-> NoValue, confidence |-> NoValue,
           retry_count |-> 0, results |-> 0, steps_total |-> 0, steps_failed |-> 0]

(* _owner_scope, and the filter it becomes *)
InScope(u, r) == u \in Admins \/ OwnerOf[r] = u

(* create_agent_run.  Transactions need not commit in the order in which    *)
(* they were given their identifiers.                                       *)
CreateRun(r) ==
  /\ r \in Ids \ DOMAIN runs
  /\ runs' = [q \in DOMAIN runs \cup {r} |-> IF q = r THEN NewRun ELSE runs[q]]
  /\ UNCHANGED audit

(* create_step_log, while the plan of the run executes *)
RecordStep(r, s) ==
  /\ r \in DOMAIN runs /\ runs[r].status = "running"
  /\ Steps(r) < MaxSteps
  /\ audit' = [audit EXCEPT ![r][s] = @ + 1]
  /\ UNCHANGED runs

(* The row with what it is told and the counts of its audit rows. *)
Summary(outcome, total, failed) ==
  [status |-> outcome.status, approved |-> outcome.approved,
   confidence |-> outcome.confidence, retry_count |-> outcome.retry_count,
   results |-> outcome.results, steps_total |-> total, steps_failed |-> failed]

(* Slip: a step that was skipped counts, which has no audit row. *)
FinalizeRun_skipped(r, outcome) ==
  /\ r \in DOMAIN runs /\ runs[r].status = "running"
  /\ runs' = [runs EXCEPT ![r] = Summary(outcome, Steps(r) + 1, audit[r]["failed"])]
  /\ UNCHANGED audit

(* finalize_agent_run_summary: one update with the counts of the audit rows *)
(* and what the execution and the verifier left.                            *)
FinalizeRun(r, outcome) ==
  /\ r \in DOMAIN runs /\ runs[r].status = "running"
  /\ runs' = [runs EXCEPT ![r] = Summary(outcome, Steps(r), audit[r]["failed"])]
  /\ UNCHANGED audit

Write == \E r \in Ids : \/ CreateRun(r)
                        \/ \E s \in StepStatuses : RecordStep(r, s)
                        \/ \E outcome \in Outcomes : FinalizeRun(r, outcome)
===============================================================================
