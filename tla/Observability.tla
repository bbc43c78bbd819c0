----------------------------- MODULE Observability -----------------------------
(***************************************************************************)
(* The aggregates over runs and steps: agent_observability_service, the    *)
(* statistics of agent_run_service and metrics_service.  Each answer is    *)
(* put together from several statements while runs are written; rates are  *)
(* in hundredths of a percent, as they are rounded.                        *)
(***************************************************************************)
EXTENDS RunStore, Sequences, Functions

VARIABLES
  report,   \* the endpoint that was asked
  filter,   \* the status it was asked for
  subject,  \* the run it was asked for, and by whom
  answers   \* what its statements answered so far, in their order

reportVars == <<report, filter, subject, answers>>

-------------------------------------------------------------------------------
(* Helpers *)

SuccessStatuses == {"success", "completed"}
FailedStatuses  == {"failed", "planning_failed", "execution_failed"}

(* _apply_run_filters *)
Selected == {r \in DOMAIN runs : filter \in {NoValue, runs[r].status}}

InStatus(S, statuses) == {r \in S : runs[r].status \in statuses}

Total(S, field) == SumFunction([r \in S |-> runs[r][field]])

(* round(): ties go to the even neighbour. *)
Round(n, d) ==
  LET q == n \div d
      twice == 2 * (n % d)
  IN IF twice < d \/ (twice = d /\ q % 2 = 0) THEN q ELSE q + 1

(* 100 %, in hundredths of a percent *)
Whole == 10000

(* _rate *)
Rate(n, d) == IF d = 0 THEN 0 ELSE Round(Whole * n, d)

(* AVG leaves NULL out and is NULL over no value. *)
Average(S, field) ==
  LET known == {r \in S : runs[r][field] # NoValue}
  IN IF known = {} THEN NoValue
     ELSE Round(Total(known, field), Cardinality(known))

AtMost(bound, n) == IF n < bound THEN n ELSE bound

AtLeast(bound, n) == IF n < bound THEN bound ELSE n

-------------------------------------------------------------------------------
(* compute_health_score *)

(* Slip: the weights of success and approval are swapped. *)
Score_swapped(m) ==
  LET confidence == IF m.average_confidence = NoValue THEN 7000
                                                      ELSE m.average_confidence
      failed == IF m.total_steps = 0 THEN 0
                ELSE AtMost(Whole, (Whole * m.failed_steps) \div m.total_steps)
      retries == AtMost(Whole, (2000 * m.total_retries) \div m.total_runs)
      raw == 15 * m.success_rate + 35 * m.approval_rate + 20 * confidence
             + 15 * (Whole - failed) + 15 * (Whole - retries)
  IN Round(AtLeast(0, AtMost(100 * Whole, raw)), Whole)

(* The weighted blend; a confidence nobody gave counts as 70 %, and one     *)
(* above 100 %, or below none, is cut only with the sum.                    *)
Score(m) ==
  LET confidence == IF m.average_confidence = NoValue THEN 7000
                                                      ELSE m.average_confidence
      failed == IF m.total_steps = 0 THEN 0
                ELSE AtMost(Whole, (Whole * m.failed_steps) \div m.total_steps)
      retries == AtMost(Whole, (2000 * m.total_retries) \div m.total_runs)
      raw == 35 * m.success_rate + 15 * m.approval_rate + 20 * confidence
             + 15 * (Whole - failed) + 15 * (Whole - retries)
  IN Round(AtLeast(0, AtMost(100 * Whole, raw)), Whole)

Band(score) == IF score < 40 THEN "unhealthy"
               ELSE IF score < 70 THEN "degraded"
               ELSE IF score < 85 THEN "healthy" ELSE "excellent"

HealthStatus(m) == IF m.total_runs = 0 THEN "no_data" ELSE Band(Score(m))

-------------------------------------------------------------------------------
(* What each statement answers *)

Health ==
  LET succ == Cardinality(InStatus(Selected, SuccessStatuses))
      count == Cardinality(Selected)
      verified == {r \in Selected : runs[r].approved # NoValue}
  IN [total_runs |-> count, successful_runs |-> succ,
      failed_runs |-> Cardinality(InStatus(Selected, FailedStatuses)),
      success_rate |-> Rate(succ, count),
      approval_rate |-> Rate(Cardinality({r \in verified : runs[r].approved}),
                             Cardinality(verified)),
      average_confidence |-> Average(Selected, "confidence"),
      total_steps |-> Total(Selected, "steps_total"),
      failed_steps |-> Total(Selected, "steps_failed"),
      total_retries |-> Total(Selected, "retry_count")]

(* The rows of the step executions of the runs selected, summed over the    *)
(* tools and the reasons they are grouped by.                               *)
StepRows(S, statuses) ==
  SumFunction([r \in S |-> SumFunctionOnSet(audit[r], statuses)])

(* Slip: a success is what the engine calls one, not what is stored. *)
Trends_engineStatus ==
  [total_runs |-> Cardinality(Selected),
   successful_runs |-> Cardinality(InStatus(Selected, {"success"})),
   failed_runs |-> Cardinality(InStatus(Selected, FailedStatuses))]

Trends == [total_runs |-> Cardinality(Selected),
           successful_runs |-> Cardinality(InStatus(Selected, SuccessStatuses)),
           failed_runs |-> Cardinality(InStatus(Selected, FailedStatuses))]

RunsIn(statuses) == Cardinality(InStatus(DOMAIN runs, statuses))

(* get_run_statistics: the groups of one GROUP BY, by what they count as *)
Statistics ==
  [total_runs |-> Cardinality(DOMAIN runs),
   successful_runs |-> RunsIn(SuccessStatuses), failed_runs |-> RunsIn(FailedStatuses),
   running_runs |-> RunsIn({"running"}), pending_runs |-> RunsIn({"pending"})]

(* get_run_by_id, in scope, and AgentRunDetail.from_run: without audit rows *)
(* the steps are those of execution_result.                                 *)
CountSteps(run) == IF run.steps_total = 0 THEN run.results ELSE run.steps_total

Detail ==
  IF subject.run \in DOMAIN runs /\ InScope(subject.user, subject.run)
    THEN [found |-> TRUE, recorded |-> runs[subject.run].steps_total,
          steps_total |-> CountSteps(runs[subject.run])]
    ELSE [found |-> FALSE, recorded |-> 0, steps_total |-> 0]

(* get_steps_for_run *)
Timeline == Steps(subject.run)

Answer(query) ==
  CASE query = "health"     -> Health
    [] query = "tools"      -> StepRows(Selected, StepStatuses)
    [] query = "failures"   -> StepRows(Selected, {"failed"})
    [] query = "trends"     -> Trends
    [] query = "statistics" -> Statistics
    [] query = "detail"     -> Detail
    [] query = "steps"      -> Timeline
    [] query = "runs"       -> Cardinality(DOMAIN runs)
    [] query = "success"    -> RunsIn(SuccessStatuses)
    [] query = "failure"    -> RunsIn(FailedStatuses)
    [] query = "executions" -> StepRows(DOMAIN runs, StepStatuses)

(* get_observability_overview and get_dashboard_metrics: the statements in  *)
(* their order.  Those about durations and approvals are left out.          *)
OverviewQueries  == <<"health", "tools", "failures", "trends">>
DashboardQueries == <<"runs", "success", "failure", "runs", "success", "executions">>

(* run_details, or run_steps of the same run behind it *)
InspectionQueries == <<"detail", "steps">>

(* The endpoints by what they ask. *)
Queries ==
  [overview   |-> OverviewQueries,
   health     |-> <<"health">>,
   tools      |-> <<"tools">>,
   failures   |-> <<"failures">>,
   trends     |-> <<"trends">>,
   statistics |-> <<"statistics">>,
   inspection |-> InspectionQueries,
   dashboard  |-> DashboardQueries]

-------------------------------------------------------------------------------
ReportInit ==
  /\ report \in DOMAIN Queries
  /\ filter \in IF report \in {"statistics", "inspection", "dashboard"}
                  THEN {NoValue} ELSE Filters
  /\ subject \in IF report = "inspection" THEN [run : Ids, user : Users] ELSE {NoValue}
  /\ answers = <<>>

(* A run out of scope is answered by 404, as one that does not exist. *)
NotFound == report = "inspection" /\ answers # <<>> /\ ~answers[1].found

Query ==
  /\ Len(answers) < Len(Queries[report]) /\ ~NotFound
  /\ answers' = Append(answers, Answer(Queries[report][Len(answers) + 1]))
  /\ UNCHANGED <<tables, report, filter, subject>>

-------------------------------------------------------------------------------
(* Properties *)

(* The parts of one answer are read at different times but never contradict *)
(* each other backwards: what a later part counts covers what an earlier    *)
(* one counted.  The steps of the runs, written from the audit rows, are    *)
(* never more than the executions of the tools read after them, nor runs    *)
(* that ended than those in the trends (running runs are excepted, which    *)
(* may end between two statements), and the detail of a run announces no    *)
(* more steps than its timeline then shows, unless none was audited.        *)
LaterPartsCover ==
  LET n == Len(answers)
  IN /\ report = "overview" /\ filter # "running" =>
          /\ n >= 2 => answers[1].total_steps <= answers[2]
          /\ n >= 3 => answers[1].failed_steps <= answers[3]
          /\ n >= 4 => \A count \in {"total_runs", "successful_runs", "failed_runs"} :
                         answers[1][count] <= answers[4][count]
     /\ report = "statistics" /\ n = 1 =>
          answers[1].total_runs >= answers[1].successful_runs + answers[1].failed_runs
                                   + answers[1].running_runs + answers[1].pending_runs
     /\ report = "inspection" /\ n = 2 /\ answers[1].recorded > 0 =>
          answers[1].steps_total <= answers[2]
     /\ report = "dashboard" /\ n >= 4 => answers[2] + answers[3] <= answers[4]

(* The health score stays a percentage, and no mixture of approval,         *)
(* confidence, clean steps and few retries makes up for missing success:    *)
(* without one successful run the system is never called healthy, and it is *)
(* excellent only when most runs succeeded.  A verifier that answered a     *)
(* confidence above 1, which nothing cuts, is excepted.                     *)
HealthyIsEarned ==
  report \in {"overview", "health"} /\ answers # <<>> =>
    LET m == answers[1]
        status == HealthStatus(m)
    IN m.total_runs > 0 =>
         /\ Score(m) \in 0 .. 100
         /\ m.average_confidence = NoValue \/ m.average_confidence <= Whole =>
              /\ status \in {"healthy", "excellent"} => m.successful_runs > 0
              /\ status = "excellent" => 2 * m.successful_runs > m.total_runs
===============================================================================
