----------------------------- MODULE DagExecution -----------------------------
(***************************************************************************)
(* What ToolExecutor.execute_plan promises its caller, with waves,         *)
(* coroutines, retries and the audit trail left out: each identifier of a  *)
(* plan is decided once, by running its step when every dependency gave    *)
(* output and by skipping it when one of them did not, until all are       *)
(* decided or the execution is given up.  PlanExecutor implements it.      *)
(***************************************************************************)
EXTENDS Naturals, Sequences

CONSTANTS Ids,      \* the step identifiers plans use
          Plans     \* the plans that may be executed

VARIABLES plan,     \* the plan under execution, a sequence of steps
          outcome,  \* what is recorded for each identifier
          verdict   \* whether the execution goes on, is done, or was given up

vars == <<plan, outcome, verdict>>

Outcomes == {"absent", "output", "error", "skipped"}

Decided(i) == outcome[i] # "absent"

Init == /\ plan \in Plans
        /\ outcome = [i \in Ids |-> "absent"]
        /\ verdict = "executing"

(* A step runs only on the outputs of all its dependencies. *)
Run(s) ==
  /\ verdict = "executing"
  /\ ~Decided(plan[s].step_id)
  /\ \A d \in plan[s].depends_on : outcome[d] = "output"
  /\ \E r \in {"output", "error"} :
        outcome' = [outcome EXCEPT ![plan[s].step_id] = r]
  /\ UNCHANGED <<plan, verdict>>

(* A step is skipped only once its dependencies are decided and one is bad. *)
Skip(s) ==
  /\ verdict = "executing"
  /\ ~Decided(plan[s].step_id)
  /\ \A d \in plan[s].depends_on : Decided(d)
  /\ \E d \in plan[s].depends_on : outcome[d] # "output"
  /\ outcome' = [outcome EXCEPT ![plan[s].step_id] = "skipped"]
  /\ UNCHANGED <<plan, verdict>>

Complete ==
  /\ verdict = "executing"
  /\ \A s \in DOMAIN plan : Decided(plan[s].step_id)
  /\ verdict' = "done"
  /\ UNCHANGED <<plan, outcome>>

(* The run deadline, or a plan over the size limit. *)
GiveUp ==
  /\ verdict = "executing"
  /\ verdict' = "given_up"
  /\ UNCHANGED <<plan, outcome>>

Next == \/ \E s \in DOMAIN plan : Run(s) \/ Skip(s)
        \/ Complete
        \/ GiveUp

Spec == Init /\ [][Next]_vars

===============================================================================
