------------------------------- MODULE MCPlanner -------------------------------
(***************************************************************************)
(* Small sets of plans for PlannerAgent and PlanValidator.                 *)
(***************************************************************************)
EXTENDS Planner

MCIds == 1 .. 4

Raw(id, tool, input, deps) ==
  [step_id |-> id, tool |-> tool, input |-> input, depends_on |-> deps]

Good(id, deps) == Raw(id, "registered", "complete", deps)

(* Every dependency graph, cyclic or not, over three identifiers; then    *)
(* plans that use an identifier twice, where the last copy counts, and may  *)
(* name 4, which no step carries.                                           *)
ThreeSteps ==
  {[s \in 1 .. 3 |-> Good(s, deps[s])] : deps \in [1 .. 3 -> SUBSET (1 .. 3)]}
DuplicateSteps ==
  {<<Good(1, a), Good(2, b), Good(1, c)>> :
     a, b, c \in {{}, {1}, {2}, {1, 2}, {4}}}

(* Each way one of two steps can be malformed. *)
MalformedSteps ==
  {<<Good(1, {}), Raw(id, tool, input, {1})>> :
     id \in {2, NoId},
     tool \in {"registered", "unknown", "missing"},
     input \in {"complete", "incomplete"}}

MCPlans == {<<>>} \cup ThreeSteps \cup DuplicateSteps \cup MalformedSteps
===============================================================================
