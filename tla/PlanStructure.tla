----------------------------- MODULE PlanStructure -----------------------------
(***************************************************************************)
(* The shape of a plan: a sequence of steps, each with an identifier and   *)
(* the set of identifiers it depends on.  What PlanValidator.validate      *)
(* (src/agent/plan_validator.py) guarantees of a plan, as predicates.      *)
(***************************************************************************)
EXTENDS Naturals, Sequences

IdsOf(p) == {p[s].step_id : s \in DOMAIN p}

KnownDependencies(p) == \A s \in DOMAIN p : p[s].depends_on \subseteq IdsOf(p)

(* detect_cycles keys its graph by step_id, so that of several steps with   *)
(* one identifier only the last counts.                                     *)
LastCopy(p, s) == \A t \in DOMAIN p : p[t].step_id = p[s].step_id => t <= s

Acyclic(p) ==
  \E rank \in [IdsOf(p) -> 1 .. Len(p)] :
    \A s \in DOMAIN p :
      LastCopy(p, s) => \A d \in p[s].depends_on : rank[d] < rank[p[s].step_id]

(* What PlanValidator.validate leaves standing of a plan's structure. *)
Validated(p) == KnownDependencies(p) /\ Acyclic(p)

UniqueIds(p) ==
  \A s, t \in DOMAIN p : p[s].step_id = p[t].step_id => s = t

===============================================================================
