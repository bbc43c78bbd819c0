--------------------------- MODULE MCAgentController ---------------------------
(***************************************************************************)
(* Small plans and verdicts for AgentController.                           *)
(***************************************************************************)
EXTENDS AgentController

MCIds == 1 .. 3

PlanOf(tools, deps) ==
  [s \in DOMAIN tools |-> [step_id |-> s, tool |-> tools[s], depends_on |-> deps[s]]]

Chain == PlanOf(<<"sync", "async">>, <<{}, {1}>>)
Risky == PlanOf(<<"sync">>, <<{}>>)
Long  == PlanOf(<<"sync", "sync", "sync">>, <<{}, {}, {}>>)

MCPlans      == {Chain, Risky, Long}
NoPlan       == {}
MCRiskyPlans == {Risky}

Answered(approved, kind, percent) ==
  [approved |-> approved, confidence |-> [kind |-> kind, percent |-> percent]]

(* On and below the threshold; "no" with a confidence of 90; a confidence    *)
(* of true; not approved, sure or not to be compared; approved, but "high".  *)
MCVerdicts   == {Answered("true", "number", 75), Answered("true", "number", 74),
                 Answered("truthy", "number", 9000), Answered("true", "boolean", 100),
                 Answered("false", "other", 0), Answered("true", "other", 0)}
PlainVerdicts == {Answered("true", "number", 75), Answered("true", "number", 74),
                  Answered("false", "number", 90)}
===============================================================================
