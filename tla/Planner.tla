-------------------------------- MODULE Planner --------------------------------
(***************************************************************************)
(* PlannerAgent.create_plan (src/agent/planner.py) over generate_response  *)
(* (src/genai/llm_router.py): the tiers of language models in their order, *)
(* what may be wrong with the text they answer, PlanValidator on the plan  *)
(* it holds, and the static plan that stands in whenever anything is.      *)
(***************************************************************************)
EXTENDS PlanValidator

CONSTANTS
  OpenAI, Ollama,  \* whether a key is set, and whether the package is there
  NoPlan           \* stands for no plan returned so far

ASSUME TiersAssumption == OpenAI \in BOOLEAN /\ Ollama \in BOOLEAN

(* A step without an identifier is none of those of the static plan. *)
ASSUME NoIdAssumption == NoId \notin 1 .. 3

VARIABLES
  stage,     \* where create_plan is, or how it ended
  mode,      \* LAST_LLM_META["mode"]
  plan_text, \* what the tier answered: whether it mentions "confidence", and
             \* what it parses to
  returned   \* the steps of the plan it returned

plannerVars == <<vars, stage, mode, plan_text, returned>>

(* What a text parses to: nothing, a value that is no object, an object     *)
(* without a list of steps, or a plan.                                      *)
Contents == {"invalid", "value", "object", "plan"}
Texts    == [mentions : BOOLEAN, holds : Contents]

(* The text of the third tier is an object with the key "confidence". *)
OfflineText == [mentions |-> TRUE, holds |-> "object"]

(* A tier may answer without content: `in` then raises, as a failed call. *)
NoText == [mentions |-> FALSE, holds |-> "none"]

-------------------------------------------------------------------------------
(* generate_response *)

PlannerInit ==
  /\ Init
  /\ stage = "openai"
  /\ mode = "none"
  /\ plan_text = NoText
  /\ returned = NoPlan

(* A model tier answers, fails before it answered, or fails after it was    *)
(* recorded, because the answer has no choices.                             *)
CallTier(tier, available, next) ==
  /\ stage = tier
  /\ \/ /\ available
        /\ mode' = tier
        /\ stage' = "sniff" /\ plan_text' \in Texts \cup {NoText}
     \/ /\ stage' = next /\ UNCHANGED plan_text
        /\ mode' \in IF available THEN {mode, tier} ELSE {mode}
  /\ UNCHANGED <<vars, returned>>

CallOpenAI == CallTier("openai", OpenAI, "ollama")
CallOllama == CallTier("ollama", Ollama, "offline")

AnswerOffline ==
  /\ stage = "offline"
  /\ mode' = "offline"
  /\ stage' = "sniff" /\ plan_text' = OfflineText
  /\ UNCHANGED <<vars, returned>>

-------------------------------------------------------------------------------
(* create_plan *)

StaticStep(id, input, deps) ==
  [step_id |-> id, tool |-> "registered", input |-> input, depends_on |-> deps]

(* Slip: the external information comes from sql_query, which requires a table. *)
RepairPlan_sql ==
  <<StaticStep(1, "complete", {}), StaticStep(2, "incomplete", {}),
    StaticStep(3, "complete", {1, 2})>>

(* repair_plan: retrieval and memory side by side, then the analysis.  Only *)
(* rag_retrieval requires an input, the query, which POST /run wants not    *)
(* empty.                                                                   *)
RepairPlan ==
  <<StaticStep(1, "complete", {}), StaticStep(2, "complete", {}),
    StaticStep(3, "complete", {1, 2})>>

Repair(here) ==
  /\ stage = here
  /\ stage' = "repaired" /\ returned' = RepairPlan
  /\ UNCHANGED <<vars, mode, plan_text>>

(* The text is looked through for the key of the offline answer. *)
Sniff ==
  \/ /\ stage = "sniff" /\ plan_text # NoText /\ ~plan_text.mentions
     /\ stage' = "parse"
     /\ UNCHANGED <<vars, mode, plan_text, returned>>
  \/ /\ plan_text = NoText \/ plan_text.mentions
     /\ Repair("sniff")

(* json.loads *)
Parse ==
  \/ /\ stage = "parse" /\ plan_text.holds # "invalid"
     /\ stage' = "goal"
     /\ UNCHANGED <<vars, mode, plan_text, returned>>
  \/ /\ plan_text.holds = "invalid"
     /\ Repair("parse")

(* The goal is filled in outside of any try: the assignment raises to the   *)
(* controller when the text holds no object, unless that value happens to   *)
(* contain "goal".                                                          *)
EnsureGoal ==
  /\ stage = "goal"
  /\ \/ stage' = "validate"
     \/ plan_text.holds = "value" /\ stage' = "raised"
  /\ UNCHANGED <<vars, mode, plan_text, returned>>

(* What validate rejects before it looks at a step. *)
RejectShape ==
  /\ plan_text.holds # "plan"
  /\ Repair("validate")

(* The calls of validate and detect_cycles; the second search for a cycle   *)
(* goes over the same plan.                                                 *)
Validate ==
  /\ stage = "validate" /\ plan_text.holds = "plan"
  /\ Next
  /\ UNCHANGED <<stage, mode, plan_text, returned>>

ReturnPlan ==
  \/ /\ stage = "validate" /\ phase = "accepted"
     /\ stage' = "planned" /\ returned' = plan
     /\ UNCHANGED <<vars, mode, plan_text>>
  \/ /\ phase = "rejected"
     /\ Repair("validate")

PlannerNext ==
  \/ CallOpenAI \/ CallOllama \/ AnswerOffline
  \/ Sniff \/ Parse \/ EnsureGoal \/ RejectShape \/ Validate \/ ReturnPlan

PlannerSpec == PlannerInit /\ [][PlannerNext]_plannerVars

-------------------------------------------------------------------------------
(* Properties *)

(* Whatever the model answers, the steps create_plan returns are ones       *)
(* ToolExecutor can run: known tools with their inputs and an acyclic graph *)
(* without dangling dependencies.  The static plan is never validated by    *)
(* the code, so that this is the only guard on it.  And the answer of the   *)
(* offline tier never passes for a plan of a model.                         *)
PlanIsRunnable ==
  /\ returned # NoPlan =>
       /\ \A s \in DOMAIN returned :
            WellFormed(returned[s]) /\ returned[s].input = "complete"
       /\ Validated(returned)
  /\ stage = "planned" => mode \in {"openai", "ollama"}

(* At most how many steps create_plan has still to take. *)
PlanningLeft ==
  CASE stage = "openai"   -> 7 + ValidationLeft
    [] stage = "ollama"   -> 6 + ValidationLeft
    [] stage = "offline"  -> 5 + ValidationLeft
    [] stage = "sniff"    -> 4 + ValidationLeft
    [] stage = "parse"    -> 3 + ValidationLeft
    [] stage = "goal"     -> 2 + ValidationLeft
    [] stage = "validate" -> 1 + ValidationLeft
    [] OTHER              -> 0

(* create_plan asks each tier at most once and gives up on the text at the  *)
(* first thing wrong with it, and the search for cycles calls dfs once for  *)
(* each node and looks at each dependency once, whatever graph the model    *)
(* wrote: also where paths meet again, which a search that forgets what it  *)
(* visited would follow exponentially often.                                *)
PlanningIsBounded == [][PlanningLeft' \in 0 .. PlanningLeft - 1]_plannerVars
===============================================================================
