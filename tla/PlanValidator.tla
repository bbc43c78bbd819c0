----------------------------- MODULE PlanValidator -----------------------------
(***************************************************************************)
(* PlanValidator.validate (src/agent/plan_validator.py) on one plan the    *)
(* language model wrote: the checks of each step, of the dependencies, of  *)
(* the inputs, and then detect_cycles, the depth-first search on a graph   *)
(* keyed by step_id.  The search is written with its call stack; the order *)
(* in which it meets nodes and neighbours is left open.                    *)
(***************************************************************************)
EXTENDS Naturals, Sequences, FiniteSets, PlanStructure

CONSTANTS
  Ids,       \* the step identifiers a plan may mention
  Plans,     \* the plans the language model may write
  NoId       \* stands for a step without a step_id


(* A step as parsed from JSON.  Its input is complete when every key its    *)
(* tool requires has a value; an input that is no object is not.            *)
RawStep == [step_id    : Ids \cup {NoId},
            tool       : {"registered", "unknown", "missing"},
            input      : {"complete", "incomplete"},
            depends_on : SUBSET Ids]

ASSUME RawPlansAssumption == Plans \subseteq Seq(RawStep)

VARIABLES
  plan,        \* the plan under validation
  phase,       \* the check under way, or the outcome
  step_ids,    \* step_ids
  at,          \* the step the current loop visits
  visited,     \* visited
  recursion_stack, \* recursion_stack
  calls        \* the active calls of dfs: [node, the neighbours still to visit]

searchVars == <<visited, recursion_stack, calls>>
vars       == <<plan, phase, step_ids, at, searchVars>>

Init ==
  /\ plan \in Plans
  /\ phase = "steps"
  /\ step_ids = {}
  /\ at = 1
  /\ visited = {} /\ recursion_stack = {} /\ calls = <<>>

Reject == phase' = "rejected" /\ UNCHANGED <<step_ids, at, searchVars>>

(* The three loops over the steps, one step at a time. *)
Visit(loop, next) ==
  /\ phase = loop
  /\ IF at < Len(plan) THEN at' = at + 1 /\ UNCHANGED phase
                       ELSE at' = 1 /\ phase' = next

(* A loop over no step at all. *)
SkipEmpty ==
  /\ phase = "steps"
  /\ plan = <<>>
  /\ phase' = "cycles"
  /\ UNCHANGED <<plan, step_ids, at, searchVars>>

WellFormed(step) == step.step_id # NoId /\ step.tool = "registered"

CheckStep ==
  /\ phase = "steps" /\ plan # <<>>
  /\ IF WellFormed(plan[at])
       THEN /\ step_ids' = step_ids \cup {plan[at].step_id}
            /\ Visit("steps", "dependencies")
            /\ UNCHANGED searchVars
       ELSE Reject
  /\ UNCHANGED plan

(* Slip: a dependency is looked up among the steps before it. *)
CheckDependencies_earlier ==
  /\ phase = "dependencies"
  /\ IF plan[at].depends_on \subseteq {plan[t].step_id : t \in 1 .. at}
       THEN Visit("dependencies", "inputs") /\ UNCHANGED <<step_ids, searchVars>>
       ELSE Reject
  /\ UNCHANGED plan

CheckDependencies ==
  /\ phase = "dependencies"
  /\ IF plan[at].depends_on \subseteq step_ids
       THEN Visit("dependencies", "inputs") /\ UNCHANGED <<step_ids, searchVars>>
       ELSE Reject
  /\ UNCHANGED plan

(* validate_inputs *)
CheckInput ==
  /\ phase = "inputs"
  /\ IF plan[at].input = "complete"
       THEN Visit("inputs", "cycles") /\ UNCHANGED <<step_ids, searchVars>>
       ELSE Reject
  /\ UNCHANGED plan

-------------------------------------------------------------------------------
(* detect_cycles *)

(* graph[node]: the dependencies of the last step with that identifier. *)
Neighbours(node) ==
  UNION {plan[s].depends_on :
           s \in {t \in DOMAIN plan : plan[t].step_id = node /\ LastCopy(plan, t)}}

Top == calls[Len(calls)]

(* Slip: `visited.add(node)` is missing. *)
Call_unmarked(node) ==
  /\ recursion_stack' = recursion_stack \cup {node}
  /\ UNCHANGED visited

Call(node) ==
  /\ visited' = visited \cup {node}
  /\ recursion_stack' = recursion_stack \cup {node}

(* The outer loop calls dfs on a node it has not visited. *)
StartSearch(node) ==
  /\ phase = "cycles" /\ calls = <<>>
  /\ node \in IdsOf(plan) \ visited
  /\ Call(node)
  /\ calls' = <<[node |-> node, rest |-> Neighbours(node)]>>
  /\ UNCHANGED <<plan, phase, step_ids, at>>

(* The active calls once the innermost has met its neighbour n. *)
Without(n) == [calls EXCEPT ![Len(calls)].rest = @ \ {n}]

Descend(n) ==
  /\ phase = "cycles" /\ calls # <<>>
  /\ n \in Top.rest \ visited
  /\ Call(n)
  /\ calls' = Append(Without(n), [node |-> n, rest |-> Neighbours(n)])
  /\ UNCHANGED <<plan, phase, step_ids, at>>

(* Slip: a neighbour met before is taken for a cycle. *)
MeetVisited_crossEdge(n) ==
  /\ phase = "cycles" /\ calls # <<>>
  /\ n \in Top.rest \cap visited
  /\ phase' = "rejected"
  /\ UNCHANGED <<plan, step_ids, at, searchVars>>

(* A neighbour on the recursion stack closes a cycle: every active call     *)
(* returns True and the outer loop raises.                                  *)
MeetVisited(n) ==
  /\ phase = "cycles" /\ calls # <<>>
  /\ n \in Top.rest \cap visited
  /\ IF n \in recursion_stack
       THEN phase' = "rejected" /\ UNCHANGED calls
       ELSE calls' = Without(n) /\ UNCHANGED phase
  /\ UNCHANGED <<plan, step_ids, at, visited, recursion_stack>>

(* Slip: the node stays on recursion_stack. *)
Leave_onStack ==
  /\ phase = "cycles" /\ calls # <<>>
  /\ Top.rest = {}
  /\ calls' = SubSeq(calls, 1, Len(calls) - 1)
  /\ UNCHANGED <<plan, phase, step_ids, at, visited, recursion_stack>>

(* Slip: only the nodes on the stack are kept from another visit. *)
Leave_forgets ==
  /\ phase = "cycles" /\ calls # <<>>
  /\ Top.rest = {}
  /\ recursion_stack' = recursion_stack \ {Top.node}
  /\ visited' = visited \ {Top.node}
  /\ calls' = SubSeq(calls, 1, Len(calls) - 1)
  /\ UNCHANGED <<plan, phase, step_ids, at>>

Leave ==
  /\ phase = "cycles" /\ calls # <<>>
  /\ Top.rest = {}
  /\ recursion_stack' = recursion_stack \ {Top.node}
  /\ calls' = SubSeq(calls, 1, Len(calls) - 1)
  /\ UNCHANGED <<plan, phase, step_ids, at, visited>>

Accept ==
  /\ phase = "cycles" /\ calls = <<>>
  /\ IdsOf(plan) \subseteq visited
  /\ phase' = "accepted"
  /\ UNCHANGED <<plan, step_ids, at, searchVars>>

Next == \/ SkipEmpty \/ CheckStep \/ CheckDependencies \/ CheckInput
        \/ \E n \in Ids : StartSearch(n) \/ Descend(n) \/ MeetVisited(n)
        \/ Leave \/ Accept

Spec == Init /\ [][Next]_vars

-------------------------------------------------------------------------------
(* Properties *)

TypeOK ==
  /\ plan \in Seq(RawStep)
  /\ phase \in {"steps", "dependencies", "inputs", "cycles", "accepted", "rejected"}
  /\ step_ids \subseteq IdsOf(plan)
  /\ at \in 1 .. Len(plan) + 1
  /\ visited \subseteq IdsOf(plan) /\ recursion_stack \subseteq visited
  /\ calls \in Seq([node : Ids, rest : SUBSET Ids])

(* A plan passes exactly when each of its steps is well formed and has its  *)
(* inputs, and its structure is what ToolExecutor relies on: every          *)
(* dependency is a step of the plan and there is a rank that descends along *)
(* them, whatever order the search takes.                                   *)
VerdictIsRight ==
  LET good == /\ \A s \in DOMAIN plan : WellFormed(plan[s]) /\ plan[s].input = "complete"
              /\ Validated(plan)
  IN (phase = "accepted" => good) /\ (phase = "rejected" => ~good)

(* recursion_stack is the set of the calls that are active, each node       *)
(* active at most once, so the recursion is no deeper than the plan has     *)
(* identifiers and graph[node] is never asked for a node it lacks.          *)
StackIsCallStack ==
  /\ recursion_stack = {calls[k].node : k \in DOMAIN calls}
  /\ Len(calls) = Cardinality(recursion_stack)

(* The dependencies of a node whose call has returned have returned too:    *)
(* the order in which calls return is the rank of acyclicity.               *)
ReturnedNodesAreClosed ==
  phase = "cycles" =>
    \A n \in visited \ recursion_stack :
      Neighbours(n) \subseteq visited \ recursion_stack

(* What tells a cycle from paths that meet again: a visited neighbour is    *)
(* either active, and on the way that led here, or done with everything     *)
(* that can be reached from it.                                             *)
SearchIsDepthFirst == StackIsCallStack /\ ReturnedNodesAreClosed

(* The dependencies dfs has still to look at: all of a node it has not      *)
(* visited, and what its active calls have left.                            *)
EdgesLeft ==
  {e \in IdsOf(plan) \X IdsOf(plan) :
     \/ e[1] \notin visited /\ e[2] \in Neighbours(e[1])
     \/ \E k \in DOMAIN calls : calls[k].node = e[1] /\ e[2] \in calls[k].rest}

(* A node costs a call and a return, a dependency one look. *)
SearchLeft == 2 * Cardinality(IdsOf(plan) \ visited) + Len(calls) + Cardinality(EdgesLeft)

(* At most how many steps validate has still to take. *)
ValidationLeft ==
  CASE phase = "steps"        -> 3 * Len(plan) + 3 - at + SearchLeft
    [] phase = "dependencies" -> 2 * Len(plan) + 3 - at + SearchLeft
    [] phase = "inputs"       -> Len(plan) + 3 - at + SearchLeft
    [] phase = "cycles"       -> 1 + SearchLeft
    [] OTHER                  -> 0

===============================================================================
