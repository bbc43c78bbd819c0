---------------------------- MODULE MCPlanExecutor ----------------------------
(***************************************************************************)
(* Small sets of plans for PlanExecutor.                                   *)
(***************************************************************************)
EXTENDS PlanExecutor

MCIds == 1 .. 5

Make(id, tool, deps) ==
  [s \in DOMAIN id |-> [step_id |-> id[s], tool |-> tool[s], depends_on |-> deps[s]]]

(* Every dependency graph over three steps with distinct identifiers, in    *)
(* the order of the plan or against it.                                     *)
Graphs3 == [1 .. 3 -> SUBSET (1 .. 3)]

Shaped(graphs, tools) ==
  {p \in {Make(<<1, 2, 3>>, tool, deps) : tool \in tools, deps \in graphs} : Acyclic(p)}

ToolMixes == {<<"sync", "sync", "sync">>, <<"async", "async", "async">>,
              <<"async", "sync", "async">>, <<"sync", "unregistered", "async">>}

(* A diamond, and two chains that share their last step. *)
Diamond(tool) == Make(<<1, 2, 3, 4>>, tool, <<{}, {1}, {1}, {2, 3}>>)
Chains(tool)  == Make(<<4, 1, 2, 3>>, tool, <<{2, 3}, {}, {1}, {}>>)
FourTools     == {<<"sync", "async", "async", "sync">>}

(* One step more than the limit.  A plan without steps is valid too. *)
FiveSteps == [s \in 1 .. 5 |-> [step_id |-> s, tool |-> "sync", depends_on |-> {}]]

UniquePlans == {<<>>, FiveSteps} \cup Shaped(Graphs3, ToolMixes)
                 \cup {Diamond(t) : t \in FourTools} \cup {Chains(t) : t \in FourTools}

(* Three steps over two identifiers, so that one identifier is used twice. *)
DuplicatePlans ==
  {p \in {Make(id, <<"sync", "async", "sync">>, deps) :
             id \in [1 .. 3 -> 1 .. 2], deps \in [1 .. 3 -> SUBSET (1 .. 2)]} :
     Validated(p)}

(* One step, with a tool of each kind. *)
SingleStepPlans == {Make(<<1>>, <<t>>, <<{}>>) : t \in {"sync", "async"}}

(* A synchronous tool may never return.  Everything else keeps going: the   *)
(* loop, the coroutines that await, and the timer of the run's deadline.    *)
HungToolSpec ==
  /\ Init /\ [][Next]_vars
  /\ WF_vars(WaveLoop)
  /\ \A s \in 1 .. MaxPlanSteps :
       WF_vars(s \in Steps /\ plan[s].tool # "sync" /\ Coroutine(s))
  /\ WF_vars(Deadline)

(* "Sync tools return directly and are additionally bounded by the          *)
(* run-level deadline enforced in the controller": with the deadline's      *)
(* timer running, every execution ends.                                     *)
DeadlineBoundsRun == <>(phase \in Terminal)
===============================================================================
