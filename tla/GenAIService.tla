----------------------------- MODULE GenAIService -----------------------------
(***************************************************************************)
(* The process that serves a streamed query and the background jobs, and   *)
(* may be restarted under both.                                            *)
(***************************************************************************)
EXTENDS GenAIEngine, AgentJobs

CONSTANT MaxRestarts   \* bound on the restarts of the process

ASSUME ServiceAssumption == MaxRestarts \in Nat

VARIABLE restarts

vars == <<engineVars, jobVars, restarts>>

Init == EngineInit /\ JobsInit /\ restarts = 0

Restart ==
  /\ restarts < MaxRestarts
  /\ restarts' = restarts + 1
  /\ LoseRequest /\ LoseTasks

Serve    == (ReceiveQuery \/ EngineStep) /\ UNCHANGED <<jobVars, restarts>>
Submit   == (\E j \in Jobs : SubmitJob(j)) /\ UNCHANGED <<engineVars, restarts>>
Enqueue(j)    == EnqueueJob(j) /\ UNCHANGED <<engineVars, restarts>>
Background(j) == BackgroundTask(j) /\ UNCHANGED <<engineVars, restarts>>

Next ==
  \/ Serve \/ Submit \/ Restart
  \/ \E j \in Jobs : Enqueue(j) \/ Background(j)

(* A thread of the pool and the event loop go on.  Every wait of the engine *)
(* is bounded: sleeps, three attempts, 45 seconds for a planner.            *)
Fairness ==
  /\ WF_vars(EngineStep /\ UNCHANGED <<jobVars, restarts>>)
  /\ \A j \in Jobs : WF_vars(Enqueue(j)) /\ WF_vars(Background(j))

Spec == Init /\ [][Next]_vars /\ Fairness

-------------------------------------------------------------------------------
(* The variables of the request and of the jobs. *)
TypeOK == EngineTypeOK /\ JobsTypeOK /\ restarts \in 0 .. MaxRestarts
===============================================================================
