------------------------------- MODULE AgentJobs -------------------------------
(***************************************************************************)
(* POST /api/agent/job (src/api/agent.py) and run_agent_job                *)
(* (src/genai/jobs/manager.py): a row of genai_task_logs is committed as   *)
(* PENDING, and a background task of the process is to complete it.  The   *)
(* tasks run in threads, each with a session of its own; statements may    *)
(* fail, and a restart forgets the tasks but not the rows.                 *)
(***************************************************************************)
CONSTANTS
  Jobs          \* the jobs submitted

VARIABLES
  where,        \* where each job is in the process
  status,       \* genai_task_logs.status, as committed
  response,     \* genai_task_logs.response, as committed
  pending,      \* what the session of a task is about to commit
  hit           \* history: the jobs a failing statement or a restart hit

jobVars == <<where, status, response, pending, hit>>

NoRow == "none"

Outcome(s, r) == [status |-> s, response |-> r]

JobsInit ==
  /\ where = [j \in Jobs |-> "none"]
  /\ status = [j \in Jobs |-> NoRow]
  /\ response = [j \in Jobs |-> NoRow]
  /\ pending = [j \in Jobs |-> Outcome(NoRow, NoRow)]
  /\ hit = {}

Move(j, here, there) == where[j] = here /\ where' = [where EXCEPT ![j] = there]

(* Slip: the row is not committed before the task is handed over. *)
SubmitJob_uncommitted(j) ==
  /\ \E there \in {"committed", "refused"} : Move(j, "none", there)
  /\ UNCHANGED <<status, response, pending, hit>>

(* The session is looked up and the row committed; without a session, or    *)
(* when a statement fails, there is no row.                                 *)
SubmitJob(j) ==
  \/ /\ Move(j, "none", "committed")
     /\ status' = [status EXCEPT ![j] = "PENDING"]
     /\ UNCHANGED <<response, pending, hit>>
  \/ /\ Move(j, "none", "refused")
     /\ UNCHANGED <<status, response, pending, hit>>

(* db.refresh(job), add_task.  When the refresh fails the client gets a 500 *)
(* and the row has no task.                                                 *)
EnqueueJob(j) ==
  \/ /\ Move(j, "committed", "queued")
     /\ UNCHANGED <<status, response, pending, hit>>
  \/ /\ Move(j, "committed", "lost")
     /\ hit' = hit \cup {j}
     /\ UNCHANGED <<status, response, pending>>

(* run_agent_job loads the row.  When that fails, its handler uses `job`,   *)
(* which has no value yet, and raises.                                      *)
LoadJob(j) ==
  \/ /\ Move(j, "queued", "loaded")
     /\ UNCHANGED <<status, response, pending, hit>>
  \/ /\ Move(j, "queued", "lost")
     /\ hit' = hit \cup {j}
     /\ UNCHANGED <<status, response, pending>>

(* What calling an async method without await returns. *)
RunTask == "coroutine"

(* Slip: an engine that cannot be built is not handled. *)
RunJob_uncaught(j) ==
  \/ /\ Move(j, "loaded", "finished")
     /\ pending' = [pending EXCEPT ![j] = Outcome("COMPLETED", RunTask)]
     /\ UNCHANGED <<status, response, hit>>
  \/ /\ Move(j, "loaded", "lost")
     /\ UNCHANGED <<status, response, pending, hit>>

(* The engine is built, or raises, and run_task is called without await:    *)
(* the response is the text of a coroutine object.                          *)
RunJob(j) ==
  /\ Move(j, "loaded", "finished")
  /\ \E outcome \in {Outcome("COMPLETED", RunTask), Outcome("FAILED", NoRow)} :
       pending' = [pending EXCEPT ![j] = outcome]
  /\ UNCHANGED <<status, response, hit>>

(* db.commit() in the finally clause. *)
CommitJob(j) ==
  \/ /\ Move(j, "finished", "ended")
     /\ status' = [status EXCEPT ![j] = pending[j].status]
     /\ response' = [response EXCEPT ![j] = pending[j].response]
     /\ UNCHANGED <<pending, hit>>
  \/ /\ Move(j, "finished", "lost")
     /\ hit' = hit \cup {j}
     /\ UNCHANGED <<status, response, pending>>

JobsEnded == {"refused", "ended", "lost"}

(* Nothing at start-up looks for PENDING rows. *)
LoseTasks ==
  LET running == {j \in Jobs : where[j] \notin JobsEnded \cup {"none"}}
  IN /\ where' = [j \in Jobs |-> IF j \in running THEN "lost" ELSE where[j]]
     /\ hit' = hit \cup running
     /\ UNCHANGED <<status, response, pending>>

BackgroundTask(j) == LoadJob(j) \/ RunJob(j) \/ CommitJob(j)

-------------------------------------------------------------------------------
(* Properties *)

JobsTypeOK ==
  /\ where \in [Jobs -> {"none", "committed", "queued", "loaded", "finished"} \cup JobsEnded]
  /\ status \in [Jobs -> {NoRow, "PENDING", "COMPLETED", "FAILED"}]
  /\ hit \subseteq Jobs
  /\ \A j \in Jobs : /\ status[j] = "PENDING" <=>
                          \/ where[j] \in {"committed", "queued", "loaded", "finished"}
                          \/ where[j] = "lost"
                     /\ response[j] # NoRow => status[j] = "COMPLETED"

(* A job does not stay PENDING unless a restart or a failing statement hit  *)
(* it: an engine that raises still ends it.                                 *)
EveryJobEnds ==
  \A j \in Jobs : status[j] = "PENDING" ~> status[j] # "PENDING" \/ j \in hit
===============================================================================
