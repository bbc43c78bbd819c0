-------------------------- MODULE GenAIServiceProofs --------------------------
(***************************************************************************)
(* What holds of GenAIService for any queries, any answers of a model, any *)
(* number of jobs and of restarts.                                         *)
(***************************************************************************)
EXTENDS GenAIService, TLAPS

-------------------------------------------------------------------------------
(* Type correctness *)

(* Where no subtask was made yet, where the transaction is clean, and what  *)
(* the answers are. *)
Before == {"idle", "received", "constructed", "logged", "allowed", "failsafe"}

ProgressInv ==
  /\ at \in Before => subtasks = <<>>
  /\ query \in Queries
  /\ \A i \in DOMAIN progress : progress[i] = "done" =>
       i \in DOMAIN results /\ results[i] = ProcessSubtask(i)

SessionInv ==
  /\ at \in Before => session # "aborted"
  /\ SessionRecovered

(* What a task is about to commit is an outcome.  A row without an outcome  *)
(* has no answer.                                                           *)
JobsInv ==
  /\ JobsTypeOK
  /\ pending \in [Jobs -> {Outcome(NoRow, NoRow), Outcome("FAILED", NoRow),
                          Outcome("COMPLETED", RunTask)}]
  /\ response \in [Jobs -> {NoRow, RunTask}]
  /\ \A j \in Jobs : /\ where[j] = "none" => status[j] = NoRow
                     /\ where[j] = "finished" => pending[j].status # NoRow

EngineInv == EngineTypeOK /\ ProgressInv /\ SessionInv /\ AnswersInOrder

LEMMA EngineInitially == EngineInit => EngineInv
<1> SUFFICES ASSUME EngineInit PROVE EngineInv
  OBVIOUS
<1> USE DEF EngineInit
<1>1. EngineTypeOK
  <2>1. /\ subtasks \in Seq({"text", "other"})
        /\ progress \in Seq({"waiting", "recalled", "done"}) /\ Len(progress) = Len(subtasks)
    OBVIOUS
  <2>2. DOMAIN results \subseteq DOMAIN subtasks
    OBVIOUS
  <2>3. saved \in BOOLEAN /\ audited \in BOOLEAN
    OBVIOUS
  <2>4. QED
    BY <2>1, <2>2, <2>3 DEF EngineTypeOK
<1>2. ProgressInv
  BY DEF ProgressInv
<1>3. SessionInv /\ AnswersInOrder
  BY DEF SessionInv, SessionRecovered, AnswersInOrder
<1>4. QED
  BY <1>1, <1>2, <1>3 DEF EngineInv

(* A decomposition that is a list is a list of subtasks. *)
LEMMA DecompositionsAreLists ==
  ASSUME query \in Queries, NEW d \in Decompositions, d # NoList
  PROVE  /\ d \in Seq({"text", "other"})
         /\ [i \in DOMAIN d |-> "waiting"] \in Seq({"waiting", "recalled", "done"})
         /\ Len([i \in DOMAIN d |-> "waiting"]) = Len(d)
         /\ DOMAIN [i \in DOMAIN d |-> "waiting"] = DOMAIN d
<1>1. ASSUME NEW n \in Nat, NEW f \in [1 .. n -> {"text", "other"}]
      PROVE  f \in Seq({"text", "other"})
  OBVIOUS
<1>2. ASSUME NEW n \in Nat PROVE Texts(n) \in [1 .. n -> {"text", "other"}]
  BY DEF Texts
<1>3. FallbackResponse(query) \in {Texts(1), Texts(2), Texts(4)}
  <2>1. query.analyze \in BOOLEAN /\ query.words \in Nat
    BY EngineAssumption
  <2>2. QED
    BY <2>1 DEF FallbackResponse
<1>4. \/ d \in {Texts(1), Texts(2), Texts(4)}
      \/ \E n \in 0 .. MaxSubtasks : d \in [1 .. n -> {"text", "other"}]
  BY <1>3 DEF Decompositions, ModelResponse
<1>5. d \in Seq({"text", "other"})
  BY <1>1, <1>2, <1>4, EngineAssumption
<1>6. QED
  BY <1>5

(* The subtasks that are processed are the first ones, at most as many as   *)
(* there are workers.                                                       *)
LEMMA DispatchedIsPrefix ==
  ASSUME subtasks \in Seq({"text", "other"})
  PROVE  \E m \in 0 .. Len(subtasks) :
           /\ Dispatched = 1 .. m
           /\ m = Len(subtasks) \/ (Decision(query).parallel /\ m = Decision(query).max_workers)
<1>1. /\ DOMAIN subtasks = 1 .. Len(subtasks) /\ Len(subtasks) \in Nat
      /\ Len(subtasks) \in 0 .. Len(subtasks)
  OBVIOUS
<1>2. CASE ~Decision(query).parallel
  <2>1. Dispatched = 1 .. Len(subtasks)
    BY <1>1, <1>2 DEF Dispatched
  <2>2. QED
    BY <1>1, <2>1
<1>3. CASE Decision(query).parallel
  <2> DEFINE w == Decision(query).max_workers
  <2>1. w \in {1, 2, 4}
    BY DEF Decision
  <2> HIDE DEF w
  <2>2. Dispatched = {i \in 1 .. Len(subtasks) : i <= w}
    BY <1>1, <1>3 DEF Dispatched, w
  <2>3. CASE w <= Len(subtasks)
    <3>1. Dispatched = 1 .. w /\ w \in 0 .. Len(subtasks)
      BY <1>1, <2>1, <2>2, <2>3
    <3>2. QED
      BY <1>3, <3>1 DEF w
  <2>4. CASE Len(subtasks) < w
    <3>1. Dispatched = 1 .. Len(subtasks)
      BY <1>1, <2>1, <2>2, <2>4
    <3>2. QED
      BY <1>1, <3>1
  <2>5. w <= Len(subtasks) \/ Len(subtasks) < w
    BY <1>1, <2>1
  <2>6. QED
    BY <2>3, <2>4, <2>5
<1>4. QED
  BY <1>2, <1>3

(* A step that changes neither the subtasks nor their answers, and does not *)
(* collect them.                                                            *)
LEMMA ElsewhereKeepsSubtasks ==
  ASSUME EngineTypeOK, ProgressInv,
         UNCHANGED <<query, provider, subtasks, progress, results>>,
         at' \in Before => at \in Before, at' # "collected"
  PROVE  /\ ProgressInv' /\ AnswersInOrder'
         /\ subtasks' \in Seq({"text", "other"})
         /\ progress' \in Seq({"waiting", "recalled", "done"}) /\ Len(progress') = Len(subtasks')
         /\ DOMAIN results' \subseteq DOMAIN subtasks'
BY DEF EngineTypeOK, ProgressInv, AnswersInOrder, ProcessSubtask, RecursiveExecute

LEMMA EngineNext == EngineInv /\ (ReceiveQuery \/ EngineStep) => EngineInv'
<1> SUFFICES ASSUME EngineInv, ReceiveQuery \/ EngineStep PROVE EngineInv'
  OBVIOUS
<1>0. /\ EngineTypeOK /\ ProgressInv /\ SessionInv
      /\ subtasks \in Seq({"text", "other"})
      /\ progress \in Seq({"waiting", "recalled", "done"}) /\ Len(progress) = Len(subtasks)
      /\ DOMAIN results \subseteq DOMAIN subtasks
  BY DEF EngineInv, EngineTypeOK
<1>1. CASE ReceiveQuery \/ Construct \/ LogTask \/ Guardrails
  <2>1. /\ UNCHANGED <<query, provider, subtasks, progress, results, answer, saved, audited>>
        /\ at \in Before /\ at' \in Before \cup {"error"}
        /\ session' \in {session, "none"}
    BY <1>1 DEF ReceiveQuery, Construct, LogTask, Guardrails, Goto, taskVars, dbVars, Before
  <2>2. ProgressInv' /\ AnswersInOrder'
    BY <1>0, <2>1, ElsewhereKeepsSubtasks DEF Before
  <2>3. EngineTypeOK'
    BY <1>0, <2>1 DEF EngineTypeOK, Before, EngineEnded
  <2>4. SessionInv'
    BY <1>0, <2>1 DEF SessionInv, SessionRecovered, Before
  <2>5. QED
    BY <2>2, <2>3, <2>4 DEF EngineInv
<1>2. CASE Decompose
  <2>1. at = "allowed" /\ subtasks = <<>> /\ query \in Queries /\ session # "aborted"
        /\ UNCHANGED <<query, provider, results, combined, answer, dbVars>>
    BY <1>0, <1>2 DEF Decompose, ProgressInv, SessionInv, Before
  <2>2. CASE at' = "failsafe" /\ UNCHANGED <<subtasks, progress>>
    <3>1. ProgressInv' /\ AnswersInOrder'
      BY <1>0, <2>1, <2>2, ElsewhereKeepsSubtasks DEF Before
    <3>2. EngineTypeOK'
      BY <1>0, <2>1, <2>2 DEF EngineTypeOK, dbVars
    <3>3. SessionInv'
      BY <2>1, <2>2 DEF SessionInv, SessionRecovered, dbVars
    <3>4. QED
      BY <3>1, <3>2, <3>3 DEF EngineInv
  <2>3. ASSUME NEW d \in Decompositions, d # NoList, at' = "processing",
               subtasks' = d, progress' = [i \in DOMAIN d |-> "waiting"]
        PROVE  EngineInv'
    <3>1. /\ subtasks' \in Seq({"text", "other"})
          /\ progress' \in Seq({"waiting", "recalled", "done"})
          /\ Len(progress') = Len(subtasks') /\ DOMAIN progress' = DOMAIN d
      BY <2>1, <2>3, DecompositionsAreLists
    <3>2. DOMAIN results' = {}
      BY <1>0, <2>1
    <3>3. EngineTypeOK'
      BY <1>0, <2>1, <2>3, <3>1, <3>2 DEF EngineTypeOK, dbVars
    <3>4. ProgressInv'
      <4>1. \A i \in DOMAIN progress' : progress'[i] = "waiting"
        BY <2>3
      <4>2. QED
        BY <2>1, <2>3, <4>1 DEF ProgressInv, Before
    <3>5. SessionInv' /\ AnswersInOrder'
      BY <2>3 DEF SessionInv, SessionRecovered, AnswersInOrder, Before
    <3>6. QED
      BY <3>3, <3>4, <3>5 DEF EngineInv
  <2>4. QED
    BY <1>2, <2>2, <2>3 DEF Decompose
<1>3. ASSUME NEW i \in DOMAIN subtasks, Recall(i) PROVE EngineInv'
  <2>1. /\ at = "processing" /\ at' = at
        /\ progress[i] = "waiting" /\ progress' = [progress EXCEPT ![i] = "recalled"]
        /\ session' \in {"open", "aborted"}
        /\ UNCHANGED <<query, provider, subtasks, results, combined, answer, saved, audited>>
    BY <1>3 DEF Recall
  <2>2. /\ progress' \in Seq({"waiting", "recalled", "done"}) /\ Len(progress') = Len(progress)
        /\ DOMAIN progress' = DOMAIN progress
        /\ \A j \in DOMAIN progress : progress'[j] = "done" => progress[j] = "done"
    BY <1>0, <2>1
  <2>3. EngineTypeOK'
    BY <1>0, <2>1, <2>2 DEF EngineTypeOK
  <2>4. ProgressInv'
    BY <1>0, <2>1, <2>2 DEF ProgressInv, Before, ProcessSubtask, RecursiveExecute
  <2>5. SessionInv' /\ AnswersInOrder'
    BY <2>1 DEF SessionInv, SessionRecovered, AnswersInOrder, Before
  <2>6. QED
    BY <2>3, <2>4, <2>5 DEF EngineInv
<1>4. ASSUME NEW i \in DOMAIN subtasks, FinishSubtask(i) PROVE EngineInv'
  <2>1. /\ at = "processing" /\ at' = at
        /\ i \in DOMAIN progress /\ progress' = [progress EXCEPT ![i] = "done"]
        /\ results' = Put(results, i, ProcessSubtask(i))
        /\ UNCHANGED <<query, provider, subtasks, combined, answer, dbVars>>
    BY <1>4 DEF FinishSubtask
  <2>2. /\ progress' \in Seq({"waiting", "recalled", "done"}) /\ Len(progress') = Len(progress)
        /\ DOMAIN progress' = DOMAIN progress
        /\ \A j \in DOMAIN progress \ {i} : progress'[j] = progress[j]
    BY <1>0, <2>1
  <2>3. /\ DOMAIN results' = DOMAIN results \cup {i} /\ results'[i] = ProcessSubtask(i)
        /\ \A j \in DOMAIN results \ {i} : results'[j] = results[j]
    BY <2>1 DEF Put
  <2>4. EngineTypeOK'
    BY <1>0, <1>4, <2>1, <2>2, <2>3 DEF EngineTypeOK, dbVars
  <2>5. \A j \in DOMAIN progress' : ProcessSubtask(j)' = ProcessSubtask(j)
    BY <2>1 DEF ProcessSubtask, RecursiveExecute
  <2>6. ProgressInv'
    <3>1. ASSUME NEW j \in DOMAIN progress', progress'[j] = "done"
          PROVE  j \in DOMAIN results' /\ results'[j] = ProcessSubtask(j)'
      BY <1>0, <2>2, <2>3, <2>5, <3>1 DEF ProgressInv
    <3>2. QED
      BY <1>0, <2>1, <3>1 DEF ProgressInv, Before
  <2>7. SessionInv' /\ AnswersInOrder'
    BY <2>1 DEF SessionInv, SessionRecovered, AnswersInOrder, Before
  <2>8. QED
    BY <2>4, <2>6, <2>7 DEF EngineInv
<1>5. CASE CollectResults
  <2>1. /\ at = "processing" /\ at' = "collected"
        /\ \A i \in Dispatched : progress[i] = "done"
        /\ combined' = [i \in Dispatched |-> results[i]]
        /\ UNCHANGED <<query, provider, subtasks, progress, results, answer, dbVars>>
    BY <1>5 DEF CollectResults, Goto
  <2>2. PICK m \in 0 .. Len(subtasks) :
           /\ Dispatched = 1 .. m
           /\ m = Len(subtasks) \/ (Decision(query).parallel /\ m = Decision(query).max_workers)
    BY <1>0, DispatchedIsPrefix
  <2>3. \A i \in 1 .. m : results[i] = ProcessSubtask(i)
    BY <1>0, <2>1, <2>2 DEF ProgressInv
  <2>4. DOMAIN combined' = 1 .. m /\ Len(combined') = m
    BY <2>1, <2>2
  <2>5. \A i \in 1 .. m : /\ combined'[i].subtask = i
                          /\ combined'[i].error <=> subtasks[i] = "other"
    <3>1. ASSUME NEW i \in 1 .. m
          PROVE  /\ ProcessSubtask(i).subtask = i
                 /\ ProcessSubtask(i).error <=> subtasks[i] = "other"
      <4>1. subtasks[i] \in {"text", "other"}
        BY <1>0
      <4>2. QED
        BY <4>1 DEF ProcessSubtask, RecursiveExecute, Answer, SafeExecute
    <3>2. QED
      BY <2>1, <2>2, <2>3, <3>1
  <2>6. Decision(query') = Decision(query)
    BY <2>1
  <2>7. AnswersInOrder'
    <3>1. \A i \in DOMAIN combined' : /\ combined'[i].subtask = i
                                      /\ combined'[i].error <=> subtasks'[i] = "other"
      BY <2>1, <2>4, <2>5
    <3>2. \/ Len(combined') = Len(subtasks')
          \/ Decision(query').parallel /\ Len(combined') = Decision(query').max_workers
      BY <2>1, <2>2, <2>4, <2>6
    <3>3. QED
      BY <3>1, <3>2 DEF AnswersInOrder
  <2>8. EngineTypeOK'
    BY <1>0, <2>1 DEF EngineTypeOK, dbVars
  <2>9. ProgressInv' /\ SessionInv'
    BY <1>0, <2>1 DEF ProgressInv, SessionInv, SessionRecovered, Before,
                      ProcessSubtask, RecursiveExecute
  <2>10. QED
    BY <2>7, <2>8, <2>9 DEF EngineInv
<1>6. CASE Synthesize \/ SaveMemory \/ Failsafe \/ WriteAuditLog \/ AuditLogFails \/ Stream
  <2>1. /\ UNCHANGED <<query, provider, subtasks, progress, results>>
        /\ at' \in {"synthesized", "answered", "streaming", "streamed", "broken", "error"}
        /\ answer' \in {answer, "record", "text"}
        /\ session' \in {session, "none", "open"} /\ saved' \in {saved, TRUE}
        /\ audited' \in {audited, TRUE}
    BY <1>6 DEF Synthesize, SaveMemory, Failsafe, WriteAuditLog, AuditLogFails, Stream, Goto,
                taskVars, dbVars
  <2>2. ProgressInv' /\ AnswersInOrder'
    BY <1>0, <2>1, ElsewhereKeepsSubtasks DEF Before
  <2>3. EngineTypeOK'
    BY <1>0, <2>1 DEF EngineTypeOK, EngineEnded
  <2>4. SessionRecovered'
    <3>1. CASE SaveMemory
      BY <3>1 DEF SaveMemory, SessionRecovered
    <3>2. CASE Failsafe
      BY <1>0, <3>2 DEF Failsafe, Goto, SessionInv, SessionRecovered, Before, dbVars
    <3>3. CASE Synthesize \/ WriteAuditLog \/ AuditLogFails \/ Stream
      BY <3>3 DEF Synthesize, WriteAuditLog, AuditLogFails, Stream, Goto, SessionRecovered
    <3>4. QED
      BY <1>6, <3>1, <3>2, <3>3
  <2>5. QED
    BY <2>1, <2>2, <2>3, <2>4 DEF EngineInv, SessionInv, Before
<1>7. QED
  BY <1>1, <1>2, <1>3, <1>4, <1>5, <1>6 DEF EngineStep

-------------------------------------------------------------------------------
(* The jobs *)

(* A row says COMPLETED only with what the task returned, through every     *)
(* step of the job.                                                         *)
LEMMA JobsNext ==
  ASSUME JobsInv, NEW j \in Jobs, SubmitJob(j) \/ EnqueueJob(j) \/ BackgroundTask(j)
  PROVE  JobsInv'
<1> USE DEF JobsInv, JobsTypeOK, JobsEnded, Move, NoRow
<1>1. CASE SubmitJob(j)
  BY <1>1 DEF SubmitJob
<1>2. CASE EnqueueJob(j)
  BY <1>2 DEF EnqueueJob
<1>3. CASE LoadJob(j)
  BY <1>3 DEF LoadJob
<1>4. CASE RunJob(j)
  BY <1>4 DEF RunJob, Outcome, RunTask
<1>5. CASE CommitJob(j)
  BY <1>5 DEF CommitJob, Outcome, RunTask
<1>6. QED
  BY <1>1, <1>2, <1>3, <1>4, <1>5 DEF BackgroundTask

LEMMA RestartKeepsJobs == JobsInv /\ LoseTasks => JobsInv'
BY DEF JobsInv, JobsTypeOK, JobsEnded, LoseTasks, NoRow

-------------------------------------------------------------------------------
(* The service *)

IInv == EngineInv /\ JobsInv /\ restarts \in 0 .. MaxRestarts

LEMMA RestartKeepsEngine == EngineInv /\ LoseRequest => EngineInv'
<1> SUFFICES ASSUME EngineInv, LoseRequest PROVE EngineInv'
  OBVIOUS
<1>1. /\ EngineTypeOK /\ ProgressInv /\ SessionInv /\ AnswersInOrder
      /\ UNCHANGED <<query, provider, subtasks, progress, results, combined, answer, dbVars>>
      /\ at' = at \/ at' = "lost"
  BY DEF EngineInv, LoseRequest, taskVars
<1>2. EngineTypeOK'
  BY <1>1 DEF EngineTypeOK, EngineEnded, dbVars
<1>3. ProgressInv'
  BY <1>1 DEF ProgressInv, Before, ProcessSubtask, RecursiveExecute
<1>4. SessionInv' /\ AnswersInOrder'
  BY <1>1 DEF SessionInv, SessionRecovered, AnswersInOrder, Before, dbVars
<1>5. QED
  BY <1>2, <1>3, <1>4 DEF EngineInv

LEMMA OthersKeepEngine == EngineInv /\ UNCHANGED engineVars => EngineInv'
<1> SUFFICES ASSUME EngineInv, UNCHANGED engineVars PROVE EngineInv'
  OBVIOUS
<1>1. /\ EngineTypeOK /\ ProgressInv /\ SessionInv /\ AnswersInOrder
      /\ UNCHANGED <<at, query, provider, subtasks, progress, results, combined, answer>>
      /\ UNCHANGED <<session, saved, audited>>
  BY DEF EngineInv, engineVars, taskVars, dbVars
<1>2. EngineTypeOK'
  BY <1>1 DEF EngineTypeOK
<1>3. ProgressInv'
  BY <1>1 DEF ProgressInv, ProcessSubtask, RecursiveExecute
<1>4. SessionInv'
  BY <1>1 DEF SessionInv, SessionRecovered
<1>5. AnswersInOrder'
  BY <1>1 DEF AnswersInOrder
<1>6. QED
  BY <1>2, <1>3, <1>4, <1>5 DEF EngineInv

LEMMA OthersKeepJobs == JobsInv /\ UNCHANGED jobVars => JobsInv'
BY DEF JobsInv, JobsTypeOK, jobVars

LEMMA Initially == Init => IInv
<1>1. JobsInit => JobsInv
  BY DEF JobsInit, JobsInv, JobsTypeOK, JobsEnded, NoRow, Outcome
<1>2. QED
  BY <1>1, EngineInitially, ServiceAssumption DEF Init, IInv

LEMMA Inductive == IInv /\ [Next]_vars => IInv'
<1> SUFFICES ASSUME IInv, [Next]_vars PROVE IInv'
  OBVIOUS
<1>0. EngineInv /\ JobsInv /\ restarts \in 0 .. MaxRestarts
  BY DEF IInv
<1>1. CASE Serve
  BY <1>0, <1>1, EngineNext, OthersKeepJobs DEF Serve, IInv
<1>2. CASE Submit
  BY <1>0, <1>2, JobsNext, OthersKeepEngine DEF Submit, IInv
<1>3. CASE Restart
  BY <1>0, <1>3, RestartKeepsEngine, RestartKeepsJobs, ServiceAssumption DEF Restart, IInv
<1>4. ASSUME NEW j \in Jobs, Enqueue(j) \/ Background(j) PROVE IInv'
  BY <1>0, <1>4, JobsNext, OthersKeepEngine DEF Enqueue, Background, IInv
<1>5. CASE UNCHANGED vars
  BY <1>0, <1>5, OthersKeepEngine, OthersKeepJobs DEF vars, IInv
<1>6. QED
  BY <1>1, <1>2, <1>3, <1>4, <1>5 DEF Next

LEMMA Invariant == Spec => []IInv
BY Initially, Inductive, PTL DEF Spec

(* The variables keep their types, and a row is PENDING exactly while a     *)
(* task has it or lost it.                                                  *)
THEOREM TypeCorrect == Spec => []TypeOK
<1>1. IInv => TypeOK
  BY DEF IInv, EngineInv, JobsInv, TypeOK
<1>2. QED
  BY <1>1, Invariant, PTL

(* run_task joins the answers in the order of the subtasks, whatever order  *)
(* they finish in, for any queries and any answer of a model.               *)
THEOREM AnswersInOrderHolds == Spec => []AnswersInOrder
<1>1. IInv => AnswersInOrder
  BY DEF IInv, EngineInv
<1>2. QED
  BY <1>1, Invariant, PTL

(* Whatever becomes of the memories, for any query and any list of          *)
(* subtasks, the session that writes the audit log is not in an aborted     *)
(* transaction.                                                             *)
THEOREM SessionRecoveredHolds == Spec => []SessionRecovered
<1>1. IInv => SessionRecovered
  BY DEF IInv, EngineInv, SessionInv
<1>2. QED
  BY <1>1, Invariant, PTL
===============================================================================
