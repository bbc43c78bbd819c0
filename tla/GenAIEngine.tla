------------------------------ MODULE GenAIEngine ------------------------------
(***************************************************************************)
(* POST /run-stream (src/main.py) and the engine under it, run_task of     *)
(* src/genai/engine.py: a query is decomposed into subtasks, these are     *)
(* answered one by one or side by side, and the answers are joined.  The   *)
(* subtasks, the memory (src/genai/memory.py), the task log                *)
(* (src/genai/logger.py) and the audit log share one database session.     *)
(*                                                                         *)
(* No configuration gets an answer from a language model here.  Ollama is  *)
(* never available, because its client has no health(), and OpenAI's       *)
(* executor passes a `model` that only the decomposer takes.  So the       *)
(* branches behind such an answer (tools, recursion, the improvement loop) *)
(* are not reached and not modelled.                                       *)
(***************************************************************************)
EXTENDS Naturals, FiniteSets, Sequences

CONSTANTS
  Queries,       \* what can be asked
  Providers,     \* the values of DEFAULT_PROVIDER
  MaxSubtasks    \* bound on the subtasks a model lists

ASSUME EngineAssumption ==
  /\ Queries \subseteq [length : Nat, words : Nat, analyze : BOOLEAN, refused : BOOLEAN]
  /\ Providers \subseteq {"ollama", "openai"}
  /\ MaxSubtasks \in Nat \ {0}

VARIABLES
  at,          \* where the request is, or how it ended
  query, provider,
  subtasks,    \* the subtasks: "text", or the "other" JSON a model may give
  progress,    \* how far each of them is
  results,     \* their answers, by position
  combined,    \* what the synthesizer gets
  answer,      \* the kind of value run_task returns under "answer"
  session,     \* the transaction of the session: "none", "open" or "aborted"
  saved,       \* the memory of the task is committed
  audited      \* the audit log has a row for the request

taskVars   == <<query, provider, subtasks, progress, results, combined, answer>>
dbVars     == <<session, saved, audited>>
engineVars == <<at, taskVars, dbVars>>

-------------------------------------------------------------------------------
(* SupervisorAgent.decide *)
Decision(q) ==
  CASE q.length < 100 -> [parallel |-> FALSE, max_workers |-> 1]
    [] q.length \in 100 .. 299 -> [parallel |-> TRUE, max_workers |-> 2]
    [] OTHER -> [parallel |-> TRUE, max_workers |-> 4]

(* DecompositionAgent._fallback_response *)
Texts(n) == [i \in 1 .. n |-> "text"]

FallbackResponse(q) ==
  CASE q.analyze -> Texts(4)
    [] ~q.analyze /\ q.words > 8 -> Texts(2)
    [] OTHER -> Texts(1)

(* What a model may put under "subtasks": any list, also an empty one, or   *)
(* something that is no list, on which run_task raises.                     *)
NoList == <<"nolist">>

ModelResponse ==
  (UNION {[1 .. n -> {"text", "other"}] : n \in 0 .. MaxSubtasks}) \cup {NoList}

Decompositions ==
  IF provider = "ollama" THEN {Texts(1)}
  ELSE {FallbackResponse(query), Texts(1)} \cup ModelResponse

(* _safe_execute for every agent but the decomposer: the offline answer,    *)
(* made from the query, which raises when that is no text.                  *)
SafeExecute(agent_query) == IF agent_query = "text" THEN "final" ELSE "raises"

(* The planner is asked with a text built around the subtask, and its       *)
(* offline answer is final at the first depth.  The critics are asked with  *)
(* the subtask itself; what raises becomes an "[ERROR]" answer.             *)
Answer(i, error) == [subtask |-> i, error |-> error]

RecursiveExecute(i) == Answer(i, SafeExecute("text") = "raises")

ProcessSubtask(i) ==
  IF SafeExecute(subtasks[i]) = "final" THEN RecursiveExecute(i) ELSE Answer(i, TRUE)

(* The subtasks that are processed: the list is cut to the workers, but     *)
(* only when it runs in parallel.                                           *)
Dispatched ==
  IF Decision(query).parallel
    THEN {i \in DOMAIN subtasks : i <= Decision(query).max_workers}
    ELSE DOMAIN subtasks

-------------------------------------------------------------------------------
EngineInit ==
  /\ at = "idle"
  /\ query \in Queries /\ provider \in Providers
  /\ subtasks = <<>> /\ progress = <<>> /\ results = <<>> /\ combined = <<>>
  /\ answer = "none"
  /\ session = "none" /\ saved = FALSE /\ audited = FALSE

Goto(here, there) == at = here /\ at' = there

ReceiveQuery ==
  /\ Goto("idle", "received")
  /\ UNCHANGED <<taskVars, dbVars>>

(* GenAIEngine(...) builds the clients of OpenAI, which raise without a     *)
(* key, and discovers the tools.                                            *)
Construct ==
  /\ \E there \in {"constructed", "error"} : Goto("received", there)
  /\ UNCHANGED <<taskVars, dbVars>>

(* safe_run logs before anything runs: func() only made the coroutine.  A   *)
(* log that cannot be committed is rolled back and forgotten.               *)
LogTask ==
  /\ Goto("constructed", "logged")
  /\ session' = "none"
  /\ UNCHANGED <<taskVars, saved, audited>>

(* The guardrails raise into the failsafe. *)
Guardrails ==
  /\ IF query.refused THEN Goto("logged", "failsafe") ELSE Goto("logged", "allowed")
  /\ UNCHANGED <<taskVars, dbVars>>

(* Complexity analysis, decomposition and supervisor. *)
Decompose ==
  /\ at = "allowed"
  /\ \E d \in Decompositions :
       IF d = NoList
         THEN at' = "failsafe" /\ UNCHANGED <<subtasks, progress>>
         ELSE /\ at' = "processing"
              /\ subtasks' = d
              /\ progress' = [i \in DOMAIN d |-> "waiting"]
  /\ UNCHANGED <<query, provider, results, combined, answer, dbVars>>

(* In sequence a subtask starts when those before it are done. *)
MayStart(i) ==
  Decision(query).parallel \/ \A j \in DOMAIN subtasks : j < i => progress[j] = "done"

(* _retrieve_relevant_memory answers "" when the statement fails, and does  *)
(* not roll back: PostgreSQL refuses what follows in the transaction.       *)
Recall(i) ==
  /\ at = "processing" /\ i \in Dispatched
  /\ progress[i] = "waiting" /\ MayStart(i)
  /\ progress' = [progress EXCEPT ![i] = "recalled"]
  /\ \/ session # "aborted" /\ session' = "open"
     \/ session' = "aborted"
  /\ UNCHANGED <<at, query, provider, subtasks, results, combined, answer, saved, audited>>

Put(f, key, value) == [k \in DOMAIN f \cup {key} |-> IF k = key THEN value ELSE f[k]]

(* Slip: the answers are kept in the order in which they come. *)
FinishSubtask_appends(i) ==
  /\ at = "processing"
  /\ i \in DOMAIN progress /\ progress[i] = "recalled"
  /\ progress' = [progress EXCEPT ![i] = "done"]
  /\ results' = Put(results, Cardinality(DOMAIN results) + 1, ProcessSubtask(i))
  /\ UNCHANGED <<at, query, provider, subtasks, combined, answer, dbVars>>

FinishSubtask(i) ==
  /\ at = "processing"
  /\ i \in DOMAIN progress /\ progress[i] = "recalled"
  /\ progress' = [progress EXCEPT ![i] = "done"]
  /\ results' = Put(results, i, ProcessSubtask(i))
  /\ UNCHANGED <<at, query, provider, subtasks, combined, answer, dbVars>>

(* Slip: the subtasks that were cut off are waited for. *)
CollectResults_awaitsAll ==
  /\ Goto("processing", "collected")
  /\ \A i \in DOMAIN subtasks : progress[i] = "done"
  /\ combined' = [i \in Dispatched |-> results[i]]
  /\ UNCHANGED <<query, provider, subtasks, progress, results, answer, dbVars>>

(* The gather, or the loop, is over. *)
CollectResults ==
  /\ Goto("processing", "collected")
  /\ \A i \in Dispatched : progress[i] = "done"
  /\ combined' = [i \in Dispatched |-> results[i]]
  /\ UNCHANGED <<query, provider, subtasks, progress, results, answer, dbVars>>

(* The synthesizer's answer is the record that _safe_execute wraps its      *)
(* offline text in.                                                         *)
Synthesize ==
  /\ Goto("collected", "synthesized")
  /\ answer' = "record"
  /\ UNCHANGED <<query, provider, subtasks, progress, results, combined, dbVars>>

(* Slip: a memory that cannot be saved is only reported. *)
SaveMemory_noRollback ==
  /\ Goto("synthesized", "answered")
  /\ \/ UNCHANGED <<session, saved>>
     \/ session # "aborted" /\ session' = "open" /\ saved' = TRUE
     \/ session' = "aborted" /\ UNCHANGED saved
     \/ session # "aborted" /\ session' = "aborted" /\ saved' = TRUE
  /\ UNCHANGED <<taskVars, audited>>

(* add_memory embeds the text, commits and reads the row again.  Each may   *)
(* raise, the embedding with the database in order, and the commit does so  *)
(* in an aborted transaction.  It rolls back and goes on.                   *)
SaveMemory ==
  /\ Goto("synthesized", "answered")
  /\ \/ session # "aborted" /\ session' = "open" /\ saved' = TRUE
     \/ session' = "none" /\ UNCHANGED saved
     \/ session # "aborted" /\ session' = "none" /\ saved' = TRUE
  /\ UNCHANGED <<taskVars, audited>>

(* run_task answers what raised with a text of _offline_fallback. *)
Failsafe ==
  /\ Goto("failsafe", "answered")
  /\ answer' = "text"
  /\ UNCHANGED <<query, provider, subtasks, progress, results, combined, dbVars>>

WriteAuditLog ==
  /\ session # "aborted"
  /\ Goto("answered", "streaming")
  /\ audited' = TRUE /\ session' = "none"
  /\ UNCHANGED <<taskVars, saved>>

(* run_stream rolls back and answers 500. *)
AuditLogFails ==
  /\ Goto("answered", "error")
  /\ session' = "none"
  /\ UNCHANGED <<taskVars, saved, audited>>

(* stream_generator splits the answer into words, which a record has not:   *)
(* the response breaks off after its headers.                               *)
Stream ==
  /\ Goto("streaming", IF answer = "text" THEN "streamed" ELSE "broken")
  /\ UNCHANGED <<taskVars, dbVars>>

EngineEnded == {"streamed", "broken", "error", "lost"}

(* A restart ends the request under way. *)
LoseRequest ==
  /\ at' = IF at \in EngineEnded \cup {"idle"} THEN at ELSE "lost"
  /\ UNCHANGED <<taskVars, dbVars>>

EngineStep ==
  \/ Construct \/ LogTask \/ Guardrails \/ Decompose
  \/ \E i \in DOMAIN subtasks : Recall(i) \/ FinishSubtask(i)
  \/ CollectResults \/ Synthesize \/ SaveMemory \/ Failsafe
  \/ WriteAuditLog \/ AuditLogFails \/ Stream

-------------------------------------------------------------------------------
(* Properties *)

EngineTypeOK ==
  /\ at \in {"idle", "received", "constructed", "logged", "allowed", "processing",
             "collected", "synthesized", "failsafe", "answered", "streaming"}
            \cup EngineEnded
  /\ subtasks \in Seq({"text", "other"})
  /\ progress \in Seq({"waiting", "recalled", "done"}) /\ Len(progress) = Len(subtasks)
  /\ DOMAIN results \subseteq DOMAIN subtasks
  /\ answer \in {"none", "record", "text"}
  /\ session \in {"none", "open", "aborted"}
  /\ saved \in BOOLEAN /\ audited \in BOOLEAN

(* Whatever order the subtasks finish in, and whichever of them raised, the *)
(* answers are joined in the order of the subtasks, one for each; and none  *)
(* is left out unless the supervisor let all its workers run in parallel    *)
(* and there were more subtasks than workers.                               *)
AnswersInOrder ==
  at = "collected" =>
    /\ \A i \in DOMAIN combined : /\ combined[i].subtask = i
                                  /\ combined[i].error <=> subtasks[i] = "other"
    /\ \/ Len(combined) = Len(subtasks)
       \/ Decision(query).parallel /\ Len(combined) = Decision(query).max_workers

(* A memory that could not be read, embedded or saved costs no more than    *)
(* itself: whatever the statements of the subtasks left behind, also those  *)
(* of which nobody heard, the session has recovered when the audit log is   *)
(* written in it, and the query can be answered.                            *)
SessionRecovered == at = "answered" => session # "aborted"

(* Every query is answered, by a stream, a broken one or a 500, unless the  *)
(* process is restarted.                                                    *)
EveryQueryEnds == at = "received" ~> at \in EngineEnded
===============================================================================
