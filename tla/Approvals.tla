------------------------------- MODULE Approvals -------------------------------
(***************************************************************************)
(* One approval request (src/db/models/approval.py) and the HTTP requests  *)
(* that decide it or resume it.  approve and reject are synchronous        *)
(* endpoints: each runs in a thread of its own, with a session of its own. *)
(* resume is a coroutine that awaits the execution of the plan between its *)
(* checks and the commit of `executed`.  No request locks the row, and a   *)
(* restart of the process forgets the requests in flight.                  *)
(***************************************************************************)
EXTENDS Naturals, Sequences, FiniteSets

CONSTANTS
  Requests,    \* the HTTP requests
  MaxRestarts  \* how often the process restarts

Decisions == {"approve", "reject"}
Kinds     == Decisions \cup {"resume"}

(* The status a decision writes. *)
StatusAfter(decision) == IF decision = "approve" THEN "approved" ELSE "rejected"

VARIABLES
  status,    \* approval_requests.status, as committed
  executed,  \* approval_requests.executed, as committed
  kind,      \* what each request asks for
  at,        \* where each request is
  seen,      \* the status each request's session has loaded
  log,       \* history: what happened, in order
  restarts

rowVars == <<status, executed>>
vars    == <<rowVars, kind, at, seen, log, restarts>>

Places == {"unsent", "deciding", "executing", "recording",
           "answered", "refused", "error", "lost"}

Init ==
  /\ status = "pending" /\ executed = FALSE
  /\ kind = [r \in Requests |-> "resume"]
  /\ at = [r \in Requests |-> "unsent"]
  /\ seen = [r \in Requests |-> "pending"]
  /\ log = <<>>
  /\ restarts = 0

Note(what, r) == log' = Append(log, [what |-> what, request |-> r])

Move(r, place) == at' = [at EXCEPT ![r] = place]

(* approve_request and reject_request: load the row, whatever its status. *)
LoadToDecide(r, decision) ==
  /\ at[r] = "unsent"
  /\ kind' = [kind EXCEPT ![r] = decision]
  /\ seen' = [seen EXCEPT ![r] = status]
  /\ Move(r, "deciding")
  /\ Note("load", r)
  /\ UNCHANGED <<rowVars, restarts>>

(* Slip: a request that is no longer pending is left as it is. *)
Decide_pendingOnly(r) ==
  /\ at[r] = "deciding"
  /\ status' = IF seen[r] = "pending" THEN StatusAfter(kind[r]) ELSE status
  /\ Move(r, "answered")
  /\ Note("decided", r)
  /\ UNCHANGED <<executed, kind, seen, restarts>>

(* Slip: the name of the decision is stored for its outcome. *)
Decide_verbatim(r) ==
  /\ at[r] = "deciding"
  /\ status' = kind[r]
  /\ Move(r, "answered")
  /\ Note("decided", r)
  /\ UNCHANGED <<executed, kind, seen, restarts>>

(* Assigning the value the session has loaded is no change, and sends no    *)
(* UPDATE.                                                                  *)
Decide(r) ==
  /\ at[r] = "deciding"
  /\ status' = IF seen[r] = StatusAfter(kind[r]) THEN status ELSE StatusAfter(kind[r])
  /\ Move(r, "answered")
  /\ Note("decided", r)
  /\ UNCHANGED <<executed, kind, seen, restarts>>

(* The coroutines share one event loop, which is busy from the end of an    *)
(* execution to the commit.                                                 *)
LoopFree == \A r \in Requests : at[r] # "recording"

(* Slip: the decision is not looked at. *)
BeginResume_undecided(r) ==
  /\ at[r] = "unsent" /\ LoopFree
  /\ kind' = [kind EXCEPT ![r] = "resume"]
  /\ seen' = [seen EXCEPT ![r] = status]
  /\ IF status # "pending" /\ ~executed
       THEN Move(r, "executing") /\ Note("start", r)
       ELSE Move(r, "refused") /\ UNCHANGED log
  /\ UNCHANGED <<rowVars, restarts>>

(* Slip: whether the request was executed before is not looked at. *)
BeginResume_unchecked(r) ==
  /\ at[r] = "unsent" /\ LoopFree
  /\ kind' = [kind EXCEPT ![r] = "resume"]
  /\ seen' = [seen EXCEPT ![r] = status]
  /\ IF status = "approved"
       THEN Move(r, "executing") /\ Note("start", r)
       ELSE Move(r, "refused") /\ UNCHANGED log
  /\ UNCHANGED <<rowVars, restarts>>

(* resume_execution up to its await. *)
BeginResume(r) ==
  /\ at[r] = "unsent" /\ LoopFree
  /\ kind' = [kind EXCEPT ![r] = "resume"]
  /\ seen' = [seen EXCEPT ![r] = status]
  /\ IF status = "approved" /\ ~executed
       THEN Move(r, "executing") /\ Note("start", r)
       ELSE Move(r, "refused") /\ UNCHANGED log
  /\ UNCHANGED <<rowVars, restarts>>

(* execute_plan and the verifier are done: tools have run. *)
EndExecution(r) ==
  /\ at[r] = "executing" /\ LoopFree
  /\ Move(r, "recording")
  /\ UNCHANGED <<rowVars, kind, seen, log, restarts>>

(* One of them raised, or the commit did: the client gets a 500 and the row *)
(* still says that nothing was executed.                                    *)
FailResume(r) ==
  /\ at[r] = "recording" \/ (at[r] = "executing" /\ LoopFree)
  /\ Move(r, "error")
  /\ Note("failed", r)
  /\ UNCHANGED <<rowVars, kind, seen, restarts>>

(* Slip: the flag is set and not committed. *)
RecordExecution_uncommitted(r) ==
  /\ at[r] = "recording"
  /\ Move(r, "answered")
  /\ Note("recorded", r)
  /\ UNCHANGED <<rowVars, kind, seen, restarts>>

RecordExecution(r) ==
  /\ at[r] = "recording"
  /\ executed' = TRUE
  /\ Move(r, "answered")
  /\ Note("recorded", r)
  /\ UNCHANGED <<status, kind, seen, restarts>>

InFlight(r) == at[r] \in {"deciding", "executing", "recording"}

Restart ==
  /\ restarts < MaxRestarts
  /\ \E r \in Requests : InFlight(r)
  /\ restarts' = restarts + 1
  /\ at' = [r \in Requests |-> IF InFlight(r) THEN "lost" ELSE at[r]]
  /\ UNCHANGED <<rowVars, kind, seen, log>>

Next ==
  \/ \E r \in Requests :
       \/ \E d \in Decisions : LoadToDecide(r, d)
       \/ Decide(r)
       \/ BeginResume(r) \/ EndExecution(r) \/ FailResume(r) \/ RecordExecution(r)
  \/ Restart

Spec == Init /\ [][Next]_vars

-------------------------------------------------------------------------------
(* Properties *)

TypeOK ==
  /\ status \in {"pending", "approved", "rejected"} /\ executed \in BOOLEAN
  /\ kind \in [Requests -> Kinds]
  /\ at \in [Requests -> Places]
  /\ seen \in [Requests -> {"pending", "approved", "rejected"}]
  /\ log \in Seq([what : {"load", "decided", "start", "failed", "recorded"},
                  request : Requests])
  /\ \A r \in Requests : at[r] \in {"executing", "recording"} => kind[r] = "resume"

Happened(k, what) == log[k].what = what

(* The decisions answered before the k-th event. *)
DecidedBefore(k) == {j \in 1 .. k - 1 : Happened(j, "decided")}

(* An approver's opposite decision was begun and answered between the two   *)
(* events.                                                                  *)
RejectedBetween(j, k) ==
  \E l, m \in j + 1 .. k - 1 :
    /\ l < m /\ Happened(l, "load") /\ Happened(m, "decided")
    /\ log[l].request = log[m].request /\ kind[log[l].request] = "reject"

(* No plan starts before an approver approved, and none starts once a       *)
(* rejection was begun and answered after the last approval, however the    *)
(* approvers' requests and other resumes overlap.                           *)
StartsOnlyOnApproval ==
  \A k \in DOMAIN log : Happened(k, "start") =>
    \E j \in DecidedBefore(k) :
      kind[log[j].request] = "approve" /\ ~RejectedBetween(j, k)

(* Once an execution is recorded no other one starts: resumes that do not   *)
(* overlap, and that do not fail half way, execute the plan once.           *)
NoStartAfterRecord ==
  \A j, k \in DOMAIN log :
    Happened(j, "recorded") /\ Happened(k, "start") => k < j

(* The row says what an approver last decided: when no decision is in       *)
(* flight, its status is that of a decision answered after which no         *)
(* opposite one was even begun.                                             *)
Overruled(j) ==
  \E k \in DOMAIN log :
    /\ k > j /\ Happened(k, "load")
    /\ kind[log[k].request] # kind[log[j].request]

DecisionHolds ==
  DecidedBefore(Len(log) + 1) # {} /\ (\A r \in Requests : at[r] \notin {"deciding", "lost"}) =>
    \E j \in DecidedBefore(Len(log) + 1) :
      ~Overruled(j) /\ status = StatusAfter(kind[log[j].request])

(* `executed` is set exactly by an execution that ran to its end, and never *)
(* taken back, also across restarts.                                        *)
ExecutedIsRecorded == executed <=> \E k \in DOMAIN log : Happened(k, "recorded")

(* The plan of an approval is executed at most once: "Execution already     *)
(* completed" (src/services/resume_execution.py), whatever overlaps.        *)
ExecutesOnce == Cardinality({k \in DOMAIN log : Happened(k, "recorded")}) <= 1

===============================================================================
