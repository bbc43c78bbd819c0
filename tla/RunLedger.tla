------------------------------- MODULE RunLedger -------------------------------
(***************************************************************************)
(* What one POST /run promises the reader of the agent_runs table: a row   *)
(* per round, opened "running" and settled at most once, a bounded number  *)
(* of rounds, none after a round that succeeded or waits for approval, and *)
(* an answer that agrees with the rows.  AgentController implements it.    *)
(***************************************************************************)
EXTENDS Naturals, Sequences

CONSTANT MaxRounds    \* the number of rounds a request may take

VARIABLES rows,       \* the status of each row
          answer      \* the status the client got, or "none"

vars == <<rows, answer>>

Final == {"completed", "approval_required"}

Last == rows[Len(rows)]

Init == rows = <<>> /\ answer = "none"

Open == /\ answer = "none"
        /\ Len(rows) < MaxRounds
        /\ \A r \in DOMAIN rows : rows[r] \notin Final
        /\ rows' = Append(rows, "running")
        /\ UNCHANGED answer

Settle == /\ answer = "none"
          /\ rows # <<>> /\ Last = "running"
          /\ \E status \in Final \cup {"failed"} :
               rows' = [rows EXCEPT ![Len(rows)] = status]
          /\ UNCHANGED answer

(* The row behind a good answer has its status, or could not be settled;    *)
(* an answer of failure has no row of success behind it.                    *)
Agrees(a) ==
  CASE a = "success"           -> rows # <<>> /\ Last \in {"completed", "running"}
    [] a = "approval_required" -> rows # <<>> /\ Last \in {"approval_required", "running"}
    [] a \in {"failed", "execution_failed"} -> rows # <<>> /\ Last \in {"failed", "running"}
    [] a = "planning_failed"   -> \A r \in DOMAIN rows : rows[r] \notin Final
    [] a = "500"               -> TRUE

Respond == /\ answer = "none"
           /\ \E a \in {"success", "approval_required", "failed", "execution_failed",
                        "planning_failed", "500"} :
                Agrees(a) /\ answer' = a
           /\ UNCHANGED rows

Next == Open \/ Settle \/ Respond

Spec == Init /\ [][Next]_vars

===============================================================================
