------------------------- MODULE AgentControllerProofs -------------------------
(***************************************************************************)
(* What holds of AgentController for every set of validated plans, every   *)
(* verdict and every number of rounds.  What it needs of the executor is   *)
(* proved in PlanExecutorProofs, through the variables the two share.      *)
(***************************************************************************)
EXTENDS AgentController, SumTheorems

Proven == INSTANCE PlanExecutorProofs WITH Audited <- TRUE, DbMayFail <- AuditMayFail

-------------------------------------------------------------------------------
(* The rows of a request *)

(* runs is a sequence, whatever its rows hold. *)
RunsAreSequence == \E S : runs \in Seq(S)

LEMMA RunsIndices ==
  ASSUME RunsAreSequence
  PROVE  /\ Len(runs) \in Nat /\ DOMAIN runs = 1 .. Len(runs)
         /\ runs = <<>> <=> Len(runs) = 0
BY DEF RunsAreSequence

LEMMA RunAppended ==
  ASSUME RunsAreSequence, NEW row, runs' = Append(runs, row)
  PROVE  /\ RunsAreSequence' /\ Len(runs') = Len(runs) + 1 /\ runs' # <<>>
         /\ runs'[Len(runs')] = row
         /\ \A r \in DOMAIN runs : runs'[r] = runs[r]
         /\ DOMAIN runs' = DOMAIN runs \cup {Len(runs')}
<1>1. PICK S : runs \in Seq(S)
  BY DEF RunsAreSequence
<1> DEFINE T == S \cup {row}
<1>2. runs \in Seq(T) /\ row \in T
  BY <1>1
<1> HIDE DEF T
<1>3. runs' \in Seq(T)
  BY <1>2
<1>4. RunsAreSequence'
  BY <1>3 DEF RunsAreSequence
<1>5. QED
  BY <1>2, <1>4

LEMMA RunUpdated ==
  ASSUME RunsAreSequence, runs # <<>>, NEW row, runs' = [runs EXCEPT ![Len(runs)] = row]
  PROVE  /\ RunsAreSequence' /\ Len(runs') = Len(runs) /\ runs' # <<>>
         /\ DOMAIN runs' = DOMAIN runs /\ Len(runs) \in DOMAIN runs
         /\ runs'[Len(runs)] = row
         /\ \A r \in DOMAIN runs : r # Len(runs) => runs'[r] = runs[r]
<1>1. PICK S : runs \in Seq(S)
  BY DEF RunsAreSequence
<1> DEFINE T == S \cup {row}
<1>2. runs \in Seq(T) /\ row \in T /\ Len(runs) \in DOMAIN runs
  BY <1>1
<1> HIDE DEF T
<1>3. runs' \in Seq(T) /\ Len(runs') = Len(runs)
  BY <1>2
<1>4. RunsAreSequence'
  BY <1>3 DEF RunsAreSequence
<1>5. QED
  BY <1>2, <1>3, <1>4

(* finalize_agent_run_summary settles the last row or changes none.         *)
LEMMA Finalized ==
  ASSUME RunsAreSequence, runs # <<>>, NEW status, NEW results, NEW verdict,
         Finalize(status, results, verdict)
  PROVE  /\ RunsAreSequence' /\ Len(runs') = Len(runs) /\ runs' # <<>>
         /\ DOMAIN runs' = DOMAIN runs /\ Len(runs) \in DOMAIN runs
         /\ \A r \in DOMAIN runs : r # Len(runs) => runs'[r] = runs[r]
         /\ \/ runs' = runs /\ faulty'
            \/ runs'[Len(runs)] = Summary(status, results, verdict) /\ UNCHANGED dbVars
         /\ session = "usable"
<1>1. CASE runs' = runs /\ faulty'
  <2>1. RunsAreSequence'
    BY <1>1 DEF RunsAreSequence
  <2>2. Len(runs) \in DOMAIN runs
    BY RunsIndices
  <2>3. QED
    BY <1>1, <2>1, <2>2 DEF Finalize
<1>2. CASE /\ runs' = [runs EXCEPT ![Len(runs)] = Summary(status, results, verdict)]
           /\ UNCHANGED dbVars
  BY <1>2, RunUpdated DEF Finalize
<1>3. QED
  BY <1>1, <1>2 DEF Finalize

-------------------------------------------------------------------------------
(* The rounds *)

Final == {"completed", "approval_required"}

NoneFinal == \A r \in DOMAIN runs : runs[r].status \notin Final

LastIs(statuses) == runs # <<>> /\ runs[Len(runs)].status \in statuses

(* An answer and the row behind it. *)
AnswerStands ==
  /\ response \in {"success", "approval_required", "failed", "execution_failed", "planning_failed"}
  /\ response = "success" => LastIs({"completed", "running"})
  /\ response = "approval_required" => LastIs({"approval_required", "running"})
  /\ response \in {"failed", "execution_failed"} => LastIs({"failed", "running"})
  /\ response = "planning_failed" => NoneFinal

(* A row for each round that began, open until its round is over. *)
RoundsInv ==
  /\ RunsAreSequence /\ round \in Nat
  /\ pc = "plan" => round <= MaxRetries /\ Len(runs) = round /\ NoneFinal
  /\ pc \in {"risk", "execute", "judge"} =>
       round <= MaxRetries /\ Len(runs) = round + 1 /\ NoneFinal /\ LastIs({"running"})
  /\ pc = "give_up" =>
       round = MaxRetries + 1 /\ Len(runs) = round /\ NoneFinal /\ LastIs({"failed", "running"})
  /\ pc = "answer" => AnswerStands

(* What a settled row leaves of the others. *)
LEMMA SettledRow ==
  ASSUME RunsAreSequence, LastIs({"running", "failed"}), NoneFinal, NEW status, NEW results,
         NEW verdict, Finalize(status, results, verdict)
  PROVE  /\ RunsAreSequence' /\ Len(runs') = Len(runs)
         /\ runs' # <<>> /\ runs'[Len(runs)].status \in {status, runs[Len(runs)].status}
         /\ status \notin Final => NoneFinal'
<1>1. /\ RunsAreSequence' /\ Len(runs') = Len(runs) /\ runs' # <<>>
      /\ DOMAIN runs' = DOMAIN runs /\ Len(runs) \in DOMAIN runs
      /\ \A r \in DOMAIN runs : r # Len(runs) => runs'[r] = runs[r]
      /\ runs' = runs \/ runs'[Len(runs)] = Summary(status, results, verdict)
  BY Finalized DEF LastIs
<1>2. runs' = runs \/ runs'[Len(runs)].status = status
  BY <1>1 DEF Summary
<1>3. QED
  BY <1>1, <1>2 DEF LastIs, NoneFinal

LEMMA RoundsInit == Init => RoundsInv
<1> SUFFICES ASSUME Init PROVE RoundsInv
  OBVIOUS
<1>1. runs \in Seq({}) /\ runs = <<>>
  BY DEF Init
<1>2. RunsAreSequence /\ Len(runs) = 0 /\ DOMAIN runs = {}
  BY <1>1 DEF RunsAreSequence
<1>3. QED
  BY <1>2, ControllerAssumption DEF Init, RoundsInv, NoneFinal

LEMMA RoundsNext == RoundsInv /\ [Next]_vars => RoundsInv'
<1> SUFFICES ASSUME RoundsInv, [Next]_vars PROVE RoundsInv'
  OBVIOUS
<1>0. RunsAreSequence /\ round \in Nat /\ MaxRetries \in Nat
  BY ControllerAssumption DEF RoundsInv
<1>s. ASSUME UNCHANGED <<runs, round>>, pc' \in {"error", "responded", "execute", "judge"} \cup {pc},
             pc' \in {"execute", "judge"} /\ pc' # pc => pc \in {"risk", "execute"},
             pc' = pc => UNCHANGED response
      PROVE  RoundsInv'
  BY <1>s DEF RoundsInv, RunsAreSequence, NoneFinal, LastIs, AnswerStands
<1>1. CASE PlanningFails
  BY <1>1 DEF PlanningFails, RoundsInv, RunsAreSequence, NoneFinal, AnswerStands
<1>2. CASE CreatePlan
  <2>1. CASE UNCHANGED runs /\ pc' = "error"
    BY <1>2, <2>1, <1>s DEF CreatePlan
  <2>2. CASE pc' = "risk" /\ \E p \in Plans : runs' = Append(runs, NewRun(p))
    <3>1. PICK p \in Plans : runs' = Append(runs, NewRun(p))
      BY <2>2
    <3>2. /\ RunsAreSequence' /\ Len(runs') = Len(runs) + 1 /\ runs' # <<>>
          /\ runs'[Len(runs')].status = "running"
          /\ \A r \in DOMAIN runs : runs'[r] = runs[r]
          /\ DOMAIN runs' = DOMAIN runs \cup {Len(runs')}
      BY <1>0, <3>1, RunAppended DEF NewRun
    <3>3. NoneFinal /\ Len(runs) = round /\ round <= MaxRetries /\ round' = round
      BY <1>2 DEF CreatePlan, RoundsInv
    <3>4. NoneFinal' /\ LastIs({"running"})'
      BY <3>2, <3>3 DEF NoneFinal, LastIs, Final
    <3>5. QED
      BY <1>0, <2>2, <3>2, <3>3, <3>4 DEF RoundsInv
  <2>3. QED
    BY <1>2, <2>1, <2>2 DEF CreatePlan
<1>3. CASE PassRiskGate
  BY <1>3, <1>s DEF PassRiskGate
<1>4. CASE RequestApproval
  <2>1. CASE UNCHANGED runs /\ pc' = "error"
    BY <1>4, <2>1, <1>s DEF RequestApproval
  <2>2. CASE /\ Finalize("approval_required", FALSE, NoVerdict)
             /\ pc' = "answer" /\ response' = "approval_required"
    <3>1. LastIs({"running"}) /\ NoneFinal /\ round' = round
      BY <1>4 DEF RequestApproval, RoundsInv
    <3>2. RunsAreSequence' /\ LastIs({"approval_required", "running"})'
      BY <1>0, <2>2, <3>1, SettledRow DEF LastIs
    <3>3. QED
      BY <1>0, <2>2, <3>1, <3>2 DEF RoundsInv, AnswerStands
  <2>3. QED
    BY <1>4, <2>1, <2>2 DEF RequestApproval
<1>5. CASE ExecutionFails
  <2>1. /\ LastIs({"running"}) /\ NoneFinal /\ round' = round
        /\ pc' = "answer" /\ response' = "execution_failed"
    BY <1>5 DEF ExecutionFails, RoundsInv
  <2>2. RunsAreSequence' /\ LastIs({"failed", "running"})'
    <3>1. CASE UNCHANGED runs
      BY <1>0, <2>1, <3>1 DEF RunsAreSequence, LastIs
    <3>2. CASE Finalize("failed", FALSE, NoVerdict)
      BY <1>0, <2>1, <3>2, SettledRow DEF LastIs
    <3>3. QED
      BY <1>5, <3>1, <3>2 DEF ExecutionFails
  <2>3. QED
    BY <1>0, <2>1, <2>2 DEF RoundsInv, AnswerStands
<1>6. CASE Verify
  BY <1>6, <1>s DEF Verify
<1>7. CASE MisreadVerdict
  BY <1>7, <1>s DEF MisreadVerdict
<1>8. CASE Succeed
  <2>1. CASE UNCHANGED runs /\ pc' = "error"
    BY <1>8, <2>1, <1>s DEF Succeed
  <2>2. CASE /\ Finalize("completed", TRUE, verification)
             /\ pc' = "answer" /\ response' = "success"
    <3>1. LastIs({"running"}) /\ NoneFinal /\ round' = round
      BY <1>8 DEF Succeed, RoundsInv
    <3>2. RunsAreSequence' /\ LastIs({"completed", "running"})'
      BY <1>0, <2>2, <3>1, SettledRow DEF LastIs
    <3>3. QED
      BY <1>0, <2>2, <3>1, <3>2 DEF RoundsInv, AnswerStands
  <2>3. QED
    BY <1>8, <2>1, <2>2 DEF Succeed
<1>9. CASE Replan
  <2>1. /\ LastIs({"running"}) /\ NoneFinal /\ round' = round + 1 /\ Len(runs) = round + 1
        /\ pc' = IF round' <= MaxRetries THEN "plan" ELSE "give_up"
        /\ round <= MaxRetries
    BY <1>9 DEF Replan, RoundsInv
  <2>2. RunsAreSequence' /\ Len(runs') = Len(runs) /\ LastIs({"failed", "running"})' /\ NoneFinal'
    <3>1. CASE UNCHANGED runs
      BY <1>0, <2>1, <3>1 DEF RunsAreSequence, LastIs, NoneFinal
    <3>2. CASE Finalize("failed", TRUE, verification)
      <4>1. LastIs({"running", "failed"}) /\ "failed" \notin Final
        BY <2>1 DEF LastIs, Final
      <4>2. /\ RunsAreSequence' /\ Len(runs') = Len(runs) /\ NoneFinal'
            /\ runs' # <<>> /\ runs'[Len(runs)].status \in {"failed", runs[Len(runs)].status}
        BY <1>0, <2>1, <3>2, <4>1, SettledRow
      <4>3. QED
        BY <2>1, <4>2 DEF LastIs
    <3>3. QED
      BY <1>9, <3>1, <3>2 DEF Replan
  <2>3. QED
    BY <1>0, <2>1, <2>2 DEF RoundsInv
<1>10. CASE GiveUp
  <2>1. CASE UNCHANGED runs /\ pc' = "error"
    BY <1>10, <2>1, <1>s DEF GiveUp
  <2>2. CASE /\ Finalize("failed", TRUE, verification)
             /\ pc' = "answer" /\ response' = "failed"
    <3>1. LastIs({"failed", "running"}) /\ NoneFinal /\ round' = round
      BY <1>10 DEF GiveUp, RoundsInv
    <3>2. RunsAreSequence' /\ LastIs({"failed", "running"})'
      BY <1>0, <2>2, <3>1, SettledRow DEF LastIs
    <3>3. QED
      BY <1>0, <2>2, <3>1, <3>2 DEF RoundsInv, AnswerStands
  <2>3. QED
    BY <1>10, <2>1, <2>2 DEF GiveUp
<1>11. CASE Answer
  BY <1>11, <1>s DEF Answer
<1>12. CASE AnswerError
  BY <1>12, <1>s DEF AnswerError
<1>13. CASE Execute
  BY <1>13, <1>s DEF Execute, ctlVars
<1>14. CASE UNCHANGED vars
  BY <1>14, <1>s DEF vars, ctlVars
<1>15. QED
  BY <1>1, <1>2, <1>3, <1>4, <1>5, <1>6, <1>7, <1>8, <1>9, <1>10, <1>11, <1>12, <1>13, <1>14
     DEF Next, Controller

LEMMA RoundsInvariant == Spec => []RoundsInv
BY RoundsInit, RoundsNext, PTL DEF Spec

-------------------------------------------------------------------------------
(* The request implements RunLedger *)

Statuses == [r \in DOMAIN runs |-> runs[r].status]

LEMMA StatusesAreSequence ==
  ASSUME RunsAreSequence
  PROVE  /\ \E S : Statuses \in Seq(S)
         /\ Len(Statuses) = Len(runs) /\ DOMAIN Statuses = DOMAIN runs
<1>1. Len(runs) \in Nat /\ DOMAIN runs = 1 .. Len(runs)
  BY RunsIndices
<1> DEFINE S == {runs[r].status : r \in DOMAIN runs}
           n == Len(runs)
<1>2. Statuses \in [1 .. n -> S] /\ n \in Nat
  BY <1>1 DEF Statuses
<1> HIDE DEF S, n
<1>3. Statuses \in Seq(S) /\ Len(Statuses) = n
  BY <1>2
<1>4. QED
  BY <1>1, <1>3 DEF n, Statuses

LedgerAnswer == IF pc = "responded" THEN response ELSE "none"

LEMMA LedgerRefined ==
  /\ Ledger!Init <=> Statuses = <<>> /\ LedgerAnswer = "none"
  /\ Ledger!Open <=> /\ LedgerAnswer = "none" /\ Len(Statuses) < MaxRetries + 1
                     /\ \A r \in DOMAIN Statuses : Statuses[r] \notin Final
                     /\ Statuses' = Append(Statuses, "running") /\ LedgerAnswer' = LedgerAnswer
  /\ Ledger!Settle <=> /\ LedgerAnswer = "none"
                       /\ Statuses # <<>> /\ Statuses[Len(Statuses)] = "running"
                       /\ \E status \in Final \cup {"failed"} :
                            Statuses' = [Statuses EXCEPT ![Len(Statuses)] = status]
                       /\ LedgerAnswer' = LedgerAnswer
  /\ UNCHANGED Ledger!vars <=> UNCHANGED <<Statuses, LedgerAnswer>>
BY DEF Ledger!Init, Ledger!Open, Ledger!Settle, Ledger!vars, Ledger!Final, Ledger!Last,
       Statuses, LedgerAnswer, Final

(* A row for a new round. *)
LEMMA LedgerOpens ==
  ASSUME RoundsInv, pc = "plan", pc' # "responded",
         NEW row, row.status = "running", runs' = Append(runs, row)
  PROVE  Ledger!Open
<1>1. /\ RunsAreSequence /\ NoneFinal /\ Len(runs) = round /\ round <= MaxRetries
      /\ round \in Nat /\ MaxRetries \in Nat
  BY ControllerAssumption DEF RoundsInv
<1>2. /\ RunsAreSequence' /\ Len(runs') = Len(runs) + 1 /\ runs'[Len(runs')] = row
      /\ \A r \in DOMAIN runs : runs'[r] = runs[r]
      /\ DOMAIN runs' = DOMAIN runs \cup {Len(runs')}
  BY <1>1, RunAppended
<1>3. DOMAIN runs = 1 .. Len(runs) /\ DOMAIN runs' = 1 .. Len(runs) + 1
  BY <1>1, <1>2, RunsIndices
<1>4. Statuses' = Append(Statuses, "running")
  <2>1. PICK S : Statuses \in Seq(S)
    BY <1>1, StatusesAreSequence
  <2>2. Len(Statuses) = Len(runs)
    BY <1>1, StatusesAreSequence
  <2>3. Append(Statuses, "running") =
          [r \in 1 .. Len(runs) + 1 |-> IF r = Len(runs) + 1 THEN "running" ELSE Statuses[r]]
    <3> DEFINE T == S \cup {"running"}
               longer == Append(Statuses, "running")
    <3>1. Statuses \in Seq(T) /\ "running" \in T
      BY <2>1
    <3> HIDE DEF T
    <3>2. /\ longer \in Seq(T) /\ Len(longer) = Len(Statuses) + 1
          /\ \A r \in 1 .. Len(Statuses) : longer[r] = Statuses[r]
          /\ longer[Len(Statuses) + 1] = "running"
      BY <3>1
    <3> HIDE DEF longer
    <3>3. longer = [r \in 1 .. Len(runs) + 1 |-> longer[r]]
      BY <2>2, <3>2
    <3>4. \A r \in 1 .. Len(runs) + 1 :
            longer[r] = IF r = Len(runs) + 1 THEN "running" ELSE Statuses[r]
      BY <1>1, <2>2, <3>2
    <3>5. QED
      BY <3>3, <3>4 DEF longer
  <2>4. Statuses' = [r \in 1 .. Len(runs) + 1 |-> runs'[r].status]
    BY <1>3 DEF Statuses
  <2>5. \A r \in 1 .. Len(runs) + 1 :
          runs'[r].status = IF r = Len(runs) + 1 THEN "running" ELSE Statuses[r]
    BY <1>1, <1>2, <1>3 DEF Statuses
  <2>6. QED
    BY <2>3, <2>4, <2>5
<1>5. \A r \in DOMAIN Statuses : Statuses[r] \notin Final
  BY <1>1 DEF Statuses, NoneFinal
<1>6. Len(Statuses) < MaxRetries + 1
  BY <1>1, StatusesAreSequence
<1>7. QED
  BY <1>4, <1>5, <1>6, LedgerRefined DEF LedgerAnswer

(* finalize_agent_run_summary settles the last row, once. *)
LEMMA LedgerSettles ==
  ASSUME RunsAreSequence, NEW status \in Final \cup {"failed"}, LastIs({"running", status}),
         NEW results, NEW verdict, Finalize(status, results, verdict),
         pc # "responded", pc' # "responded"
  PROVE  Ledger!Settle \/ UNCHANGED Ledger!vars
<1> DEFINE last == Len(runs)
<1>1. /\ runs # <<>> /\ runs[last].status \in {"running", status}
      /\ DOMAIN runs' = DOMAIN runs /\ last \in DOMAIN runs
      /\ \A r \in DOMAIN runs : r # last => runs'[r] = runs[r]
      /\ runs' = runs \/ runs'[last].status = status
  <2>1. runs # <<>> /\ runs[last].status \in {"running", status}
    BY DEF LastIs
  <2>2. /\ DOMAIN runs' = DOMAIN runs /\ last \in DOMAIN runs
        /\ \A r \in DOMAIN runs : r # last => runs'[r] = runs[r]
        /\ runs' = runs \/ runs'[last] = Summary(status, results, verdict)
    BY <2>1, Finalized
  <2>3. Summary(status, results, verdict).status = status
    BY DEF Summary
  <2>4. QED
    BY <2>1, <2>2, <2>3
<1>2. Len(Statuses) = last /\ DOMAIN Statuses = DOMAIN runs
  BY StatusesAreSequence
<1> HIDE DEF last
<1>3. LedgerAnswer = "none" /\ LedgerAnswer' = "none"
  BY DEF LedgerAnswer
<1>4. CASE Statuses' = Statuses
  BY <1>3, <1>4, LedgerRefined
<1>5. CASE runs'[last].status = status /\ runs[last].status = "running"
  <2>1. Statuses' = [Statuses EXCEPT ![last] = status]
    BY <1>1, <1>5 DEF Statuses
  <2>2. Statuses # <<>> /\ Statuses[last] = "running"
    BY <1>1, <1>5 DEF Statuses
  <2>3. QED
    BY <1>2, <1>3, <2>1, <2>2, LedgerRefined
<1>6. CASE runs'[last].status = status /\ runs[last].status = status
  <2>1. Statuses' = Statuses
    BY <1>1, <1>6 DEF Statuses
  <2>2. QED
    BY <1>4, <2>1
<1>7. CASE runs' = runs
  BY <1>4, <1>7 DEF Statuses
<1>8. QED
  BY <1>1, <1>5, <1>6, <1>7

(* The answer that goes out agrees with the rows. *)
LEMMA LedgerResponds ==
  ASSUME RunsAreSequence, pc # "responded", pc' = "responded", UNCHANGED runs,
         response' = "500" \/ (AnswerStands /\ response' = response)
  PROVE  Ledger!Respond
<1>1. Ledger!Agrees(response')
  <2>1. Len(Statuses) = Len(runs) /\ DOMAIN Statuses = DOMAIN runs
    BY StatusesAreSequence
  <2>2. runs # <<>> => /\ Statuses # <<>> /\ Len(runs) \in DOMAIN runs
                       /\ Statuses[Len(Statuses)] = runs[Len(runs)].status
    BY <2>1, RunsIndices DEF Statuses
  <2>3. NoneFinal => \A r \in DOMAIN Statuses : Statuses[r] \notin Final
    BY DEF NoneFinal, Statuses
  <2> DEFINE rows == Statuses
  <2>4. Ledger!Agrees(response') <=>
          CASE response' = "success" -> rows # <<>> /\ rows[Len(rows)] \in {"completed", "running"}
            [] response' = "approval_required" ->
                 rows # <<>> /\ rows[Len(rows)] \in {"approval_required", "running"}
            [] response' \in {"failed", "execution_failed"} ->
                 rows # <<>> /\ rows[Len(rows)] \in {"failed", "running"}
            [] response' = "planning_failed" -> \A r \in DOMAIN rows : rows[r] \notin Final
            [] response' = "500" -> TRUE
    BY DEF Ledger!Agrees, Ledger!Final, Ledger!Last, Statuses, Final
  <2> HIDE DEF rows
  <2>5. QED
    BY <2>2, <2>3, <2>4 DEF AnswerStands, LastIs, rows
<1>2. response' \in {"success", "approval_required", "failed", "execution_failed",
                     "planning_failed", "500"}
  BY DEF AnswerStands
<1>3. UNCHANGED Statuses /\ LedgerAnswer = "none" /\ LedgerAnswer' = response'
  BY DEF Statuses, LedgerAnswer
<1>4. QED
  BY <1>1, <1>2, <1>3 DEF Ledger!Respond, Statuses, LedgerAnswer

LEMMA LedgerStep == RoundsInv /\ [Next]_vars => [Ledger!Next]_(Ledger!vars)
<1> SUFFICES ASSUME RoundsInv, [Next]_vars PROVE Ledger!Next \/ UNCHANGED Ledger!vars
  OBVIOUS
<1>0. RunsAreSequence
  BY DEF RoundsInv
<1>s. ASSUME UNCHANGED runs, pc # "responded" /\ pc' # "responded" PROVE UNCHANGED Ledger!vars
  BY <1>s, LedgerRefined DEF Statuses, LedgerAnswer
<1>f. ASSUME NEW status \in Final \cup {"failed"}, NEW results, NEW verdict,
             Finalize(status, results, verdict), LastIs({"running", status}),
             pc # "responded" /\ pc' # "responded"
      PROVE  Ledger!Next \/ UNCHANGED Ledger!vars
  BY <1>0, <1>f, LedgerSettles DEF Ledger!Next
<1>r. LastIs({"running"}) => \A status : LastIs({"running", status})
  BY DEF LastIs
<1>1. CASE PlanningFails
  BY <1>1, <1>s DEF PlanningFails
<1>2. CASE CreatePlan
  <2>1. CASE UNCHANGED runs /\ pc' = "error"
    BY <1>2, <2>1, <1>s DEF CreatePlan
  <2>2. CASE pc' = "risk" /\ \E p \in Plans : runs' = Append(runs, NewRun(p))
    <3>1. PICK p \in Plans : runs' = Append(runs, NewRun(p))
      BY <2>2
    <3>2. pc = "plan" /\ pc' # "responded" /\ NewRun(p).status = "running"
      BY <1>2, <2>2 DEF CreatePlan, NewRun
    <3> DEFINE row == NewRun(p)
    <3> HIDE DEF row
    <3>3. Ledger!Open
      BY <3>1, <3>2, LedgerOpens DEF row
    <3>4. QED
      BY <3>3 DEF Ledger!Next
  <2>3. QED
    BY <1>2, <2>1, <2>2 DEF CreatePlan
<1>3. CASE PassRiskGate \/ Verify \/ MisreadVerdict
  BY <1>3, <1>s DEF PassRiskGate, Verify, MisreadVerdict
<1>4. CASE RequestApproval
  <2>1. LastIs({"running"}) /\ pc = "risk"
    BY <1>4 DEF RequestApproval, RoundsInv
  <2>2. CASE Finalize("approval_required", FALSE, NoVerdict) /\ pc' = "answer"
    BY <1>f, <1>r, <2>1, <2>2 DEF Final
  <2>3. CASE UNCHANGED runs /\ pc' = "error"
    BY <1>s, <2>1, <2>3
  <2>4. QED
    BY <1>4, <2>2, <2>3 DEF RequestApproval
<1>5. CASE ExecutionFails
  <2>1. LastIs({"running"}) /\ pc = "execute" /\ pc' = "answer"
    BY <1>5 DEF ExecutionFails, RoundsInv
  <2>2. QED
    BY <1>5, <1>f, <1>r, <1>s, <2>1 DEF ExecutionFails
<1>6. CASE Succeed
  <2>1. LastIs({"running"}) /\ pc = "judge"
    BY <1>6 DEF Succeed, RoundsInv
  <2>2. CASE Finalize("completed", TRUE, verification) /\ pc' = "answer"
    BY <1>f, <1>r, <2>1, <2>2 DEF Final
  <2>3. CASE UNCHANGED runs /\ pc' = "error"
    BY <1>s, <2>1, <2>3
  <2>4. QED
    BY <1>6, <2>2, <2>3 DEF Succeed
<1>7. CASE Replan
  <2>1. LastIs({"running"}) /\ pc = "judge" /\ pc' \in {"plan", "give_up"}
    BY <1>7 DEF Replan, RoundsInv
  <2>2. QED
    BY <1>7, <1>f, <1>r, <1>s, <2>1 DEF Replan
<1>8. CASE GiveUp
  <2>1. LastIs({"running", "failed"}) /\ pc = "give_up" /\ pc' \in {"error", "answer"}
    BY <1>8 DEF GiveUp, RoundsInv, LastIs
  <2>2. QED
    BY <1>8, <1>f, <1>s, <2>1 DEF GiveUp
<1>9. CASE Answer
  <2>1. CASE pc' = "error"
    BY <1>9, <2>1, <1>s DEF Answer
  <2>2. CASE pc' = "responded"
    BY <1>0, <1>9, <2>2, LedgerResponds DEF Answer, RoundsInv, Ledger!Next
  <2>3. QED
    BY <1>9, <2>1, <2>2 DEF Answer
<1>10. CASE AnswerError
  BY <1>0, <1>10, LedgerResponds DEF AnswerError, Ledger!Next
<1>11. CASE Execute \/ UNCHANGED vars
  <2>1. UNCHANGED <<runs, pc, response>>
    BY <1>11 DEF Execute, vars, ctlVars
  <2>2. QED
    BY <2>1, LedgerRefined DEF Statuses, LedgerAnswer
<1>12. QED
  BY <1>1, <1>2, <1>3, <1>4, <1>5, <1>6, <1>7, <1>8, <1>9, <1>10, <1>11 DEF Next, Controller

(* The rows and the answer of a request begin and move as RunLedger allows: *)
(* a row per round, settled at most once by finalize_agent_run_summary,     *)
(* none after a round that succeeded or waits for approval, and an answer   *)
(* that agrees with the last of them.                                       *)
THEOREM ImplementsRunLedger == Spec => LedgerSpec
<1>1. Init => Ledger!Init
  <2> SUFFICES ASSUME Init PROVE Ledger!Init
    OBVIOUS
  <2>1. runs = <<>> /\ DOMAIN runs = {} /\ LedgerAnswer = "none"
    BY DEF Init, LedgerAnswer
  <2>2. Statuses = <<>>
    BY <2>1 DEF Statuses
  <2>3. QED
    BY <2>1, <2>2, LedgerRefined
<1>2. QED
  BY <1>1, LedgerStep, RoundsInvariant, PTL DEF Spec, LedgerSpec, Ledger!Spec

-------------------------------------------------------------------------------
(* No row is left open *)

(* While nothing misbehaves a row is open only during its round. *)
OrphanInv ==
  ~faulty => /\ pc # "error"
             /\ \A r \in DOMAIN runs : runs[r].status = "running" =>
                  pc \in {"risk", "execute", "judge"} /\ r = Len(runs)

LEMMA OrphanNext == RoundsInv /\ OrphanInv /\ [Next]_vars => OrphanInv'
<1> SUFFICES ASSUME RoundsInv, OrphanInv, [Next]_vars, ~faulty' PROVE OrphanInv'
  BY DEF OrphanInv
<1>0. RunsAreSequence
  BY DEF RoundsInv
<1>1. ~faulty
  BY DEF Next, Controller, PlanningFails, CreatePlan, PassRiskGate, RequestApproval,
         ExecutionFails, Verify, MisreadVerdict, Succeed, Replan, GiveUp, Answer, AnswerError,
         Execute, DbAnswers, DbFails, RunIdFails, Finalize, dbVars, vars
<1>2. /\ pc # "error"
      /\ \A r \in DOMAIN runs : runs[r].status = "running" =>
           pc \in {"risk", "execute", "judge"} /\ r = Len(runs)
  BY <1>1 DEF OrphanInv
<1>f. ASSUME NEW status \in Final \cup {"failed"}, NEW results, NEW verdict,
             Finalize(status, results, verdict), runs # <<>>, pc' # "error"
      PROVE  OrphanInv'
  <2>1. /\ DOMAIN runs' = DOMAIN runs /\ Len(runs') = Len(runs)
        /\ \A r \in DOMAIN runs : r # Len(runs) => runs'[r] = runs[r]
        /\ runs'[Len(runs)] = Summary(status, results, verdict)
    BY <1>0, <1>f, Finalized
  <2>2. Summary(status, results, verdict).status # "running"
    BY DEF Summary, Final
  <2>3. QED
    BY <1>2, <1>f, <2>1, <2>2 DEF OrphanInv
<1>s. ASSUME UNCHANGED runs, pc' # "error",
             pc \in {"risk", "execute", "judge"} => pc' \in {"risk", "execute", "judge"}
      PROVE  OrphanInv'
  BY <1>2, <1>s DEF OrphanInv
<1>3. CASE PlanningFails \/ PassRiskGate \/ Verify \/ AnswerError
  BY <1>2, <1>3, <1>s DEF PlanningFails, PassRiskGate, Verify, AnswerError
<1>4. CASE CreatePlan
  <2>1. PICK p \in Plans : runs' = Append(runs, NewRun(p)) /\ pc' = "risk"
    BY <1>4 DEF CreatePlan, DbFails
  <2>2. /\ DOMAIN runs' = DOMAIN runs \cup {Len(runs')}
        /\ \A r \in DOMAIN runs : runs'[r] = runs[r]
    <3> DEFINE row == NewRun(p)
    <3>1. runs' = Append(runs, row)
      BY <2>1
    <3> HIDE DEF row
    <3>2. QED
      BY <1>0, <3>1, RunAppended
  <2>3. QED
    BY <1>2, <1>4, <2>1, <2>2 DEF OrphanInv, CreatePlan
<1>5. CASE RequestApproval
  BY <1>5, <1>f DEF RequestApproval, DbFails, RunIdFails, RoundsInv, LastIs, Final
<1>6. CASE ExecutionFails
  BY <1>6, <1>f DEF ExecutionFails, DbFails, RunIdFails, RoundsInv, LastIs, Final
<1>7. CASE MisreadVerdict
  BY <1>7 DEF MisreadVerdict
<1>8. CASE Succeed
  BY <1>8, <1>f DEF Succeed, DbFails, RunIdFails, RoundsInv, LastIs, Final
<1>9. CASE Replan
  BY <1>9, <1>f DEF Replan, DbFails, RunIdFails, RoundsInv, LastIs, Final
<1>10. CASE GiveUp
  BY <1>10, <1>f DEF GiveUp, DbFails, RunIdFails, RoundsInv, LastIs, Final
<1>11. CASE Answer
  BY <1>11, <1>s DEF Answer, DbFails
<1>12. CASE Execute \/ UNCHANGED vars
  BY <1>2, <1>12, <1>s DEF Execute, ctlVars, vars
<1>13. QED
  BY <1>3, <1>4, <1>5, <1>6, <1>7, <1>8, <1>9, <1>10, <1>11, <1>12 DEF Next, Controller

(* While the database and the verifier behave, a client that has its answer *)
(* finds no row of its request "running", in whichever round it ended.      *)
THEOREM NoOrphanHolds == Spec => []NoOrphanWithoutFault
<1>1. Init => OrphanInv
  BY DEF Init, OrphanInv
<1>2. OrphanInv => NoOrphanWithoutFault
  BY DEF OrphanInv, NoOrphanWithoutFault
<1>3. QED
  BY <1>1, <1>2, OrphanNext, RoundsInvariant, PTL DEF Spec

-------------------------------------------------------------------------------
(* The approval gate *)

(* The executor never takes another plan by itself. *)
LEMMA ExecutorKeepsPlan == Executor!Next => plan' = plan
BY DEF Executor!Next, Executor!WaveLoop, Executor!Coroutine, Executor!Deadline,
       Executor!Start, Executor!FindReady, Executor!Finish, Executor!StartGather,
       Executor!EndGather, Executor!EndWave, Executor!SkipStep, Executor!QueueStep,
       Executor!StoreResult, Executor!BeginStep, Executor!RefuseStep, Executor!ToolSucceeds,
       Executor!ToolFails, Executor!ToolFailsForGood, Executor!RetryTool

GateInv ==
  /\ approvals \in Seq(Nat)
  /\ plan \in RiskyPlans =>
       /\ pc \notin {"execute", "judge", "give_up"}
       /\ phase = "start" /\ \A s \in Steps : co[s] = "none"
  /\ response = "approval_required" => approvals # <<>>

LEMMA GateNext == RoundsInv /\ GateInv /\ [Next]_vars => GateInv'
<1> SUFFICES ASSUME RoundsInv, GateInv, [Next]_vars PROVE GateInv'
  OBVIOUS
<1> USE DEF GateInv, Steps, execVars
<1>1. CASE CreatePlan
  <2>1. /\ phase' = "start" /\ \A s \in Steps' : co'[s] = "none"
        /\ pc' \notin {"execute", "judge", "give_up"} /\ UNCHANGED <<approvals, response>>
    BY <1>1 DEF CreatePlan, Executor!Load
  <2>2. QED
    BY <2>1
<1>2. CASE RequestApproval
  <2>1. CASE UNCHANGED <<approvals, response>>
    BY <1>2, <2>1 DEF RequestApproval
  <2>2. CASE approvals' = Append(approvals, Len(runs))
    <3>1. Len(runs) \in Nat
      BY RunsIndices DEF RoundsInv
    <3>2. approvals' \in Seq(Nat) /\ approvals' # <<>>
      BY <2>2, <3>1
    <3>3. UNCHANGED execVars /\ pc' \in {"error", "answer"}
      BY <1>2 DEF RequestApproval
    <3>4. QED
      BY <3>2, <3>3
  <2>3. QED
    BY <1>2, <2>1, <2>2 DEF RequestApproval
<1>3. CASE Execute
  <2>1. plan' = plan /\ plan \notin RiskyPlans /\ UNCHANGED ctlVars
    BY <1>3, ExecutorKeepsPlan DEF Execute
  <2>2. QED
    BY <2>1 DEF ctlVars
<1>4. CASE PlanningFails \/ PassRiskGate \/ ExecutionFails \/ Verify \/ MisreadVerdict
  BY <1>4 DEF PlanningFails, PassRiskGate, ExecutionFails, Verify, MisreadVerdict
<1>5. CASE Succeed \/ Replan \/ GiveUp \/ Answer \/ AnswerError
  BY <1>5 DEF Succeed, Replan, GiveUp, Answer, AnswerError
<1>6. CASE UNCHANGED vars
  BY <1>6 DEF vars, ctlVars
<1>7. QED
  BY <1>1, <1>2, <1>3, <1>4, <1>5, <1>6 DEF Next, Controller

(* No tool of a plan with a risky keyword is called, in whichever round it  *)
(* comes, and who is told to ask for approval has an approval to ask for.   *)
THEOREM ApprovalGateHolds == Spec => []ApprovalGate
<1>1. Init => GateInv
  <2> SUFFICES ASSUME Init PROVE GateInv
    OBVIOUS
  <2>1. approvals \in Seq(Nat)
    BY DEF Init
  <2>2. QED
    BY <2>1 DEF Init, GateInv, Executor!Fresh, Executor!Steps, Steps
<1>2. GateInv => ApprovalGate
  BY DEF GateInv, ApprovalGate
<1>3. QED
  BY <1>1, <1>2, GateNext, RoundsInvariant, PTL DEF Spec

-------------------------------------------------------------------------------
(* Success is earned *)

ExecutorInv ==
  /\ Proven!TypeInv /\ Proven!WaveInv /\ Proven!CalledToolsRegistered
  /\ Proven!OutputsReturned /\ Proven!AuditAgrees

LEMMA ExecutorAssumptions ==
  /\ \A p \in Plans : p \in Seq(Proven!Step) /\ Proven!Validated(p)
  /\ MaxPlanSteps \in Nat /\ MaxParallelSteps \in Nat \ {0} /\ MaxToolRetries \in Nat \ {0}
  /\ TRUE \in BOOLEAN /\ AuditMayFail \in BOOLEAN
  /\ Proven!PlansUnique
<1>1. Executor!Step = Proven!Step
  BY DEF Executor!Step, Executor!ToolKinds, Proven!Step, Proven!ToolKinds
<1>2. \A p : Validated(p) <=> Proven!Validated(p)
  BY DEF Validated, KnownDependencies, Acyclic, IdsOf, LastCopy,
         Proven!Validated, Proven!KnownDependencies, Proven!Acyclic, Proven!IdsOf, Proven!LastCopy
<1>3. \A p \in Plans : p \in Seq(Proven!Step) /\ Proven!Validated(p)
  BY <1>1, <1>2, ExecutorAssumption
<1>4. MaxPlanSteps \in Nat /\ MaxParallelSteps \in Nat \ {0} /\ MaxToolRetries \in Nat \ {0}
  BY ExecutorAssumption
<1>5. AuditMayFail \in BOOLEAN
  BY ControllerAssumption
<1>6. Proven!PlansUnique
  BY ControllerAssumption DEF UniqueIds, Proven!PlansUnique, Proven!UniqueIds
<1>7. QED
  BY <1>3, <1>4, <1>5, <1>6

(* The two instances of PlanExecutor are one. *)
LEMMA SameExecutor == Executor!Next => Proven!Next
<1> USE DEF Executor!Steps, Executor!Completed, Executor!Holding, Executor!Runnable,
            Executor!planVars, Executor!coVars, Executor!dbVars, Executor!Row,
            Proven!Steps, Proven!Completed, Proven!Holding, Proven!Runnable,
            Proven!planVars, Proven!coVars, Proven!dbVars, Proven!Row
<1>1. (Executor!Start => Proven!Start) /\ (Executor!Finish => Proven!Finish)
  BY DEF Executor!Start, Proven!Start, Executor!Finish, Proven!Finish
<1>2. Executor!FindReady => Proven!FindReady
  BY DEF Executor!FindReady, Proven!FindReady, Executor!DependenciesMet, Proven!DependenciesMet
<1>3. /\ Executor!StartGather => Proven!StartGather
      /\ Executor!EndGather => Proven!EndGather
      /\ Executor!EndWave => Proven!EndWave
      /\ Executor!Deadline => Proven!Deadline
  BY DEF Executor!StartGather, Proven!StartGather, Executor!EndGather, Proven!EndGather,
         Executor!EndWave, Proven!EndWave, Executor!Deadline, Proven!Deadline
<1>4. \A s : /\ Executor!SkipStep(s) => Proven!SkipStep(s)
             /\ Executor!QueueStep(s) => Proven!QueueStep(s)
             /\ Executor!StoreResult(s) => Proven!StoreResult(s)
  BY DEF Executor!SkipStep, Proven!SkipStep, Executor!QueueStep, Proven!QueueStep,
         Executor!StoreResult, Proven!StoreResult, Executor!IsNext, Proven!IsNext
<1>5. \A s : /\ Executor!BeginStep(s) => Proven!BeginStep(s)
             /\ Executor!RefuseStep(s) => Proven!RefuseStep(s)
             /\ Executor!RetryTool(s) => Proven!RetryTool(s)
             /\ Executor!ToolFails(s) => Proven!ToolFails(s)
  <2> TAKE s
  <2>1. Executor!Admitted(s) => Proven!Admitted(s)
    BY DEF Executor!Admitted, Proven!Admitted, Executor!Cardinality, Proven!Cardinality
  <2>2. Executor!BeginStep(s) => Proven!BeginStep(s)
    BY <2>1 DEF Executor!BeginStep, Proven!BeginStep, Executor!CallTool, Proven!CallTool
  <2>3. Executor!RefuseStep(s) => Proven!RefuseStep(s)
    BY <2>1 DEF Executor!RefuseStep, Proven!RefuseStep, Executor!Return, Proven!Return
  <2>4. Executor!RetryTool(s) => Proven!RetryTool(s)
    BY DEF Executor!RetryTool, Proven!RetryTool, Executor!CallTool, Proven!CallTool
  <2>5. Executor!ToolFails(s) => Proven!ToolFails(s)
    BY DEF Executor!ToolFails, Proven!ToolFails, Executor!OnLoop, Proven!OnLoop
  <2>6. QED
    BY <2>2, <2>3, <2>4, <2>5
<1>6. \A s : /\ Executor!ToolSucceeds(s) => Proven!ToolSucceeds(s)
             /\ Executor!ToolFailsForGood(s) => Proven!ToolFailsForGood(s)
  BY DEF Executor!ToolSucceeds, Proven!ToolSucceeds,
         Executor!ToolFailsForGood, Proven!ToolFailsForGood,
         Executor!LogStep, Proven!LogStep, Executor!Return, Proven!Return,
         Executor!OnLoop, Proven!OnLoop
<1>7. QED
  BY <1>1, <1>2, <1>3, <1>4, <1>5, <1>6
     DEF Executor!Next, Executor!WaveLoop, Executor!Coroutine,
         Proven!Next, Proven!WaveLoop, Proven!Coroutine

LEMMA ExecutorInvNext ==
  ExecutorInv /\ (Executor!Next \/ UNCHANGED <<execVars, session>>) => ExecutorInv'
<1>1. UNCHANGED <<execVars, session>> => UNCHANGED Proven!vars
  BY DEF execVars, Proven!vars, Proven!planVars, Proven!coVars, Proven!dbVars
<1>2. QED
  BY <1>1, ExecutorAssumptions, SameExecutor, Proven!TypeInvNext, Proven!WaveInvNext,
     Proven!CalledToolsRegisteredNext, Proven!OutputsReturnedNext, Proven!AuditAgreesNext
     DEF ExecutorInv

LEMMA ExecutorInvInit == Proven!Init => ExecutorInv
BY ExecutorAssumptions, Proven!TypeInvInit, Proven!WaveInvInit,
   Proven!CalledToolsRegisteredInit, Proven!OutputsReturnedInit, Proven!AuditAgreesInit
   DEF ExecutorInv

LEMMA ExecutorInvInitNext == Proven!Init' => ExecutorInv'
BY ExecutorInvInit, PTL

(* One successful audit row for each step makes the telemetry of a success. *)
LEMMA RowsOfSuccess ==
  ASSUME Len(plan) \in Nat, DOMAIN plan = 1 .. Len(plan),
         \A s \in Steps : audit[s] = <<[status |-> "success", retry_count |-> attempt[s]]>>
  PROVE  RowsWith("success") = Len(plan) /\ RowsWith("failed") = 0
<1> DEFINE all == UNION {{<<s, k>> : k \in DOMAIN audit[s]} : s \in Steps}
           n == Len(plan)
           first == [s \in 1 .. n |-> <<s, 1>>]
           firsts == {<<s, 1>> : s \in Steps}
<1>0. n \in Nat /\ Steps = 1 .. n
  BY DEF Steps
<1>1. ASSUME NEW s \in Steps PROVE DOMAIN audit[s] = {1} /\ audit[s][1].status = "success"
  <2> DEFINE row == [status |-> "success", retry_count |-> attempt[s]]
  <2>1. audit[s] = <<row>> /\ row.status = "success"
    OBVIOUS
  <2> HIDE DEF row
  <2>2. DOMAIN <<row>> = 1 .. 1 /\ <<row>>[1] = row
    OBVIOUS
  <2>3. QED
    BY <2>1, <2>2
<1>2. all = firsts
  BY <1>1
<1>3. \A r \in all : audit[r[1]][r[2]].status = "success"
  BY <1>1, <1>2
<1>4. Cardinality(firsts) = n
  <2> HIDE DEF n
  <2>1. first \in Bijection(1 .. n, firsts)
    BY <1>0 DEF Bijection, Injection, IsInjective, Surjection
  <2> HIDE DEF first, firsts
  <2>2. ExistsBijection(1 .. n, firsts)
    BY <2>1 DEF ExistsBijection
  <2>3. QED
    BY <1>0, <2>2, FS_CountingElements
<1>5. {r \in all : audit[r[1]][r[2]].status = "success"} = firsts
  BY <1>2, <1>3
<1>6. {r \in all : audit[r[1]][r[2]].status = "failed"} = {}
  BY <1>3
<1>7. QED
  BY <1>4, <1>5, <1>6, FS_EmptySet DEF RowsWith

EarnedInv ==
  /\ pc \in {"risk", "execute", "judge"} => ExecutorInv
  /\ pc = "judge" => phase = "done"
  /\ SuccessIsEarned

(* What SuccessIsEarned asks of a row that says "completed". *)
EarnedRow(row) ==
  /\ Accepts(row.verification_result)
  /\ FALSE \notin row.approved
  /\ \A c \in row.confidence : c >= Threshold
  /\ row.steps_failed = 0
  /\ row.steps_success = Len(row.plan)

(* The columns that are filled from an accepted verdict do not deny it. *)
LEMMA AcceptedColumns ==
  ASSUME NEW verdict, Accepts(verdict)
  PROVE  /\ FALSE \notin ExtractApproved(verdict)
         /\ \A c \in ExtractConfidence(verdict) : c >= Threshold
<1>1. verdict.approved = "true" \/ verdict.approved \notin {"true", "false"}
  BY DEF Accepts, Approves
<1>2. verdict.confidence.percent >= Threshold
  BY DEF Accepts
<1>3. FALSE \notin ExtractApproved(verdict)
  <2>1. CASE verdict.approved = "true"
    BY <2>1 DEF ExtractApproved
  <2>2. CASE verdict.approved \notin {"true", "false"}
    BY <2>2 DEF ExtractApproved, Null
  <2>3. QED
    BY <1>1, <2>1, <2>2
<1>4. \A c \in ExtractConfidence(verdict) : c >= Threshold
  BY <1>2 DEF ExtractConfidence, Null
<1>5. QED
  BY <1>3, <1>4

(* The row that Succeed writes. *)
LEMMA EarnedSummary ==
  ASSUME ExecutorInv, phase = "done", session = "usable", Successful
  PROVE  EarnedRow(Summary("completed", TRUE, verification))
<1>1. \A i \in Ids : completed[i] \notin {"error", "skipped"}
  BY DEF Successful, ExecutionHadFailure
<1>2. \A s \in Steps : audit[s] = <<[status |-> "success", retry_count |-> attempt[s]]>>
  BY <1>1, ExecutorAssumptions, Proven!DoneWithoutFailure
     DEF ExecutorInv, Proven!Steps, Proven!Row, Steps
<1>3. Len(plan) \in Nat /\ DOMAIN plan = 1 .. Len(plan)
  <2>1. plan \in Seq(Proven!Step)
    BY DEF ExecutorInv, Proven!TypeInv, Proven!TypeOK
  <2>2. QED
    BY <2>1
<1>4. RowsWith("success") = Len(plan) /\ RowsWith("failed") = 0
  BY <1>2, <1>3, RowsOfSuccess
<1>5. Accepts(verification)
  BY DEF Successful
<1>6. QED
  BY <1>4, <1>5, AcceptedColumns DEF Summary, EarnedRow

(* A settled row, when it says "completed", is the one Succeed wrote. *)
LEMMA EarnedSettled ==
  ASSUME RunsAreSequence, runs # <<>>, SuccessIsEarned,
         NEW status, NEW results, NEW verdict, Finalize(status, results, verdict),
         status = "completed" => EarnedRow(Summary(status, results, verdict))
  PROVE  SuccessIsEarned'
<1> DEFINE row == Summary(status, results, verdict)
<1>1. /\ DOMAIN runs' = DOMAIN runs /\ Len(runs) \in DOMAIN runs
      /\ \A r \in DOMAIN runs : r # Len(runs) => runs'[r] = runs[r]
      /\ runs' = runs \/ runs'[Len(runs)] = row
  BY Finalized
<1>2. row.status = status
  BY DEF Summary
<1> HIDE DEF row
<1>3. CASE runs' = runs
  BY <1>3 DEF SuccessIsEarned
<1>4. CASE runs'[Len(runs)] = row
  BY <1>1, <1>2, <1>4 DEF SuccessIsEarned, EarnedRow, row
<1>5. QED
  BY <1>1, <1>3, <1>4

LEMMA EarnedNext == RoundsInv /\ EarnedInv /\ [Next]_vars => EarnedInv'
<1> SUFFICES ASSUME RoundsInv, EarnedInv, [Next]_vars PROVE EarnedInv'
  OBVIOUS
<1>0. RunsAreSequence /\ SuccessIsEarned
  BY DEF RoundsInv, EarnedInv
<1>e. ASSUME SuccessIsEarned', pc' \notin {"risk", "execute", "judge"} PROVE EarnedInv'
  BY <1>e DEF EarnedInv
<1>s. ASSUME UNCHANGED runs PROVE SuccessIsEarned'
  BY <1>0, <1>s DEF SuccessIsEarned
<1>f. ASSUME NEW status \in {"approval_required", "failed"}, NEW results, NEW verdict,
             Finalize(status, results, verdict), runs # <<>>
      PROVE  SuccessIsEarned'
  BY <1>0, <1>f, EarnedSettled
<1>1. CASE PlanningFails \/ MisreadVerdict \/ Answer \/ AnswerError
  BY <1>1, <1>e, <1>s DEF PlanningFails, MisreadVerdict, Answer, AnswerError
<1>2. CASE CreatePlan
  <2>1. CASE UNCHANGED runs /\ pc' = "error"
    BY <2>1, <1>e, <1>s
  <2>2. CASE pc' = "risk" /\ DbAnswers
             /\ \E p \in Plans : Executor!Load(p) /\ runs' = Append(runs, NewRun(p))
    <3>1. PICK p \in Plans : Executor!Load(p) /\ runs' = Append(runs, NewRun(p))
      BY <2>2
    <3>2. Proven!Init'
      BY <2>2, <3>1 DEF DbAnswers, dbVars, Executor!Load, Proven!Init, Proven!Fresh, Proven!Steps
    <3>3. SuccessIsEarned'
      <4> DEFINE row == NewRun(p)
      <4>1. row.status = "running" /\ runs' = Append(runs, row)
        BY <3>1 DEF NewRun
      <4> HIDE DEF row
      <4>2. /\ DOMAIN runs' = DOMAIN runs \cup {Len(runs')}
            /\ runs'[Len(runs')] = row
            /\ \A r \in DOMAIN runs : runs'[r] = runs[r]
        BY <1>0, <4>1, RunAppended
      <4>3. QED
        BY <1>0, <4>1, <4>2 DEF SuccessIsEarned
    <3>4. QED
      BY <2>2, <3>2, <3>3, ExecutorInvInitNext DEF EarnedInv
  <2>3. QED
    BY <1>2, <2>1, <2>2 DEF CreatePlan
<1>3. CASE PassRiskGate \/ Verify
  <2>1. /\ UNCHANGED <<execVars, session, runs>> /\ pc \in {"risk", "execute"}
        /\ pc' = "judge" => phase = "done"
    BY <1>3 DEF PassRiskGate, Verify, dbVars
  <2>2. ExecutorInv'
    BY <2>1, ExecutorInvNext DEF EarnedInv
  <2>3. QED
    BY <1>s, <2>1, <2>2 DEF EarnedInv, execVars
<1>4. CASE Execute
  <2>1. UNCHANGED <<runs, pc>> /\ pc = "execute" /\ Executor!Next
    BY <1>4 DEF Execute, ctlVars
  <2>2. ExecutorInv'
    BY <2>1, ExecutorInvNext DEF EarnedInv
  <2>3. QED
    BY <1>s, <2>1, <2>2 DEF EarnedInv
<1>5. CASE RequestApproval
  BY <1>5, <1>e, <1>f, <1>s DEF RequestApproval, RoundsInv, LastIs
<1>6. CASE ExecutionFails
  BY <1>6, <1>e, <1>f, <1>s DEF ExecutionFails, RoundsInv, LastIs
<1>7. CASE Succeed
  <2>1. CASE UNCHANGED runs /\ pc' = "error"
    BY <2>1, <1>e, <1>s
  <2>2. CASE Finalize("completed", TRUE, verification) /\ pc' = "answer"
    <3>1. /\ ExecutorInv /\ phase = "done" /\ Successful /\ runs # <<>>
      BY <1>7 DEF Succeed, EarnedInv, RoundsInv, LastIs
    <3>2. session = "usable"
      BY <2>2 DEF Finalize
    <3>3. SuccessIsEarned'
      BY <1>0, <2>2, <3>1, <3>2, EarnedSummary, EarnedSettled
    <3>4. QED
      BY <1>e, <2>2, <3>3
  <2>3. QED
    BY <1>7, <2>1, <2>2 DEF Succeed
<1>8. CASE Replan
  BY <1>8, <1>e, <1>f, <1>s DEF Replan, RoundsInv, LastIs
<1>9. CASE GiveUp
  BY <1>9, <1>e, <1>f, <1>s DEF GiveUp, RoundsInv, LastIs
<1>10. CASE UNCHANGED vars
  <2>1. UNCHANGED <<execVars, session, runs, pc>>
    BY <1>10 DEF vars, ctlVars, dbVars
  <2>2. pc \in {"risk", "execute", "judge"} => ExecutorInv'
    BY <2>1, ExecutorInvNext DEF EarnedInv
  <2>3. QED
    BY <1>s, <2>1, <2>2 DEF EarnedInv, execVars
<1>11. QED
  BY <1>1, <1>2, <1>3, <1>4, <1>5, <1>6, <1>7, <1>8, <1>9, <1>10 DEF Next, Controller

LEMMA EarnedInvariant == Spec => []EarnedInv
<1>1. Init => EarnedInv
  BY DEF Init, EarnedInv, SuccessIsEarned
<1>2. QED
  BY <1>1, EarnedNext, RoundsInvariant, PTL DEF Spec

(* Whatever JSON the verifier answers and whatever fails meanwhile, a row    *)
(* says "completed" only over a verdict that counts as approved and sure     *)
(* enough, which its columns do not deny, and over one successful audit row  *)
(* for each step of its plan and no failed one.                              *)
THEOREM SuccessIsEarnedHolds == Spec => []SuccessIsEarned
<1>1. EarnedInv => SuccessIsEarned
  BY DEF EarnedInv
<1>2. QED
  BY <1>1, EarnedInvariant, PTL

-------------------------------------------------------------------------------
(* Types *)

(* What the executor leaves to be counted: attempts, and at most one audit  *)
(* row a step.                                                              *)
RecordsInv ==
  /\ plan \in Plans
  /\ attempt \in [Steps -> Nat]
  /\ \A s \in Steps : audit[s] = <<>> \/ \E row : audit[s] = <<row>>

TypeInv ==
  /\ TypeOK
  /\ pc \in {"risk", "execute", "judge", "give_up"} => RecordsInv

LEMMA ExecutorLeavesRecords == ExecutorInv => RecordsInv
<1> SUFFICES ASSUME ExecutorInv PROVE RecordsInv
  OBVIOUS
<1>1. plan \in Plans /\ attempt \in [Steps -> 0 .. MaxToolRetries - 1] /\ MaxToolRetries \in Nat
  BY ExecutorAssumptions DEF ExecutorInv, Proven!TypeInv, Proven!TypeOK, Proven!Steps, Steps
<1>2. attempt \in [Steps -> Nat]
  BY <1>1
<1>3. ASSUME NEW s \in Steps PROVE audit[s] = <<>> \/ \E row : audit[s] = <<row>>
  BY <1>3 DEF ExecutorInv, Proven!AuditAgrees, Proven!AuditOf, Proven!Steps, Steps
<1>4. QED
  BY <1>1, <1>2, <1>3 DEF RecordsInv

LEMMA StepsAreFinite ==
  ASSUME plan \in Plans
  PROVE  IsFiniteSet(Steps) /\ Len(plan) \in Nat /\ Steps = 1 .. Len(plan)
<1>1. plan \in Seq(Executor!Step)
  BY ExecutorAssumption
<1>2. Len(plan) \in Nat /\ Steps = 1 .. Len(plan)
  BY <1>1 DEF Steps
<1>3. QED
  BY <1>2, FS_Interval

(* The telemetry of a row is made of naturals. *)
LEMMA CountsAreNatural ==
  ASSUME RecordsInv
  PROVE  /\ \A status : RowsWith(status) \in Nat
         /\ RetriesReported \in Nat
<1>1. IsFiniteSet(Steps)
  BY StepsAreFinite DEF RecordsInv
<1>2. ASSUME NEW status PROVE RowsWith(status) \in Nat
  <2> DEFINE all == UNION {{<<s, k>> : k \in DOMAIN audit[s]} : s \in Steps}
             counted == {r \in all : audit[r[1]][r[2]].status = status}
  <2>1. ASSUME NEW s \in Steps PROVE DOMAIN audit[s] \subseteq {1}
    <3>1. CASE audit[s] = <<>>
      BY <3>1
    <3>2. CASE \E row : audit[s] = <<row>>
      <4>1. PICK row : audit[s] = <<row>>
        BY <3>2
      <4>2. DOMAIN <<row>> = 1 .. 1
        OBVIOUS
      <4>3. QED
        BY <4>1, <4>2
    <3>3. QED
      BY <2>1, <3>1, <3>2 DEF RecordsInv
  <2>2. all \subseteq Steps \X {1}
    BY <2>1
  <2>3. IsFiniteSet(Steps \X {1})
    BY <1>1, FS_Singleton, FS_Product
  <2>4. counted \subseteq Steps \X {1}
    BY <2>2
  <2>5. Cardinality(counted) \in Nat
    <3> HIDE DEF counted
    <3>1. QED
      BY <2>3, <2>4, FS_Subset, FS_CardinalityType
  <2>6. QED
    BY <2>5 DEF RowsWith
<1>3. RetriesReported \in Nat
  <2> DEFINE ended == {s \in Steps : returned[s] # "nothing"}
  <2>1. IsFiniteSet(ended) /\ \A s \in ended : attempt[s] \in Nat
    BY <1>1, FS_Subset DEF RecordsInv
  <2>2. QED
    BY <2>1, SumIsNatural DEF RetriesReported
<1>4. QED
  BY <1>2, <1>3

LEMMA SummaryIsRow ==
  ASSUME RecordsInv, NEW status \in {"completed", "failed", "approval_required"},
         NEW results \in BOOLEAN, NEW verdict \in Verdict
  PROVE  Summary(status, results, verdict) \in Row
<1>1. ExtractApproved(verdict) \in SUBSET BOOLEAN
  BY DEF ExtractApproved, Null
<1>2. ExtractConfidence(verdict) \in SUBSET Int
  BY DEF ExtractConfidence, Null, Verdict
<1>3. QED
  BY <1>1, <1>2, CountsAreNatural DEF Summary, Row, RecordsInv

(* finalize_agent_run_summary keeps the rows of their type and number. *)
LEMMA FinalizeTypes ==
  ASSUME RecordsInv, runs \in Seq(Row), session \in {"usable", "poisoned"}, faulty \in BOOLEAN,
         NEW status \in {"completed", "failed", "approval_required"},
         NEW results \in BOOLEAN, NEW verdict \in Verdict, Finalize(status, results, verdict)
  PROVE  /\ runs' \in Seq(Row) /\ Len(runs') = Len(runs)
         /\ session' \in {"usable", "poisoned"} /\ faulty' \in BOOLEAN
<1> DEFINE row == Summary(status, results, verdict)
<1>1. row \in Row
  BY SummaryIsRow
<1> HIDE DEF row
<1>2. \/ runs' = [runs EXCEPT ![Len(runs)] = row]
      \/ runs' = runs
  BY DEF Finalize, row
<1>3. session' \in {"usable", "poisoned"} /\ faulty' \in BOOLEAN
  BY DEF Finalize, dbVars
<1> HIDE DEF Row
<1>4. runs' \in Seq(Row) /\ Len(runs') = Len(runs)
  BY <1>1, <1>2
<1>5. QED
  BY <1>3, <1>4

LEMMA TypeInit == Init => TypeInv
<1> SUFFICES ASSUME Init PROVE TypeInv
  OBVIOUS
<1>1. runs \in Seq(Row) /\ approvals \in Seq(1 .. Len(runs))
      /\ memories \in Seq({"approved", "failed"})
  BY DEF Init
<1>2. verification \in Verdict
  BY DEF Init, Unverified, Verdict
<1>3. round \in 0 .. MaxRetries + 1
  BY ControllerAssumption DEF Init
<1>4. /\ pc = "plan" /\ session = "usable" /\ response = "none" /\ faulty = FALSE
  BY DEF Init
<1>5. TypeOK
  BY <1>1, <1>2, <1>3, <1>4 DEF TypeOK
<1>6. QED
  BY <1>4, <1>5 DEF TypeInv

(* A sequence over a set is one over any larger set. *)
LEMMA SeqOfSubset ==
  ASSUME NEW S, NEW T, S \subseteq T, NEW s \in Seq(S)
  PROVE  s \in Seq(T)
<1>1. Len(s) \in Nat /\ s \in [1 .. Len(s) -> S]
  OBVIOUS
<1>2. s \in [1 .. Len(s) -> T]
  BY <1>1
<1>3. QED
  BY <1>1, <1>2

LEMMA TypeNext == RoundsInv /\ EarnedInv /\ TypeInv /\ [Next]_vars => TypeInv'
<1> SUFFICES ASSUME RoundsInv, EarnedInv, TypeInv, [Next]_vars PROVE TypeInv'
  OBVIOUS
<1>0. /\ runs \in Seq(Row) /\ approvals \in Seq(1 .. Len(runs))
      /\ round \in 0 .. MaxRetries + 1 /\ MaxRetries \in Nat
      /\ verification \in Verdict /\ Unverified \in Verdict /\ NoVerdict \in Verdict
      /\ memories \in Seq({"approved", "failed"})
      /\ session \in {"usable", "poisoned"} /\ faulty \in BOOLEAN
      /\ pc \in {"plan", "risk", "execute", "judge", "give_up", "answer", "error", "responded"}
      /\ response \in {"none", "success", "approval_required", "failed", "execution_failed",
                       "planning_failed", "500"}
      /\ pc \in {"answer", "responded"} => response # "none"
      /\ pc \in {"risk", "execute", "judge", "give_up"} => RecordsInv
  BY ControllerAssumption DEF TypeInv, TypeOK, Unverified, NoVerdict, Verdict
<1> DEFINE Answers == {"none", "success", "approval_required", "failed", "execution_failed",
                       "planning_failed", "500"}
(* Neither rows nor approvals: what is left of the state has its type. *)
<1>s. ASSUME runs' \in Seq(Row), approvals' \in Seq(1 .. Len(runs')),
             round' \in 0 .. MaxRetries + 1, verification' \in Verdict,
             memories' \in Seq({"approved", "failed"}),
             session' \in {"usable", "poisoned"}, faulty' \in BOOLEAN,
             response' \in Answers,
             pc' \in {"plan", "risk", "execute", "judge", "give_up", "answer", "error", "responded"},
             pc' \in {"answer", "responded"} => response' # "none",
             pc' \in {"risk", "execute", "judge", "give_up"} => RecordsInv'
      PROVE  TypeInv'
  BY <1>s DEF TypeInv, TypeOK
<1>d. DbAnswers \/ DbFails => session' \in {"usable", "poisoned"} /\ faulty' \in BOOLEAN
  BY <1>0 DEF DbAnswers, DbFails, dbVars
<1>m. ASSUME NEW kind \in {"approved", "failed"}, Remember(kind)
      PROVE  memories' \in Seq({"approved", "failed"})
  BY <1>0, <1>m DEF Remember
<1>r. UNCHANGED execVars => (RecordsInv => RecordsInv')
  BY DEF RecordsInv, Steps, execVars
<1>1. CASE PlanningFails
  BY <1>0, <1>1, <1>s DEF PlanningFails, dbVars
<1>2. CASE CreatePlan
  <2>1. CASE UNCHANGED runs /\ pc' = "error" /\ DbFails
    BY <1>0, <1>2, <1>d, <1>s, <2>1 DEF CreatePlan
  <2>2. CASE pc' = "risk" /\ DbAnswers
             /\ \E p \in Plans : Executor!Load(p) /\ runs' = Append(runs, NewRun(p))
    <3>1. PICK p \in Plans : Executor!Load(p) /\ runs' = Append(runs, NewRun(p))
      BY <2>2
    <3>2. NewRun(p) \in Row
      BY DEF NewRun, Row, Null, NoVerdict, Verdict
    <3>3. runs' \in Seq(Row) /\ Len(runs') = Len(runs) + 1
      <4> DEFINE row == NewRun(p)
      <4> HIDE DEF row, Row
      <4>1. QED
        BY <1>0, <3>1, <3>2 DEF row
    <3>4. approvals' \in Seq(1 .. Len(runs'))
      <4>1. Len(runs) \in Nat /\ 1 .. Len(runs) \subseteq 1 .. Len(runs')
        BY <1>0, <3>3
      <4>2. UNCHANGED approvals
        BY <1>2 DEF CreatePlan
      <4>3. QED
        BY <1>0, <4>1, <4>2, SeqOfSubset
    <3>5. RecordsInv'
      BY <3>1 DEF Executor!Load, RecordsInv, Steps
    <3>6. QED
      BY <1>0, <1>2, <1>d, <1>s, <2>2, <3>3, <3>4, <3>5 DEF CreatePlan
  <2>3. QED
    BY <1>2, <2>1, <2>2 DEF CreatePlan
<1>3. CASE PassRiskGate
  BY <1>0, <1>3, <1>r, <1>s DEF PassRiskGate, dbVars
<1>4. CASE RequestApproval
  <2>0. UNCHANGED <<execVars, round, verification, memories>> /\ RecordsInv
    BY <1>0, <1>4 DEF RequestApproval
  <2>1. CASE DbFails /\ pc' = "error" /\ UNCHANGED <<runs, approvals, response>>
    BY <1>0, <1>d, <1>s, <2>0, <2>1
  <2>2. CASE approvals' = Append(approvals, Len(runs))
    <3>1. Len(runs) \in 1 .. Len(runs)
      <4>1. runs # <<>>
        BY <1>4 DEF RequestApproval, RoundsInv, LastIs
      <4> HIDE DEF Row
      <4>2. QED
        BY <1>0, <4>1
    <3>2. approvals' \in Seq(1 .. Len(runs))
      <4> DEFINE n == Len(runs)
      <4>1. approvals \in Seq(1 .. n) /\ n \in 1 .. n /\ approvals' = Append(approvals, n)
        BY <1>0, <2>2, <3>1
      <4> HIDE DEF n
      <4>2. approvals' \in Seq(1 .. n)
        BY <4>1
      <4>3. QED
        BY <4>2 DEF n
    <3>3. CASE DbFails /\ pc' = "error" /\ UNCHANGED <<runs, response>>
      BY <1>0, <1>d, <1>s, <2>0, <3>2, <3>3
    <3>4. CASE /\ Finalize("approval_required", FALSE, NoVerdict)
               /\ pc' = "answer" /\ response' = "approval_required"
      <4>1. /\ runs' \in Seq(Row) /\ Len(runs') = Len(runs)
            /\ session' \in {"usable", "poisoned"} /\ faulty' \in BOOLEAN
        BY <1>0, <2>0, <3>4, FinalizeTypes
      <4>2. QED
        BY <1>0, <1>s, <2>0, <3>2, <3>4, <4>1
    <3>5. QED
      BY <1>4, <2>2, <3>3, <3>4 DEF RequestApproval, RunIdFails, DbFails
  <2>3. QED
    BY <1>4, <2>1, <2>2 DEF RequestApproval
<1>f. ASSUME RecordsInv, NEW status \in {"completed", "failed", "approval_required"},
             NEW results \in BOOLEAN, NEW verdict \in Verdict,
             \/ RunIdFails /\ UNCHANGED runs
             \/ Finalize(status, results, verdict),
             UNCHANGED approvals
      PROVE  /\ runs' \in Seq(Row) /\ approvals' \in Seq(1 .. Len(runs'))
             /\ session' \in {"usable", "poisoned"} /\ faulty' \in BOOLEAN
  <2>1. CASE RunIdFails /\ UNCHANGED runs
    BY <1>0, <1>d, <1>f, <2>1 DEF RunIdFails
  <2>2. CASE Finalize(status, results, verdict)
    <3>1. /\ runs' \in Seq(Row) /\ Len(runs') = Len(runs)
          /\ session' \in {"usable", "poisoned"} /\ faulty' \in BOOLEAN
      BY <1>0, <1>f, <2>2, FinalizeTypes
    <3>2. QED
      BY <1>0, <1>f, <3>1
  <2>3. QED
    BY <1>f, <2>1, <2>2
<1>5. CASE ExecutionFails
  <2>1. RecordsInv
    BY <1>0, <1>5 DEF ExecutionFails
  <2>2. /\ runs' \in Seq(Row) /\ approvals' \in Seq(1 .. Len(runs'))
        /\ session' \in {"usable", "poisoned"} /\ faulty' \in BOOLEAN
    BY <1>0, <1>5, <1>f, <2>1 DEF ExecutionFails
  <2>3. QED
    BY <1>0, <1>5, <1>s, <2>2 DEF ExecutionFails
<1>6. CASE Verify
  <2>1. verification' \in Verdict
    BY <1>0, <1>6, ControllerAssumption DEF Verify
  <2>2. QED
    BY <1>0, <1>6, <1>r, <1>s, <2>1 DEF Verify, dbVars
<1>7. CASE MisreadVerdict
  BY <1>0, <1>7, <1>s DEF MisreadVerdict
<1>8. CASE Succeed
  <2>1. RecordsInv /\ memories' \in Seq({"approved", "failed"})
    BY <1>0, <1>8, <1>m DEF Succeed
  <2>2. /\ runs' \in Seq(Row) /\ approvals' \in Seq(1 .. Len(runs'))
        /\ session' \in {"usable", "poisoned"} /\ faulty' \in BOOLEAN
    BY <1>0, <1>8, <1>f, <2>1 DEF Succeed
  <2>3. pc' \in {"error", "answer"} /\ response' \in Answers
        /\ (pc' = "answer" => response' # "none")
    BY <1>0, <1>8 DEF Succeed
  <2>4. QED
    BY <1>0, <1>8, <1>s, <2>1, <2>2, <2>3 DEF Succeed
<1>9. CASE Replan
  <2>1. RecordsInv /\ RecordsInv' /\ round \in Nat /\ round <= MaxRetries
    BY <1>0, <1>9, <1>r DEF Replan, RoundsInv
  <2>2. /\ runs' \in Seq(Row) /\ approvals' \in Seq(1 .. Len(runs'))
        /\ session' \in {"usable", "poisoned"} /\ faulty' \in BOOLEAN
    BY <1>0, <1>9, <1>f, <2>1 DEF Replan
  <2>3. pc' \in {"plan", "give_up"} /\ round' \in 0 .. MaxRetries + 1
    BY <1>0, <1>9, <2>1 DEF Replan
  <2>4. QED
    BY <1>0, <1>9, <1>s, <2>1, <2>2, <2>3 DEF Replan
<1>10. CASE GiveUp
  <2>1. RecordsInv /\ memories' \in Seq({"approved", "failed"})
    BY <1>0, <1>10, <1>m DEF GiveUp
  <2>2. /\ runs' \in Seq(Row) /\ approvals' \in Seq(1 .. Len(runs'))
        /\ session' \in {"usable", "poisoned"} /\ faulty' \in BOOLEAN
    BY <1>0, <1>10, <1>f, <2>1 DEF GiveUp
  <2>3. pc' \in {"error", "answer"} /\ response' \in Answers
        /\ (pc' = "answer" => response' # "none")
    BY <1>0, <1>10 DEF GiveUp
  <2>4. QED
    BY <1>0, <1>10, <1>s, <2>1, <2>2, <2>3 DEF GiveUp
<1>11. CASE Answer
  BY <1>0, <1>11, <1>d, <1>s DEF Answer
<1>12. CASE AnswerError
  BY <1>0, <1>12, <1>s DEF AnswerError
<1>13. CASE Execute
  <2>1. pc = "execute" /\ Executor!Next /\ UNCHANGED ctlVars
        /\ faulty' = (faulty \/ session' = "poisoned")
    BY <1>13 DEF Execute
  <2>2. ExecutorInv'
    BY <2>1, ExecutorInvNext DEF EarnedInv
  <2>3. RecordsInv'
    BY <2>2, ExecutorLeavesRecords, PTL
  <2>4. session' \in {"usable", "poisoned"}
    BY <2>2 DEF ExecutorInv, Proven!TypeInv, Proven!TypeOK
  <2>5. QED
    BY <1>0, <1>s, <2>1, <2>3, <2>4 DEF ctlVars
<1>14. CASE UNCHANGED vars
  BY <1>0, <1>14, <1>r, <1>s DEF vars, ctlVars, dbVars
<1>15. QED
  BY <1>1, <1>2, <1>3, <1>4, <1>5, <1>6, <1>7, <1>8, <1>9, <1>10, <1>11, <1>12, <1>13, <1>14
     DEF Next, Controller

(* The state of the controller keeps its shape, the counts it writes into   *)
(* rows of the table included, and it never answers without a status.       *)
THEOREM ControllerTypes == Spec => []TypeOK
<1>1. TypeInv => TypeOK
  BY DEF TypeInv
<1>2. QED
  BY <1>1, TypeInit, TypeNext, RoundsInvariant, EarnedInvariant, PTL DEF Spec

-------------------------------------------------------------------------------
(* Retries *)

(* When an execution ends without a failure, every step has returned and    *)
(* its attempts are those in its audit row.                                 *)
LEMMA RetriesOfSuccess ==
  ASSUME ExecutorInv, phase = "done", session = "usable", ~ExecutionHadFailure
  PROVE  RetriesReported = SumFunction([s \in Steps |-> audit[s][1].retry_count])
<1>1. ASSUME NEW s \in Steps
      PROVE  audit[s] = <<[status |-> "success", retry_count |-> attempt[s]]>>
  BY ExecutorAssumptions, Proven!DoneWithoutFailure
     DEF ExecutionHadFailure, ExecutorInv, Proven!Steps, Proven!Row, Steps
<1>2. ASSUME NEW s \in Steps PROVE returned[s] # "nothing"
  <2>1. audit[s] # <<>>
    <3> DEFINE row == [status |-> "success", retry_count |-> attempt[s]]
    <3>1. audit[s] = <<row>>
      BY <1>1
    <3> HIDE DEF row
    <3>2. QED
      BY <3>1
  <2>2. audit[s] \in {<<>>, Proven!AuditOf(s)}
    BY DEF ExecutorInv, Proven!AuditAgrees, Proven!Steps, Steps
  <2>3. co[s] = "returned"
    BY <2>1, <2>2 DEF Proven!AuditOf
  <2>4. QED
    BY <2>3 DEF ExecutorInv, Proven!TypeInv, Proven!ResultsReturned, Proven!Steps, Steps
<1>3. {s \in Steps : returned[s] # "nothing"} = Steps
  BY <1>2
<1>4. attempt = [s \in Steps |-> audit[s][1].retry_count]
  <2>1. attempt \in [Steps -> Nat]
    BY ExecutorLeavesRecords DEF RecordsInv
  <2>2. ASSUME NEW s \in Steps PROVE audit[s][1].retry_count = attempt[s]
    <3> DEFINE row == [status |-> "success", retry_count |-> attempt[s]]
    <3>1. audit[s] = <<row>> /\ row.retry_count = attempt[s]
      BY <1>1
    <3> HIDE DEF row
    <3>2. audit[s][1] = row
      BY <3>1
    <3>3. QED
      BY <3>1, <3>2
  <2>3. QED
    BY <2>1, <2>2
<1>5. DOMAIN attempt = Steps
  BY <1>4
<1>6. QED
  BY <1>3, <1>4, <1>5 DEF RetriesReported, SumFunction

LEMMA RetriesNext == RoundsInv /\ EarnedInv /\ RetriesAudited /\ [Next]_vars => RetriesAudited'
<1> SUFFICES ASSUME RoundsInv, EarnedInv, RetriesAudited, [Next]_vars,
                    pc' = "answer", response' = "success", ~faulty'
             PROVE  RetriesAudited'
  BY DEF RetriesAudited
<1>1. CASE Succeed
  <2>1. /\ Finalize("completed", TRUE, verification) /\ UNCHANGED execVars
        /\ ExecutorInv /\ phase = "done" /\ ~ExecutionHadFailure /\ runs # <<>>
    BY <1>1 DEF Succeed, Successful, EarnedInv, RoundsInv, LastIs
  <2>2. session = "usable"
    BY <2>1 DEF Finalize
  <2>3. runs'[Len(runs)] = Summary("completed", TRUE, verification) /\ Len(runs') = Len(runs)
    BY <2>1, Finalized DEF RoundsInv
  <2>4. Summary("completed", TRUE, verification).retry_count = RetriesReported
    BY DEF Summary
  <2>5. runs'[Len(runs')].retry_count = SumFunction([s \in Steps |-> audit[s][1].retry_count])
    BY <2>1, <2>2, <2>3, <2>4, RetriesOfSuccess
  <2>6. QED
    BY <2>1, <2>5 DEF RetriesAudited, Steps, execVars
<1>2. CASE UNCHANGED vars
  BY <1>2 DEF vars, execVars, ctlVars, dbVars, RetriesAudited, Steps
<1>3. CASE Next /\ ~Succeed
  BY <1>3 DEF Next, Controller, PlanningFails, CreatePlan, PassRiskGate, RequestApproval,
     ExecutionFails, Verify, MisreadVerdict, Replan, GiveUp, Answer, AnswerError, Execute,
     ctlVars
<1>4. QED
  BY <1>1, <1>2, <1>3

(* The retries in the row of a success are the sum of its audit rows,       *)
(* although one is counted from results and the other from the database.    *)
THEOREM RetriesAuditedHolds == Spec => []RetriesAudited
<1>1. Init => RetriesAudited
  BY DEF Init, RetriesAudited
<1>2. QED
  BY <1>1, RetriesNext, RoundsInvariant, EarnedInvariant, PTL DEF Spec

-------------------------------------------------------------------------------
(* The steps of a request *)

ExecutionBound == (2 * MaxToolRetries + 8) * MaxPlanSteps + 2

(* A plan over the limit is refused at once, however long it is. *)
ExecutionLeft ==
  IF phase = "start" /\ Len(plan) > MaxPlanSteps THEN 1 ELSE Proven!StepsLeft

LaterRounds == (MaxRetries - round) * (ExecutionBound + 4)

(* At most how many steps of the controller and of the executions it calls  *)
(* are left until the client has its answer: of the round under way, of the *)
(* rounds that may follow, and of the end.                                  *)
RequestLeft ==
  CASE pc = "plan"      -> LaterRounds + ExecutionBound + 7
    [] pc = "risk"      -> LaterRounds + ExecutionLeft + 6
    [] pc = "execute"   -> LaterRounds + ExecutionLeft + 5
    [] pc = "judge"     -> LaterRounds + 4
    [] pc = "give_up"   -> 3
    [] pc = "answer"    -> 2
    [] pc = "error"     -> 1
    [] pc = "responded" -> 0

(* Replanning, retries and failures never add up to more than the limits    *)
(* allow: each step of a request, of the controller or of an execution,     *)
(* brings its answer nearer, by a number that is fixed when it arrives.     *)
RequestIsBounded == [][RequestLeft' \in 0 .. RequestLeft - 1]_vars

ExecutionLeftIsNatural == ExecutionLeft \in Nat

LEMMA ExecutionLeftType == ExecutorInv => ExecutionLeftIsNatural
<1> SUFFICES ASSUME ExecutorInv PROVE ExecutionLeft \in Nat
  BY DEF ExecutionLeftIsNatural
<1>1. Proven!StepsLeft \in Nat
  BY ExecutorAssumptions, Proven!StepsLeftIs DEF ExecutorInv, Proven!LeftIsNatural
<1>2. QED
  BY <1>1 DEF ExecutionLeft

LEMMA ExecutionLeftNext ==
  ExecutorInv /\ ExecutorInv' /\ Executor!Next => ExecutionLeft' < ExecutionLeft
<1> SUFFICES ASSUME ExecutorInv, ExecutorInv', Executor!Next
             PROVE  ExecutionLeft' < ExecutionLeft
  OBVIOUS
<1>1. Proven!Next
  BY SameExecutor
<1>2. Proven!StepsLeft' < Proven!StepsLeft
  BY <1>1, ExecutorAssumptions, Proven!StepsLeftNext DEF ExecutorInv
<1>3. phase' # "start" /\ (phase = "start" => Proven!Start)
  BY <1>1, ExecutorAssumptions, Proven!StartsOnce
<1>4. ExecutionLeft' = Proven!StepsLeft'
  BY <1>3 DEF ExecutionLeft
<1>5. CASE phase = "start" /\ Len(plan) > MaxPlanSteps
  <2>1. phase' = "oversized"
    BY <1>3, <1>5 DEF Proven!Start
  <2>2. Proven!StepsLeft' = 0
    BY <2>1 DEF Proven!StepsLeft, Proven!Terminal
  <2>3. QED
    BY <1>4, <1>5, <2>2 DEF ExecutionLeft
<1>6. CASE ~(phase = "start" /\ Len(plan) > MaxPlanSteps)
  BY <1>2, <1>4, <1>6 DEF ExecutionLeft
<1>7. QED
  BY <1>5, <1>6

ExecutionStartsBounded == ExecutionBound \in Nat /\ ExecutionLeft <= ExecutionBound

LEMMA ExecutionLeftAtStart == Proven!Init => ExecutionStartsBounded
<1> SUFFICES ASSUME Proven!Init PROVE ExecutionStartsBounded
  OBVIOUS
<1> DEFINE c == 2 * MaxToolRetries + 8
<1>1. c \in Nat /\ MaxPlanSteps \in Nat
  BY ExecutorAssumption
<1>2. Proven!StepsLeft = c * Len(plan) + 2 /\ Len(plan) \in Nat
  BY ExecutorAssumptions, Proven!StepsLeftAtStart
<1>3. ExecutionBound = c * MaxPlanSteps + 2
  BY DEF ExecutionBound
<1>4. phase = "start"
  BY DEF Proven!Init, Proven!Fresh
<1> HIDE DEF c
<1>5. c * MaxPlanSteps \in Nat
  BY <1>1
<1>6. Len(plan) <= MaxPlanSteps => c * Len(plan) <= c * MaxPlanSteps
  BY <1>1, <1>2
<1>7. c * Len(plan) \in Nat
  BY <1>1, <1>2
<1>8. QED
  BY <1>1, <1>2, <1>3, <1>4, <1>5, <1>6, <1>7 DEF ExecutionLeft, ExecutionStartsBounded

LEMMA BoundsAreNatural ==
  RoundsInv => /\ ExecutionBound \in Nat /\ MaxRetries \in Nat /\ round \in Nat
               /\ pc \in {"plan", "risk", "execute", "judge"} => LaterRounds \in Nat
<1> SUFFICES ASSUME RoundsInv
             PROVE  /\ ExecutionBound \in Nat /\ MaxRetries \in Nat /\ round \in Nat
                    /\ pc \in {"plan", "risk", "execute", "judge"} => LaterRounds \in Nat
  OBVIOUS
<1>1. ASSUME NEW a \in Nat, NEW b \in Nat PROVE a * b \in Nat
  BY <1>1
<1>2. (2 * MaxToolRetries + 8) * MaxPlanSteps \in Nat
  BY <1>1, ExecutorAssumption
<1>3. ExecutionBound \in Nat /\ MaxRetries \in Nat /\ round \in Nat
  BY <1>2, ControllerAssumption DEF ExecutionBound, RoundsInv
<1>4. pc \in {"plan", "risk", "execute", "judge"} =>
        MaxRetries - round \in Nat /\ ExecutionBound + 4 \in Nat
  BY <1>3 DEF RoundsInv
<1>5. QED
  BY <1>1, <1>3, <1>4 DEF LaterRounds

RequestLeftIs ==
  /\ RequestLeft \in Nat
  /\ pc \in {"plan", "risk", "execute", "judge"} => RequestLeft > 3

LEMMA RequestLeftType == TypeOK /\ RoundsInv /\ EarnedInv => RequestLeftIs
<1> SUFFICES ASSUME TypeOK, RoundsInv, EarnedInv PROVE RequestLeftIs
  OBVIOUS
<1>1. /\ ExecutionBound \in Nat
      /\ pc \in {"plan", "risk", "execute", "judge"} => LaterRounds \in Nat
      /\ pc \in {"risk", "execute"} => ExecutionLeft \in Nat
  BY BoundsAreNatural, ExecutionLeftType DEF EarnedInv, ExecutionLeftIsNatural
<1>2. pc \in {"plan", "risk", "execute", "judge", "give_up", "answer", "error", "responded"}
  BY DEF TypeOK
<1>3. CASE pc \in {"plan", "risk"}
  BY <1>1, <1>3 DEF RequestLeft, RequestLeftIs
<1>4. CASE pc \in {"execute", "judge"}
  BY <1>1, <1>4 DEF RequestLeft, RequestLeftIs
<1>5. CASE pc \in {"give_up", "answer", "error", "responded"}
  BY <1>5 DEF RequestLeft, RequestLeftIs
<1>6. QED
  BY <1>2, <1>3, <1>4, <1>5

BoundedInv == TypeOK /\ RoundsInv /\ EarnedInv

LEMMA RequestNext ==
  BoundedInv /\ BoundedInv' /\ Next => RequestLeft' \in 0 .. RequestLeft - 1
<1> SUFFICES ASSUME BoundedInv, BoundedInv', Next PROVE RequestLeft' < RequestLeft
  <2>1. BoundedInv => RequestLeft \in Nat
    BY RequestLeftType DEF BoundedInv, RequestLeftIs
  <2>2. BoundedInv' => RequestLeftIs'
    BY RequestLeftType, PTL DEF BoundedInv
  <2>3. BoundedInv' => RequestLeft' \in Nat
    BY <2>2 DEF RequestLeftIs
  <2>4. ASSUME NEW a \in Nat, NEW b \in Nat, a < b PROVE a \in 0 .. b - 1
    BY <2>4
  <2>5. QED
    BY <2>1, <2>3, <2>4
<1>a. RoundsInv /\ EarnedInv /\ EarnedInv'
  BY DEF BoundedInv
<1>0. /\ ExecutionBound \in Nat /\ MaxRetries \in Nat /\ round \in Nat
      /\ pc \in {"plan", "risk", "execute", "judge"} =>
           LaterRounds \in Nat /\ RequestLeft > 3
      /\ pc \in {"risk", "execute"} => ExecutionLeft \in Nat
      /\ RequestLeft \in Nat
  BY BoundsAreNatural, RequestLeftType, ExecutionLeftType
     DEF BoundedInv, EarnedInv, ExecutionLeftIsNatural, RequestLeftIs
<1>e. pc' \in {"give_up", "answer", "error", "responded"} => RequestLeft' \in 0 .. 3
  BY DEF RequestLeft
<1>k. UNCHANGED round => LaterRounds' = LaterRounds
  BY DEF LaterRounds
<1>v. UNCHANGED execVars => ExecutionLeft' = ExecutionLeft
  BY Proven!StepsLeftStands, ExecutorAssumptions DEF execVars, ExecutionLeft
<1>x. pc' \in {"risk", "execute"} => ExecutionLeft' \in Nat
  <2>1. ExecutorInv' => ExecutionLeftIsNatural'
    BY ExecutionLeftType, PTL
  <2>2. QED
    BY <1>a, <2>1 DEF EarnedInv, ExecutionLeftIsNatural
<1>1. CASE PlanningFails \/ RequestApproval \/ ExecutionFails \/ MisreadVerdict \/ Succeed
  <2>1. pc \in {"plan", "risk", "execute", "judge"} /\ pc' \in {"answer", "error"}
    BY <1>1 DEF PlanningFails, RequestApproval, ExecutionFails, MisreadVerdict, Succeed
  <2>2. QED
    BY <1>0, <1>e, <2>1
<1>2. CASE CreatePlan
  <2>1. CASE pc' = "error"
    BY <1>0, <1>2, <1>e, <2>1 DEF CreatePlan
  <2>2. CASE pc' = "risk"
    <3>1. DbAnswers /\ UNCHANGED round /\ pc = "plan"
      BY <1>2, <2>2 DEF CreatePlan
    <3>2. Proven!Init'
      BY <1>2, <3>1 DEF CreatePlan, DbAnswers, dbVars, Executor!Load,
                        Proven!Init, Proven!Fresh, Proven!Steps
    <3>3. Proven!Init' => ExecutionStartsBounded'
      BY ExecutionLeftAtStart, PTL
    <3>4. ExecutionLeft' <= ExecutionBound
      BY <3>2, <3>3 DEF ExecutionStartsBounded, ExecutionBound
    <3>5. RequestLeft' = LaterRounds + ExecutionLeft' + 6
      BY <1>k, <2>2, <3>1 DEF RequestLeft
    <3>6. RequestLeft = LaterRounds + ExecutionBound + 7
      BY <3>1 DEF RequestLeft
    <3>7. QED
      BY <1>0, <1>x, <2>2, <3>1, <3>4, <3>5, <3>6
  <2>3. QED
    BY <1>2, <2>1, <2>2 DEF CreatePlan
<1>3. CASE PassRiskGate
  <2>1. pc = "risk" /\ pc' = "execute" /\ UNCHANGED <<execVars, round>>
    BY <1>3 DEF PassRiskGate
  <2>2. RequestLeft = LaterRounds + ExecutionLeft + 6
        /\ RequestLeft' = LaterRounds + ExecutionLeft + 5
    BY <1>k, <1>v, <2>1 DEF RequestLeft
  <2>3. QED
    BY <1>0, <2>1, <2>2
<1>4. CASE Execute
  <2>1. pc = "execute" /\ UNCHANGED <<pc, round>> /\ Executor!Next
    BY <1>4 DEF Execute, ctlVars
  <2>2. ExecutionLeft' < ExecutionLeft
    BY <1>a, <2>1, ExecutionLeftNext DEF EarnedInv
  <2>3. RequestLeft = LaterRounds + ExecutionLeft + 5
        /\ RequestLeft' = LaterRounds + ExecutionLeft' + 5
    BY <1>k, <2>1 DEF RequestLeft
  <2>4. QED
    BY <1>0, <1>x, <2>1, <2>2, <2>3
<1>5. CASE Verify
  <2>1. pc = "execute" /\ pc' = "judge" /\ UNCHANGED round
    BY <1>5 DEF Verify
  <2>2. RequestLeft = LaterRounds + ExecutionLeft + 5 /\ RequestLeft' = LaterRounds + 4
    BY <1>k, <2>1 DEF RequestLeft
  <2>3. QED
    BY <1>0, <2>1, <2>2
<1>6. CASE Replan
  <2>1. pc = "judge" /\ round' = round + 1 /\ round <= MaxRetries
        /\ pc' = IF round' <= MaxRetries THEN "plan" ELSE "give_up"
    BY <1>6, <1>a DEF Replan, RoundsInv
  <2>2. CASE pc' = "give_up"
    BY <1>0, <1>e, <2>1, <2>2
  <2>3. CASE pc' = "plan"
    <3> DEFINE length == ExecutionBound + 4
    <3>1. round' <= MaxRetries /\ length \in Nat
      BY <1>0, <2>1, <2>3
    <3>2. MaxRetries - round = (MaxRetries - round') + 1 /\ MaxRetries - round' \in Nat
      BY <1>0, <2>1, <3>1
    <3>3. ASSUME NEW a \in Nat, NEW b \in Nat PROVE (a + 1) * b = a * b + b /\ a * b \in Nat
      BY <3>3
    <3>4. LaterRounds' = (MaxRetries - round') * length
          /\ LaterRounds = (MaxRetries - round) * length
      BY DEF LaterRounds, ExecutionBound
    <3>5. RequestLeft' = LaterRounds' + length + 3 /\ RequestLeft = LaterRounds + 4
      <4>1. RequestLeft' = LaterRounds' + ExecutionBound + 7 /\ RequestLeft = LaterRounds + 4
        BY <2>1, <2>3 DEF RequestLeft, ExecutionBound
      <4>2. LaterRounds' \in Nat
        BY <3>1, <3>2, <3>3, <3>4
      <4>3. QED
        BY <1>0, <4>1, <4>2
    <3> HIDE DEF length
    <3>6. LaterRounds = LaterRounds' + length /\ LaterRounds' \in Nat
      BY <3>1, <3>2, <3>3, <3>4
    <3>7. ASSUME NEW a \in Nat, NEW b \in Nat PROVE a + b + 3 < (a + b) + 4
      BY <3>7
    <3>8. LaterRounds' + length + 3 < (LaterRounds' + length) + 4
      BY <3>1, <3>6, <3>7
    <3>9. QED
      BY <3>5, <3>6, <3>8
  <2>4. QED
    BY <2>1, <2>2, <2>3
<1>7. CASE GiveUp
  <2>1. RequestLeft = 3
    BY <1>7 DEF GiveUp, RequestLeft
  <2>2. pc' \in {"answer", "error"}
    BY <1>7 DEF GiveUp
  <2>3. RequestLeft' \in {1, 2}
    BY <2>2 DEF RequestLeft
  <2>4. QED
    BY <2>1, <2>3
<1>8. CASE Answer
  BY <1>8 DEF Answer, RequestLeft
<1>9. CASE AnswerError
  BY <1>9 DEF AnswerError, RequestLeft
<1>10. QED
  BY <1>1, <1>2, <1>3, <1>4, <1>5, <1>6, <1>7, <1>8, <1>9 DEF Next, Controller

(* A request is over after a number of steps that the limits alone bound,   *)
(* whatever plans the rounds have, whatever fails and is tried again: as    *)
(* many as MaxRetries + 1 executions of plans of MaxPlanSteps can take,     *)
(* four more for each of these, and three.                                  *)
THEOREM RequestIsBoundedHolds == Spec => RequestIsBounded
<1>1. Spec => []BoundedInv
  BY ControllerTypes, RoundsInvariant, EarnedInvariant, PTL DEF BoundedInv
<1>2. QED
  BY <1>1, RequestNext, PTL DEF Spec, RequestIsBounded
===============================================================================
