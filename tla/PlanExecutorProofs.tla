-------------------------- MODULE PlanExecutorProofs --------------------------
(***************************************************************************)
(* What holds of PlanExecutor for every set of validated plans and every   *)
(* limit.                                                                  *)
(***************************************************************************)
EXTENDS PlanExecutor, SumTheorems

-------------------------------------------------------------------------------
(* Type correctness *)

(* A coroutine that sleeps has an attempt left. *)
SleepersMayRetry ==
  \A s \in Steps : co[s] = "sleeping" => attempt[s] + 1 < MaxToolRetries

(* What gather hands back is there to be stored. *)
ResultsReturned ==
  /\ \A s \in Steps : co[s] = "returned" => returned[s] # "nothing"
  /\ phase = "store" => \A s \in todo : co[s] = "returned"

TypeInv == TypeOK /\ plan \in Plans /\ SleepersMayRetry /\ ResultsReturned

LEMMA TypeInvInit == Init => TypeInv
BY PlansAssumption, LimitsAssumption
   DEF Init, Fresh, TypeInv, TypeOK, SleepersMayRetry, ResultsReturned, Steps, Phases, CoStates

LEMMA StepFields ==
  ASSUME TypeOK, NEW s \in Steps
  PROVE  /\ plan[s].step_id \in Ids
         /\ plan[s].depends_on \subseteq Ids
         /\ plan[s].tool \in ToolKinds
<1>1. plan[s] \in Step
  BY DEF TypeOK, Steps
<1>2. QED
  BY <1>1 DEF Step

(* create_step_log appends at most one row. *)
LEMMA LogStepTypes ==
  ASSUME TypeInv, NEW s \in Steps, NEW status \in {"success", "failed"},
         LogStep(s, status), plan' = plan
  PROVE  /\ audit' \in [Steps -> Seq([status : {"success", "failed"}, retry_count : Nat])]
         /\ session' \in {"usable", "poisoned"}
<1> DEFINE Rows == [status : {"success", "failed"}, retry_count : Nat]
<1>1. Row(status, attempt[s]) \in Rows
  BY LimitsAssumption DEF Row, TypeInv, TypeOK
<1>2. audit \in [Steps -> Seq(Rows)]
  BY DEF TypeInv, TypeOK
<1> HIDE DEF Rows
<1>3. Append(audit[s], Row(status, attempt[s])) \in Seq(Rows)
  BY <1>1, <1>2
<1>4. audit' \in [Steps -> Seq(Rows)]
  BY <1>2, <1>3 DEF LogStep, dbVars
<1>5. session' \in {"usable", "poisoned"}
  BY DEF LogStep, dbVars, TypeInv, TypeOK
<1>6. QED
  BY <1>4, <1>5 DEF Rows

LEMMA TypeInvNext == TypeInv /\ [Next]_vars => TypeInv'
<1> SUFFICES ASSUME TypeInv, [Next]_vars PROVE TypeInv'
  OBVIOUS
<1> USE LimitsAssumption
    DEF TypeInv, TypeOK, SleepersMayRetry, ResultsReturned, Steps, Phases, CoStates, planVars, coVars, dbVars
<1>1. CASE Start
  BY <1>1 DEF Start
<1>2. CASE FindReady
  BY <1>2 DEF FindReady
<1>3. CASE Finish
  BY <1>3 DEF Finish
<1>4. CASE StartGather
  BY <1>4 DEF StartGather
<1>5. CASE EndGather
  BY <1>5 DEF EndGather, Runnable
<1>6. CASE EndWave
  BY <1>6 DEF EndWave
<1>7. ASSUME NEW s \in Steps, SkipStep(s) PROVE TypeInv'
  BY <1>7, StepFields DEF SkipStep
<1>8. ASSUME NEW s \in Steps, QueueStep(s) PROVE TypeInv'
  BY <1>8 DEF QueueStep
<1>9. ASSUME NEW s \in Steps, StoreResult(s) PROVE TypeInv'
  BY <1>9, StepFields DEF StoreResult, IsNext
<1>10. ASSUME NEW s \in Steps, BeginStep(s) PROVE TypeInv'
  BY <1>10 DEF BeginStep, Admitted, CallTool
<1>11. ASSUME NEW s \in Steps, RefuseStep(s) PROVE TypeInv'
  BY <1>11 DEF RefuseStep, Return
<1>12. ASSUME NEW s \in Steps, ToolSucceeds(s) PROVE TypeInv'
  <2>1. /\ audit' \in [Steps -> Seq([status : {"success", "failed"}, retry_count : Nat])]
        /\ session' \in {"usable", "poisoned"}
    BY <1>12, LogStepTypes DEF ToolSucceeds
  <2>2. QED
    BY <1>12, <2>1 DEF ToolSucceeds, Return
<1>13. ASSUME NEW s \in Steps, ToolFails(s) PROVE TypeInv'
  BY <1>13 DEF ToolFails
<1>14. ASSUME NEW s \in Steps, ToolFailsForGood(s) PROVE TypeInv'
  <2>1. /\ audit' \in [Steps -> Seq([status : {"success", "failed"}, retry_count : Nat])]
        /\ session' \in {"usable", "poisoned"}
    BY <1>14, LogStepTypes DEF ToolFailsForGood
  <2>2. QED
    BY <1>14, <2>1 DEF ToolFailsForGood, Return
<1>15. ASSUME NEW s \in Steps, RetryTool(s) PROVE TypeInv'
  BY <1>15 DEF RetryTool, CallTool
<1>16. CASE Deadline
  BY <1>16 DEF Deadline
<1>17. CASE UNCHANGED vars
  BY <1>17 DEF vars
<1>18. QED
  BY <1>1, <1>2, <1>3, <1>4, <1>5, <1>6, <1>7, <1>8, <1>9, <1>10, <1>11, <1>12,
     <1>13, <1>14, <1>15, <1>16, <1>17
     DEF Next, WaveLoop, Coroutine

LEMMA TypeInvariant == Spec => []TypeInv
BY TypeInvInit, TypeInvNext, PTL DEF Spec

(* The variables keep their types whatever the plans and the limits. *)
THEOREM TypeCorrect == Spec => []TypeOK
<1>1. TypeInv => TypeOK
  BY DEF TypeInv
<1>2. QED
  BY <1>1, TypeInvariant, PTL

-------------------------------------------------------------------------------
(* The books of the wave loop, for any validated plan *)

InWave == phase \in {"classify", "gather", "store"}

(* todo is the rest of a for loop, ready the current wave. *)
LoopsInv ==
  /\ phase \notin {"classify", "store"} => todo = {}
  /\ ~InWave /\ phase # "cancelled" => ready = {}
  /\ phase = "done" => pending = {}

(* Only the current wave has live coroutines, and a step gets one at most   *)
(* once, when the loop reaches it.                                          *)
CoroutinesInv ==
  /\ \A s \in Steps : s \notin ready /\ (s \in pending \/ phase = "start") => co[s] = "none"
  /\ phase = "classify" => \A s \in todo : co[s] = "none"
  /\ \A s \in Steps : co[s] = "queued" => s \in ready /\ phase \in {"classify", "gather"}
  /\ \A s \in Holding : s \in ready /\ phase = "gather"

(* Every step that has left the queue has a result, and so has every step   *)
(* of the current wave that the loops are done with.                        *)
RecordedInv ==
  /\ phase \notin {"start", "oversized"} =>
       \A s \in Steps \ pending : completed[plan[s].step_id] # "absent"
  /\ InWave => \A s \in ready \ todo :
       co[s] = "none" \/ phase = "store" => completed[plan[s].step_id] # "absent"

WaveInv == LoopsInv /\ CoroutinesInv /\ RecordedInv

LEMMA WaveInvInit == Init => WaveInv
BY DEF Init, Fresh, WaveInv, LoopsInv, CoroutinesInv, RecordedInv, InWave, Holding, Steps

LEMMA WaveInvNext == TypeInv /\ WaveInv /\ [Next]_vars => WaveInv'
<1> SUFFICES ASSUME TypeInv, WaveInv, [Next]_vars PROVE WaveInv'
  OBVIOUS
<1> USE DEF TypeInv, TypeOK, ResultsReturned, WaveInv, LoopsInv, CoroutinesInv, RecordedInv,
            InWave, Holding, Steps, planVars, coVars, dbVars
<1>1. CASE Start
  BY <1>1 DEF Start
<1>2. CASE FindReady
  BY <1>2 DEF FindReady
<1>3. CASE Finish
  BY <1>3 DEF Finish
<1>4. CASE StartGather
  BY <1>4 DEF StartGather, Runnable
<1>5. CASE EndGather
  BY <1>5 DEF EndGather, Runnable
<1>6. CASE EndWave
  BY <1>6 DEF EndWave
<1>7. ASSUME NEW s \in Steps, SkipStep(s) PROVE WaveInv'
  BY <1>7, StepFields DEF SkipStep, IsNext
<1>8. ASSUME NEW s \in Steps, QueueStep(s) PROVE WaveInv'
  BY <1>8 DEF QueueStep, IsNext
<1>9. ASSUME NEW s \in Steps, StoreResult(s) PROVE WaveInv'
  BY <1>9, StepFields DEF StoreResult, IsNext
<1>10. ASSUME NEW s \in Steps, BeginStep(s) PROVE WaveInv'
  BY <1>10 DEF BeginStep, Admitted, CallTool
<1>11. ASSUME NEW s \in Steps, RefuseStep(s) PROVE WaveInv'
  BY <1>11 DEF RefuseStep, Admitted, Return
<1>12. ASSUME NEW s \in Steps, ToolSucceeds(s) PROVE WaveInv'
  BY <1>12 DEF ToolSucceeds, Return
<1>13. ASSUME NEW s \in Steps, ToolFails(s) PROVE WaveInv'
  BY <1>13 DEF ToolFails
<1>14. ASSUME NEW s \in Steps, ToolFailsForGood(s) PROVE WaveInv'
  BY <1>14 DEF ToolFailsForGood, Return
<1>15. ASSUME NEW s \in Steps, RetryTool(s) PROVE WaveInv'
  BY <1>15 DEF RetryTool, CallTool
<1>16. CASE Deadline
  BY <1>16 DEF Deadline
<1>17. CASE UNCHANGED vars
  BY <1>17 DEF vars
<1>18. QED
  BY <1>1, <1>2, <1>3, <1>4, <1>5, <1>6, <1>7, <1>8, <1>9, <1>10, <1>11, <1>12,
     <1>13, <1>14, <1>15, <1>16, <1>17
     DEF Next, WaveLoop, Coroutine

LEMMA WaveInvariant == Spec => []WaveInv
BY WaveInvInit, WaveInvNext, TypeInvariant, PTL DEF Spec

-------------------------------------------------------------------------------
(* Validated plans never get stuck *)

LEMMA LeastNatural ==
  ASSUME NEW S \in SUBSET Nat, S # {}
  PROVE  \E n \in S : \A m \in S : n <= m
<1> DEFINE R == OpToRel(<, Nat)
<1>1. IsWellFoundedOn(R, Nat)
  BY NatLessThanWellFounded
<1>2. PICK n \in S : \A m \in S : ~ (<<m, n>> \in R)
  <2> HIDE DEF R
  <2>1. QED
    BY <1>1, WFMin
<1>3. \A m \in S : ~ (m < n)
  BY <1>2 DEF OpToRel
<1>4. QED
  BY <1>3

(* Every identifier is carried by a last copy. *)
LEMMA LastCopyExists ==
  ASSUME NEW p \in Seq(Step), NEW i \in IdsOf(p)
  PROVE  \E s \in DOMAIN p : p[s].step_id = i /\ LastCopy(p, s)
<1> DEFINE Copies == {s \in DOMAIN p : p[s].step_id = i}
           Back   == {Len(p) - s : s \in Copies}
<1>1. /\ DOMAIN p = 1 .. Len(p)
      /\ Len(p) \in Nat
  OBVIOUS
<1>2. Back \subseteq Nat /\ Back # {}
  BY <1>1 DEF IdsOf
<1>3. PICK n \in Back : \A m \in Back : n <= m
  BY <1>2, LeastNatural
<1>4. PICK s \in Copies : n = Len(p) - s
  BY <1>3
<1>5. ASSUME NEW t \in Copies PROVE t <= s
  <2>1. Len(p) - s <= Len(p) - t
    BY <1>3, <1>4
  <2>2. s \in Nat /\ t \in Nat
    BY <1>1
  <2>3. QED
    BY <1>1, <2>1, <2>2
<1>6. QED
  BY <1>4, <1>5 DEF LastCopy

(* In a validated plan, if each identifier without a result were waiting    *)
(* for another one without a result, the ranks of acyclicity would descend  *)
(* for ever: so a wave that has steps left has one that is ready.           *)
LEMMA SomeStepIsReady ==
  ASSUME TypeInv, WaveInv, phase = "wave", pending # {}
  PROVE  \E s \in pending : DependenciesMet(s)
<1> USE DEF TypeInv, TypeOK, Steps
<1>1. plan \in Seq(Step) /\ KnownDependencies(plan) /\ Acyclic(plan)
  BY PlansAssumption DEF Validated
<1>2. PICK rank \in [IdsOf(plan) -> 1 .. Len(plan)] :
        \A s \in DOMAIN plan :
          LastCopy(plan, s) =>
            \A d \in plan[s].depends_on : rank[d] < rank[plan[s].step_id]
  BY <1>1 DEF Acyclic
<1>3. SUFFICES ASSUME \A s \in pending : ~DependenciesMet(s)
               PROVE  FALSE
  OBVIOUS
<1> DEFINE Open  == {i \in IdsOf(plan) : completed[i] = "absent"}
           Ranks == {rank[i] : i \in Open}
<1>4. \A s \in pending : \E d \in plan[s].depends_on : d \in Open
  <2> TAKE s \in pending
  <2>1. PICK d \in plan[s].depends_on : d \notin Completed
    BY <1>3 DEF DependenciesMet
  <2>2. d \in Ids /\ d \in IdsOf(plan)
    BY <1>1, StepFields DEF KnownDependencies
  <2>3. QED
    BY <2>1, <2>2 DEF Completed
<1>5. Ranks # {} /\ Ranks \subseteq Nat
  <2>1. Len(plan) \in Nat
    BY <1>1
  <2>2. QED
    BY <1>4, <2>1
<1>6. PICK n \in Ranks : \A m \in Ranks : n <= m
  BY <1>5, LeastNatural
<1>7. PICK i \in Open : n = rank[i]
  BY <1>6
<1>8. PICK s \in DOMAIN plan : plan[s].step_id = i /\ LastCopy(plan, s)
  BY <1>1, LastCopyExists
<1>9. s \in pending
  BY <1>8 DEF WaveInv, RecordedInv
<1>10. PICK d \in plan[s].depends_on : d \in Open
  BY <1>4, <1>9
<1>11. rank[d] < rank[i]
  BY <1>2, <1>8, <1>10
<1>12. rank[i] <= rank[d]
  BY <1>6, <1>7, <1>10
<1>13. rank[d] \in Nat /\ rank[i] \in Nat
  BY <1>5, <1>10, <1>7
<1>14. QED
  BY <1>11, <1>12, <1>13

LEMMA NeverCircularNext ==
  TypeInv /\ WaveInv /\ NeverCircular /\ [Next]_vars => NeverCircular'
<1> SUFFICES ASSUME TypeInv, WaveInv, NeverCircular, [Next]_vars PROVE NeverCircular'
  OBVIOUS
<1>1. CASE FindReady
  BY <1>1, SomeStepIsReady DEF FindReady, NeverCircular
<1>2. CASE [Next]_vars /\ ~FindReady
  BY <1>2 DEF NeverCircular, Next, WaveLoop, Coroutine, Start, Finish, SkipStep,
     QueueStep, StartGather, EndGather, StoreResult, EndWave, BeginStep, RefuseStep,
     ToolSucceeds, ToolFails, ToolFailsForGood, RetryTool, Deadline, vars
<1>3. QED
  BY <1>1, <1>2

(* The error that execute_plan raises for a circular graph is unreachable   *)
(* for plans that PlanValidator accepted, with or without duplicate         *)
(* identifiers, whichever steps fail or are skipped.                        *)
THEOREM ValidatedPlansNeverCircular == Spec => []NeverCircular
<1>1. Init => NeverCircular
  BY DEF Init, Fresh, NeverCircular
<1>2. QED
  BY <1>1, NeverCircularNext, TypeInvariant, WaveInvariant, PTL DEF Spec

-------------------------------------------------------------------------------
(* Only tools the registry knows are called *)

CalledToolsRegistered == \A s \in Holding : plan[s].tool # "unregistered"

LEMMA CalledToolsRegisteredInit == Init => CalledToolsRegistered
BY DEF Init, Fresh, CalledToolsRegistered, Holding, Steps

LEMMA CalledToolsRegisteredNext ==
  TypeInv /\ CalledToolsRegistered /\ [Next]_vars => CalledToolsRegistered'
BY DEF CalledToolsRegistered, Holding, Steps, TypeInv, TypeOK,
     coVars, vars, Next, WaveLoop, Coroutine, Start, FindReady, Finish, SkipStep,
     QueueStep, StartGather, EndGather, StoreResult, EndWave, BeginStep, RefuseStep,
     ToolSucceeds, ToolFails, ToolFailsForGood, RetryTool, Deadline, CallTool, Return

LEMMA CalledToolsRegisteredInvariant == Spec => []CalledToolsRegistered
BY CalledToolsRegisteredInit, CalledToolsRegisteredNext, TypeInvariant, PTL DEF Spec

-------------------------------------------------------------------------------
(* The audit trail agrees with the results, with or without duplicates *)

LEMMA AuditAgreesInit == Init => AuditAgrees
BY DEF Init, Fresh, AuditAgrees, AuditOf, Steps

(* A coroutine that returns after create_step_log has the row of its        *)
(* result, or the session is no longer usable.                              *)
LEMMA LoggedReturn ==
  ASSUME TypeInv, AuditAgrees, NEW s \in Steps, co[s] = "calling",
         plan' = plan, attempt' = attempt, plan[s].tool # "unregistered",
         NEW result, NEW status,
         <<result, status>> \in {<<"output", "success">>, <<"error", "failed">>},
         LogStep(s, status), Return(s, result)
  PROVE  AuditAgrees'
<1> USE DEF TypeInv, TypeOK, Steps
<1>1. ASSUME NEW t \in Steps, t # s PROVE AuditOf(t)' = AuditOf(t)
  BY <1>1 DEF AuditOf, Return
<1>2. AuditOf(s) = <<>> /\ audit[s] = <<>>
  BY DEF AuditAgrees, AuditOf
<1>3. AuditOf(s)' = <<Row(status, attempt[s])>>
  BY DEF AuditOf, Return, Row
<1>4. \A t \in Steps : t # s => audit'[t] = audit[t]
  BY DEF LogStep, dbVars
<1> DEFINE row == Row(status, attempt[s])
<1>5. Append(<<>>, row) = <<row>>
  <2> HIDE DEF row
  <2>1. QED
    OBVIOUS
<1>6. /\ audit'[s] \in {<<>>, AuditOf(s)'}
      /\ Audited /\ session' = "usable" => session = "usable" /\ audit'[s] = AuditOf(s)'
  <2>1. CASE UNCHANGED audit
    BY <1>2, <2>1 DEF LogStep, dbVars
  <2>2. CASE audit' = [audit EXCEPT ![s] = Append(@, row)] /\ session = "usable"
    BY <1>2, <1>3, <1>5, <2>2
  <2>3. QED
    BY <2>1, <2>2 DEF LogStep, dbVars
<1>7. QED
  BY <1>1, <1>4, <1>6 DEF AuditAgrees

LEMMA AuditAgreesNext ==
  TypeInv /\ WaveInv /\ AuditAgrees /\ CalledToolsRegistered /\ [Next]_vars => AuditAgrees'
<1> SUFFICES ASSUME TypeInv, WaveInv, AuditAgrees, CalledToolsRegistered, [Next]_vars
             PROVE  AuditAgrees'
  OBVIOUS
<1> USE DEF TypeInv, TypeOK, Steps, coVars, dbVars
(* Steps that leave the coroutines and the rows alone, or move a coroutine  *)
(* that has not returned to a state that is not "returned" either.          *)
<1>1. ASSUME UNCHANGED <<plan, dbVars>>,
             \A s \in Steps : AuditOf(s)' = AuditOf(s)
      PROVE  AuditAgrees'
  BY <1>1 DEF AuditAgrees
<1>2. ASSUME UNCHANGED <<plan, coVars, dbVars>> PROVE AuditAgrees'
  BY <1>2 DEF AuditAgrees, AuditOf
<1>3. CASE WaveLoop /\ \A s \in Steps : ~QueueStep(s)
  BY <1>2, <1>3 DEF WaveLoop, Start, FindReady, Finish, StartGather, EndGather, EndWave,
     SkipStep, StoreResult
<1>4. ASSUME NEW s \in Steps, QueueStep(s) PROVE AuditAgrees'
  <2>1. co[s] = "none"
    BY <1>4 DEF QueueStep, IsNext, WaveInv, CoroutinesInv
  <2>2. QED
    BY <1>1, <1>4, <2>1 DEF QueueStep, AuditOf
<1>5. ASSUME NEW s \in Steps, BeginStep(s) PROVE AuditAgrees'
  BY <1>1, <1>5 DEF BeginStep, Admitted, CallTool, AuditOf
<1>6. ASSUME NEW s \in Steps, RefuseStep(s) PROVE AuditAgrees'
  <2>1. \A t \in Steps : AuditOf(t)' = AuditOf(t)
    BY <1>6 DEF RefuseStep, Admitted, Return, AuditOf
  <2>2. QED
    BY <1>1, <1>6, <2>1 DEF RefuseStep
<1>7. ASSUME NEW s \in Steps, ToolSucceeds(s) PROVE AuditAgrees'
  <2>1. /\ co[s] = "calling" /\ plan[s].tool # "unregistered"
        /\ plan' = plan /\ attempt' = attempt
        /\ LogStep(s, "success") /\ Return(s, "output")
    BY <1>7 DEF ToolSucceeds, CalledToolsRegistered, Holding
  <2>2. <<"output", "success">> \in {<<"output", "success">>, <<"error", "failed">>}
    OBVIOUS
  <2> HIDE DEF TypeInv, TypeOK, Steps, coVars, dbVars
  <2>3. QED
    BY <2>1, <2>2, LoggedReturn
<1>8. ASSUME NEW s \in Steps, ToolFails(s) PROVE AuditAgrees'
  BY <1>1, <1>8 DEF ToolFails, AuditOf
<1>9. ASSUME NEW s \in Steps, ToolFailsForGood(s) PROVE AuditAgrees'
  <2>1. /\ co[s] = "calling" /\ plan[s].tool # "unregistered"
        /\ plan' = plan /\ attempt' = attempt
        /\ LogStep(s, "failed") /\ Return(s, "error")
    BY <1>9 DEF ToolFailsForGood, CalledToolsRegistered, Holding
  <2>2. <<"error", "failed">> \in {<<"output", "success">>, <<"error", "failed">>}
    OBVIOUS
  <2> HIDE DEF TypeInv, TypeOK, Steps, coVars, dbVars
  <2>3. QED
    BY <2>1, <2>2, LoggedReturn
<1>10. ASSUME NEW s \in Steps, RetryTool(s) PROVE AuditAgrees'
  <2>1. \A t \in Steps : AuditOf(t)' = AuditOf(t)
    BY <1>10 DEF RetryTool, CallTool, AuditOf
  <2>2. QED
    BY <1>1, <1>10, <2>1 DEF RetryTool
<1>11. CASE Deadline
  BY <1>1, <1>11 DEF Deadline, AuditOf
<1>12. CASE UNCHANGED vars
  BY <1>2, <1>12 DEF vars
<1>13. QED
  BY <1>3, <1>4, <1>5, <1>6, <1>7, <1>8, <1>9, <1>10, <1>11, <1>12
     DEF Next, Coroutine

(* Rows and results never disagree, and no row is lost unless the database  *)
(* refused one.                                                             *)
THEOREM AuditTrailAgrees == Spec => []AuditAgrees
BY AuditAgreesInit, AuditAgreesNext, CalledToolsRegisteredInvariant,
   TypeInvariant, WaveInvariant, PTL DEF Spec

-------------------------------------------------------------------------------
(* The semaphore *)

LEMMA PartOfPlanFinite ==
  ASSUME NEW p \in Seq(Step), NEW S \in SUBSET DOMAIN p
  PROVE  IsFiniteSet(S) /\ Cardinality(S) \in Nat
<1>1. DOMAIN p = 1 .. Len(p) /\ Len(p) \in Nat
  OBVIOUS
<1>2. IsFiniteSet(DOMAIN p)
  BY <1>1, FS_Interval
<1>3. QED
  BY <1>2, FS_Subset, FS_CardinalityType

(* Only an admission adds a holder, and only while a permit is free. *)
LEMMA BoundedConcurrencyNext ==
  TypeInv /\ TypeInv' /\ BoundedConcurrency /\ [Next]_vars => BoundedConcurrency'
<1> SUFFICES ASSUME TypeInv, TypeInv', BoundedConcurrency, [Next]_vars
             PROVE  BoundedConcurrency'
  OBVIOUS
<1>1. /\ IsFiniteSet(Holding) /\ Cardinality(Holding) \in Nat
      /\ IsFiniteSet(Holding') /\ Cardinality(Holding') \in Nat
  BY PartOfPlanFinite DEF TypeInv, TypeOK, Holding, Steps
<1>2. ASSUME Holding' \subseteq Holding PROVE BoundedConcurrency'
  <2>1. Cardinality(Holding') <= Cardinality(Holding)
    BY <1>1, <1>2, FS_Subset
  <2>2. QED
    BY <1>1, <2>1, LimitsAssumption DEF BoundedConcurrency
<1>3. ASSUME NEW s \in Steps, BeginStep(s) PROVE BoundedConcurrency'
  <2>1. Holding' \subseteq Holding \cup {s}
    BY <1>3 DEF BeginStep, CallTool, Holding, Steps, TypeInv, TypeOK
  <2>2. Cardinality(Holding) < MaxParallelSteps
    BY <1>3 DEF BeginStep, Admitted
  <2>3. /\ IsFiniteSet(Holding \cup {s})
        /\ Cardinality(Holding \cup {s}) \in {Cardinality(Holding), Cardinality(Holding) + 1}
    BY <1>1, FS_AddElement
  <2>4. Cardinality(Holding') <= Cardinality(Holding \cup {s})
    BY <2>1, <2>3, FS_Subset
  <2>5. QED
    BY <1>1, <2>2, <2>3, <2>4, LimitsAssumption DEF BoundedConcurrency
<1>4. CASE [Next]_vars /\ \A s \in Steps : ~BeginStep(s)
  <2>1. Holding' \subseteq Holding
    BY <1>4 DEF Holding, Steps, TypeInv, TypeOK, vars, coVars, Next, WaveLoop, Coroutine,
       Start, FindReady, Finish, SkipStep, QueueStep, StartGather, EndGather, StoreResult,
       EndWave, RefuseStep, ToolSucceeds, ToolFails, ToolFailsForGood, RetryTool, Deadline,
       Return, CallTool
  <2>2. QED
    BY <1>2, <2>1
<1>5. QED
  BY <1>3, <1>4

(* MAX_PARALLEL_STEPS bounds the tools in progress, sleeping retries        *)
(* included, for every plan.                                                *)
THEOREM ConcurrencyIsBounded == Spec => []BoundedConcurrency
<1>1. Init => BoundedConcurrency
  <2> SUFFICES ASSUME Init PROVE BoundedConcurrency
    OBVIOUS
  <2>1. Holding = {}
    BY DEF Init, Fresh, Holding, Steps
  <2>2. QED
    BY <2>1, FS_EmptySet, LimitsAssumption DEF BoundedConcurrency
<1>2. QED
  BY <1>1, BoundedConcurrencyNext, TypeInvariant, PTL DEF Spec

-------------------------------------------------------------------------------
(* Plans whose identifiers are unique *)

(* s still owes its result: it is not in the current wave, or the loops     *)
(* have not come to it, or its coroutine has not been collected.            *)
Owes(s) ==
  /\ s \in pending
  /\ s \in ready => \/ s \in todo
                    \/ phase \in {"classify", "gather", "cancelled"} /\ co[s] # "none"

(* No result before its step is settled; failed_ids are exactly the ids     *)
(* with a bad result; a wave's steps have decided dependencies, and those   *)
(* that got a coroutine have no failed one.                                 *)
DataflowInv ==
  /\ \A s \in Steps : Owes(s) => completed[plan[s].step_id] = "absent"
  /\ phase = "start" => completed = [i \in Ids |-> "absent"]
  /\ \A i \in Ids : i \in failedIds <=> completed[i] \in {"error", "skipped"}
  /\ \A s \in ready : plan[s].depends_on \subseteq Completed
  /\ \A s \in ready : co[s] # "none" => plan[s].depends_on \cap failedIds = {}

PlansUnique == \A p \in Plans : UniqueIds(p)

LEMMA DataflowInvInit == Init => DataflowInv
BY DEF Init, Fresh, DataflowInv, Owes, Steps

LEMMA DataflowInvNext ==
  PlansUnique /\ TypeInv /\ WaveInv /\ DataflowInv /\ [Next]_vars => DataflowInv'
<1> SUFFICES ASSUME PlansUnique, TypeInv, WaveInv, DataflowInv, [Next]_vars
             PROVE  DataflowInv'
  OBVIOUS
<1>u. \A s, t \in Steps : plan[s].step_id = plan[t].step_id => s = t
  BY DEF PlansUnique, UniqueIds, TypeInv, Steps
<1>f. \A s \in Steps : plan[s].step_id \in Ids /\ plan[s].depends_on \subseteq Ids
  BY StepFields DEF TypeInv
<1> USE DEF TypeInv, TypeOK, ResultsReturned, WaveInv, LoopsInv, CoroutinesInv,
            DataflowInv, Owes, InWave, Holding, Steps, planVars, coVars, dbVars, Completed
<1>1. CASE Start
  BY <1>1, <1>f DEF Start
<1>2. CASE FindReady
  BY <1>2 DEF FindReady, DependenciesMet
<1>3. CASE Finish
  BY <1>3 DEF Finish
<1>4. CASE StartGather
  BY <1>4 DEF StartGather, Runnable
<1>5. CASE EndGather
  BY <1>5 DEF EndGather, Runnable
<1>6. CASE EndWave
  BY <1>6 DEF EndWave
<1>7. ASSUME NEW s \in Steps, SkipStep(s) PROVE DataflowInv'
  BY <1>7, <1>u, <1>f DEF SkipStep, IsNext
<1>8. ASSUME NEW s \in Steps, QueueStep(s) PROVE DataflowInv'
  BY <1>8 DEF QueueStep, IsNext
<1>9. ASSUME NEW s \in Steps, StoreResult(s) PROVE DataflowInv'
  BY <1>9, <1>u, <1>f DEF StoreResult, IsNext
<1>10. ASSUME NEW s \in Steps, BeginStep(s) PROVE DataflowInv'
  BY <1>10 DEF BeginStep, Admitted, CallTool
<1>11. ASSUME NEW s \in Steps, RefuseStep(s) PROVE DataflowInv'
  BY <1>11 DEF RefuseStep, Admitted, Return
<1>12. ASSUME NEW s \in Steps, ToolSucceeds(s) PROVE DataflowInv'
  BY <1>12 DEF ToolSucceeds, Return
<1>13. ASSUME NEW s \in Steps, ToolFails(s) PROVE DataflowInv'
  BY <1>13 DEF ToolFails
<1>14. ASSUME NEW s \in Steps, ToolFailsForGood(s) PROVE DataflowInv'
  BY <1>14 DEF ToolFailsForGood, Return
<1>15. ASSUME NEW s \in Steps, RetryTool(s) PROVE DataflowInv'
  BY <1>15 DEF RetryTool, CallTool
<1>16. CASE Deadline
  BY <1>16 DEF Deadline
<1>17. CASE UNCHANGED vars
  BY <1>17 DEF vars
<1>18. QED
  BY <1>1, <1>2, <1>3, <1>4, <1>5, <1>6, <1>7, <1>8, <1>9, <1>10, <1>11, <1>12,
     <1>13, <1>14, <1>15, <1>16, <1>17
     DEF Next, WaveLoop, Coroutine

LEMMA DataflowInvariant == PlansUnique => (Spec => []DataflowInv)
<1> SUFFICES ASSUME PlansUnique PROVE Spec => []DataflowInv
  OBVIOUS
<1>1. TypeInv /\ WaveInv /\ DataflowInv /\ [Next]_vars => DataflowInv'
  BY DataflowInvNext
<1>2. QED
  BY <1>1, DataflowInvInit, TypeInvariant, WaveInvariant, PTL DEF Spec

(* An output is the result of a coroutine that returned it, from a tool the *)
(* registry knows.                                                          *)
OutputsReturned ==
  \A s \in Steps :
    /\ completed[plan[s].step_id] = "output" => co[s] = "returned" /\ returned[s] = "output"
    /\ returned[s] = "output" => plan[s].tool # "unregistered"

LEMMA OutputsReturnedInit == Init => OutputsReturned
<1> SUFFICES ASSUME Init PROVE OutputsReturned
  OBVIOUS
<1>1. TypeOK
  BY TypeInvInit DEF TypeInv
<1>2. QED
  BY <1>1, StepFields DEF Init, Fresh, OutputsReturned, Steps

LEMMA OutputsReturnedNext ==
  /\ PlansUnique /\ TypeInv /\ WaveInv /\ CalledToolsRegistered /\ OutputsReturned
  /\ [Next]_vars
  => OutputsReturned'
<1> SUFFICES ASSUME PlansUnique, TypeInv, WaveInv, CalledToolsRegistered, OutputsReturned,
                    [Next]_vars
             PROVE  OutputsReturned'
  OBVIOUS
<1>u. \A s, t \in Steps : plan[s].step_id = plan[t].step_id => s = t
  BY DEF PlansUnique, UniqueIds, TypeInv, Steps
<1>f. \A s \in Steps : plan[s].step_id \in Ids
  BY StepFields DEF TypeInv
<1> USE DEF TypeInv, TypeOK, ResultsReturned, WaveInv, CoroutinesInv, CalledToolsRegistered,
            OutputsReturned, Holding, Steps, planVars, coVars, dbVars
<1>1. CASE UNCHANGED <<plan, completed, co, returned>>
  BY <1>1
<1>2. ASSUME NEW s \in Steps, SkipStep(s) PROVE OutputsReturned'
  BY <1>2, <1>u, <1>f DEF SkipStep
<1>3. ASSUME NEW s \in Steps, StoreResult(s) PROVE OutputsReturned'
  BY <1>3, <1>u, <1>f DEF StoreResult, IsNext
<1>4. ASSUME NEW s \in Steps, QueueStep(s) PROVE OutputsReturned'
  BY <1>4, <1>f DEF QueueStep, IsNext
<1>5. ASSUME NEW s \in Steps, BeginStep(s) PROVE OutputsReturned'
  BY <1>5, <1>f DEF BeginStep, Admitted, CallTool
<1>6. ASSUME NEW s \in Steps, RefuseStep(s) PROVE OutputsReturned'
  BY <1>6, <1>f DEF RefuseStep, Admitted, Return
<1>7. ASSUME NEW s \in Steps, ToolSucceeds(s) PROVE OutputsReturned'
  BY <1>7, <1>f DEF ToolSucceeds, Return
<1>8. ASSUME NEW s \in Steps, ToolFails(s) PROVE OutputsReturned'
  BY <1>8, <1>f DEF ToolFails
<1>9. ASSUME NEW s \in Steps, ToolFailsForGood(s) PROVE OutputsReturned'
  BY <1>9, <1>f DEF ToolFailsForGood, Return
<1>10. ASSUME NEW s \in Steps, RetryTool(s) PROVE OutputsReturned'
  BY <1>10, <1>f DEF RetryTool, CallTool
<1>11. CASE Deadline
  BY <1>11, <1>f DEF Deadline
<1>12. CASE Start \/ FindReady \/ Finish \/ StartGather \/ EndGather \/ EndWave \/ UNCHANGED vars
  BY <1>1, <1>12 DEF Start, FindReady, Finish, StartGather, EndGather, EndWave, vars
<1>13. QED
  BY <1>2, <1>3, <1>4, <1>5, <1>6, <1>7, <1>8, <1>9, <1>10, <1>11, <1>12
     DEF Next, WaveLoop, Coroutine

(* When execute_plan returned without a failed or skipped step, each step   *)
(* has the audit row of its success and no other, if the database took all. *)
LEMMA DoneWithoutFailure ==
  ASSUME TypeInv, WaveInv, OutputsReturned, AuditAgrees, phase = "done",
         Audited, session = "usable",
         \A i \in Ids : completed[i] \notin {"error", "skipped"}
  PROVE  \A s \in Steps : audit[s] = <<Row("success", attempt[s])>>
<1> SUFFICES ASSUME NEW s \in Steps PROVE audit[s] = <<Row("success", attempt[s])>>
  OBVIOUS
<1>1. pending = {} /\ completed[plan[s].step_id] # "absent" /\ plan[s].step_id \in Ids
  BY StepFields DEF TypeInv, WaveInv, LoopsInv, RecordedInv
<1>2. completed[plan[s].step_id] = "output"
  BY <1>1 DEF TypeInv, TypeOK
<1>3. co[s] = "returned" /\ returned[s] = "output" /\ plan[s].tool # "unregistered"
  BY <1>2 DEF OutputsReturned
<1>4. audit[s] = AuditOf(s)
  BY DEF AuditAgrees
<1>5. QED
  BY <1>3, <1>4 DEF AuditOf

(* A tool in progress has the output of every dependency before it. *)
THEOREM DependentsRunOnOutputs == PlansUnique => (Spec => []RunsOnGoodDependencies)
<1> SUFFICES ASSUME PlansUnique PROVE Spec => []RunsOnGoodDependencies
  OBVIOUS
<1>1. TypeInv /\ WaveInv /\ DataflowInv => RunsOnGoodDependencies
  <2> SUFFICES ASSUME TypeInv, WaveInv, DataflowInv,
                      NEW s \in Holding, NEW d \in plan[s].depends_on
               PROVE  completed[d] = "output"
    BY DEF RunsOnGoodDependencies
  <2>1. s \in ready /\ co[s] # "none"
    BY DEF WaveInv, CoroutinesInv, Holding
  <2>2. d \in Completed /\ d \notin failedIds
    BY <2>1 DEF DataflowInv
  <2>3. QED
    BY <2>2 DEF DataflowInv, Completed, TypeInv, TypeOK
<1>2. QED
  BY <1>1, DataflowInvariant, TypeInvariant, WaveInvariant, PTL

(* The only writers of completed_results meet an identifier that has none. *)
LEMMA ResultsAreFinalNext ==
  PlansUnique /\ TypeInv /\ WaveInv /\ DataflowInv /\ [Next]_vars
    => \A i \in Ids : completed[i] # "absent" => completed'[i] = completed[i]
<1> SUFFICES ASSUME TypeInv, WaveInv, DataflowInv, [Next]_vars,
                    NEW i \in Ids, completed[i] # "absent"
             PROVE  completed'[i] = completed[i]
  OBVIOUS
<1>1. ASSUME NEW s \in Steps, SkipStep(s) PROVE completed'[i] = completed[i]
  <2>1. Owes(s)
    BY <1>1 DEF SkipStep, IsNext, Owes, TypeInv, TypeOK
  <2>2. QED
    BY <1>1, <2>1, StepFields DEF SkipStep, DataflowInv, TypeInv, TypeOK
<1>2. ASSUME NEW s \in Steps, StoreResult(s) PROVE completed'[i] = completed[i]
  <2>1. Owes(s)
    BY <1>2 DEF StoreResult, IsNext, Owes, TypeInv, TypeOK
  <2>2. QED
    BY <1>2, <2>1, StepFields DEF StoreResult, DataflowInv, TypeInv, TypeOK
<1>3. CASE [Next]_vars /\ \A s \in Steps : ~SkipStep(s) /\ ~StoreResult(s)
  BY <1>3 DEF vars, planVars, Next, WaveLoop, Coroutine, Start, FindReady, Finish,
     QueueStep, StartGather, EndGather, EndWave, BeginStep, RefuseStep, ToolSucceeds,
     ToolFails, ToolFailsForGood, RetryTool, Deadline
<1>4. QED
  BY <1>1, <1>2, <1>3

(* A result, once recorded under an identifier, is never replaced: a failed *)
(* or skipped step cannot turn into a successful one later in the run.      *)
ResultsAreFinal ==
  [][\A i \in Ids : completed[i] # "absent" => completed'[i] = completed[i]]_vars

(* With unique identifiers a recorded result is never replaced. *)
THEOREM RecordedResultsAreFinal == PlansUnique => (Spec => ResultsAreFinal)
<1> SUFFICES ASSUME PlansUnique PROVE Spec => ResultsAreFinal
  OBVIOUS
<1>1. TypeInv /\ WaveInv /\ DataflowInv /\ [Next]_vars
        => [\A i \in Ids : completed[i] # "absent" => completed'[i] = completed[i]]_vars
  BY ResultsAreFinalNext
<1>2. QED
  BY <1>1, DataflowInvariant, TypeInvariant, WaveInvariant, PTL DEF Spec, ResultsAreFinal

-------------------------------------------------------------------------------
(* PlanExecutor implements DagExecution *)

Verdict == CASE phase = "done" -> "done"
             [] phase = "circular" -> "stuck"
             [] phase \in {"cancelled", "oversized"} -> "given_up"
             [] OTHER -> "executing"

LEMMA DagInit == Init => Dag!Init
BY DEF Init, Fresh, Dag!Init

(* What execute_plan does to an identifier is one step of the abstract      *)
(* execution; everything else it does is invisible to it.                   *)
LEMMA DagNext ==
  PlansUnique /\ TypeInv /\ WaveInv /\ DataflowInv /\ NeverCircular' /\ [Next]_vars
    => [Dag!Next]_(Dag!vars)
<1> SUFFICES ASSUME PlansUnique, TypeInv, WaveInv, DataflowInv, NeverCircular', [Next]_vars
             PROVE  [Dag!Next]_(Dag!vars)
  OBVIOUS
<1>s. ASSUME UNCHANGED <<plan, completed>>, Verdict' = Verdict
      PROVE  [Dag!Next]_(Dag!vars)
  BY <1>s DEF Verdict, Dag!vars
<1>1. CASE Start
  <2>1. CASE phase' = "wave"
    BY <1>1, <1>s, <2>1 DEF Start, Verdict
  <2>2. CASE phase' = "oversized"
    BY <1>1, <2>2 DEF Start, Dag!Next, Dag!GiveUp
  <2>3. QED
    BY <1>1, <2>1, <2>2 DEF Start
<1>2. CASE FindReady
  BY <1>2, <1>s DEF FindReady, NeverCircular, Verdict
<1>3. CASE Finish
  <2>1. \A s \in DOMAIN plan : Dag!Decided(plan[s].step_id)
    BY <1>3 DEF Finish, WaveInv, RecordedInv, Dag!Decided, Steps
  <2>2. QED
    BY <1>3, <2>1 DEF Finish, planVars, Dag!Next, Dag!Complete
<1>4. ASSUME NEW s \in Steps, SkipStep(s) PROVE [Dag!Next]_(Dag!vars)
  <2>1. s \in ready /\ Owes(s)
    BY <1>4 DEF SkipStep, IsNext, Owes, TypeInv, TypeOK
  <2>2. ~Dag!Decided(plan[s].step_id)
    BY <2>1 DEF DataflowInv, Dag!Decided
  <2>3. \A d \in plan[s].depends_on : Dag!Decided(d)
    BY <2>1 DEF DataflowInv, Dag!Decided, Completed
  <2>4. \E d \in plan[s].depends_on : completed[d] # "output"
    BY <1>4, StepFields DEF SkipStep, DataflowInv, TypeInv
  <2>5. Dag!Skip(s)
    BY <1>4, <2>2, <2>3, <2>4 DEF SkipStep, Dag!Skip
  <2>6. QED
    BY <2>5 DEF Dag!Next, Steps
<1>5. ASSUME NEW s \in Steps, StoreResult(s) PROVE [Dag!Next]_(Dag!vars)
  <2>1. s \in ready /\ Owes(s) /\ co[s] # "none" /\ returned[s] \in {"output", "error"}
    BY <1>5 DEF StoreResult, IsNext, Owes, TypeInv, TypeOK, ResultsReturned
  <2>2. ~Dag!Decided(plan[s].step_id)
    BY <2>1 DEF DataflowInv, Dag!Decided
  <2>3. \A d \in plan[s].depends_on : completed[d] = "output"
    BY <2>1, StepFields DEF DataflowInv, Completed, TypeInv, TypeOK
  <2>4. Dag!Run(s)
    BY <1>5, <2>1, <2>2, <2>3 DEF StoreResult, Dag!Run
  <2>5. QED
    BY <2>4 DEF Dag!Next, Steps
<1>6. CASE Deadline
  BY <1>6 DEF Deadline, planVars, Dag!Next, Dag!GiveUp
<1>7. CASE StartGather \/ EndGather \/ EndWave \/ \E s \in Steps : QueueStep(s)
  BY <1>7, <1>s DEF StartGather, EndGather, EndWave, QueueStep, Verdict, planVars
<1>8. CASE \E s \in Steps : Coroutine(s)
  BY <1>8, <1>s DEF Coroutine, BeginStep, RefuseStep, ToolSucceeds, ToolFails,
     ToolFailsForGood, RetryTool, Verdict, planVars
<1>9. CASE UNCHANGED vars
  BY <1>9, <1>s DEF vars, planVars, Verdict
<1>10. QED
  BY <1>1, <1>2, <1>3, <1>4, <1>5, <1>6, <1>7, <1>8, <1>9 DEF Next, WaveLoop

(* The wave executor implements the abstract execution, for every set of    *)
(* validated plans with unique identifiers.                                 *)
THEOREM ImplementsDagExecution == PlansUnique => (Spec => DagSpec)
<1> SUFFICES ASSUME PlansUnique PROVE Spec => DagSpec
  OBVIOUS
<1>1. TypeInv /\ WaveInv /\ DataflowInv /\ NeverCircular' /\ [Next]_vars
        => [Dag!Next]_(Dag!vars)
  BY DagNext
<1>2. QED
  BY <1>1, DagInit, DataflowInvariant, TypeInvariant, WaveInvariant,
     ValidatedPlansNeverCircular, PTL DEF Spec, DagSpec, Dag!Spec

-------------------------------------------------------------------------------
(* The steps that are left *)

CoroutinesLeft == SumFunction([s \in Steps |-> CoroutineLeft(s)])

LEMMA StepsAreFinite ==
  ASSUME TypeOK
  PROVE  IsFiniteSet(Steps) /\ Len(plan) \in Nat /\ Steps = 1 .. Len(plan)
         /\ Cardinality(Steps) = Len(plan)
<1>1. Len(plan) \in Nat /\ Steps = 1 .. Len(plan)
  BY DEF TypeOK, Steps
<1>2. QED
  BY <1>1, FS_Interval

LEMMA CoroutineLeftIsNatural == TypeInv => \A s \in Steps : CoroutineLeft(s) \in Nat
<1> SUFFICES ASSUME TypeInv, NEW s \in Steps PROVE CoroutineLeft(s) \in Nat
  OBVIOUS
<1>1. /\ co[s] \in CoStates /\ attempt[s] \in 0 .. MaxToolRetries - 1
      /\ MaxToolRetries \in Nat \ {0}
  BY LimitsAssumption DEF TypeInv, TypeOK
<1>2. QED
  BY <1>1 DEF CoroutineLeft, CoStates

LEMMA CoroutinesLeftIsNatural == TypeInv => CoroutinesLeft \in Nat
<1> SUFFICES ASSUME TypeInv PROVE CoroutinesLeft \in Nat
  OBVIOUS
<1> DEFINE f == [s \in Steps |-> CoroutineLeft(s)]
<1>1. DOMAIN f = Steps /\ \A s \in Steps : f[s] \in Nat
  BY CoroutineLeftIsNatural
<1>2. IsFiniteSet(Steps)
  BY StepsAreFinite DEF TypeInv
<1> HIDE DEF f
<1>3. SumFunctionOnSet(f, Steps) \in Nat
  BY <1>1, <1>2, SumIsNatural
<1>4. QED
  BY <1>1, <1>3 DEF CoroutinesLeft, SumFunction, f

(* One coroutine moved, and it came nearer to its end. *)
LEMMA OneCoroutineMoves ==
  ASSUME TypeInv, TypeInv', plan' = plan, NEW s \in Steps,
         CoroutineLeft(s)' < CoroutineLeft(s),
         \A t \in Steps \ {s} : co'[t] = co[t] /\ attempt'[t] = attempt[t]
  PROVE  CoroutinesLeft' < CoroutinesLeft
<1> DEFINE f == [t \in Steps |-> CoroutineLeft(t)]
           g == [t \in Steps |-> CoroutineLeft(t)']
<1>1. Steps' = Steps /\ IsFiniteSet(Steps)
  BY StepsAreFinite DEF TypeInv, Steps
<1>2. \A t \in Steps : f[t] \in Nat /\ f[t] = CoroutineLeft(t)
  BY CoroutineLeftIsNatural
<1>3. \A t \in Steps : CoroutineLeft(t)' \in Nat
  <2>1. ASSUME NEW t \in Steps PROVE CoroutineLeft(t)' \in Nat
    <3>1. t \in Steps'
      BY <1>1
    <3>2. /\ co'[t] \in CoStates /\ attempt'[t] \in 0 .. MaxToolRetries - 1
          /\ MaxToolRetries \in Nat \ {0}
      BY <3>1, LimitsAssumption DEF TypeInv, TypeOK
    <3>3. QED
      BY <3>2 DEF CoroutineLeft, CoStates
  <2>2. QED
    BY <2>1
<1>4. \A t \in Steps : g[t] \in Nat /\ g[t] = CoroutineLeft(t)'
  BY <1>3
<1>5. \A t \in Steps \ {s} : CoroutineLeft(t)' = CoroutineLeft(t)
  BY DEF CoroutineLeft
<1>6. DOMAIN f = Steps /\ DOMAIN g = Steps
  OBVIOUS
<1>7. CoroutinesLeft = SumFunction(f)
  BY DEF CoroutinesLeft
<1>8. CoroutinesLeft' = SumFunction(g)
  BY <1>1 DEF CoroutinesLeft
<1> HIDE DEF f, g
<1>9. \A t \in Steps : g[t] \in Nat /\ f[t] \in Nat /\ g[t] <= f[t]
  <2>1. ASSUME NEW t \in Steps PROVE g[t] \in Nat /\ f[t] \in Nat /\ g[t] <= f[t]
    <3>1. CASE t = s
      BY <1>2, <1>4, <3>1
    <3>2. CASE t # s
      BY <1>2, <1>4, <1>5, <3>2
    <3>3. QED
      BY <3>1, <3>2
  <2>2. QED
    BY <2>1
<1>10. g[s] < f[s]
  BY <1>2, <1>4
<1>11. SumFunctionOnSet(g, Steps) < SumFunctionOnSet(f, Steps)
  BY <1>1, <1>9, <1>10, SumStrict
<1>12. QED
  BY <1>6, <1>7, <1>8, <1>11 DEF SumFunction

(* No coroutine moved. *)
LEMMA CoroutinesStand ==
  ASSUME plan' = plan, co' = co, attempt' = attempt
  PROVE  CoroutinesLeft' = CoroutinesLeft
<1>1. \A t : CoroutineLeft(t)' = CoroutineLeft(t)
  BY DEF CoroutineLeft
<1>2. Steps' = Steps
  BY DEF Steps
<1>3. QED
  BY <1>1, <1>2 DEF CoroutinesLeft

WaveSizesAre ==
         /\ Cardinality(pending) \in Nat /\ Cardinality(pending) <= Len(plan)
         /\ Cardinality(pending \ ready) \in Nat
         /\ Cardinality(pending) = Cardinality(pending \ ready) + Cardinality(ready)
         /\ Cardinality(ready) \in Nat /\ Cardinality(todo) \in Nat
         /\ Len(plan) \in Nat
         /\ ready # {} => Cardinality(ready) > 0
         /\ \A s \in todo : Cardinality(todo \ {s}) = Cardinality(todo) - 1
         /\ Cardinality(Runnable) \in Nat /\ Cardinality(Runnable) <= Cardinality(ready)

LEMMA WaveSizes == TypeInv => WaveSizesAre
<1> SUFFICES ASSUME TypeInv PROVE WaveSizesAre
  OBVIOUS
<1>1. IsFiniteSet(Steps) /\ Cardinality(Steps) = Len(plan) /\ Len(plan) \in Nat
  BY StepsAreFinite DEF TypeInv
<1>2. /\ pending \subseteq Steps /\ ready \subseteq pending /\ todo \subseteq ready
      /\ Runnable \subseteq ready
  BY DEF TypeInv, TypeOK, Runnable
<1>3. IsFiniteSet(pending) /\ IsFiniteSet(ready) /\ IsFiniteSet(todo) /\ IsFiniteSet(Runnable)
      /\ IsFiniteSet(pending \ ready)
  BY <1>1, <1>2, FS_Subset
<1>4. Cardinality(pending) <= Cardinality(Steps) /\ Cardinality(Runnable) <= Cardinality(ready)
  BY <1>1, <1>2, <1>3, FS_Subset
<1>5. /\ Cardinality(pending) \in Nat /\ Cardinality(ready) \in Nat
      /\ Cardinality(todo) \in Nat /\ Cardinality(Runnable) \in Nat
      /\ Cardinality(pending \ ready) \in Nat
  BY <1>3, FS_CardinalityType
<1>6. Cardinality(pending) = Cardinality(pending \ ready) + Cardinality(ready)
  <2>1. (pending \ ready) \cup ready = pending /\ (pending \ ready) \cap ready = {}
    BY <1>2
  <2>2. Cardinality((pending \ ready) \cup ready)
          = Cardinality(pending \ ready) + Cardinality(ready) - Cardinality((pending \ ready) \cap ready)
    BY <1>3, FS_Union
  <2>3. QED
    BY <1>5, <2>1, <2>2, FS_EmptySet
<1>7. ready # {} => Cardinality(ready) > 0
  BY <1>3, <1>5, FS_EmptySet
<1>8. \A s \in todo : Cardinality(todo \ {s}) = Cardinality(todo) - 1
  BY <1>3, FS_RemoveElement
<1>9. QED
  BY <1>1, <1>4, <1>5, <1>6, <1>7, <1>8 DEF WaveSizesAre

LeftIsNatural ==
  /\ StepsLeft \in Nat /\ CoroutinesLeft \in Nat
  /\ phase \notin Terminal => /\ WavesLeft \in Nat /\ WavesLeft > 0
                             /\ StepsLeft = WavesLeft + CoroutinesLeft

LEMMA StepsLeftIs == TypeInv => LeftIsNatural
<1> SUFFICES ASSUME TypeInv PROVE LeftIsNatural
  OBVIOUS
<1>1. CoroutinesLeft \in Nat
  BY CoroutinesLeftIsNatural
<1>2. phase \notin Terminal => WavesLeft \in Nat /\ WavesLeft > 0
  <2>1. phase \in Phases
    BY DEF TypeInv, TypeOK
  <2>2. /\ Cardinality(pending) \in Nat /\ Cardinality(pending \ ready) \in Nat
        /\ Cardinality(ready) \in Nat /\ Cardinality(todo) \in Nat /\ Len(plan) \in Nat
    BY WaveSizes DEF WaveSizesAre
  <2>3. QED
    BY <2>1, <2>2 DEF WavesLeft, Phases, Terminal
<1>3. phase \notin Terminal => StepsLeft = WavesLeft + CoroutinesLeft
  BY DEF StepsLeft, CoroutinesLeft
<1>4. phase \in Terminal => StepsLeft = 0
  BY DEF StepsLeft
<1>5. QED
  BY <1>1, <1>2, <1>3, <1>4 DEF LeftIsNatural

LEMMA StepsLeftNext == TypeInv /\ TypeInv' /\ WaveInv /\ Next => StepsLeft' < StepsLeft
<1> SUFFICES ASSUME TypeInv, TypeInv', WaveInv, Next PROVE StepsLeft' < StepsLeft
  OBVIOUS
<1>0. phase \notin Terminal /\ StepsLeft = WavesLeft + CoroutinesLeft /\ StepsLeft > 0
      /\ WavesLeft \in Nat /\ CoroutinesLeft \in Nat /\ plan' = plan
  <2>1. phase \notin Terminal /\ plan' = plan
    BY DEF Next, WaveLoop, Coroutine, Start, FindReady, Finish, StartGather, EndGather, EndWave,
           SkipStep, QueueStep, StoreResult, BeginStep, RefuseStep, ToolSucceeds, ToolFails,
           ToolFailsForGood, RetryTool, Deadline, Terminal, Admitted
  <2>2. QED
    BY <2>1, StepsLeftIs DEF LeftIsNatural
<1>a. phase' \in Terminal => StepsLeft' = 0
  BY DEF StepsLeft
<1>b. phase' \notin Terminal => StepsLeft' = WavesLeft' + CoroutinesLeft'
  BY DEF StepsLeft, CoroutinesLeft
<1>c. LeftIsNatural'
  BY StepsLeftIs, PTL
<1>d. StepsLeft' \in Nat /\ CoroutinesLeft' \in Nat /\ (WavesLeft' \in Nat \/ phase' \in Terminal)
  BY <1>c DEF LeftIsNatural
<1>e. ASSUME co' = co, attempt' = attempt, WavesLeft' < WavesLeft PROVE StepsLeft' < StepsLeft
  BY <1>0, <1>a, <1>b, <1>d, <1>e, CoroutinesStand
<1>f. ASSUME CoroutinesLeft' < CoroutinesLeft, WavesLeft' <= WavesLeft
      PROVE  StepsLeft' < StepsLeft
  BY <1>0, <1>a, <1>b, <1>d, <1>f
<1>1. CASE Start
  BY <1>0, <1>1, <1>a, <1>e, WaveSizes, StepsAreFinite
     DEF Start, WavesLeft, WaveSizesAre, coVars, Terminal, TypeInv
<1>2. CASE FindReady
  <2>1. CASE ready' = {}
    BY <1>0, <1>2, <1>a, <2>1 DEF FindReady, Terminal
  <2>2. CASE ready' # {}
    <3>1. /\ phase = "wave" /\ phase' = "classify" /\ UNCHANGED <<pending, co, attempt>>
          /\ todo' = ready'
      BY <1>2, <2>2 DEF FindReady, coVars
    <3>2. /\ Cardinality(pending') = Cardinality(pending' \ ready') + Cardinality(ready')
          /\ Cardinality(ready') > 0 /\ Cardinality(ready') \in Nat
          /\ Cardinality(pending' \ ready') \in Nat
      <4>1. WaveSizesAre'
        BY WaveSizes, PTL
      <4>2. QED
        BY <2>2, <4>1 DEF WaveSizesAre
    <3>3. WavesLeft = 6 * Cardinality(pending) + 1
      BY <3>1 DEF WavesLeft
    <3>4. WavesLeft' = 6 * Cardinality(pending' \ ready') + 4 + Cardinality(todo')
                       + Cardinality(ready')
      BY <3>1 DEF WavesLeft
    <3>5. WavesLeft' < WavesLeft
      BY <3>1, <3>2, <3>3, <3>4
    <3>6. QED
      BY <1>e, <3>1, <3>5
  <2>3. QED
    BY <2>1, <2>2
<1>3. CASE Finish
  BY <1>0, <1>3, <1>a DEF Finish, Terminal
<1>4. CASE StartGather
  <2>1. /\ phase = "classify" /\ phase' \in {"store", "gather"}
        /\ UNCHANGED <<pending, ready, todo, co, attempt>> /\ todo = {}
    BY <1>4 DEF StartGather, planVars, coVars
  <2>2. WavesLeft' < WavesLeft
    BY <2>1, WaveSizes, FS_EmptySet DEF WavesLeft, WaveSizesAre
  <2>3. QED
    BY <1>e, <2>1, <2>2
<1>5. CASE EndGather
  <2>1. /\ phase = "gather" /\ phase' = "store" /\ todo' = Runnable
        /\ UNCHANGED <<pending, ready, co, attempt>>
    BY <1>5 DEF EndGather, coVars
  <2>2. WavesLeft' < WavesLeft
    BY <2>1, WaveSizes DEF WavesLeft, WaveSizesAre
  <2>3. QED
    BY <1>e, <2>1, <2>2
<1>6. CASE EndWave
  <2>1. /\ phase = "store" /\ phase' = "wave" /\ todo = {} /\ pending' = pending \ ready
        /\ UNCHANGED <<co, attempt>>
    BY <1>6 DEF EndWave, coVars
  <2>2. WavesLeft' < WavesLeft
    BY <2>1, WaveSizes, FS_EmptySet DEF WavesLeft, WaveSizesAre
  <2>3. QED
    BY <1>e, <2>1, <2>2
<1>7. ASSUME NEW s \in Steps, SkipStep(s) \/ StoreResult(s) PROVE StepsLeft' < StepsLeft
  <2>1. /\ phase \in {"classify", "store"} /\ phase' = phase /\ s \in todo /\ todo' = todo \ {s}
        /\ UNCHANGED <<pending, ready, co, attempt>>
    BY <1>7 DEF SkipStep, StoreResult, IsNext, coVars
  <2>2. WavesLeft' < WavesLeft
    BY <2>1, WaveSizes DEF WavesLeft, WaveSizesAre
  <2>3. QED
    BY <1>e, <2>1, <2>2
<1>8. ASSUME NEW s \in Steps, QueueStep(s) PROVE StepsLeft' < StepsLeft
  <2>1. /\ phase = "classify" /\ phase' = phase /\ s \in todo /\ todo' = todo \ {s}
        /\ co' = [co EXCEPT ![s] = "queued"] /\ UNCHANGED <<pending, ready, attempt>>
    BY <1>8 DEF QueueStep, IsNext
  <2>2. co[s] = "none" /\ co \in [Steps -> CoStates]
    BY <2>1 DEF WaveInv, CoroutinesInv, TypeInv, TypeOK
  <2>3. CoroutinesLeft' < CoroutinesLeft
    <3>1. CoroutineLeft(s)' < CoroutineLeft(s)
      BY <2>1, <2>2, LimitsAssumption DEF CoroutineLeft
    <3>2. \A t \in Steps \ {s} : co'[t] = co[t] /\ attempt'[t] = attempt[t]
      BY <2>1, <2>2
    <3>3. QED
      BY <1>0, <3>1, <3>2, OneCoroutineMoves
  <2>4. WavesLeft' <= WavesLeft
    BY <2>1, WaveSizes DEF WavesLeft, WaveSizesAre
  <2>5. QED
    BY <1>f, <2>3, <2>4
<1>9. ASSUME NEW s \in Steps, Coroutine(s) PROVE StepsLeft' < StepsLeft
  <2>0. /\ co \in [Steps -> CoStates] /\ attempt \in [Steps -> 0 .. MaxToolRetries - 1]
        /\ MaxToolRetries \in Nat \ {0}
    BY LimitsAssumption DEF TypeInv, TypeOK
  <2>1. /\ UNCHANGED <<phase, pending, ready, todo>>
        /\ \A t \in Steps \ {s} : co'[t] = co[t] /\ attempt'[t] = attempt[t]
    BY <1>9, <2>0
       DEF Coroutine, BeginStep, RefuseStep, ToolSucceeds, ToolFails, ToolFailsForGood,
           RetryTool, CallTool, Return, planVars
  <2>2. \/ co[s] = "queued" /\ co'[s] = "calling" /\ attempt'[s] = attempt[s]
        \/ co[s] \in {"queued", "calling"} /\ co'[s] = "returned"
        \/ co[s] = "calling" /\ co'[s] = "sleeping" /\ attempt'[s] = attempt[s]
        \/ co[s] = "sleeping" /\ co'[s] = "calling" /\ attempt'[s] = attempt[s] + 1
    BY <1>9, <2>0
       DEF Coroutine, BeginStep, RefuseStep, ToolSucceeds, ToolFails, ToolFailsForGood,
           RetryTool, CallTool, Return, Admitted
  <2>3. CoroutineLeft(s)' < CoroutineLeft(s)
    BY <2>0, <2>2 DEF CoroutineLeft
  <2>4. CoroutinesLeft' < CoroutinesLeft
    BY <1>0, <2>1, <2>3, OneCoroutineMoves
  <2>5. WavesLeft' <= WavesLeft
    <3>1. WavesLeft' = WavesLeft
      BY <1>0, <2>1 DEF WavesLeft
    <3>2. QED
      BY <1>0, <3>1
  <2>6. QED
    BY <1>f, <2>4, <2>5
<1>10. CASE Deadline
  BY <1>0, <1>10, <1>a DEF Deadline, Terminal
<1>11. QED
  BY <1>1, <1>2, <1>3, <1>4, <1>5, <1>6, <1>7, <1>8, <1>9, <1>10 DEF Next, WaveLoop

LEMMA StepsLeftStands ==
  UNCHANGED <<plan, phase, pending, ready, todo, co, attempt>> => StepsLeft' = StepsLeft
<1> SUFFICES ASSUME UNCHANGED <<plan, phase, pending, ready, todo, co, attempt>>
             PROVE  StepsLeft' = StepsLeft
  OBVIOUS
<1>1. CoroutinesLeft' = CoroutinesLeft
  BY CoroutinesStand
<1>2. WavesLeft' = WavesLeft
  BY DEF WavesLeft
<1>3. StepsLeft = IF phase \in Terminal THEN 0 ELSE WavesLeft + CoroutinesLeft
  BY DEF StepsLeft, CoroutinesLeft
<1>4. StepsLeft' = IF phase' \in Terminal THEN 0 ELSE WavesLeft' + CoroutinesLeft'
  BY DEF StepsLeft, CoroutinesLeft
<1>5. QED
  BY <1>1, <1>2, <1>3, <1>4

(* An execution starts once, with the guard on the size of its plan. *)
LEMMA StartsOnce == Next => phase' # "start" /\ (phase = "start" => Start)
BY DEF Next, WaveLoop, Coroutine, Start, FindReady, Finish, StartGather, EndGather, EndWave,
       SkipStep, QueueStep, StoreResult, BeginStep, RefuseStep, ToolSucceeds, ToolFails,
       ToolFailsForGood, RetryTool, Deadline, Admitted, IsNext

(* Where the bound begins. *)
LEMMA StepsLeftAtStart ==
  Init => StepsLeft = (2 * MaxToolRetries + 8) * Len(plan) + 2 /\ Len(plan) \in Nat
<1> SUFFICES ASSUME Init
             PROVE  StepsLeft = (2 * MaxToolRetries + 8) * Len(plan) + 2 /\ Len(plan) \in Nat
  OBVIOUS
<1> DEFINE c == 2 * MaxToolRetries + 2
           f == [s \in Steps |-> CoroutineLeft(s)]
<1>1. TypeInv
  BY TypeInvInit
<1>2. IsFiniteSet(Steps) /\ Cardinality(Steps) = Len(plan) /\ Len(plan) \in Nat
  BY <1>1, StepsAreFinite DEF TypeInv
<1>3. c \in Nat /\ MaxToolRetries \in Nat
  BY LimitsAssumption
<1>4. DOMAIN f = Steps /\ \A s \in Steps : f[s] = c
  BY DEF Init, Fresh, CoroutineLeft
<1>5. phase = "start" /\ phase \notin Terminal
  BY DEF Init, Fresh, Terminal
<1> HIDE DEF f, c
<1>6. SumFunctionOnSet(f, Steps) = c * Len(plan)
  BY <1>2, <1>3, <1>4, SumConstant
<1>7. StepsLeft = 6 * Len(plan) + 2 + c * Len(plan)
  BY <1>4, <1>5, <1>6 DEF StepsLeft, WavesLeft, SumFunction, f
<1>8. c * Len(plan) = (2 * MaxToolRetries) * Len(plan) + 2 * Len(plan)
      /\ (2 * MaxToolRetries + 8) * Len(plan) = (2 * MaxToolRetries) * Len(plan) + 8 * Len(plan)
      /\ (2 * MaxToolRetries) * Len(plan) \in Nat
  BY <1>2, <1>3 DEF c
<1>9. QED
  BY <1>2, <1>7, <1>8

(* An execution ends after a number of steps that its plan and the limits   *)
(* bound, in whatever order its coroutines take them, whatever fails: at    *)
(* most 2 * MaxToolRetries + 8 for each step of the plan, and two.          *)
THEOREM ExecutionIsBoundedHolds == Spec => ExecutionIsBounded
<1>1. TypeInv /\ TypeInv' /\ WaveInv /\ Next => StepsLeft' \in 0 .. StepsLeft - 1
  <2> SUFFICES ASSUME TypeInv, TypeInv', WaveInv, Next PROVE StepsLeft' \in 0 .. StepsLeft - 1
    OBVIOUS
  <2>1. StepsLeft \in Nat
    BY StepsLeftIs DEF LeftIsNatural
  <2>2. LeftIsNatural'
    BY StepsLeftIs, PTL
  <2>3. StepsLeft' \in Nat
    BY <2>2 DEF LeftIsNatural
  <2>4. StepsLeft' < StepsLeft
    BY StepsLeftNext
  <2>5. QED
    BY <2>1, <2>3, <2>4
<1>2. QED
  BY <1>1, TypeInvariant, WaveInvariant, PTL DEF Spec, ExecutionIsBounded
===============================================================================
