---------------------------- MODULE ApprovalsProofs ----------------------------
(***************************************************************************)
(* What holds of Approvals for any number of requests and restarts.        *)
(***************************************************************************)
EXTENDS Approvals, TLAPS

Event == [what : {"load", "decided", "start", "failed", "recorded"}, request : Requests]

(* Appending one event keeps the earlier ones. *)
LEMMA NoteAppends ==
  ASSUME log \in Seq(Event), NEW what \in {"load", "decided", "start", "failed", "recorded"},
         NEW r \in Requests, Note(what, r)
  PROVE  /\ log' \in Seq(Event)
         /\ Len(log') = Len(log) + 1
         /\ \A k \in DOMAIN log : log'[k] = log[k]
         /\ log'[Len(log) + 1].what = what /\ log'[Len(log) + 1].request = r
<1> DEFINE e == [what |-> what, request |-> r]
<1>1. e \in Event /\ e.what = what /\ e.request = r
  BY DEF Event
<1> HIDE DEF e
<1>2. log' = Append(log, e)
  BY DEF Note, e
<1>3. QED
  BY <1>1, <1>2

LEMMA TypeInvNext == TypeOK /\ [Next]_vars => TypeOK'
<1> SUFFICES ASSUME TypeOK, [Next]_vars PROVE TypeOK'
  OBVIOUS
<1> USE DEF TypeOK, Kinds, Decisions, Places, Move, rowVars
<1>0. log \in Seq(Event)
  BY DEF Event
<1>1. ASSUME NEW r \in Requests, NEW d \in Decisions, LoadToDecide(r, d) PROVE TypeOK'
  <2>1. log' \in Seq(Event)
    BY <1>0, <1>1, NoteAppends DEF LoadToDecide
  <2>2. QED
    BY <1>1, <2>1 DEF LoadToDecide, Event
<1>2. ASSUME NEW r \in Requests, Decide(r) PROVE TypeOK'
  <2>1. log' \in Seq(Event)
    BY <1>0, <1>2, NoteAppends DEF Decide
  <2>2. QED
    BY <1>2, <2>1 DEF Decide, Event, StatusAfter
<1>3. ASSUME NEW r \in Requests, BeginResume(r) PROVE TypeOK'
  <2>1. log' \in Seq(Event)
    BY <1>0, <1>3, NoteAppends DEF BeginResume
  <2>2. QED
    BY <1>3, <2>1 DEF BeginResume, Event
<1>4. ASSUME NEW r \in Requests, EndExecution(r) PROVE TypeOK'
  BY <1>4 DEF EndExecution
<1>5. ASSUME NEW r \in Requests, FailResume(r) PROVE TypeOK'
  <2>1. log' \in Seq(Event)
    BY <1>0, <1>5, NoteAppends DEF FailResume
  <2>2. QED
    BY <1>5, <2>1 DEF FailResume, Event
<1>6. ASSUME NEW r \in Requests, RecordExecution(r) PROVE TypeOK'
  <2>1. log' \in Seq(Event)
    BY <1>0, <1>6, NoteAppends DEF RecordExecution
  <2>2. QED
    BY <1>6, <2>1 DEF RecordExecution, Event
<1>7. CASE Restart
  BY <1>7 DEF Restart
<1>8. CASE UNCHANGED vars
  BY <1>8 DEF vars
<1>9. QED
  BY <1>1, <1>2, <1>3, <1>4, <1>5, <1>6, <1>7, <1>8 DEF Next

(* The variables keep their types, for any number of requests. *)
THEOREM ApprovalTypes == Spec => []TypeOK
<1>1. Init => TypeOK
  <2> SUFFICES ASSUME Init PROVE TypeOK
    OBVIOUS
  <2>1. log \in Seq([what : {"load", "decided", "start", "failed", "recorded"},
                     request : Requests])
    <3> DEFINE E == [what : {"load", "decided", "start", "failed", "recorded"},
                     request : Requests]
    <3> HIDE DEF E
    <3>1. log \in Seq(E)
      BY DEF Init
    <3>2. QED
      BY <3>1 DEF E
  <2>2. QED
    BY <2>1 DEF Init, TypeOK, Kinds, Decisions, Places
<1>2. QED
  BY <1>1, TypeInvNext, PTL DEF Spec

-------------------------------------------------------------------------------
(* The flag and the executions *)

RecordInv == ExecutedIsRecorded /\ NoStartAfterRecord

(* An event that is neither a start nor a record keeps both. *)
LEMMA OtherEvent ==
  ASSUME TypeOK, RecordInv, executed' = executed, NEW r \in Requests,
         NEW what \in {"load", "decided", "failed"}, Note(what, r)
  PROVE  RecordInv'
<1>1. /\ Len(log') = Len(log) + 1 /\ Len(log) \in Nat
      /\ DOMAIN log = 1 .. Len(log) /\ DOMAIN log' = 1 .. Len(log')
      /\ \A k \in DOMAIN log : log'[k] = log[k]
      /\ log'[Len(log) + 1].what = what
  BY NoteAppends DEF TypeOK, Event
<1>2. QED
  BY <1>1 DEF RecordInv, ExecutedIsRecorded, NoStartAfterRecord, Happened

LEMMA RecordInvNext == TypeOK /\ RecordInv /\ [Next]_vars => RecordInv'
<1> SUFFICES ASSUME TypeOK, RecordInv, [Next]_vars PROVE RecordInv'
  OBVIOUS
<1>n. ASSUME NEW r \in Requests, NEW what \in {"start", "recorded"}, Note(what, r)
      PROVE  /\ Len(log') = Len(log) + 1 /\ Len(log) \in Nat
             /\ DOMAIN log = 1 .. Len(log) /\ DOMAIN log' = 1 .. Len(log')
             /\ \A k \in DOMAIN log : log'[k] = log[k]
             /\ log'[Len(log) + 1].what = what
  BY <1>n, NoteAppends DEF TypeOK, Event
<1>0. ASSUME UNCHANGED <<executed, log>> PROVE RecordInv'
  BY <1>0 DEF RecordInv, ExecutedIsRecorded, NoStartAfterRecord, Happened
<1>1. ASSUME NEW r \in Requests, NEW d \in Decisions, LoadToDecide(r, d) PROVE RecordInv'
  BY <1>1, OtherEvent DEF LoadToDecide, rowVars
<1>2. ASSUME NEW r \in Requests, Decide(r) PROVE RecordInv'
  BY <1>2, OtherEvent DEF Decide
<1>3. ASSUME NEW r \in Requests, BeginResume(r) PROVE RecordInv'
  <2>1. CASE UNCHANGED log
    BY <1>0, <1>3, <2>1 DEF BeginResume, rowVars
  <2>2. CASE ~executed /\ Note("start", r)
    <3>1. \A k \in DOMAIN log : ~Happened(k, "recorded")
      BY <2>2 DEF RecordInv, ExecutedIsRecorded
    <3>2. executed' = executed
      BY <1>3 DEF BeginResume, rowVars
    <3>3. QED
      BY <1>n, <2>2, <3>1, <3>2
         DEF RecordInv, ExecutedIsRecorded, NoStartAfterRecord, Happened
  <2>3. QED
    BY <1>3, <2>1, <2>2 DEF BeginResume
<1>4. ASSUME NEW r \in Requests, EndExecution(r) PROVE RecordInv'
  BY <1>0, <1>4 DEF EndExecution, rowVars
<1>5. ASSUME NEW r \in Requests, FailResume(r) PROVE RecordInv'
  BY <1>5, OtherEvent DEF FailResume, rowVars
<1>6. ASSUME NEW r \in Requests, RecordExecution(r) PROVE RecordInv'
  <2>1. executed' = TRUE /\ Note("recorded", r)
    BY <1>6 DEF RecordExecution
  <2>2. QED
    BY <1>n, <2>1 DEF RecordInv, ExecutedIsRecorded, NoStartAfterRecord, Happened
<1>7. CASE Restart
  BY <1>0, <1>7 DEF Restart, rowVars
<1>8. CASE UNCHANGED vars
  BY <1>0, <1>8 DEF vars, rowVars
<1>9. QED
  BY <1>1, <1>2, <1>3, <1>4, <1>5, <1>6, <1>7, <1>8 DEF Next

LEMMA RecordInvariant == Spec => []RecordInv
<1>1. Init => RecordInv
  BY DEF Init, RecordInv, ExecutedIsRecorded, NoStartAfterRecord
<1>2. QED
  BY <1>1, RecordInvNext, ApprovalTypes, PTL DEF Spec

(* Whatever overlaps, fails or restarts, no execution starts once one is    *)
(* recorded.                                                                *)
THEOREM NoExecutionAfterRecord == Spec => []NoStartAfterRecord
<1>1. RecordInv => NoStartAfterRecord
  BY DEF RecordInv
<1>2. QED
  BY <1>1, RecordInvariant, PTL

(* The flag says exactly whether an execution was recorded. *)
THEOREM ExecutedFlagIsTrue == Spec => []ExecutedIsRecorded
<1>1. RecordInv => ExecutedIsRecorded
  BY DEF RecordInv
<1>2. QED
  BY <1>1, RecordInvariant, PTL

-------------------------------------------------------------------------------
(* The decisions *)

(* The j-th event decided what the row says: whoever loaded the row since   *)
(* saw that, or has decided the same.                                       *)
Decisive(j) ==
  /\ Happened(j, "decided") /\ status = StatusAfter(kind[log[j].request])
  /\ \A l \in DOMAIN log : l > j /\ Happened(l, "load") =>
       /\ at[log[l].request] = "deciding" => seen[log[l].request] = status
       /\ kind[log[l].request] # kind[log[j].request] =>
            at[log[l].request] \in {"deciding", "lost"}

(* Where the requests are that the log mentions. *)
LogInv ==
  /\ \A k \in DOMAIN log :
       /\ at[log[k].request] # "unsent"
       /\ Happened(k, "decided") => at[log[k].request] = "answered"
       /\ Happened(k, "load") \/ Happened(k, "decided") => kind[log[k].request] \in Decisions
  /\ \A r \in Requests : at[r] = "deciding" => kind[r] \in Decisions

StatusInv ==
  /\ status = "pending" => /\ \A k \in DOMAIN log : ~Happened(k, "decided")
                           /\ \A r \in Requests : seen[r] = "pending"
  /\ status # "pending" => \E j \in DOMAIN log : Decisive(j)

DecisionInv == LogInv /\ StatusInv

(* What is logged stays, and the log grows by one event of r at most. *)
Logs(what, r) ==
  /\ Len(log) \in Nat /\ DOMAIN log = 1 .. Len(log)
  /\ Len(log') = Len(log) + 1 /\ DOMAIN log' = 1 .. Len(log) + 1
  /\ \A k \in DOMAIN log : log'[k] = log[k] /\ log[k].request \in Requests
  /\ log'[Len(log) + 1].what = what /\ log'[Len(log) + 1].request = r

LEMMA LoggedRequests == TypeOK => \A k \in DOMAIN log : log[k].request \in Requests
<1> SUFFICES ASSUME TypeOK, NEW k \in DOMAIN log PROVE log[k].request \in Requests
  OBVIOUS
<1>1. log \in Seq(Event)
  BY DEF TypeOK, Event
<1>2. log[k] \in Event
  BY <1>1
<1>3. QED
  BY <1>2 DEF Event

LEMMA NoteLogs ==
  ASSUME TypeOK, NEW what \in {"load", "decided", "start", "failed", "recorded"},
         NEW r \in Requests, Note(what, r)
  PROVE  Logs(what, r)
<1>1. log \in Seq(Event)
  BY DEF TypeOK, Event
<1>2. \A k \in DOMAIN log : log[k].request \in Requests
  BY LoggedRequests
<1>3. /\ log' \in Seq(Event) /\ Len(log') = Len(log) + 1
      /\ \A k \in DOMAIN log : log'[k] = log[k]
      /\ log'[Len(log) + 1].what = what /\ log'[Len(log) + 1].request = r
  BY <1>1, NoteAppends
<1>4. QED
  BY <1>1, <1>2, <1>3 DEF Logs

(* A resume, wherever it is, disturbs no decision. *)
LEMMA ResumeKeepsDecision ==
  ASSUME TypeOK, DecisionInv, NEW r \in Requests, UNCHANGED status,
         at[r] = "unsent" \/ kind[r] = "resume",
         at' = [at EXCEPT ![r] = at'[r]], at'[r] \notin {"unsent", "deciding"},
         kind' = [kind EXCEPT ![r] = "resume"],
         seen' = seen \/ seen' = [seen EXCEPT ![r] = status],
         \/ UNCHANGED log
         \/ \E what \in {"start", "failed", "recorded"} : Note(what, r)
  PROVE  DecisionInv'
<1>0. /\ at \in [Requests -> Places] /\ kind \in [Requests -> Kinds]
      /\ seen \in [Requests -> {"pending", "approved", "rejected"}]
      /\ \A k \in DOMAIN log : log[k].request \in Requests
  BY LoggedRequests DEF TypeOK
<1>1. \A k \in DOMAIN log :
        Happened(k, "load") \/ Happened(k, "decided") => log[k].request # r
  BY DEF DecisionInv, LogInv, Decisions
<1>2. /\ DOMAIN log \subseteq DOMAIN log'
      /\ \A k \in DOMAIN log : log'[k] = log[k]
      /\ \A k \in DOMAIN log' : k \in DOMAIN log
                               \/ /\ log'[k].what \in {"start", "failed", "recorded"}
                                  /\ log'[k].request = r
  <2>1. CASE UNCHANGED log
    BY <2>1
  <2>2. ASSUME NEW what \in {"start", "failed", "recorded"}, Note(what, r)
        PROVE  /\ DOMAIN log \subseteq DOMAIN log'
               /\ \A k \in DOMAIN log : log'[k] = log[k]
               /\ \A k \in DOMAIN log' : k \in DOMAIN log
                                        \/ /\ log'[k].what = what
                                           /\ log'[k].request = r
    <3>1. Logs(what, r)
      BY <2>2, NoteLogs
    <3>2. QED
      BY <3>1 DEF Logs
  <2>3. QED
    BY <2>1, <2>2
<1>3. \A q \in Requests : /\ q # r => at'[q] = at[q] /\ kind'[q] = kind[q] /\ seen'[q] = seen[q]
                          /\ seen'[q] \in {seen[q], status}
  BY <1>0
<1>4. LogInv'
  <2>1. ASSUME NEW k \in DOMAIN log'
        PROVE  /\ at'[log'[k].request] # "unsent"
               /\ log'[k].what = "decided" => at'[log'[k].request] = "answered"
               /\ log'[k].what \in {"load", "decided"} => kind'[log'[k].request] \in Decisions
    BY <1>0, <1>1, <1>2, <1>3, <2>1 DEF DecisionInv, LogInv, Happened
  <2>2. \A q \in Requests : at'[q] = "deciding" => kind'[q] \in Decisions
    BY <1>3 DEF DecisionInv, LogInv
  <2>3. QED
    BY <2>1, <2>2 DEF LogInv, Happened
<1>5. StatusInv'
  <2>1. CASE status = "pending"
    BY <1>2, <1>3, <2>1 DEF DecisionInv, StatusInv, Happened
  <2>2. ASSUME NEW j \in DOMAIN log, Decisive(j) PROVE Decisive(j)'
    <3>1. /\ log'[j].what = "decided" /\ log'[j] = log[j]
          /\ kind'[log[j].request] = kind[log[j].request]
          /\ status = StatusAfter(kind[log[j].request])
      BY <1>0, <1>1, <1>2, <1>3, <2>2 DEF Decisive, Happened
    <3>2. ASSUME NEW l \in DOMAIN log', l > j, log'[l].what = "load"
          PROVE  LET q == log'[l].request
                 IN /\ at'[q] = "deciding" => seen'[q] = status
                    /\ kind'[q] # kind[log[j].request] => at'[q] \in {"deciding", "lost"}
      <4>1. l \in DOMAIN log /\ log'[l] = log[l] /\ log[l].request \in Requests \ {r}
        BY <1>0, <1>1, <1>2, <3>2 DEF Happened
      <4>2. QED
        BY <1>3, <2>2, <3>2, <4>1 DEF Decisive, Happened
    <3>3. QED
      BY <3>1, <3>2 DEF Decisive, Happened, StatusAfter
  <2>3. QED
    BY <1>2, <2>1, <2>2 DEF DecisionInv, StatusInv
<1>6. QED
  BY <1>4, <1>5 DEF DecisionInv

LEMMA LoadKeepsDecision ==
  ASSUME TypeOK, DecisionInv, NEW r \in Requests, NEW d \in Decisions, LoadToDecide(r, d)
  PROVE  DecisionInv'
<1>0. /\ at \in [Requests -> Places] /\ kind \in [Requests -> Kinds]
      /\ seen \in [Requests -> {"pending", "approved", "rejected"}]
      /\ Logs("load", r)
  BY NoteLogs DEF TypeOK, LoadToDecide
<1>1. /\ status' = status /\ at'[r] = "deciding" /\ kind'[r] = d /\ seen'[r] = status
      /\ \A k \in DOMAIN log : log[k].request # r
      /\ \A q \in Requests \ {r} : at'[q] = at[q] /\ kind'[q] = kind[q] /\ seen'[q] = seen[q]
  BY <1>0 DEF LoadToDecide, Move, rowVars, DecisionInv, LogInv
<1>2. LogInv'
  <2>1. ASSUME NEW k \in DOMAIN log'
        PROVE  /\ at'[log'[k].request] # "unsent"
               /\ log'[k].what = "decided" => at'[log'[k].request] = "answered"
               /\ log'[k].what \in {"load", "decided"} => kind'[log'[k].request] \in Decisions
    BY <1>0, <1>1, <2>1 DEF Logs, DecisionInv, LogInv, Happened
  <2>2. \A q \in Requests : at'[q] = "deciding" => kind'[q] \in Decisions
    BY <1>1 DEF DecisionInv, LogInv
  <2>3. QED
    BY <2>1, <2>2 DEF LogInv, Happened
<1>3. StatusInv'
  <2>1. CASE status = "pending"
    BY <1>0, <1>1, <2>1 DEF DecisionInv, StatusInv, Logs, Happened
  <2>2. ASSUME NEW j \in DOMAIN log, Decisive(j) PROVE Decisive(j)'
    <3>1. /\ log'[j].what = "decided" /\ log'[j] = log[j]
          /\ kind'[log[j].request] = kind[log[j].request]
          /\ status = StatusAfter(kind[log[j].request])
      BY <1>0, <1>1, <2>2 DEF Logs, Decisive, Happened
    <3>2. ASSUME NEW l \in DOMAIN log', l > j, log'[l].what = "load"
          PROVE  LET q == log'[l].request
                 IN /\ at'[q] = "deciding" => seen'[q] = status
                    /\ kind'[q] # kind[log[j].request] => at'[q] \in {"deciding", "lost"}
      BY <1>0, <1>1, <2>2, <3>2 DEF Logs, Decisive, Happened
    <3>3. QED
      BY <1>1, <3>1, <3>2 DEF Decisive, Happened, StatusAfter
  <2>3. QED
    BY <1>0, <1>1, <2>1, <2>2 DEF DecisionInv, StatusInv, Logs
<1>4. QED
  BY <1>2, <1>3 DEF DecisionInv

LEMMA DecideKeepsDecision ==
  ASSUME TypeOK, DecisionInv, NEW r \in Requests, Decide(r)
  PROVE  DecisionInv'
<1>0. /\ at \in [Requests -> Places] /\ Logs("decided", r)
      /\ status \in {"pending", "approved", "rejected"}
  BY NoteLogs DEF TypeOK, Decide
<1>1. /\ at[r] = "deciding" /\ at'[r] = "answered" /\ kind' = kind /\ seen' = seen
      /\ \A q \in Requests \ {r} : at'[q] = at[q]
      /\ kind[r] \in Decisions
      /\ status' = IF seen[r] = StatusAfter(kind[r]) THEN status ELSE StatusAfter(kind[r])
  BY <1>0 DEF Decide, Move, DecisionInv, LogInv
<1>2. LogInv'
  <2>1. ASSUME NEW k \in DOMAIN log'
        PROVE  /\ at'[log'[k].request] # "unsent"
               /\ log'[k].what = "decided" => at'[log'[k].request] = "answered"
               /\ log'[k].what \in {"load", "decided"} => kind'[log'[k].request] \in Decisions
    BY <1>0, <1>1, <2>1 DEF Logs, DecisionInv, LogInv, Happened
  <2>2. \A q \in Requests : at'[q] = "deciding" => kind'[q] \in Decisions
    BY <1>1 DEF DecisionInv, LogInv
  <2>3. QED
    BY <2>1, <2>2 DEF LogInv, Happened
<1>3. StatusInv'
  <2>1. StatusAfter(kind[r]) \in {"approved", "rejected"}
    BY DEF StatusAfter
  <2>2. status' # "pending"
    BY <1>0, <1>1, <2>1 DEF DecisionInv, StatusInv
  <2>3. CASE status' = StatusAfter(kind[r])
    <3>1. PICK n \in DOMAIN log' : n = Len(log) + 1
      BY <1>0 DEF Logs
    <3>2. /\ log'[n].what = "decided" /\ log'[n].request = r
          /\ \A l \in DOMAIN log' : ~(l > n)
      BY <1>0, <3>1 DEF Logs
    <3>3. Decisive(n)'
      BY <1>1, <2>3, <3>2 DEF Decisive, Happened, StatusAfter
    <3>4. QED
      BY <2>2, <3>1, <3>3 DEF StatusInv
  <2>4. CASE seen[r] = StatusAfter(kind[r]) /\ status' = status /\ status # StatusAfter(kind[r])
    <3>1. PICK j \in DOMAIN log : Decisive(j)
      BY <2>2, <2>4 DEF DecisionInv, StatusInv
    <3>2. \A l \in DOMAIN log : l > j /\ Happened(l, "load") => log[l].request # r
      BY <1>1, <2>4, <3>1 DEF Decisive
    <3>3. j \in DOMAIN log' /\ log'[j] = log[j] /\ log'[j].what = "decided"
      BY <1>0, <3>1 DEF Logs, Decisive, Happened
    <3>4. ASSUME NEW l \in DOMAIN log', l > j, log'[l].what = "load"
          PROVE  LET q == log'[l].request
                 IN /\ at'[q] = "deciding" => seen'[q] = status
                    /\ kind'[q] # kind[log[j].request] => at'[q] \in {"deciding", "lost"}
      <4>1. l \in DOMAIN log /\ log'[l] = log[l] /\ log[l].request \in Requests \ {r}
        BY <1>0, <3>2, <3>4 DEF Logs, Happened
      <4>2. QED
        BY <1>1, <3>1, <3>4, <4>1 DEF Decisive, Happened
    <3>5. Decisive(j)'
      BY <1>1, <2>4, <3>1, <3>3, <3>4 DEF Decisive, Happened, StatusAfter
    <3>6. QED
      BY <2>2, <3>3, <3>5 DEF StatusInv
  <2>5. QED
    BY <1>1, <2>3, <2>4
<1>4. QED
  BY <1>2, <1>3 DEF DecisionInv

LEMMA DecisionInvNext == TypeOK /\ DecisionInv /\ [Next]_vars => DecisionInv'
<1> SUFFICES ASSUME TypeOK, DecisionInv, [Next]_vars PROVE DecisionInv'
  OBVIOUS
<1>0. /\ at \in [Requests -> Places] /\ kind \in [Requests -> Kinds]
      /\ \A r \in Requests : at[r] \in {"executing", "recording"} => kind[r] = "resume"
  BY DEF TypeOK
<1>1. ASSUME NEW r \in Requests, NEW d \in Decisions, LoadToDecide(r, d) PROVE DecisionInv'
  BY <1>1, LoadKeepsDecision
<1>2. ASSUME NEW r \in Requests, Decide(r) PROVE DecisionInv'
  BY <1>2, DecideKeepsDecision
<1>3. ASSUME NEW r \in Requests, BeginResume(r) PROVE DecisionInv'
  <2>1. /\ at' = [at EXCEPT ![r] = at'[r]] /\ at'[r] \in {"executing", "refused"}
        /\ UNCHANGED log \/ Note("start", r)
    BY <1>0, <1>3 DEF BeginResume, Move
  <2>2. QED
    BY <1>3, <2>1, ResumeKeepsDecision DEF BeginResume, rowVars
<1>4. ASSUME NEW r \in Requests, EndExecution(r) \/ FailResume(r) \/ RecordExecution(r)
      PROVE  DecisionInv'
  <2>1. /\ at[r] \in {"executing", "recording"} /\ UNCHANGED <<status, kind, seen>>
        /\ at' = [at EXCEPT ![r] = at'[r]] /\ at'[r] \in {"recording", "error", "answered"}
        /\ UNCHANGED log \/ Note("failed", r) \/ Note("recorded", r)
    BY <1>0, <1>4 DEF EndExecution, FailResume, RecordExecution, Move, rowVars
  <2>2. kind[r] = "resume" /\ kind' = [kind EXCEPT ![r] = "resume"]
    BY <1>0, <2>1
  <2>3. QED
    BY <2>1, <2>2, ResumeKeepsDecision
<1>5. CASE Restart
  <2>1. /\ UNCHANGED <<status, kind, seen, log>>
        /\ \A r \in Requests : at'[r] = at[r] \/ (at[r] \in {"deciding", "executing", "recording"}
                                                  /\ at'[r] = "lost")
        /\ \A k \in DOMAIN log : log[k].request \in Requests
    BY <1>5, LoggedRequests DEF Restart, InFlight, rowVars
  <2>2. LogInv'
    BY <2>1 DEF DecisionInv, LogInv, Happened
  <2>3. ASSUME NEW j \in DOMAIN log, Decisive(j) PROVE Decisive(j)'
    BY <2>1, <2>3 DEF Decisive, Happened, StatusAfter
  <2>4. StatusInv'
    BY <2>1, <2>3 DEF DecisionInv, StatusInv, Happened
  <2>5. QED
    BY <2>2, <2>4 DEF DecisionInv
<1>6. CASE UNCHANGED vars
  BY <1>6 DEF vars, rowVars, DecisionInv, LogInv, StatusInv, Decisive, Happened, StatusAfter
<1>7. QED
  BY <1>1, <1>2, <1>3, <1>4, <1>5, <1>6 DEF Next

LEMMA DecisionInvariant == Spec => []DecisionInv
<1>1. Init => DecisionInv
  BY DEF Init, DecisionInv, LogInv, StatusInv
<1>2. QED
  BY <1>1, DecisionInvNext, ApprovalTypes, PTL DEF Spec

(* When no decision is in flight, the row says what was decided last,       *)
(* however the threads of the deciders interleave.                          *)
THEOREM LastDecisionHolds == Spec => []DecisionHolds
<1>1. TypeOK /\ DecisionInv => DecisionHolds
  <2> SUFFICES ASSUME TypeOK, DecisionInv, NEW d \in DecidedBefore(Len(log) + 1),
                      \A r \in Requests : at[r] \notin {"deciding", "lost"}
               PROVE  \E j \in DecidedBefore(Len(log) + 1) :
                        ~Overruled(j) /\ status = StatusAfter(kind[log[j].request])
    BY DEF DecisionHolds
  <2>1. Len(log) \in Nat /\ DOMAIN log = 1 .. Len(log)
    <3>1. log \in Seq(Event)
      BY DEF TypeOK, Event
    <3>2. QED
      BY <3>1
  <2>2. DecidedBefore(Len(log) + 1) = {j \in DOMAIN log : Happened(j, "decided")}
    BY <2>1 DEF DecidedBefore
  <2>3. PICK j \in DOMAIN log : Decisive(j)
    BY <2>2 DEF DecisionInv, StatusInv
  <2>4. ~Overruled(j)
    BY <2>3, LoggedRequests DEF Overruled, Decisive
  <2>5. QED
    BY <2>2, <2>3, <2>4 DEF Decisive
<1>2. QED
  BY <1>1, DecisionInvariant, ApprovalTypes, PTL

-------------------------------------------------------------------------------
(* What a start follows *)

(* An approved row was approved, and no rejection was begun and answered    *)
(* since.                                                                   *)
LEMMA ApprovedStands ==
  ASSUME TypeOK, DecisionInv, status = "approved"
  PROVE  \E j \in DecidedBefore(Len(log) + 1) :
           kind[log[j].request] = "approve" /\ ~RejectedBetween(j, Len(log) + 1)
<1>1. Len(log) \in Nat /\ DOMAIN log = 1 .. Len(log)
  <2>1. log \in Seq(Event)
    BY DEF TypeOK, Event
  <2>2. QED
    BY <2>1
<1>2. PICK j \in DOMAIN log : Decisive(j)
  BY DEF DecisionInv, StatusInv
<1>3. kind[log[j].request] = "approve" /\ Happened(j, "decided")
  BY <1>2 DEF Decisive, StatusAfter, DecisionInv, LogInv, Decisions
<1>4. ASSUME NEW l \in j + 1 .. Len(log), NEW m \in j + 1 .. Len(log),
             Happened(l, "load"), Happened(m, "decided"),
             log[l].request = log[m].request, kind[log[l].request] = "reject"
      PROVE  FALSE
  <2>1. l \in DOMAIN log /\ m \in DOMAIN log /\ l > j
    BY <1>1
  <2>2. at[log[l].request] \in {"deciding", "lost"}
    BY <1>2, <1>3, <1>4, <2>1 DEF Decisive
  <2>3. at[log[m].request] = "answered"
    BY <1>4, <2>1 DEF DecisionInv, LogInv
  <2>4. QED
    BY <1>4, <2>2, <2>3
<1>5. j \in DecidedBefore(Len(log) + 1) /\ (Len(log) + 1) - 1 = Len(log)
  BY <1>1, <1>3 DEF DecidedBefore
<1>6. ~RejectedBetween(j, Len(log) + 1)
  BY <1>4, <1>5 DEF RejectedBetween
<1>7. QED
  BY <1>3, <1>5, <1>6

(* The past stays: no step touches an event, or what a request that has one *)
(* asked for; and a plan starts only on an approved row.                    *)
LEMMA PastStands ==
  ASSUME TypeOK, DecisionInv, [Next]_vars
  PROVE  /\ Len(log) \in Nat /\ DOMAIN log = 1 .. Len(log)
         /\ DOMAIN log' \in {1 .. Len(log), 1 .. Len(log) + 1}
         /\ \A k \in DOMAIN log : /\ log'[k] = log[k]
                                  /\ kind'[log[k].request] = kind[log[k].request]
         /\ \A k \in DOMAIN log' \ DOMAIN log : log'[k].what = "start" => status = "approved"
<1> DEFINE Kept == /\ DOMAIN log' \in {1 .. Len(log), 1 .. Len(log) + 1}
                   /\ \A k \in DOMAIN log : /\ log'[k] = log[k]
                                            /\ kind'[log[k].request] = kind[log[k].request]
                   /\ \A k \in DOMAIN log' \ DOMAIN log :
                        log'[k].what = "start" => status = "approved"
<1>0. Len(log) \in Nat /\ DOMAIN log = 1 .. Len(log)
  <2>1. log \in Seq(Event)
    BY DEF TypeOK, Event
  <2>2. QED
    BY <2>1
<1>1. CASE UNCHANGED <<log, kind>>
  BY <1>0, <1>1
<1>2. ASSUME NEW what \in {"load", "decided", "start", "failed", "recorded"},
             NEW r \in Requests, Note(what, r), what = "start" => status = "approved",
             kind' = kind \/ (at[r] = "unsent" /\ kind' = [kind EXCEPT ![r] = kind'[r]])
      PROVE  Kept
  <2>1. Logs(what, r) /\ kind \in [Requests -> Kinds]
    BY <1>2, NoteLogs DEF TypeOK
  <2>2. \A k \in DOMAIN log : kind'[log[k].request] = kind[log[k].request]
    BY <1>2, <2>1, LoggedRequests DEF DecisionInv, LogInv
  <2>3. DOMAIN log' = 1 .. Len(log) + 1 /\ \A k \in DOMAIN log : log'[k] = log[k]
    BY <2>1 DEF Logs
  <2>4. \A k \in DOMAIN log' \ DOMAIN log : log'[k].what = what
    BY <1>0, <2>1 DEF Logs
  <2>5. QED
    BY <1>2, <2>2, <2>3, <2>4
<1>3. ASSUME NEW r \in Requests, at[r] = "unsent", UNCHANGED log,
             kind' = [kind EXCEPT ![r] = kind'[r]]
      PROVE  Kept
  <2>1. \A k \in DOMAIN log : kind'[log[k].request] = kind[log[k].request]
    BY <1>3, LoggedRequests DEF TypeOK, DecisionInv, LogInv
  <2>2. QED
    BY <1>0, <1>3, <2>1
<1>4. ASSUME NEW r \in Requests, NEW d \in Decisions, LoadToDecide(r, d) PROVE Kept
  <2>1. /\ Note("load", r) /\ at[r] = "unsent"
        /\ kind' = [kind EXCEPT ![r] = kind'[r]]
    BY <1>4 DEF LoadToDecide, TypeOK
  <2>2. QED
    BY <1>2, <2>1
<1>5. ASSUME NEW r \in Requests, Decide(r) \/ FailResume(r) \/ RecordExecution(r) PROVE Kept
  <2>1. kind' = kind /\ (Note("decided", r) \/ Note("failed", r) \/ Note("recorded", r))
    BY <1>5 DEF Decide, FailResume, RecordExecution
  <2>2. QED
    BY <1>2, <2>1
<1>6. ASSUME NEW r \in Requests, BeginResume(r) PROVE Kept
  <2>1. /\ at[r] = "unsent" /\ kind' = [kind EXCEPT ![r] = kind'[r]]
        /\ UNCHANGED log \/ (Note("start", r) /\ status = "approved")
    BY <1>6 DEF BeginResume, TypeOK
  <2>2. QED
    BY <1>2, <1>3, <2>1
<1>7. ASSUME NEW r \in Requests, EndExecution(r) PROVE UNCHANGED <<log, kind>>
  BY <1>7 DEF EndExecution
<1>8. CASE Restart
  BY <1>1, <1>8 DEF Restart
<1>9. CASE UNCHANGED vars
  BY <1>1, <1>9 DEF vars
<1>10. QED
  BY <1>0, <1>1, <1>4, <1>5, <1>6, <1>7, <1>8, <1>9 DEF Next

LEMMA StartsNext ==
  TypeOK /\ DecisionInv /\ StartsOnlyOnApproval /\ [Next]_vars => StartsOnlyOnApproval'
<1> SUFFICES ASSUME TypeOK, DecisionInv, StartsOnlyOnApproval, [Next]_vars,
                    NEW k \in DOMAIN log', log'[k].what = "start"
             PROVE  \E j \in DecidedBefore(k)' :
                      kind'[log'[j].request] = "approve" /\ ~RejectedBetween(j, k)'
  BY DEF StartsOnlyOnApproval, Happened
<1>1. /\ Len(log) \in Nat /\ DOMAIN log = 1 .. Len(log)
      /\ DOMAIN log' \in {1 .. Len(log), 1 .. Len(log) + 1}
      /\ \A i \in DOMAIN log : /\ log'[i] = log[i]
                               /\ kind'[log[i].request] = kind[log[i].request]
      /\ \A i \in DOMAIN log' \ DOMAIN log : log'[i].what = "start" => status = "approved"
  BY PastStands
<1>2. \E j \in DecidedBefore(k) : kind[log[j].request] = "approve" /\ ~RejectedBetween(j, k)
  <2>1. CASE k \in DOMAIN log
    BY <1>1, <2>1 DEF StartsOnlyOnApproval, Happened
  <2>2. CASE k \notin DOMAIN log
    <3>1. k = Len(log) + 1 /\ status = "approved"
      BY <1>1, <2>2
    <3>2. QED
      BY <3>1, ApprovedStands
  <2>3. QED
    BY <2>1, <2>2
<1>3. PICK j \in DecidedBefore(k) : kind[log[j].request] = "approve" /\ ~RejectedBetween(j, k)
  BY <1>2
<1>4. k \in Nat /\ 1 .. k - 1 \subseteq DOMAIN log /\ j \in 1 .. k - 1 /\ j + 1 .. k - 1 \subseteq 1 .. k - 1
  BY <1>1 DEF DecidedBefore
<1>5. j \in DecidedBefore(k)'
  BY <1>1, <1>3, <1>4 DEF DecidedBefore, Happened
<1>6. kind'[log'[j].request] = "approve"
  BY <1>1, <1>3, <1>4
<1>7. ~RejectedBetween(j, k)'
  <2>1. \A i \in j + 1 .. k - 1 : /\ log'[i] = log[i]
                                 /\ kind'[log[i].request] = kind[log[i].request]
    BY <1>1, <1>4
  <2>2. QED
    BY <1>3, <2>1 DEF RejectedBetween, Happened
<1>8. QED
  BY <1>5, <1>6, <1>7

(* No plan starts but on an approval that no rejection was begun and        *)
(* answered after, for any number of overlapping requests and restarts.     *)
THEOREM StartsAreApproved == Spec => []StartsOnlyOnApproval
<1>1. Init => StartsOnlyOnApproval
  BY DEF Init, StartsOnlyOnApproval
<1>2. QED
  BY <1>1, StartsNext, ApprovalTypes, DecisionInvariant, PTL DEF Spec
===============================================================================
