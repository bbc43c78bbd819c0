------------------------------ MODULE RunQueries ------------------------------
(***************************************************************************)
(* The readers of the run tables side by side with their writers: a client *)
(* either walks the pages of /runs or asks for one of the reports, while   *)
(* the runs of everybody go on.                                            *)
(***************************************************************************)
EXTENDS RunListing, Observability

VARIABLE client

queryVars == <<vars, reportVars, client>>

Walker ==
  /\ client = "walker"
  /\ WalkInit
  /\ report = "none" /\ filter = NoValue /\ subject = NoValue /\ answers = <<>>

Reporter ==
  /\ client = "reporter"
  /\ ReportInit
  /\ at = "idle" /\ user \in Admins /\ wanted = NoValue
  /\ page = 1 /\ total = 0 /\ shown = <<>> /\ present = {}
  /\ entered = FALSE /\ crossed = FALSE /\ left = FALSE

QueriesInit == StoreInit /\ (Walker \/ Reporter)

ReportAnswered == report # "none" /\ Len(answers) = Len(Queries[report])

(* Once the client has its answer nothing is left to see. *)
QueriesNext ==
  \/ client = "walker" /\ Walk /\ UNCHANGED <<reportVars, client>>
  \/ client = "reporter" /\ Query /\ UNCHANGED <<walkVars, client>>
  \/ /\ at \notin {"done", "error"} /\ ~ReportAnswered
     /\ WriteMeanwhile
     /\ UNCHANGED <<reportVars, client>>

QueriesSpec == QueriesInit /\ [][QueriesNext]_queryVars

-------------------------------------------------------------------------------
(* The rows of the tables and what the readers hold. *)
TypeOK ==
  /\ WalkTypeOK
  /\ \A r \in DOMAIN runs :
       /\ runs[r].status \in {"running", "approval_required"}
                             \cup SuccessStatuses \cup FailedStatuses
       /\ runs[r].approved \in BOOLEAN \cup {NoValue}
       /\ runs[r].steps_failed <= runs[r].steps_total
       /\ runs[r].steps_total <= MaxSteps
  /\ audit \in [Ids -> [StepStatuses -> 0 .. MaxSteps]]
  /\ client = "reporter" => at = "idle" /\ Len(answers) <= Len(Queries[report])
===============================================================================
