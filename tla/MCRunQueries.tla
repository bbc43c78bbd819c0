----------------------------- MODULE MCRunQueries -----------------------------
(***************************************************************************)
(* Three runs, two of one user and one of another; pages of two runs, so   *)
(* that the last page is full for one reader and half empty for another.   *)
(***************************************************************************)
EXTENDS RunQueries

MCIds == 1 .. 3
MCOwnerOf == [r \in MCIds |-> IF r = 2 THEN "other" ELSE "owner"]

Outcome(status, approved, confidence, retries, results) ==
  [status |-> status, approved |-> approved, confidence |-> confidence,
   retry_count |-> retries, results |-> results]

(* What the controller leaves: a success, a failure the verifier was sure   *)
(* of, one after many retries that was rated in percent, a failure with a   *)
(* confidence below zero, and a plan that waits for approval.               *)
MCOutcomes ==
  {Outcome("completed", TRUE, 9000, 1, 1),
   Outcome("failed", TRUE, 10000, 0, 2),
   Outcome("failed", FALSE, 950000, 6, 1),
   Outcome("failed", FALSE, -20000, 0, 1),
   Outcome("approval_required", NoValue, NoValue, 0, 0)}
===============================================================================
