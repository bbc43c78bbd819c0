------------------------------ MODULE MCApprovals ------------------------------
(* Symmetry for Approvals: requests differ only in what they choose to ask. *)
EXTENDS Approvals, TLC

RequestSymmetry == Permutations(Requests)
===============================================================================
