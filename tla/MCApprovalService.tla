-------------------------- MODULE MCApprovalService --------------------------
(* Instances of ApprovalService for TLC. *)
EXTENDS ApprovalService

(* The approvals are interchangeable. *)
Symmetry == Permutations(Id)
=============================================================================
