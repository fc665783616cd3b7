------------------------- MODULE MCRecoveryDelivery -------------------------
(* Instances of RecoveryDelivery for TLC. *)
EXTENDS RecoveryDelivery, TLC

CONSTANTS c1, c2, c3, d1

OpSymmetry == Permutations(Op)
=============================================================================
