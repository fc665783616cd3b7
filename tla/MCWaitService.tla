---------------------------- MODULE MCWaitService ----------------------------
(* Instances of WaitService for TLC. *)
EXTENDS WaitService

CONSTANTS w1, w2, w3, t1, t2

(* w1 and w2 are waits on the same task, one after the other. *)
MCTaskOf == [w \in Wait |-> IF w = w3 THEN t2 ELSE t1]
=============================================================================
