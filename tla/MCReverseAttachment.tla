------------------------- MODULE MCReverseAttachment -------------------------
(* Three connections of a Worker, a credential that is replaced once.       *)
EXTENDS ReverseAttachment
=============================================================================
