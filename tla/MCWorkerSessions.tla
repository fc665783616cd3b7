--------------------------- MODULE MCWorkerSessions ---------------------------
(* Two sessions on two workspaces, two failures and two links.            *)
EXTENDS WorkerSessions
=============================================================================
