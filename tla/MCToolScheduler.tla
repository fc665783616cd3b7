--------------------------- MODULE MCToolScheduler ---------------------------
(***************************************************************************)
(* Instances of ToolScheduler for TLC.                                     *)
(***************************************************************************)
EXTENDS ToolScheduler, TLC

CONSTANTS e1, e2, e3, e4, e5, k1, k2, k3, k4, bash, tmux, c1

(* e1 and e4 use the same call id; tmux is an urgent tool; e3 has no ctx.  *)
MCEntry == {e1, e2, e3, e4, e5}
MCCallId == {k1, k2, k3, k4}
MCTool == {bash, tmux}
MCCallOf == [e \in Entry |-> CASE e \in {e1, e4} -> k1 [] e = e2 -> k2
                               [] e = e3 -> k3 [] e = e5 -> k4]
MCToolOf == [e \in Entry |-> IF e \in {e4, e5} THEN tmux ELSE bash]
MCCtxOf == [e \in Entry |-> IF e = e3 THEN NoCtx ELSE c1]
MCToolMaxRunning == (bash :> 1) @@ (tmux :> 2)
MCToolQueueDepth == (bash :> 1) @@ (tmux :> 1)

(* The liveness instance: four entries, and tool limits so tight that they *)
(* refuse reservations the instance would accept.                          *)
MCFewEntries == {e1, e2, e4, e5}
MCTightMaxRunning == (bash :> 1) @@ (tmux :> 1)
MCTightQueueDepth == (bash :> 1) @@ (tmux :> 0)
=============================================================================
