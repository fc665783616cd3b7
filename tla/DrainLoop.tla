------------------------------ MODULE DrainLoop ------------------------------
(***************************************************************************)
(* The loop of #drain, one iteration a step, in any situation a drain may  *)
(* meet.  ToolScheduler has the whole loop as part of one step (Drain) and *)
(* describes its result by IsDrained; this module says that the loop has   *)
(* that result, and comes to its end.  A closed scheduler does not enter   *)
(* the loop (see Drain).                                                   *)
(***************************************************************************)
EXTENDS ToolScheduler

VARIABLES
    left,       (* what is still in #waiting                           *)
    going       (* what runs                                           *)

loopVars == <<vars, left, going>>

(* The callers of #drain leave typed states and a queue in push order. *)
Situation ==
    /\ state \in [Entry -> EntryState]
    /\ ticket \in [Entry -> Nat]
    /\ pushed \in Nat
    /\ QueueOrder(state, ticket, pushed)

LoopInit ==
    /\ Situation
    /\ left = Queued(state)
    /\ going = Running(state)

(* #start of the entry that findIndex finds. *)
Iterate ==
    /\ Runnable(left, going) # {}
    /\ LET e == NextToStart(left, going, ticket) IN
        /\ left' = left \ {e}
        /\ going' = going \cup {e}
    /\ UNCHANGED vars

LoopSpec == LoopInit /\ [][Iterate]_loopVars

Started == Queued(state) \ left

(* When the loop finds nothing, it has started the one set of entries that *)
(* satisfies IsDrained.                                                    *)
LoopDrains ==
    Runnable(left, going) = {} =>
        \A S \in SUBSET Queued(state) :
            IsDrained(S, Queued(state), Running(state), ticket) <=> S = Started

(* Each iteration brings the loop closer to its end. *)
LoopAdvances ==
    [][Cardinality(left') \in Nat /\ Cardinality(left') < Cardinality(left)]_loopVars

(* What holds between iterations.  Whatever can still run comes after all  *)
(* that has been started, and whatever cannot was passed over because of   *)
(* what is ahead of it.                                                    *)
Beside(e) == Running(state) \cup {d \in Started : Ahead(ticket, d, e)}

LoopInv ==
    /\ Situation
    /\ left \subseteq Queued(state)
    /\ going = Running(state) \cup Started
    /\ \A e \in Runnable(left, going), d \in Started : Ahead(ticket, d, e)
    /\ \A e \in Started : CanRun(e, Beside(e))
    /\ \A e \in left \ Runnable(left, going) : ~CanRun(e, Beside(e))
=============================================================================
