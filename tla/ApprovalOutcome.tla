-------------------------- MODULE ApprovalOutcome --------------------------
(***************************************************************************)
(* What the approval service promises, with no queue, no awaits, no cache  *)
(* and no outbox.  An approval is asked once and has one outcome, which    *)
(* stands.  Its caller waits for an answer, and the outcome and the answer *)
(* are given in one step; a decision is given only to a caller that waits  *)
(* at an open door.  What is announced is what came out, the request       *)
(* first, and only an announced outcome is forgotten.  A crash loses the   *)
(* callers and may settle the one approval that was being settled.         *)
(*                                                                         *)
(* The one weakness of the promise: an approval that was being decided     *)
(* when the door shut may become "disputed".  Its events are then          *)
(* anything, and its caller is never given a decision.                     *)
(***************************************************************************)
EXTENDS Sequences

CONSTANTS
    Id,             (* every approval of the behaviour                *)
    Decision,       (* the outcomes somebody decided                  *)
    TerminalStatus  (* all the outcomes, Decision among them          *)

VARIABLES
    outcome,        (* [Id -> Outcome]                                *)
    told,           (* what the caller of each approval was answered  *)
    log,            (* what was announced of it                       *)
    open            (* decisions are taken                            *)

avars == <<outcome, told, log, open>>

Outcome == {"none", "pending", "pruned", "disputed"} \cup TerminalStatus

Said(id) == {log[id][i] : i \in DOMAIN log[id]}

(* Those who wait are told t. *)
Dismissed(t) == [id \in Id |-> IF told[id] = "waiting" THEN t ELSE told[id]]

Init ==
    /\ outcome = [id \in Id |-> "none"]
    /\ told = [id \in Id |-> "none"]
    /\ log = [id \in Id |-> <<>>]
    /\ open = TRUE

Ask(id) ==
    /\ outcome[id] = "none"
    /\ outcome' = [outcome EXCEPT ![id] = "pending"]
    /\ UNCHANGED <<told, log, open>>

(* The caller is let in to wait, or turned away at a shut door. *)
Answer(id) ==
    /\ outcome[id] = "pending" /\ told[id] = "none"
    /\ told' = [told EXCEPT ![id] = IF open THEN "waiting" ELSE "cancelled"]
    /\ UNCHANGED <<outcome, log, open>>

(* The outcome, and the answer to whoever waits for it. *)
Settle(id, s) ==
    /\ outcome[id] = "pending"
    /\ s \in Decision => open /\ told[id] = "waiting"
    /\ outcome' = [outcome EXCEPT ![id] = s]
    /\ told' = [told EXCEPT ![id] = IF @ = "waiting" THEN s ELSE @]
    /\ UNCHANGED <<log, open>>

Dispute(id) ==
    /\ outcome[id] = "pending" /\ ~open
    /\ outcome' = [outcome EXCEPT ![id] = "disputed"]
    /\ UNCHANGED <<told, log, open>>

Drop(id, s) ==
    /\ outcome[id] = "disputed" /\ told[id] = "waiting"
    /\ told' = [told EXCEPT ![id] = s]
    /\ UNCHANGED <<outcome, log, open>>

(* Events may repeat; the request does not follow an outcome. *)
Announce(id, e) ==
    /\ \/ e = "requested" /\ Said(id) \cap TerminalStatus = {}
          /\ outcome[id] \in {"pending"} \cup TerminalStatus
       \/ e \in TerminalStatus /\ outcome[id] \in {e, "disputed"}
       \/ e = "requested" /\ outcome[id] = "disputed"
    /\ log' = [log EXCEPT ![id] = Append(@, e)]
    /\ UNCHANGED <<outcome, told, open>>

Forget(D) ==
    /\ \A id \in D : outcome[id] \in TerminalStatus \cap Said(id)
    /\ outcome' = [id \in Id |-> IF id \in D THEN "pruned" ELSE outcome[id]]
    /\ UNCHANGED <<told, log, open>>

(* Shutting the door leaves those who wait; closing dismisses them. *)
Shut ==
    /\ open' = FALSE
    /\ UNCHANGED <<outcome, told, log>>

Close ==
    /\ open' = FALSE
    /\ told' = Dismissed("cancelled")
    /\ UNCHANGED <<outcome, log>>

(* What a crash leaves of an approval that was being settled. *)
Torn(id) ==
    \E s \in TerminalStatus \cup {"disputed"} :
        /\ outcome[id] = "pending"
        /\ s \in Decision => open /\ told[id] = "waiting"
        /\ s = "disputed" => ~open
        /\ outcome' = [outcome EXCEPT ![id] = s]

Crash ==
    /\ UNCHANGED outcome \/ \E id \in Id : Torn(id)
    /\ told' = Dismissed("lost")
    /\ open' = TRUE
    /\ UNCHANGED log

Next ==
    \/ \E id \in Id :
        \/ Ask(id) \/ Answer(id) \/ Dispute(id)
        \/ \E s \in TerminalStatus : Settle(id, s)
        \/ \E s \in TerminalStatus \ Decision : Drop(id, s)
        \/ \E e \in {"requested"} \cup TerminalStatus : Announce(id, e)
    \/ \E D \in SUBSET Id : Forget(D)
    \/ Shut \/ Close \/ Crash

Spec == Init /\ [][Next]_avars
=============================================================================
