---------------------------- MODULE WaitRegister ----------------------------
(***************************************************************************)
(* What the wait service promises of its records, with no document, no     *)
(* rename, no queue of events and no unknown outcomes: a register that     *)
(* changes in one step, and the set of its contents that a power failure   *)
(* may bring back.  A task has one open wait; an open wait is settled      *)
(* once, and not as failed when its result has been read; settled waits    *)
(* are let go of only when there are more than Retention; and a wait that  *)
(* was confirmed is in every content that may come back.                   *)
(***************************************************************************)
EXTENDS Naturals, FiniteSets

CONSTANTS
    Wait,           (* every wait of the behaviour                    *)
    TaskOf,         (* the task each wait is for                      *)
    Outcome,        (* how a wait may end, "failed" among them        *)
    Retention       (* settled waits that are kept                    *)

VARIABLES
    record,         (* the status of each wait                        *)
    durable,        (* the records a power failure may bring back     *)
    confirmed,      (* waits whose detaching was confirmed            *)
    known,          (* waits whose result has been read               *)
    sealed          (* the service has closed                         *)

avars == <<record, durable, confirmed, known, sealed>>

Open(rec) == {w \in Wait : rec[w] = "detached"}
Ended(rec) == {w \in Wait : rec[w] \in Outcome}

(* The wait has ended, and the waits W are let go of. *)
After(rec, w, outcome, W) ==
    [v \in Wait |-> IF v \in W THEN "pruned" ELSE IF v = w THEN outcome ELSE rec[v]]

Init ==
    /\ record = [w \in Wait |-> "none"]
    /\ durable = {record}
    /\ confirmed = {} /\ known = {}
    /\ sealed = FALSE

(* The register changes; it is not known to be durable yet. *)
Write(rec) ==
    /\ ~sealed
    /\ record' = rec
    /\ durable' = durable \cup {rec}
    /\ UNCHANGED <<confirmed, known, sealed>>

Detach(w) ==
    /\ record[w] = "none"
    /\ \A d \in Open(record) : TaskOf[d] # TaskOf[w]
    /\ Write([record EXCEPT ![w] = "detached"])

Settle(w, outcome, W) ==
    LET rec == After(record, w, outcome, W) IN
    /\ record[w] = "detached"
    /\ w \in known => outcome # "failed"
    /\ W \subseteq Ended(record)
    /\ Cardinality(Ended(rec)) <= Retention
    /\ W # {} => Cardinality(Ended(rec)) = Retention
    /\ Write(rec)

Save ==
    /\ ~sealed
    /\ durable' = {record}
    /\ UNCHANGED <<record, confirmed, known, sealed>>

Confirm(w) ==
    /\ \A rec \in durable : rec[w] # "none"
    /\ confirmed' = confirmed \cup {w}
    /\ UNCHANGED <<record, durable, known, sealed>>

Learn(w) ==
    /\ record[w] = "detached"
    /\ known' = known \cup {w}
    /\ UNCHANGED <<record, durable, confirmed, sealed>>

Seal ==
    /\ sealed' = TRUE
    /\ UNCHANGED <<record, durable, confirmed, known>>

(* Another process opens what is left, and has read nothing. *)
PowerFails ==
    /\ record' \in durable
    /\ durable' = {record'}
    /\ known' = {} /\ sealed' = FALSE
    /\ UNCHANGED confirmed

Next ==
    \/ \E w \in Wait : Detach(w) \/ Confirm(w) \/ Learn(w)
    \/ \E w \in Wait, outcome \in Outcome : \E W \in SUBSET Wait :
            Settle(w, outcome, W)
    \/ Save \/ Seal \/ PowerFails

Spec == Init /\ [][Next]_avars
=============================================================================
