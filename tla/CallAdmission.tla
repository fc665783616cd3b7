---------------------------- MODULE CallAdmission ----------------------------
(***************************************************************************)
(* What the tool call scheduler promises the rest of Control, with no      *)
(* queue, no timers and no call ids: a call is admitted at most once, is   *)
(* either withdrawn before it executes or executes exactly once, no more   *)
(* than MaxAdmitted calls are inside and no more than MaxExecuting execute *)
(* at a time, and once the door is closing nothing is admitted and nothing *)
(* begins.  The door reports "closed" only when nobody is inside.          *)
(***************************************************************************)
EXTENDS Naturals, FiniteSets

CONSTANTS
    Call,           (* every call of the behaviour             *)
    MaxAdmitted,    (* calls that may be inside at one time    *)
    MaxExecuting    (* calls that may execute at one time      *)

VARIABLES
    phase,          (* [Call -> Phase]                         *)
    door            (* "open", "closing" or "closed"           *)

avars == <<phase, door>>

Phase == {"outside", "admitted", "executing", "settled"}

In(place, p) == {c \in Call : p[c] = place}
Inside(p) == In("admitted", p) \cup In("executing", p)

(* A closing door reports "closed" in the very step that empties the room. *)
DoorAfter(d, p) == IF d # "open" /\ Inside(p) = {} THEN "closed" ELSE d

Init ==
    /\ phase = [c \in Call |-> "outside"]
    /\ door = "open"

Admit(c) ==
    /\ door = "open"
    /\ phase[c] = "outside"
    /\ phase' = [phase EXCEPT ![c] = "admitted"]
    /\ Cardinality(Inside(phase')) <= MaxAdmitted
    /\ UNCHANGED door

(* Some admitted calls are withdrawn and others begin, in one step. *)
Move(withdrawn, begun) ==
    /\ withdrawn \cap begun = {}
    /\ begun # {} => door = "open"
    /\ phase' = [c \in Call |-> IF c \in withdrawn THEN "settled"
                                ELSE IF c \in begun THEN "executing"
                                ELSE phase[c]]
    /\ begun # {} => Cardinality(In("executing", phase')) <= MaxExecuting
    /\ UNCHANGED door

Settle(c) ==
    /\ phase[c] = "executing"
    /\ phase' = [phase EXCEPT ![c] = "settled"]
    /\ door' = DoorAfter(door, phase')

Close ==
    /\ door = "open"
    /\ phase' = [c \in Call |-> IF phase[c] = "admitted" THEN "settled"
                                ELSE phase[c]]
    /\ door' = DoorAfter("closing", phase')

Next ==
    \/ \E c \in Call : Admit(c) \/ Settle(c)
    \/ \E withdrawn, begun \in SUBSET In("admitted", phase) :
            Move(withdrawn, begun)
    \/ Close

Spec == Init /\ [][Next]_avars
=============================================================================
