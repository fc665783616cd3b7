------------------------ MODULE ToolScheduler_refines ------------------------
(***************************************************************************)
(* The scheduler implements CallAdmission: every step of ToolScheduler is  *)
(* a step of the abstract specification, or leaves its variables alone.    *)
(***************************************************************************)
EXTENDS ToolScheduler_proofs

(* The instance counts as the module does. *)
LEMMA SameCount == \A X : Admission!Cardinality(X) = Cardinality(X)
<1> QED
    BY Zenon DEF Cardinality, Admission!Cardinality

(* What each entry state is to CallAdmission. *)
LEMMA PhaseMeans ==
    ASSUME NEW s \in EntryState
    PROVE  /\ PhaseOf(s) = "outside" <=> s = "new"
           /\ PhaseOf(s) = "admitted" <=> s \in Waiting
           /\ PhaseOf(s) = "executing" <=> s = "running"
           /\ PhaseOf(s) = "settled" <=> s \in Terminal
<1> QED
    BY DEF EntryState, PhaseOf, Waiting, Live, Terminal

(* The executing calls of CallAdmission are the running entries, and those *)
(* inside are the entries in the map.                                      *)
LEMMA PlacesAre ==
    ASSUME IInv
    PROVE  /\ Admission!In("executing", [e \in Entry |-> PhaseOf(state[e])])
                = Running(state)
           /\ Admission!In("admitted", [e \in Entry |-> PhaseOf(state[e])])
                = {e \in Entry : state[e] \in Waiting}
           /\ Admission!Inside([e \in Entry |-> PhaseOf(state[e])]) = Accepted
<1> DEFINE ph == [e \in Entry |-> PhaseOf(state[e])]
<1>1. \A e \in Entry : state[e] \in EntryState
    BY DEF IInv, TypeOK
<1>2. Admission!In("executing", ph) = Running(state)
    BY <1>1, PhaseMeans DEF Admission!In, Running
<1>3. Admission!In("admitted", ph) = {e \in Entry : state[e] \in Waiting}
    BY <1>1, PhaseMeans DEF Admission!In
<1>4. Accepted = {e \in Entry : state[e] \in Waiting} \cup Running(state)
    BY DEF IInv, MapHoldsLiveCalls, Accepted, Live, Running
<1>5. Admission!Inside(ph)
        = Admission!In("admitted", ph) \cup Admission!In("executing", ph)
    BY DEF Admission!Inside
<1> QED
    BY <1>2, <1>3, <1>4, <1>5

LEMMA PlacesAfter ==
    (IInv => Admission!Inside([e \in Entry |-> PhaseOf(state[e])]) = Accepted)'
<1>1. IInv => Admission!Inside([e \in Entry |-> PhaseOf(state[e])]) = Accepted
    BY PlacesAre
<1> QED
    BY <1>1, PTL

(* The door invariant holds at first. *)
LEMMA InitDoor == Init => DoorInv
<1> QED
    BY RequestAssumption DEF Init, DoorInv, Waiting

(* A drain does not queue or reserve anything: what waits after it waited  *)
(* in the states it was given, and what it starts was queued in them.      *)
LEMMA DrainStarts ==
    ASSUME NEW st, NEW tk, Drain(st, tk)
    PROVE  \E S \in SUBSET Queued(st) :
                /\ closed => S = {}
                /\ state' = [e \in Entry |-> IF e \in S THEN "running"
                                             ELSE st[e]]
<1> QED
    BY DEF Drain

(* Every step keeps the door invariant. *)
LEMMA StepDoor == IInv /\ DoorInv /\ [Next]_vars => DoorInv'
<1> SUFFICES ASSUME IInv, DoorInv, [Next]_vars
             PROVE  DoorInv'
    OBVIOUS
<1>0. /\ state \in [Entry -> EntryState]
      /\ entries \in [CallId -> Entry \cup {NoEntry}]
      /\ \A e \in Entry : CallOf[e] \in CallId /\ e # NoEntry
    BY RequestAssumption DEF IInv, TypeOK
<1>1. ASSUME NEW e \in Entry, Reserve(e)
      PROVE  DoorInv'
    <2>1. /\ ~closed /\ closed' = closed /\ closeResolved' = closeResolved
          /\ entries' = [entries EXCEPT ![CallOf[e]] = e]
        BY <1>1 DEF Reserve
    <2>2. \A c \in CallId :
            entries'[c] = IF c = CallOf[e] THEN e ELSE entries[c]
        BY <1>0, <2>1
    <2> QED
        BY <2>1, <2>2 DEF DoorInv
<1>2. ASSUME NEW e \in Entry, Queue(e)
      PROVE  DoorInv'
    <2>1. ~closed
        BY <1>2 DEF Queue, DoorInv, Waiting
    <2> QED
        BY <1>2, <2>1 DEF Queue, DoorInv
<1>3. ASSUME NEW e \in Entry, QueueSettled(e)
      PROVE  DoorInv'
    BY <1>3 DEF QueueSettled, DoorInv
<1>4. ASSUME NEW e \in Entry, Cancel(e)
      PROVE  DoorInv'
    <2>1. ~closed /\ closed' = closed
        BY <1>4 DEF Cancel, DoorInv
    <2>2. closeResolved' = closeResolved
        BY <1>4, <2>1 DEF Cancel, Finish, IInv, TypeOK
    <2>3. \A c \in CallId : entries'[c] \in {entries[c], NoEntry}
        BY <1>4 DEF Cancel, Finish
    <2> QED
        BY <2>1, <2>2, <2>3 DEF DoorInv
<1>5. ASSUME NEW e \in Entry, Timeout(e)
      PROVE  DoorInv'
    <2>1. ~closed /\ closed' = closed
        BY <1>5 DEF Timeout, DoorInv, Waiting
    <2>2. closeResolved' = closeResolved
        BY <1>5, <2>1 DEF Timeout, Finish, IInv, TypeOK
    <2>3. \A c \in CallId : entries'[c] \in {entries[c], NoEntry}
        BY <1>5 DEF Timeout, Finish
    <2> QED
        BY <2>1, <2>2, <2>3 DEF DoorInv
<1>6. ASSUME NEW e \in Entry, NEW st \in {"completed", "failed"},
             NEW outcome, End(e, st, outcome)
      PROVE  DoorInv'
    <2>1. /\ closed' = closed
          /\ closeResolved' => closeResolved \/ closed
          /\ \A c \in CallId : entries'[c] \in {entries[c], NoEntry}
        BY <1>6 DEF End, Finish
    <2>2. \A d \in Entry : state'[d] \in Waiting => state[d] \in Waiting
        BY <1>0, <1>6 DEF End, Waiting
    <2> QED
        BY <2>1, <2>2 DEF DoorInv
<1>7. ASSUME NEW e \in Entry, Finally(e)
      PROVE  DoorInv'
    <2>1. UNCHANGED <<entries, closed, closeResolved>>
        BY <1>7 DEF Finally
    <2>2. \A d \in Entry : state'[d] \in Waiting => state[d] \in Waiting
        BY <1>7, DrainStarts DEF Finally, Waiting
    <2> QED
        BY <2>1, <2>2 DEF DoorInv
<1>8. CASE Close
    <2>1. /\ closed'
          /\ \A c \in CallId : entries'[c] \in {entries[c], NoEntry}
        BY <1>8 DEF Close
    <2>2. \A e \in Entry : state'[e] \notin Waiting
        <3> SUFFICES ASSUME NEW e \in Entry, state[e] \in Waiting
                     PROVE  state'[e] = "cancelled"
            BY <1>0, <1>8 DEF Close, Waiting
        <3>1. e \in Accepted /\ state[e] # "running"
            BY DEF IInv, MapHoldsLiveCalls, Accepted, Live, Waiting
        <3> QED
            BY <3>1, <1>8 DEF Close
    <2> QED
        BY <2>1, <2>2 DEF DoorInv
<1>9. CASE UNCHANGED vars
    BY <1>9 DEF vars, DoorInv
<1> QED
    BY <1>1, <1>2, <1>3, <1>4, <1>5, <1>6, <1>7, <1>8, <1>9
       DEF Next, Complete, Fail
-----------------------------------------------------------------------------
(* Steps.                                                                  *)

(* A step that withdraws some waiting calls, starts some queued ones by a  *)
(* drain and leaves the door alone is a Move of CallAdmission.             *)
LEMMA MoveStep ==
    ASSUME IInv, DoorInv, IInv', NEW W \in SUBSET Entry,
           \A e \in W : state[e] \in Waiting,
           NEW st, NEW tk, Drain(st, tk),
           \A e \in W : st[e] \in Terminal,
           \A e \in Entry \ W :
                st[e] \in EntryState /\ PhaseOf(st[e]) = PhaseOf(state[e]),
           UNCHANGED <<closed, closeResolved>>
    PROVE  Admission!Next
<1>1. PICK S \in SUBSET Queued(st) :
            /\ closed => S = {}
            /\ state' = [e \in Entry |-> IF e \in S THEN "running" ELSE st[e]]
    BY DrainStarts
<1> DEFINE ph == [e \in Entry |-> PhaseOf(state[e])]
<1>2. S \subseteq Entry \ W
    BY <1>1 DEF Queued, Terminal
<1>3. \A e \in S : state[e] \in Waiting
    <2> SUFFICES ASSUME NEW e \in S PROVE state[e] \in Waiting
        OBVIOUS
    <2>1. e \in Entry /\ st[e] = "queued" /\ state[e] \in EntryState
        BY <1>1 DEF Queued, IInv, TypeOK
    <2>2. PhaseOf(st[e]) = "admitted" /\ PhaseOf(st[e]) = PhaseOf(state[e])
        BY <1>2, <2>1, PhaseMeans DEF Waiting
    <2> QED
        BY <2>1, <2>2, PhaseMeans
<1>4. /\ W \subseteq Admission!In("admitted", ph)
      /\ S \subseteq Admission!In("admitted", ph)
    BY <1>2, <1>3, PlacesAre
<1>5. \A e \in Entry : PhaseOf(state'[e]) = IF e \in W THEN "settled"
                              ELSE IF e \in S THEN "executing"
                              ELSE PhaseOf(state[e])
    <2> TAKE e \in Entry
    <2>1. CASE e \in W
        BY <1>1, <1>2, <2>1, PhaseMeans DEF EntryState
    <2>2. CASE e \in S
        BY <1>1, <1>2, <2>2, PhaseMeans DEF EntryState, Live
    <2>3. CASE e \notin W /\ e \notin S
        BY <1>1, <2>3
    <2> QED
        BY <2>1, <2>2, <2>3
<1>6. ph' = [e \in Entry |-> IF e \in W THEN "settled"
                             ELSE IF e \in S THEN "executing" ELSE ph[e]]
    BY <1>5
<1>7. Cardinality(Admission!In("executing", ph')) <= MaxRunning + 1
    <2>1. Admission!In("executing", ph') = Running(state')
        <3>1. \A e \in Entry : state'[e] \in EntryState
            BY DEF IInv, TypeOK
        <3> QED
            BY <3>1, PhaseMeans DEF Admission!In, Running
    <2> QED
        BY <2>1 DEF IInv, RunningWithinLimits, WithinLimits
<1>8. S # {} => ~closed /\ ~closeResolved
    BY <1>1 DEF DoorInv
<1>9. Admission!Move(W, S)
    BY <1>2, <1>6, <1>7, <1>8, SameCount DEF Admission!Move
<1> QED
    BY <1>4, <1>9 DEF Admission!Next

(* The case of a drain that withdraws nobody. *)
LEMMA StartStep ==
    ASSUME IInv, DoorInv, IInv', NEW st, NEW tk, Drain(st, tk),
           \A e \in Entry :
                st[e] \in EntryState /\ PhaseOf(st[e]) = PhaseOf(state[e]),
           UNCHANGED <<closed, closeResolved>>
    PROVE  Admission!Next
<1> DEFINE W == {}
<1>1. W \in SUBSET Entry
    OBVIOUS
<1>2. (\A e \in W : state[e] \in Waiting) /\ (\A e \in W : st[e] \in Terminal)
    OBVIOUS
<1> HIDE DEF W
<1> QED
    BY <1>1, <1>2, MoveStep

(* The case of a drain that withdraws one call. *)
LEMMA WithdrawMoves ==
    ASSUME IInv, DoorInv, IInv', NEW e \in Entry, state[e] \in Waiting,
           NEW st, NEW tk, Drain(st, tk), st[e] \in Terminal,
           \A d \in Entry \ {e} :
                st[d] \in EntryState /\ PhaseOf(st[d]) = PhaseOf(state[d]),
           UNCHANGED <<closed, closeResolved>>
    PROVE  Admission!Next
<1> DEFINE W == {e}
<1>1. W \in SUBSET Entry
    OBVIOUS
<1>2. (\A d \in W : state[d] \in Waiting) /\ (\A d \in W : st[d] \in Terminal)
    OBVIOUS
<1>3. \A d \in Entry \ W :
        st[d] \in EntryState /\ PhaseOf(st[d]) = PhaseOf(state[d])
    OBVIOUS
<1> HIDE DEF W
<1> QED
    BY <1>1, <1>2, <1>3, MoveStep

(* A reservation is an admission. *)
LEMMA ReserveAdmits ==
    ASSUME IInv, DoorInv, IInv', NEW e \in Entry, Reserve(e)
    PROVE  Admission!Next
<1> DEFINE ph == [d \in Entry |-> PhaseOf(state[d])]
<1>0. /\ state \in [Entry -> EntryState]
      /\ state' = [state EXCEPT ![e] = "reserved"] /\ state[e] = "new"
      /\ ~closed /\ ~closeResolved
      /\ UNCHANGED <<closed, closeResolved>>
    BY DEF IInv, TypeOK, Reserve, DoorInv
<1>1. PhaseOf("reserved") = "admitted" /\ PhaseOf("new") = "outside"
    BY PhaseMeans DEF EntryState, Live, Waiting
<1>2. ph' = [ph EXCEPT ![e] = "admitted"] /\ ph[e] = "outside"
    BY <1>0, <1>1
<1>3. Cardinality(Admission!Inside(ph')) <= MaxRunning + QueueDepth + 1
    <2>1. Admission!Inside(ph') = Accepted'
        BY PlacesAfter
    <2> QED
        BY <2>1 DEF IInv, CountedWithinLimits, WithinDepths
<1>4. Admission!Admit(e)
    BY <1>0, <1>2, <1>3, SameCount DEF Admission!Admit
<1> QED
    BY <1>4 DEF Admission!Next

(* The map is empty when nobody is inside. *)
LEMMA NobodyInside ==
    ASSUME IInv, DoorInv
    PROVE  Accepted = {} <=> \A c \in CallId : entries[c] = NoEntry
<1>1. /\ entries \in [CallId -> Entry \cup {NoEntry}]
      /\ \A e \in Entry : CallOf[e] \in CallId /\ e # NoEntry
    BY RequestAssumption DEF IInv, TypeOK
<1>2. ASSUME NEW c \in CallId, entries[c] # NoEntry
      PROVE  entries[c] \in Accepted
    BY <1>1, <1>2 DEF DoorInv, Accepted
<1>3. ASSUME NEW e \in Accepted
      PROVE  CallOf[e] \in CallId /\ entries[CallOf[e]] # NoEntry
    BY <1>1 DEF Accepted
<1> QED
    BY <1>2, <1>3

LEMMA NobodyAfter ==
    (IInv /\ DoorInv =>
        (Accepted = {} <=> \A c \in CallId : entries[c] = NoEntry))'
<1>1. IInv /\ DoorInv =>
        (Accepted = {} <=> \A c \in CallId : entries[c] = NoEntry)
    BY NobodyInside
<1> QED
    BY <1>1, PTL

(* Work that ends is a call that settles; the last one closes the door. *)
LEMMA EndSettles ==
    ASSUME IInv, DoorInv, IInv', DoorInv', NEW e \in Entry,
           NEW st \in {"completed", "failed"}, NEW outcome,
           End(e, st, outcome)
    PROVE  Admission!Next
<1> DEFINE ph == [d \in Entry |-> PhaseOf(state[d])]
           open == IF closeResolved THEN "closed"
                   ELSE IF closed THEN "closing" ELSE "open"
<1>0. /\ state \in [Entry -> EntryState]
      /\ state' = [state EXCEPT ![e] = st] /\ state[e] = "running"
      /\ closed' = closed
      /\ closeResolved' = (closeResolved \/
            (closed /\ \A c \in CallId : entries'[c] = NoEntry))
    BY DEF IInv, TypeOK, End, Finish
<1>1. PhaseOf(st) = "settled" /\ PhaseOf("running") = "executing"
    BY PhaseMeans DEF EntryState, Live, Waiting, Terminal
<1>2. ph' = [ph EXCEPT ![e] = "settled"] /\ ph[e] = "executing"
    BY <1>0, <1>1
<1>3. Admission!Inside(ph') = {} <=> \A c \in CallId : entries'[c] = NoEntry
    BY PlacesAfter, NobodyAfter
<1>4. closeResolved => closed
    BY DEF DoorInv
<1>5. open' = Admission!DoorAfter(open, ph')
    BY <1>0, <1>3, <1>4 DEF Admission!DoorAfter
<1>6. Admission!Settle(e)
    BY <1>2, <1>5 DEF Admission!Settle
<1> QED
    BY <1>6 DEF Admission!Next

(* close() withdraws what waits, and closes the door if nobody is left. *)
LEMMA CloseCloses ==
    ASSUME IInv, DoorInv, IInv', DoorInv', Close
    PROVE  Admission!Next
<1> DEFINE ph == [d \in Entry |-> PhaseOf(state[d])]
           open == IF closeResolved THEN "closed"
                   ELSE IF closed THEN "closing" ELSE "open"
<1>0. /\ state \in [Entry -> EntryState]
      /\ ~closed /\ closed' /\ ~closeResolved
      /\ closeResolved' = (\A c \in CallId : entries'[c] = NoEntry)
    BY DEF IInv, TypeOK, Close, DoorInv
<1>1. \A d \in Entry : state'[d] = IF state[d] \in Waiting THEN "cancelled"
                                    ELSE state[d]
    BY <1>0 DEF Close, IInv, MapHoldsLiveCalls, Accepted, Live, Waiting
<1>2. \A d \in Entry : PhaseOf(state'[d]) =
            IF PhaseOf(state[d]) = "admitted" THEN "settled"
            ELSE PhaseOf(state[d])
    <2>1. "cancelled" \in EntryState /\ "cancelled" \in Terminal
        BY DEF EntryState, Terminal
    <2>2. PhaseOf("cancelled") = "settled"
        BY <2>1, PhaseMeans
    <2> QED
        BY <1>0, <1>1, <2>2, PhaseMeans
<1>3. ph' = [d \in Entry |-> IF ph[d] = "admitted" THEN "settled" ELSE ph[d]]
    BY <1>2
<1>4. Admission!Inside(ph') = {} <=> \A c \in CallId : entries'[c] = NoEntry
    BY PlacesAfter, NobodyAfter
<1>5. open' = Admission!DoorAfter("closing", ph')
    BY <1>0, <1>4 DEF Admission!DoorAfter
<1>6. Admission!Close
    BY <1>0, <1>3, <1>5 DEF Admission!Close
<1> QED
    BY <1>6 DEF Admission!Next

(* Every step of the scheduler is one of CallAdmission or a stutter. *)
LEMMA StepRefines ==
    IInv /\ DoorInv /\ IInv' /\ DoorInv' /\ [Next]_vars
        => [Admission!Next]_(Admission!avars)
<1> SUFFICES ASSUME IInv, DoorInv, IInv', DoorInv', [Next]_vars
             PROVE  Admission!Next \/ UNCHANGED Admission!avars
    OBVIOUS
<1>0. state \in [Entry -> EntryState] /\ closeResolved \in BOOLEAN
    BY DEF IInv, TypeOK
<1>1. ASSUME NEW e \in Entry, Reserve(e)
      PROVE  Admission!Next
    BY <1>1, ReserveAdmits
<1>2. ASSUME NEW e \in Entry, Queue(e)
      PROVE  Admission!Next
    <2> DEFINE st == [state EXCEPT ![e] = "queued"]
    <2>1. \E tk : Drain(st, tk)
        BY <1>2 DEF Queue
    <2>2. UNCHANGED <<closed, closeResolved>> /\ state[e] = "reserved"
        BY <1>2 DEF Queue
    <2>3. \A d \in Entry :
            st[d] \in EntryState /\ PhaseOf(st[d]) = PhaseOf(state[d])
        BY <1>0, <2>2, PhaseMeans DEF EntryState, Live, Waiting
    <2> HIDE DEF st
    <2> QED
        BY <2>1, <2>2, <2>3, StartStep
<1>3. ASSUME NEW e \in Entry, state[e] \in Waiting,
             NEW how \in Terminal, Finish({e}, how),
             Drain([state EXCEPT ![e] = how], ticket), closed' = closed
      PROVE  Admission!Next
    <2> DEFINE st == [state EXCEPT ![e] = how]
    <2>1. closeResolved' = closeResolved
        BY <1>0, <1>3 DEF Finish, DoorInv
    <2>2. st[e] \in Terminal
        BY <1>0, <1>3
    <2>3. \A d \in Entry \ {e} :
            st[d] \in EntryState /\ PhaseOf(st[d]) = PhaseOf(state[d])
        BY <1>0
    <2>4. Drain(st, ticket)
        BY <1>3
    <2> HIDE DEF st
    <2> QED
        BY <1>3, <2>1, <2>2, <2>3, <2>4, WithdrawMoves
<1>4. ASSUME NEW e \in Entry, QueueSettled(e)
      PROVE  UNCHANGED Admission!avars
    BY <1>4 DEF QueueSettled, Admission!avars
<1>5. ASSUME NEW e \in Entry, Cancel(e)
      PROVE  Admission!Next
    BY <1>3, <1>5 DEF Cancel, Terminal
<1>6. ASSUME NEW e \in Entry, Timeout(e)
      PROVE  Admission!Next
    BY <1>3, <1>6 DEF Timeout, Terminal, Waiting
<1>7. ASSUME NEW e \in Entry, Complete(e) \/ Fail(e)
      PROVE  Admission!Next
    BY <1>7, EndSettles DEF Complete, Fail
<1>8. ASSUME NEW e \in Entry, Finally(e)
      PROVE  Admission!Next
    <2>1. Drain(state, ticket) /\ UNCHANGED <<closed, closeResolved>>
        BY <1>8 DEF Finally
    <2> QED
        BY <1>0, <2>1, StartStep
<1>9. CASE Close
    BY <1>9, CloseCloses
<1>10. CASE UNCHANGED vars
    BY <1>10 DEF vars, Admission!avars
<1> QED
    BY <1>1, <1>2, <1>4, <1>5, <1>6, <1>7, <1>8, <1>9, <1>10 DEF Next

(* The scheduler keeps its promise: within the instance limits a call is   *)
(* admitted once, then withdrawn before it begins or executed to its end,  *)
(* and close() reports that it is done when nobody is inside any more.     *)
THEOREM Refinement == Spec => ImplementsAdmission
<1>1. Init => Admission!Init
    <2>1. PhaseOf("new") = "outside"
        BY PhaseMeans DEF EntryState
    <2> QED
        BY <2>1 DEF Init, Admission!Init
<1>2. Spec => [](IInv /\ DoorInv)
    BY Invariant, InitDoor, StepDoor, PTL DEF Spec
<1> QED
    BY <1>1, <1>2, StepRefines, PTL
       DEF Spec, ImplementsAdmission, Admission!Spec
=============================================================================
