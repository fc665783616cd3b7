------------------------ MODULE ToolScheduler_drains ------------------------
(***************************************************************************)
(* What every drain of the scheduler guarantees: it leaves no call behind  *)
(* that could run, starts calls of one class in the order of the queue,    *)
(* and is what the loop of the source does.                                *)
(***************************************************************************)
EXTENDS ToolScheduler_proofs, DrainLoop

(* What cannot run does not become runnable when more runs. *)
LEMMA CanRunShrinks ==
    ASSUME NEW big \in SUBSET Entry, NEW small \in SUBSET big,
           NEW e \in Entry, CanRun(e, big)
    PROVE  CanRun(e, small)
<1>1. /\ IsFiniteSet(big)
      /\ SameTool(e, big) \subseteq big /\ SameCtx(e, big) \subseteq big
      /\ SameTool(e, small) \subseteq SameTool(e, big)
      /\ SameCtx(e, small) \subseteq SameCtx(e, big)
    BY RequestAssumption, FS_Subset DEF SameTool, SameCtx
<1>2. \A X, Y : IsFiniteSet(X) /\ Y \subseteq X =>
        /\ IsFiniteSet(Y)
        /\ Cardinality(X) \in Nat /\ Cardinality(Y) \in Nat
        /\ Cardinality(Y) <= Cardinality(X)
    BY FS_Subset, FS_CardinalityType
<1>3. IsFiniteSet(SameTool(e, big)) /\ IsFiniteSet(SameCtx(e, big))
    BY <1>1, <1>2
<1>4. /\ Cardinality(small) <= Cardinality(big)
      /\ Cardinality(SameTool(e, small)) <= Cardinality(SameTool(e, big))
      /\ Cardinality(SameCtx(e, small)) <= Cardinality(SameCtx(e, big))
      /\ \A X \in {big, small, SameTool(e, big), SameTool(e, small),
                   SameCtx(e, big), SameCtx(e, small)} : Cardinality(X) \in Nat
    BY <1>1, <1>2, <1>3
<1>5. UrgentAllowance(e) \in Nat /\ ToolMaxRunning[ToolOf[e]] \in Nat
    BY RequestAssumption, LimitAssumption DEF UrgentAllowance
<1> QED
    BY <1>4, <1>5, LimitAssumption DEF CanRun

(* After a drain no queued call can run. *)
LEMMA DrainConserves ==
    ASSUME NEW st \in [Entry -> EntryState], NEW tk, Drain(st, tk), ~closed
    PROVE  \A e \in Queued(state') : ~CanRun(e, Running(state'))
<1>1. PICK S \in SUBSET Queued(st) :
        /\ IsDrained(S, Queued(st), Running(st), tk)
        /\ state' = [e \in Entry |-> IF e \in S THEN "running" ELSE st[e]]
    BY DEF Drain
<1>2. Running(state') = Running(st) \cup S /\ Queued(state') = Queued(st) \ S
    BY <1>1 DEF Running, Queued
<1> SUFFICES ASSUME NEW e \in Queued(st) \ S, CanRun(e, Running(st) \cup S)
             PROVE  FALSE
    BY <1>2
<1>3. Running(st) \cup S \in SUBSET Entry /\ e \in Entry
    BY <1>1 DEF Running, Queued
<1>4. CanRun(e, Running(st) \cup {d \in S : Ahead(tk, d, e)})
    <2> DEFINE small == Running(st) \cup {d \in S : Ahead(tk, d, e)}
    <2>1. small \in SUBSET (Running(st) \cup S)
        OBVIOUS
    <2> HIDE DEF small
    <2>2. CanRun(e, small)
        BY <1>3, <2>1, CanRunShrinks
    <2> QED
        BY <2>2 DEF small
<1> QED
    BY <1>1, <1>4 DEF IsDrained

(* A drain does not pass over an earlier call of the same class. *)
LEMMA DrainInOrder ==
    ASSUME NEW st \in [Entry -> EntryState], NEW tk \in [Entry -> Nat],
           Drain(st, tk), NEW d \in Queued(st), NEW e \in Queued(st),
           ToolOf[d] = ToolOf[e], CtxOf[d] = CtxOf[e], tk[d] < tk[e],
           state'[e] = "running"
    PROVE  state'[d] # "queued"
<1>1. PICK S \in SUBSET Queued(st) :
        /\ IF closed THEN S = {}
           ELSE IsDrained(S, Queued(st), Running(st), tk)
        /\ state' = [x \in Entry |-> IF x \in S THEN "running" ELSE st[x]]
    BY DEF Drain
<1>2. d \in Entry /\ e \in Entry /\ st[e] = "queued" /\ st[d] = "queued"
    BY DEF Queued
<1>3. e \in S
    BY <1>1, <1>2
<1> SUFFICES ASSUME d \notin S PROVE FALSE
    BY <1>1, <1>2
<1> DEFINE before(x) == Running(st) \cup {y \in S : Ahead(tk, y, x)}
<1>4. CanRun(e, before(e)) /\ ~CanRun(d, before(d))
    BY <1>1, <1>3 DEF IsDrained
<1>5. Urgent(d) = Urgent(e)
    BY DEF Urgent
<1>6. before(d) \in SUBSET before(e)
    <2>1. \A y \in S : Ahead(tk, y, d) => Ahead(tk, y, e)
        <3> SUFFICES ASSUME NEW y \in S, Ahead(tk, y, d)
                     PROVE  Ahead(tk, y, e)
            OBVIOUS
        <3>1. y \in Entry /\ tk[y] \in Nat /\ tk[d] \in Nat /\ tk[e] \in Nat
            BY <1>1, <1>2 DEF Queued
        <3> QED
            BY <1>5, <3>1 DEF Ahead
    <2> QED
        BY <2>1
<1>7. before(e) \in SUBSET Entry
    BY <1>1 DEF Running, Queued
<1>8. CanRun(d, before(e))
    <2>1. /\ SameTool(d, before(e)) = SameTool(e, before(e))
          /\ SameCtx(d, before(e)) = SameCtx(e, before(e))
        BY DEF SameTool, SameCtx
    <2>2. UrgentAllowance(d) = UrgentAllowance(e)
        BY <1>5 DEF UrgentAllowance
    <2> QED
        BY <1>4, <2>1, <2>2 DEF CanRun
<1> HIDE DEF before
<1>9. CanRun(d, before(d))
    BY <1>2, <1>6, <1>7, <1>8, CanRunShrinks
<1> QED
    BY <1>4, <1>9
(* A drain starts urgent calls before routine ones. *)
LEMMA DrainUrgentFirst ==
    ASSUME NEW st \in [Entry -> EntryState], NEW tk, Drain(st, tk),
           Running(st) = Running(state)
    PROVE  StartsUrgentFirst
<1>1. PICK S \in SUBSET Queued(st) :
        /\ IF closed THEN S = {}
           ELSE IsDrained(S, Queued(st), Running(st), tk)
        /\ state' = [x \in Entry |-> IF x \in S THEN "running" ELSE st[x]]
    BY DEF Drain
<1> DEFINE urgent == {e \in S : Urgent(e)}
           routine == {e \in S : ~Urgent(e)}
           others == Running(st) \cup urgent
<1>2. /\ Running(state') \ Running(state) = S
      /\ Running(state') \ routine = others
      /\ Queued(state') = Queued(st) \ S
    BY <1>1 DEF Running, Queued
<1>3. ASSUME NEW e \in routine
      PROVE  CanRun(e, others)
    <2> DEFINE before == Running(st) \cup {d \in S : Ahead(tk, d, e)}
    <2>1. CanRun(e, before) /\ e \in Entry
        BY <1>1 DEF IsDrained, Queued
    <2>2. before \in SUBSET Entry
        BY <1>1 DEF Running, Queued
    <2>3. others \in SUBSET before
        BY DEF Ahead
    <2> HIDE DEF before, others
    <2> QED
        BY <2>1, <2>2, <2>3, CanRunShrinks
<1>4. ASSUME S # {}, NEW d \in Queued(st) \ S, Urgent(d), CanRun(d, others)
      PROVE  FALSE
    <2> DEFINE before == Running(st) \cup {x \in S : Ahead(tk, x, d)}
    <2>1. others \in SUBSET Entry /\ d \in Entry
        BY <1>1 DEF Running, Queued
    <2>2. before \in SUBSET others
        BY <1>4 DEF Ahead
    <2>3. CanRun(d, before)
        <3> HIDE DEF before, others
        <3> QED
            BY <1>4, <2>1, <2>2, CanRunShrinks
    <2> QED
        BY <1>1, <1>4, <2>3 DEF IsDrained
<1> QED
    BY <1>2, <1>3, <1>4 DEF StartsUrgentFirst
-----------------------------------------------------------------------------
(* The properties.                                                         *)

(* The states a drain starts from have their types. *)
LEMMA StatesTyped ==
    ASSUME IInv
    PROVE  /\ state \in [Entry -> EntryState]
           /\ \A e \in Entry, s \in EntryState :
                [state EXCEPT ![e] = s] \in [Entry -> EntryState]
           /\ {"queued", "cancelled", "queueTimeout"} \subseteq EntryState
<1> QED
    BY DEF IInv, TypeOK, EntryState, Live, Waiting, Terminal

(* Every step leaves no runnable call behind. *)
LEMMA StepConserves == IInv /\ WorkConserving /\ [Next]_vars => WorkConserving'
<1> SUFFICES ASSUME IInv, WorkConserving, [Next]_vars,
                    ~closed', finishing' = {}
             PROVE  \A e \in Queued(state') : ~CanRun(e, Running(state'))
    BY DEF WorkConserving
<1>1. ASSUME NEW e \in Entry, Reserve(e)
      PROVE  \A d \in Queued(state') : ~CanRun(d, Running(state'))
    <2>1. UNCHANGED <<closed, finishing>>
        BY <1>1 DEF Reserve
    <2>2. Queued(state') = Queued(state) /\ Running(state') = Running(state)
        BY <1>1, StatesTyped DEF Reserve, Queued, Running
    <2> QED
        BY <2>1, <2>2 DEF WorkConserving
<1>2. ASSUME NEW st \in [Entry -> EntryState], NEW tk, Drain(st, tk),
             closed' = closed
      PROVE  \A d \in Queued(state') : ~CanRun(d, Running(state'))
    BY <1>2, DrainConserves
<1>3. ASSUME NEW e \in Entry, Queue(e)
      PROVE  \A d \in Queued(state') : ~CanRun(d, Running(state'))
    <2>1. \E tk : Drain([state EXCEPT ![e] = "queued"], tk) /\ closed' = closed
        BY <1>3 DEF Queue
    <2> QED
        BY <1>2, <2>1, StatesTyped
<1>4. ASSUME NEW e \in Entry, Cancel(e)
      PROVE  \A d \in Queued(state') : ~CanRun(d, Running(state'))
    BY <1>2, <1>4, StatesTyped DEF Cancel
<1>5. ASSUME NEW e \in Entry, Timeout(e)
      PROVE  \A d \in Queued(state') : ~CanRun(d, Running(state'))
    BY <1>2, <1>5, StatesTyped DEF Timeout
<1>6. ASSUME NEW e \in Entry, Finally(e)
      PROVE  \A d \in Queued(state') : ~CanRun(d, Running(state'))
    <2>1. Drain(state, ticket) /\ closed' = closed
        BY <1>6 DEF Finally
    <2> QED
        BY <1>2, <2>1, StatesTyped
<1>7. ASSUME NEW e \in Entry, Complete(e) \/ Fail(e)
      PROVE  FALSE
    BY <1>7 DEF Complete, Fail, End
<1>8. CASE Close
    BY <1>8 DEF Close
<1>9. CASE UNCHANGED <<state, closed, finishing>>
    BY <1>9 DEF WorkConserving
<1> QED
    BY <1>1, <1>3, <1>4, <1>5, <1>6, <1>7, <1>8, <1>9
       DEF Next, QueueSettled, vars

(* No capacity is lost: once the drains of ended work have run, a call     *)
(* that could run does not wait.                                           *)
THEOREM NothingRunnableWaits == Spec => []WorkConserving
<1>1. Init => WorkConserving
    BY DEF Init, WorkConserving, Queued
<1> QED
    BY <1>1, StepConserves, Invariant, PTL DEF Spec

(* Every step starts the calls of one class in the order of the queue. *)
LEMMA StepInOrder ==
    ASSUME IInv, Next,
           NEW d \in Queued(state), NEW e \in Queued(state),
           ToolOf[d] = ToolOf[e], CtxOf[d] = CtxOf[e], ticket[d] < ticket[e],
           state'[e] = "running"
    PROVE  state'[d] # "queued"
<1>0. /\ d \in Entry /\ e \in Entry
      /\ state[d] = "queued" /\ state[e] = "queued"
      /\ ticket \in [Entry -> Nat] /\ pushed \in Nat
      /\ state \in [Entry -> EntryState]
    BY DEF Queued, IInv, TypeOK
<1>1. ASSUME NEW x \in Entry, Queue(x)
      PROVE  state'[d] # "queued"
    <2> DEFINE st == [state EXCEPT ![x] = "queued"]
               tk == [ticket EXCEPT ![x] = pushed']
    <2>1. state[x] = "reserved" /\ Drain(st, tk) /\ pushed' \in Nat
        BY <1>0, <1>1 DEF Queue
    <2>2. /\ st \in [Entry -> EntryState] /\ tk \in [Entry -> Nat]
          /\ d \in Queued(st) /\ e \in Queued(st) /\ tk[d] < tk[e]
        BY <1>0, <2>1, StatesTyped DEF Queued
    <2> HIDE DEF st, tk
    <2> QED
        BY <2>1, <2>2, DrainInOrder
<1>2. ASSUME NEW x \in Entry, NEW how \in {"cancelled", "queueTimeout"},
             Drain([state EXCEPT ![x] = how], ticket)
      PROVE  state'[d] # "queued"
    <2> DEFINE st == [state EXCEPT ![x] = how]
    <2>1. st \in [Entry -> EntryState] /\ Drain(st, ticket)
        BY <1>2, StatesTyped
    <2>2. \A y \in Entry : st[y] = IF y = x THEN how ELSE state[y]
        BY <1>0
    <2> HIDE DEF st
    <2>3. e # x
        BY <1>0, <1>2, <2>1, <2>2 DEF Drain, Queued
    <2>4. CASE d = x
        BY <1>0, <1>2, <2>1, <2>2, <2>4 DEF Drain, Queued
    <2>5. CASE d # x
        <3>1. d \in Queued(st) /\ e \in Queued(st)
            BY <1>0, <2>2, <2>3, <2>5 DEF Queued
        <3> QED
            BY <1>0, <2>1, <3>1, DrainInOrder
    <2> QED
        BY <2>4, <2>5
<1>3. ASSUME NEW x \in Entry, Cancel(x) \/ Timeout(x)
      PROVE  state'[d] # "queued"
    BY <1>2, <1>3 DEF Cancel, Timeout
<1>4. ASSUME NEW x \in Entry, Finally(x)
      PROVE  state'[d] # "queued"
    <2>1. Drain(state, ticket)
        BY <1>4 DEF Finally
    <2> QED
        BY <1>0, <2>1, DrainInOrder
<1>5. ASSUME NEW x \in Entry,
             Reserve(x) \/ QueueSettled(x) \/ Complete(x) \/ Fail(x)
      PROVE  FALSE
    <2>1. \A y \in Entry : state[y] = "queued" => state'[y] # "running"
        BY <1>0, <1>5 DEF Reserve, QueueSettled, Complete, Fail, End
    <2> QED
        BY <1>0, <2>1
<1>6. CASE Close
    <2>1. \A y \in Entry : state[y] = "queued" => state'[y] # "running"
        BY <1>0, <1>6 DEF Close
    <2> QED
        BY <1>0, <2>1
<1> QED
    BY <1>1, <1>3, <1>4, <1>5, <1>6 DEF Next

(* Calls of the same tool and context start in the order they were queued, *)
(* whatever drains, cancellations and timeouts come between.               *)
THEOREM StartInOrder == Spec => FifoWithinClass
<1>1. IInv /\ [Next]_vars =>
        [\A d, e \in Queued(state) :
            /\ ToolOf[d] = ToolOf[e] /\ CtxOf[d] = CtxOf[e]
            /\ ticket[d] < ticket[e]
            /\ state'[e] = "running"
            => state'[d] # "queued"]_vars
    BY StepInOrder
<1> QED
    BY <1>1, Invariant, PTL DEF Spec, FifoWithinClass

(* Every step that starts calls starts urgent ones first. *)
LEMMA StepUrgentFirst == IInv /\ [Next]_vars => StartsUrgentFirst
<1> SUFFICES ASSUME IInv, [Next]_vars
             PROVE  StartsUrgentFirst
    OBVIOUS
<1>1. ASSUME Running(state') \subseteq Running(state)
      PROVE  StartsUrgentFirst
    BY <1>1 DEF StartsUrgentFirst
<1>2. ASSUME NEW e \in Entry,
             NEW how \in {"queued", "cancelled", "queueTimeout"},
             state[e] # "running", NEW tk,
             Drain([state EXCEPT ![e] = how], tk)
      PROVE  StartsUrgentFirst
    <2> DEFINE st == [state EXCEPT ![e] = how]
    <2>1. st \in [Entry -> EntryState] /\ Running(st) = Running(state)
        BY <1>2, StatesTyped DEF Running
    <2> HIDE DEF st
    <2> QED
        BY <1>2, <2>1, DrainUrgentFirst DEF st
<1>3. ASSUME NEW e \in Entry, Queue(e)
      PROVE  StartsUrgentFirst
    <2>1. \E tk : Drain([state EXCEPT ![e] = "queued"], tk)
                    /\ state[e] # "running"
        BY <1>3 DEF Queue
    <2> QED
        BY <1>2, <2>1
<1>4. ASSUME NEW e \in Entry, Cancel(e) \/ Timeout(e)
      PROVE  StartsUrgentFirst
    BY <1>2, <1>4 DEF Cancel, Timeout, Waiting
<1>5. ASSUME NEW e \in Entry, Finally(e)
      PROVE  StartsUrgentFirst
    BY <1>5, StatesTyped, DrainUrgentFirst DEF Finally
<1>6. ASSUME NEW e \in Entry,
             Reserve(e) \/ QueueSettled(e) \/ Complete(e) \/ Fail(e)
      PROVE  StartsUrgentFirst
    <2>1. Running(state') \subseteq Running(state)
        BY <1>6, StatesTyped
           DEF Reserve, QueueSettled, Complete, Fail, End, Running
    <2> QED
        BY <1>1, <2>1
<1>7. CASE Close \/ UNCHANGED vars
    <2>1. Running(state') \subseteq Running(state)
        BY <1>7, StatesTyped DEF Close, Running, vars
    <2> QED
        BY <1>1, <2>1
<1> QED
    BY <1>3, <1>4, <1>5, <1>6, <1>7 DEF Next

(* A routine call never starts in the place of an urgent one, in whatever  *)
(* order they came.                                                        *)
THEOREM UrgentStartsFirst == Spec => UrgentFirst
<1> QED
    BY StepUrgentFirst, Invariant, PTL DEF Spec, UrgentFirst
-----------------------------------------------------------------------------
(* The loop of #drain starts what IsDrained says.                          *)

(* What findIndex finds: the entry of a set that was pushed first. *)
LEMMA FirstIsFirst ==
    ASSUME NEW X \in SUBSET Entry, X # {}, NEW tk \in [Entry -> Nat]
    PROVE  /\ FirstPushed(X, tk) \in X
           /\ \A d \in X : tk[FirstPushed(X, tk)] <= tk[d]
<1> DEFINE T == {tk[x] : x \in X}
<1>1. T \subseteq Nat /\ T # {}
    OBVIOUS
<1>2. PICK m \in T : \A k \in T : ~ (<<k, m>> \in OpToRel(<, Nat))
    BY <1>1, NatLessThanWellFounded, WFMin
<1>3. \A k \in T : m <= k
    <2>1. \A k \in T : ~ (k < m)
        BY <1>1, <1>2 DEF OpToRel
    <2>2. m \in Nat /\ \A k \in T : k \in Nat
        BY <1>1
    <2> HIDE DEF T
    <2> QED
        BY <2>1, <2>2
<1>4. PICK e \in X : m = tk[e]
    BY <1>2
<1>5. \A d \in X : tk[e] <= tk[d]
    BY <1>3, <1>4
<1> QED
    BY <1>5 DEF FirstPushed

(* Entries that wait have different places in the queue, and the first of  *)
(* a set, urgent ones first, is ahead of the rest.                         *)
LEMMA FirstInOrder ==
    ASSUME NEW tk \in [Entry -> Nat], NEW X \in SUBSET Entry, X # {},
           \A d, e \in X : tk[d] = tk[e] => d = e
    PROVE  /\ NextOf(X, tk) \in X
           /\ \A d \in X \ {NextOf(X, tk)} : Ahead(tk, NextOf(X, tk), d)
<1> DEFINE urgent == {e \in X : Urgent(e)}
           first == NextOf(X, tk)
<1>0. \A d \in X : tk[d] \in Nat
    OBVIOUS
<1>1. CASE urgent # {}
    <2>1. first \in urgent /\ \A d \in urgent : tk[first] <= tk[d]
        BY <1>1, FirstIsFirst DEF NextOf
    <2> HIDE DEF first
    <2>2. \A d \in urgent \ {first} : tk[first] < tk[d]
        BY <1>0, <2>1
    <2>3. \A d \in X \ {first} : Ahead(tk, first, d)
        BY <2>1, <2>2 DEF Ahead, Urgent
    <2> QED
        BY <2>1, <2>3 DEF first
<1>2. CASE urgent = {}
    <2>1. first \in X /\ \A d \in X : tk[first] <= tk[d]
        BY <1>2, FirstIsFirst DEF NextOf
    <2> HIDE DEF first
    <2>2. \A d \in X \ {first} : tk[first] < tk[d]
        BY <1>0, <2>1
    <2>3. \A d \in X : ~Urgent(d)
        BY <1>2
    <2>4. \A d \in X \ {first} : Ahead(tk, first, d)
        BY <2>1, <2>2, <2>3 DEF Ahead, Urgent
    <2> QED
        BY <2>1, <2>4 DEF first
<1> QED
    BY <1>1, <1>2

(* No two entries are ahead of each other. *)
LEMMA AheadIsStrict ==
    ASSUME NEW tk \in [Entry -> Nat], NEW d \in Entry, NEW e \in Entry,
           Ahead(tk, d, e)
    PROVE  d # e /\ ~Ahead(tk, e, d)
<1>1. tk[d] \in Nat /\ tk[e] \in Nat
    OBVIOUS
<1> QED
    BY <1>1 DEF Ahead, Urgent

(* In no situation do two sets satisfy IsDrained. *)
LEMMA OneDrain ==
    ASSUME NEW Q \in SUBSET Entry, NEW R, NEW tk \in [Entry -> Nat],
           \A d, e \in Q : tk[d] = tk[e] => d = e,
           NEW S \in SUBSET Q, NEW T \in SUBSET Q,
           IsDrained(S, Q, R, tk), IsDrained(T, Q, R, tk)
    PROVE  S = T
<1> DEFINE X == (S \ T) \cup (T \ S)
           ahead(e, Y) == {d \in Y : Ahead(tk, d, e)}
<1> SUFFICES ASSUME X # {} PROVE FALSE
    OBVIOUS
<1>1. X \in SUBSET Entry /\ \A d, e \in X : tk[d] = tk[e] => d = e
    OBVIOUS
<1> HIDE DEF X
<1>2. PICK e \in X : \A d \in X \ {e} : Ahead(tk, e, d)
    BY <1>1, FirstInOrder
<1>3. e \in Q
    BY <1>2 DEF X
<1>4. \A d \in X : ~Ahead(tk, d, e)
    BY <1>1, <1>2, AheadIsStrict
<1>5. ahead(e, S) = ahead(e, T)
    BY <1>4 DEF X
<1>6. e \in S <=> e \in T
    BY <1>3, <1>5 DEF IsDrained
<1> QED
    BY <1>2, <1>6 DEF X

(* The parts of LoopInv have their types. *)
LEMMA LoopTyped ==
    ASSUME LoopInv
    PROVE  /\ Queued(state) \subseteq Entry /\ left \subseteq Entry
           /\ Running(state) \subseteq Entry /\ Started \subseteq Entry
           /\ going \subseteq Entry /\ ticket \in [Entry -> Nat]
           /\ \A e : Beside(e) \subseteq going
           /\ \A d, e \in left : ticket[d] = ticket[e] => d = e
           /\ Runnable(left, going) \subseteq left
<1> QED
    BY DEF LoopInv, Situation, QueueOrder, Queued, Running, Started, Beside,
           Runnable

(* One iteration starts the first entry that can run. *)
LEMMA IterateStep == LoopInv /\ Iterate => LoopInv'
<1> SUFFICES ASSUME LoopInv, Iterate PROVE LoopInv'
    OBVIOUS
<1> DEFINE runnable == Runnable(left, going)
<1>1. UNCHANGED <<state, ticket, pushed>>
    BY DEF Iterate, vars
<1>2. PICK next \in runnable :
        /\ next = NextToStart(left, going, ticket)
        /\ \A d \in runnable \ {next} : Ahead(ticket, next, d)
    <2>1. runnable # {} /\ runnable \in SUBSET Entry
        BY LoopTyped DEF Iterate
    <2>2. \A d, e \in runnable : ticket[d] = ticket[e] => d = e
        BY LoopTyped
    <2> QED
        BY <2>1, <2>2, LoopTyped, FirstInOrder DEF NextToStart
<1>3. left' = left \ {next} /\ going' = going \cup {next}
    BY <1>2 DEF Iterate
<1>4. /\ next \in left /\ next \in Entry /\ next \in Queued(state)
      /\ CanRun(next, going)
    BY <1>2, LoopTyped DEF Runnable, LoopInv
<1>5. Started' = Started \cup {next} /\ next \notin Started
    BY <1>1, <1>3, <1>4 DEF Started
<1>6. Situation' /\ left' \subseteq Queued(state)'
      /\ Queued(state)' = Queued(state) /\ Running(state)' = Running(state)
    BY <1>1, <1>3 DEF LoopInv, Situation
<1>7. going' = Running(state)' \cup Started'
    BY <1>3, <1>5, <1>6 DEF LoopInv
<1>8. going' \subseteq Entry /\ going \subseteq going'
    BY <1>3, <1>4, LoopTyped
<1>9. Runnable(left', going') \subseteq runnable \ {next}
    <2> SUFFICES ASSUME NEW e \in left', CanRun(e, going')
                 PROVE  e \in runnable \ {next}
        BY DEF Runnable
    <2>1. e \in left /\ e # next /\ e \in Entry
        BY <1>3, LoopTyped
    <2>2. CanRun(e, going)
        BY <1>8, <2>1, CanRunShrinks
    <2> QED
        BY <2>1, <2>2 DEF Runnable
<1>10. \A e \in runnable \ {next}, d \in Started' : Ahead(ticket, d, e)
    BY <1>2, <1>5 DEF LoopInv
<1>11. \A d \in Started : Ahead(ticket, d, next) /\ ~Ahead(ticket, next, d)
    BY <1>2, <1>4, LoopTyped, AheadIsStrict DEF LoopInv
<1>12. /\ \A e \in Started : Beside(e)' = Beside(e)
       /\ Beside(next)' = going
    <2>0. \A e : Beside(e)
                    = Running(state) \cup {d \in Started : Ahead(ticket, d, e)}
        BY DEF Beside
    <2>1. \A e : Beside(e)'
                    = Running(state) \cup {d \in Started' : Ahead(ticket, d, e)}
        BY <1>1, <1>6 DEF Beside
    <2>2. ~Ahead(ticket, next, next)
        BY <1>4, LoopTyped, AheadIsStrict
    <2>3. \A e \in Started :
            {d \in Started' : Ahead(ticket, d, e)}
                = {d \in Started : Ahead(ticket, d, e)}
        BY <1>5, <1>11
    <2>4. {d \in Started' : Ahead(ticket, d, next)} = Started
        BY <1>5, <1>11, <2>2
    <2> QED
        BY <2>0, <2>1, <2>3, <2>4 DEF LoopInv
<1>13. \A e \in Started' : CanRun(e, Beside(e)')
    <2> SUFFICES ASSUME NEW e \in Started' PROVE CanRun(e, Beside(e)')
        OBVIOUS
    <2>1. CASE e = next
        BY <1>4, <1>12, <2>1
    <2>2. CASE e \in Started
        BY <1>12, <2>2 DEF LoopInv
    <2> QED
        BY <1>5, <2>1, <2>2
<1>14. ASSUME NEW e \in left' \ Runnable(left', going')
       PROVE  ~CanRun(e, Beside(e)')
    <2>1. /\ e \in left /\ e # next /\ e \in Entry
          /\ ~CanRun(e, going')
        BY <1>3, LoopTyped DEF Runnable
    <2>2. Beside(e)' = Running(state) \cup {d \in Started' : Ahead(ticket, d, e)}
        BY <1>1, <1>6 DEF Beside
    <2>3. CASE e \in runnable
        <3>1. Beside(e)' = going'
            BY <1>6, <1>7, <1>10, <2>1, <2>2, <2>3
        <3> QED
            BY <2>1, <3>1
    <2>4. CASE e \notin runnable
        <3>1. ~CanRun(e, Beside(e))
            BY <2>1, <2>4 DEF LoopInv
        <3>2. Beside(e) \subseteq Beside(e)' /\ Beside(e)' \subseteq Entry
            BY <1>4, <1>5, <2>2, LoopTyped DEF Beside
        <3> QED
            BY <2>1, <3>1, <3>2, CanRunShrinks
    <2> QED
        BY <2>3, <2>4
<1> QED
    BY <1>1, <1>6, <1>7, <1>9, <1>10, <1>13, <1>14 DEF LoopInv

(* LoopInv is an invariant of the loop. *)
LEMMA LoopInvariant == LoopSpec => []LoopInv
<1>1. LoopInit => LoopInv
    <2> SUFFICES ASSUME LoopInit PROVE LoopInv
        OBVIOUS
    <2>1. Started = {} /\ left = Queued(state) /\ going = Running(state)
        BY DEF LoopInit, Started
    <2>2. \A e : Beside(e) = going
        BY <2>1 DEF Beside
    <2> QED
        BY <2>1, <2>2 DEF LoopInit, LoopInv, Runnable
<1>2. LoopInv /\ UNCHANGED loopVars => LoopInv'
    <2> SUFFICES ASSUME LoopInv, UNCHANGED loopVars PROVE LoopInv'
        OBVIOUS
    <2>1. UNCHANGED <<state, ticket, pushed, left, going>>
        BY DEF loopVars, vars
    <2>2. Started' = Started /\ \A e : Beside(e)' = Beside(e)
        BY <2>1 DEF Started, Beside
    <2> QED
        BY <2>1, <2>2 DEF LoopInv, Situation
<1> QED
    BY <1>1, <1>2, IterateStep, PTL DEF LoopSpec

(* The loop of #drain starts the one set of entries by which ToolScheduler *)
(* describes a drain, in any situation its callers may leave.              *)
THEOREM LoopIsDrain == LoopSpec => []LoopDrains
<1>1. LoopInv => LoopDrains
    <2> SUFFICES ASSUME LoopInv, Runnable(left, going) = {},
                        NEW S \in SUBSET Queued(state)
                 PROVE  IsDrained(S, Queued(state), Running(state), ticket)
                            <=> S = Started
        BY DEF LoopDrains
    <2>1. \A e \in Queued(state) : e \in Started <=> CanRun(e, Beside(e))
        BY DEF LoopInv, Started
    <2>2. IsDrained(Started, Queued(state), Running(state), ticket)
        BY <2>1 DEF IsDrained, Beside
    <2>3. Started \in SUBSET Queued(state)
        BY DEF Started
    <2>4. \A d, e \in Queued(state) : ticket[d] = ticket[e] => d = e
        BY DEF LoopInv, Situation, QueueOrder
    <2> QED
        BY <2>2, <2>3, <2>4, LoopTyped, OneDrain
<1> QED
    BY <1>1, LoopInvariant, PTL

(* The loop of #drain ends: each iteration leaves fewer entries to start. *)
THEOREM LoopEnds == LoopSpec => LoopAdvances
<1>1. LoopInv /\ [Iterate]_loopVars =>
        [Cardinality(left') \in Nat /\ Cardinality(left') < Cardinality(left)]_loopVars
    <2> SUFFICES ASSUME LoopInv, Iterate
                 PROVE  /\ Cardinality(left') \in Nat
                        /\ Cardinality(left') < Cardinality(left)
        OBVIOUS
    <2>1. PICK e \in left : left' = left \ {e}
        <3>1. Runnable(left, going) # {} /\ Runnable(left, going) \in SUBSET Entry
            BY LoopTyped DEF Iterate
        <3>2. \A d, e \in Runnable(left, going) : ticket[d] = ticket[e] => d = e
            BY LoopTyped
        <3>3. NextToStart(left, going, ticket) \in Runnable(left, going)
            BY <3>1, <3>2, LoopTyped, FirstInOrder DEF NextToStart
        <3> QED
            BY <3>3, LoopTyped DEF Iterate
    <2>2. IsFiniteSet(left)
        BY LoopTyped, RequestAssumption, FS_Subset
    <2> QED
        BY <2>1, <2>2, FS_RemoveElement, FS_CardinalityType, FS_Subset
<1> QED
    BY <1>1, LoopInvariant, PTL DEF LoopSpec, LoopAdvances
=============================================================================
